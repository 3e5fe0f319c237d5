---------------------------- MODULE ReportProofs ----------------------------
(***************************************************************************)
(* Proofs about what the report makes of a transaction that ran, for every *)
(* transaction: the events that EventDecoder attributes, whatever its      *)
(* programs call and log, and what the rules of Patterns say of it,        *)
(* whatever its instructions do to the tokens.                             *)
(***************************************************************************)
EXTENDS EventDecoder, Patterns, RuntimeLogProofs, FiniteSetTheorems

-----------------------------------------------------------------------------
(* The decoder's searches find what they look for *)

LEMMA RPositionProperties ==
  ASSUME NEW S, NEW s \in Seq(S), NEW id, \E i \in 1..Len(s) : s[i] = id
  PROVE  /\ RPosition(s, id) \in 1..Len(s)
         /\ \A j \in 1..Len(s) : s[j] = id => j <= RPosition(s, id)
<1> DEFINE T == {i \in 1..Len(s) : s[i] = id}
<1>1. Len(s) \in Nat
  BY LenProperties
<1>2. T \in SUBSET (1..Len(s)) /\ T # {}
  OBVIOUS
<1>3. PICK n \in T : \A m \in T : m <= n
  <2> HIDE DEF T
  <2> QED BY <1>1, <1>2, Largest
<1>4. n \in 1..Len(s) /\ s[n] = id /\ \A j \in (n + 1)..Len(s) : s[j] # id
  BY <1>1, <1>3
<1>5. /\ RPosition(s, id) \in 1..Len(s)
      /\ \A j \in (RPosition(s, id) + 1)..Len(s) : s[j] # id
  BY <1>4 DEF RPosition
<1> HIDE DEF T
<1> QED BY <1>1, <1>5

LEMMA CutToType ==
  ASSUME NEW S, NEW s \in Seq(S), NEW id
  PROVE  CutTo(s, id) \in Seq(S)
<1>1. CASE \E i \in 1..Len(s) : s[i] = id
  <2>1. RPosition(s, id) \in 1..Len(s)
    BY <1>1, RPositionProperties
  <2>2. \A i \in 1..(RPosition(s, id) - 1) : s[i] \in S
    BY <2>1, ElementOfSeq, LenProperties
  <2>3. SubSeq(s, 1, RPosition(s, id) - 1) \in Seq(S)
    BY <2>1, <2>2, SubSeqProperties, LenProperties
  <2> QED BY <1>1, <2>3 DEF CutTo
<1>2. CASE ~ \E i \in 1..Len(s) : s[i] = id
  BY <1>2, FrontProperties DEF CutTo
<1> QED BY <1>1, <1>2

\* Cutting a stack to the id on top of it pops it.
LEMMA CutToTop ==
  ASSUME NEW S, NEW s \in Seq(S), s # <<>>
  PROVE  CutTo(s, Last(s)) = Front(s)
<1>1. Len(s) \in Nat /\ Len(s) >= 1 /\ Last(s) = s[Len(s)]
  BY LastProperties
<1>2. \E i \in 1..Len(s) : s[i] = Last(s)
  BY <1>1
<1>3. /\ RPosition(s, Last(s)) \in 1..Len(s)
      /\ Len(s) <= RPosition(s, Last(s))
  BY <1>1, <1>2, RPositionProperties
<1>4. RPosition(s, Last(s)) = Len(s)
  BY <1>1, <1>3
<1> QED BY <1>2, <1>4 DEF CutTo, Front

LEMMA EventNameType ==
  ASSUME NEW matches, Decodable(matches)
  PROVE  EventName(matches) \in Range(IdlEvents)
<1> DEFINE T == {i \in 1..Len(IdlEvents) : IdlEvents[i] \in matches}
<1>1. Len(IdlEvents) \in Nat /\ DOMAIN IdlEvents = 1..Len(IdlEvents)
  BY IdlAssumption, LenProperties
<1>2. T \in SUBSET Nat /\ T # {}
  BY <1>1 DEF Decodable
<1>3. PICK n \in T : \A m \in T : n <= m
  <2> HIDE DEF T
  <2> QED BY <1>2, Smallest
<1> DEFINE First(i) == /\ IdlEvents[i] \in matches
                       /\ \A j \in 1..(i - 1) : IdlEvents[j] \notin matches
<1>4. n \in 1..Len(IdlEvents) /\ First(n)
  BY <1>1, <1>3
<1>5. (CHOOSE i \in 1..Len(IdlEvents) : First(i)) \in 1..Len(IdlEvents)
  BY <1>4
<1> QED BY <1>1, <1>5 DEF EventName, Range

-----------------------------------------------------------------------------
(* What the history of imitations remembers *)

LEMMA ImitatedGrows ==
  ASSUME imitated \in Seq(UserTexts \ {"plain"}), line' \in Line, Next
  PROVE  /\ imitated' \in Seq(UserTexts \ {"plain"})
         /\ imitated' = <<>> => imitated = <<>> /\ ~Imitates(line')
         /\ Range(imitated) \subseteq Range(imitated')
         /\ Imitates(line') => line'.shape \in Range(imitated')
<1>1. CASE Imitates(line')
  <2>1. line'.shape \in UserTexts \ {"plain"}
    BY <1>1, LineFields DEF Imitates
  <2>2. imitated' = Append(imitated, line'.shape)
    BY <1>1 DEF Next, ReadLine
  <2>3. /\ imitated' \in Seq(UserTexts \ {"plain"})
        /\ Len(imitated') = Len(imitated) + 1
        /\ \A i \in 1..Len(imitated) : imitated'[i] = imitated[i]
        /\ imitated'[Len(imitated) + 1] = line'.shape
    BY <2>1, <2>2, AppendProperties
  <2>4. /\ Len(imitated) \in Nat
        /\ DOMAIN imitated = 1..Len(imitated) /\ DOMAIN imitated' = 1..Len(imitated')
    BY <2>3, LenProperties
  <2>5. Range(imitated) \subseteq Range(imitated') /\ line'.shape \in Range(imitated')
    BY <2>3, <2>4 DEF Range
  <2>6. imitated' # <<>>
    BY <2>3, <2>4, EmptySeq
  <2> QED BY <2>3, <2>5, <2>6
<1>2. CASE ~Imitates(line')
  BY <1>2 DEF Next, ReadLine
<1> QED BY <1>1, <1>2

-----------------------------------------------------------------------------
(* Types *)

LEMMA InitType == ASSUME Init PROVE TypeOK /\ FramesShape
BY RuntimeInitType DEF Init, TypeOK

LEMMA NextType == ASSUME TypeOK, FramesShape, Next PROVE TypeOK' /\ FramesShape'
<1> USE DEF TypeOK
<1>1. RuntimeTypeOK' /\ FramesShape'
  BY RuntimeType, RuntimeShape DEF Next
<1>2. line' \in Line
  BY <1>1 DEF RuntimeTypeOK
<1>3. program_stack' \in Seq(StackIds)
  <2>1. CASE ReadsAsInvoke(line')
    <3>1. IdOf(line') \in StackIds
      BY <1>2, <2>1, LineFields DEF ReadsAsInvoke, IdOf, StackIds
    <3>2. ~ ReadsAsEnd(line')
      BY <2>1 DEF ReadsAsInvoke, ReadsAsEnd
    <3> QED BY <2>1, <3>1, <3>2, AppendProperties DEF Next, ReadLine, StackAfter
  <2>2. CASE ~ ReadsAsInvoke(line') /\ ReadsAsEnd(line')
    BY <2>2, CutToType DEF Next, ReadLine, StackAfter
  <2>3. CASE ~ ReadsAsInvoke(line') /\ ~ ReadsAsEnd(line')
    BY <2>3 DEF Next, ReadLine, StackAfter
  <2> QED BY <2>1, <2>2, <2>3
<1>4. events' \in Seq(EventRecord)
  <2>1. CASE line'.kind = "data" /\ Decodable(line'.matches)
    <3>1. EventName(line'.matches) \in Range(IdlEvents)
      BY <2>1, EventNameType
    <3>2. Attribution(program_stack) \in StackIds \cup {Unknown}
      BY LastProperties DEF Attribution
    <3>3. [name |-> EventName(line'.matches),
           program_id |-> Attribution(program_stack)] \in EventRecord
      BY <3>1, <3>2 DEF EventRecord
    <3> QED BY <2>1, <3>3, AppendProperties DEF Next, ReadLine, EventsAfter
  <2>2. CASE ~ (line'.kind = "data" /\ Decodable(line'.matches))
    BY <2>2 DEF Next, ReadLine, EventsAfter
  <2> QED BY <2>1, <2>2
<1>5. emitted' \in Seq(Programs)
  <2>1. CASE line'.kind = "data" /\ Decodable(line'.matches)
    <3>1. Running
      BY <2>1, RuntimeStep DEF Next, Opens, Ends, Stays, NoLine
    <3>2. Last(frames) \in Frame
      BY <3>1, LastProperties DEF Running, RuntimeTypeOK
    <3>3. Last(frames).prog \in Programs
      BY <3>2 DEF Frame
    <3> QED BY <2>1, <3>3, AppendProperties DEF Next, ReadLine
  <2>2. CASE ~ (line'.kind = "data" /\ Decodable(line'.matches))
    BY <2>2 DEF Next, ReadLine
  <2> QED BY <2>1, <2>2
<1>6. imitated' \in Seq(UserTexts \ {"plain"})
  BY <1>2, ImitatedGrows
<1> QED BY <1>1, <1>3, <1>4, <1>5, <1>6

\* Whatever the log says and loses, the decoder's state keeps its types: only
\* ids read from invoke lines stand on its stack, and every event it reports is
\* one of the IDL's, attributed to such an id or to "unknown".
THEOREM TypeCorrect == Spec => []TypeOK
<1>1. Init => TypeOK /\ FramesShape
  BY InitType
<1>2. TypeOK /\ FramesShape /\ [Next]_vars => (TypeOK /\ FramesShape)'
  <2> SUFFICES ASSUME TypeOK, FramesShape, [Next]_vars
               PROVE  TypeOK' /\ FramesShape'
    OBVIOUS
  <2>1. CASE Next
    BY <2>1, NextType
  <2>2. CASE UNCHANGED vars
    BY <2>2 DEF vars, rtVars, TypeOK, RuntimeTypeOK, FramesShape, Running
  <2> QED BY <2>1, <2>2
<1> QED BY <1>1, <1>2, PTL DEF Spec

-----------------------------------------------------------------------------
(***************************************************************************)
(* Attribution.  AttributedToEmitter is not inductive: it says nothing of  *)
(* the stack the next event is attributed by.  What holds the decoder      *)
(* together is that its stack spells the runtime's, frame by frame.        *)
(***************************************************************************)

StackIsFrames ==
  FaithfulLog /\ imitated = <<>> =>
    /\ Len(program_stack) = Len(frames)
    /\ \A i \in 1..Len(frames) : program_stack[i] = frames[i].prog

IInv == TypeOK /\ FramesShape /\ StackIsFrames /\ AttributedToEmitter

LEMMA NextStack ==
  ASSUME IInv, Next
  PROVE  StackIsFrames'
<1> SUFFICES ASSUME FaithfulLog', imitated' = <<>>
             PROVE  /\ Len(program_stack') = Len(frames')
                    /\ \A i \in 1..Len(frames') : program_stack'[i] = frames'[i].prog
  BY DEF StackIsFrames
<1>1. /\ RuntimeTypeOK /\ RuntimeTypeOK' /\ frames \in Seq(Frame) /\ frames' \in Seq(Frame)
      /\ FramesShape /\ StackIsFrames /\ program_stack \in Seq(StackIds)
      /\ imitated \in Seq(UserTexts \ {"plain"}) /\ line' \in Line
  BY RuntimeType DEF Next, RuntimeTypeOK, IInv, TypeOK
<1>2. /\ (Opens \/ Ends \/ Stays) /\ drops' = drops
      /\ imitated = <<>> /\ ~Imitates(line')
  BY <1>1, RuntimeStep, ImitatedGrows DEF Next
<1>3. /\ Len(program_stack) = Len(frames)
      /\ \A i \in 1..Len(frames) : program_stack[i] = frames[i].prog
  BY <1>1, <1>2 DEF StackIsFrames, FaithfulLog
<1>4. "invoke" \notin drops /\ "success" \notin drops /\ "failed" \notin drops
  BY <1>2 DEF FaithfulLog
<1>5. Len(frames) \in Nat /\ Len(program_stack) \in Nat
  BY <1>1, LenProperties
<1>6. CASE Opens
  <2>1. PICK f \in Frame :
          /\ frames' = Append(frames, f)
          /\ line' = [kind |-> "invoke", id |-> f.prog, depth |-> Len(frames) + 1]
    BY <1>4, <1>6 DEF Opens
  <2>2. program_stack' = Append(program_stack, f.prog)
    BY <2>1 DEF Next, ReadLine, StackAfter, ReadsAsInvoke, ReadsAsEnd, IdOf
  <2>3. f.prog \in StackIds
    BY DEF Frame, StackIds
  <2>4. /\ Len(frames') = Len(frames) + 1
        /\ \A i \in 1..Len(frames) : frames'[i] = frames[i]
        /\ frames'[Len(frames) + 1] = f
    BY <1>1, <2>1, AppendProperties
  <2>5. /\ Len(program_stack') = Len(program_stack) + 1
        /\ \A i \in 1..Len(program_stack) : program_stack'[i] = program_stack[i]
        /\ program_stack'[Len(program_stack) + 1] = f.prog
    BY <1>1, <2>2, <2>3, AppendProperties
  <2>6. ASSUME NEW i \in 1..Len(frames')
        PROVE  program_stack'[i] = frames'[i].prog
    <3>1. CASE i \in 1..Len(frames)
      BY <1>3, <2>4, <2>5, <3>1
    <3>2. CASE i = Len(frames) + 1
      BY <1>3, <2>4, <2>5, <3>2
    <3> QED BY <1>5, <2>4, <3>1, <3>2
  <2> QED BY <1>3, <2>4, <2>5, <2>6
<1>7. CASE Ends
  <2>1. frames # <<>> /\ Len(frames) >= 1
    BY <1>1, <1>7, LastProperties DEF Ends, Running
  <2>2. program_stack # <<>> /\ Last(program_stack) = Last(frames).prog
    BY <1>1, <1>3, <1>5, <2>1, LastProperties, EmptySeq
  <2>3. line'.kind \in {"success", "failed"} /\ line'.id = Last(frames).prog
    BY <1>4, <1>7 DEF Ends
  <2>4. program_stack' = CutTo(program_stack, Last(frames).prog)
    BY <2>3 DEF Next, ReadLine, StackAfter, ReadsAsInvoke, ReadsAsEnd, IdOf
  <2>5. program_stack' = Front(program_stack)
    BY <1>1, <2>2, <2>4, CutToTop
  <2>6. /\ Len(program_stack') = Len(program_stack) - 1
        /\ \A i \in 1..(Len(program_stack) - 1) : program_stack'[i] = program_stack[i]
    BY <1>1, <2>2, <2>5, FrontProperties
  <2>7. /\ Len(frames') = Len(frames) - 1
        /\ \A i \in 1..Len(frames') : frames'[i].prog = frames[i].prog
    BY <1>1, <1>7, UnwoundProperties DEF Ends
  <2> QED BY <1>3, <1>5, <2>6, <2>7
<1>8. CASE Stays
  <2>1. ~ ReadsAsInvoke(line') /\ ~ ReadsAsEnd(line')
    BY <1>2, <1>8 DEF Stays, Imitates, ReadsAsInvoke, ReadsAsEnd
  <2>2. program_stack' = program_stack
    BY <2>1 DEF Next, ReadLine, StackAfter
  <2> QED BY <1>3, <1>8, <2>2 DEF Stays
<1> QED BY <1>2, <1>6, <1>7, <1>8

LEMMA NextEvents ==
  ASSUME IInv, Next
  PROVE  AttributedToEmitter'
<1> SUFFICES ASSUME FaithfulLog', imitated' = <<>>
             PROVE  /\ Len(events') = Len(emitted')
                    /\ \A i \in 1..Len(events') : events'[i].program_id = emitted'[i]
  BY DEF AttributedToEmitter, Attributed, FaithfulLog
<1> USE DEF IInv, TypeOK
<1>1. /\ (Opens \/ Ends \/ Stays) /\ drops' = drops
      /\ imitated = <<>>
  BY RuntimeStep, RuntimeType, ImitatedGrows DEF Next, RuntimeTypeOK
<1>2. /\ Len(events) = Len(emitted)
      /\ \A i \in 1..Len(events) : events[i].program_id = emitted[i]
  BY <1>1 DEF AttributedToEmitter, Attributed, FaithfulLog
<1>3. CASE line'.kind = "data" /\ Decodable(line'.matches)
  <2>1. Running
    BY <1>1, <1>3 DEF Opens, Ends, Stays, NoLine
  <2>2. /\ Len(program_stack) = Len(frames)
        /\ \A i \in 1..Len(frames) : program_stack[i] = frames[i].prog
    BY <1>1 DEF StackIsFrames, FaithfulLog
  <2>3. frames \in Seq(Frame) /\ frames # <<>> /\ Len(frames) \in Nat /\ Len(frames) >= 1
    BY <2>1, LastProperties DEF Running, RuntimeTypeOK
  <2>4. program_stack # <<>>
    BY <2>2, <2>3, EmptySeq
  <2>5. Attribution(program_stack) = Last(frames).prog
    <3>1. Last(frames) = frames[Len(frames)]
      BY <2>3, LastProperties
    <3>2. Last(program_stack) = program_stack[Len(program_stack)]
      BY <2>4, LastProperties
    <3> QED BY <2>2, <2>3, <2>4, <3>1, <3>2 DEF Attribution
  <2> DEFINE e == [name |-> EventName(line'.matches),
                   program_id |-> Attribution(program_stack)]
             p == Last(frames).prog
  <2>6. events' = Append(events, e) /\ emitted' = Append(emitted, p)
    BY <1>3 DEF Next, ReadLine, EventsAfter
  <2>7. p \in Programs
    <3>1. Last(frames) \in Frame
      BY <2>3, LastProperties
    <3> QED BY <3>1 DEF Frame
  <2>8. e \in EventRecord
    <3>1. EventName(line'.matches) \in Range(IdlEvents)
      BY <1>3, EventNameType
    <3>2. Attribution(program_stack) \in StackIds
      BY <2>5, <2>7 DEF StackIds
    <3> QED BY <3>1, <3>2 DEF EventRecord
  <2>9. e.program_id = p
    BY <2>5
  <2> HIDE DEF e, p
  <2>10. /\ Len(events') = Len(events) + 1
         /\ \A i \in 1..Len(events) : events'[i] = events[i]
         /\ events'[Len(events) + 1] = e
    BY <2>6, <2>8, AppendProperties
  <2>11. /\ Len(emitted') = Len(emitted) + 1
         /\ \A i \in 1..Len(emitted) : emitted'[i] = emitted[i]
         /\ emitted'[Len(emitted) + 1] = p
    BY <2>6, <2>7, AppendProperties
  <2>12. Len(events) \in Nat
    BY LenProperties
  <2> QED BY <1>2, <2>9, <2>10, <2>11, <2>12
<1>4. CASE ~ (line'.kind = "data" /\ Decodable(line'.matches))
  BY <1>2, <1>4 DEF Next, ReadLine, EventsAfter
<1> QED BY <1>3, <1>4

\* As long as no program has logged a message that reads like a runtime line,
\* every event is attributed to the program that emitted it, for any programs,
\* nesting and number of events, and whatever other lines the log loses.
THEOREM EventsAttributed == Spec => []AttributedToEmitter
<1>1. Init => IInv
  <2> SUFFICES ASSUME Init PROVE IInv
    OBVIOUS
  <2>1. TypeOK /\ FramesShape
    BY InitType
  <2>2. StackIsFrames /\ AttributedToEmitter
    BY DEF Init, RuntimeInit, StackIsFrames, AttributedToEmitter, Attributed
  <2> QED BY <2>1, <2>2 DEF IInv
<1>2. IInv /\ [Next]_vars => IInv'
  <2> SUFFICES ASSUME IInv, [Next]_vars PROVE IInv'
    OBVIOUS
  <2>1. CASE Next
    BY <2>1, NextType, NextStack, NextEvents DEF IInv
  <2>2. CASE UNCHANGED vars
    BY <2>2 DEF vars, rtVars, IInv, TypeOK, RuntimeTypeOK, FramesShape, Running,
               StackIsFrames, FaithfulLog, AttributedToEmitter, Attributed
  <2> QED BY <2>1, <2>2
<1>3. IInv => AttributedToEmitter
  BY DEF IInv
<1> QED BY <1>1, <1>2, <1>3, PTL DEF Spec

-----------------------------------------------------------------------------
(***************************************************************************)
(* Live frames.  When end lines are lost the stack no longer spells the    *)
(* runtime's, but it still contains it: the witness of the embedding is    *)
(* carried from step to step.                                              *)
(***************************************************************************)

\* f places the frames of fr, in order, on the stack s.
Places(f, fr, s) ==
  /\ f \in [1..Len(fr) -> 1..Len(s)]
  /\ \A i, j \in 1..Len(fr) : i < j => f[i] < f[j]
  /\ \A i \in 1..Len(fr) : s[f[i]] = fr[i].prog

Contained == \E f : Places(f, frames, program_stack)

OnlyEndsLost == drops \subseteq {"success", "failed"}

\* No message has read as the end of an invocation.
NoEndImitated == Range(imitated) \subseteq {"invoke"}

LIInv == TypeOK /\ FramesShape /\ (OnlyEndsLost /\ NoEndImitated => Contained)

LEMMA ContainedEmbeds ==
  ASSUME TypeOK, Contained
  PROVE  Embeds([i \in 1..Len(frames) |-> frames[i].prog], program_stack)
<1> DEFINE s == [i \in 1..Len(frames) |-> frames[i].prog]
<1>1. PICK f : Places(f, frames, program_stack)
  BY DEF Contained
<1>2. Len(frames) \in Nat
  BY LenProperties DEF TypeOK, RuntimeTypeOK
<1>3. Len(s) = Len(frames) /\ \A i \in 1..Len(frames) : s[i] = frames[i].prog
  BY <1>2
<1>4. /\ f \in [1..Len(s) -> 1..Len(program_stack)]
      /\ \A i, j \in 1..Len(s) : i < j => f[i] < f[j]
      /\ \A i \in 1..Len(s) : program_stack[f[i]] = s[i]
  <2> HIDE DEF s
  <2> QED BY <1>1, <1>3 DEF Places
<1> HIDE DEF s
<1>5. Embeds(s, program_stack)
  BY <1>4 DEF Embeds
<1> QED BY <1>5 DEF s

\* A longer stack that begins like the old one contains what the old one did.
LEMMA ContainedInLonger ==
  ASSUME NEW f, NEW fr \in Seq(Frame), NEW s \in Seq(StackIds), Places(f, fr, s),
         NEW t \in Seq(StackIds), Len(t) >= Len(s),
         \A i \in 1..Len(s) : t[i] = s[i]
  PROVE  Places(f, fr, t)
<1>1. Len(fr) \in Nat /\ Len(s) \in Nat /\ Len(t) \in Nat
  BY LenProperties
<1>2. \A i \in 1..Len(fr) : f[i] \in 1..Len(s)
  BY DEF Places
<1>3. \A i \in 1..Len(fr) : f[i] \in 1..Len(t) /\ t[f[i]] = s[f[i]]
  BY <1>1, <1>2
<1>4. f \in [1..Len(fr) -> 1..Len(t)]
  BY <1>3 DEF Places
<1> QED BY <1>3, <1>4 DEF Places

LEMMA ContainedAfterOpen ==
  ASSUME NEW f, NEW fr \in Seq(Frame), NEW s \in Seq(StackIds), Places(f, fr, s),
         NEW frame \in Frame
  PROVE  \E g : Places(g, Append(fr, frame), Append(s, frame.prog))
<1> DEFINE n == Len(fr)
           m == Len(s)
           fr2 == Append(fr, frame)
           t == Append(s, frame.prog)
           g == [i \in 1..(n + 1) |-> IF i = n + 1 THEN m + 1 ELSE f[i]]
<1>1. n \in Nat /\ m \in Nat
  BY LenProperties
<1>2. frame.prog \in StackIds
  BY DEF Frame, StackIds
<1>3. /\ Len(fr2) = n + 1 /\ fr2[n + 1] = frame
      /\ \A i \in 1..n : fr2[i] = fr[i]
  BY AppendProperties
<1>4. /\ Len(t) = m + 1 /\ t[m + 1] = frame.prog
      /\ \A i \in 1..m : t[i] = s[i]
  BY <1>2, AppendProperties
<1>5. /\ \A i \in 1..n : f[i] \in 1..m /\ s[f[i]] = fr[i].prog
      /\ \A i, j \in 1..n : i < j => f[i] < f[j]
  BY DEF Places
<1>6. /\ g[n + 1] = m + 1
      /\ \A i \in 1..n : g[i] = f[i]
      /\ DOMAIN g = 1..(n + 1)
  BY <1>1
<1>7. g \in [1..(n + 1) -> 1..(m + 1)]
  <2>1. ASSUME NEW i \in 1..(n + 1)
        PROVE  (IF i = n + 1 THEN m + 1 ELSE f[i]) \in 1..(m + 1)
    <3>1. CASE i = n + 1
      BY <1>1, <3>1
    <3>2. CASE i # n + 1
      <4>1. i \in 1..n
        BY <1>1, <3>2
      <4>2. f[i] \in 1..m
        BY <1>5, <4>1
      <4> QED BY <1>1, <3>2, <4>2
    <3> QED BY <3>1, <3>2
  <2> QED BY <2>1
<1> HIDE DEF n, m, fr2, t, g
<1>8. ASSUME NEW i \in 1..(n + 1), NEW j \in 1..(n + 1), i < j
      PROVE  g[i] < g[j]
  <2>1. i \in 1..n /\ g[i] = f[i] /\ f[i] \in 1..m
    BY <1>1, <1>5, <1>6, <1>8
  <2>2. CASE j = n + 1
    BY <1>1, <1>6, <2>1, <2>2
  <2>3. CASE j \in 1..n
    BY <1>5, <1>6, <1>8, <2>1, <2>3
  <2> QED BY <1>1, <2>2, <2>3
<1>9. ASSUME NEW i \in 1..(n + 1)
      PROVE  t[g[i]] = fr2[i].prog
  <2>1. CASE i = n + 1
    BY <1>3, <1>4, <1>6, <2>1
  <2>2. CASE i \in 1..n
    BY <1>3, <1>4, <1>5, <1>6, <2>2
  <2> QED BY <1>1, <2>1, <2>2
<1>10. Places(g, fr2, t)
  BY <1>3, <1>4, <1>7, <1>8, <1>9 DEF Places
<1> QED BY <1>10 DEF fr2, t

\* What rposition and truncate remove lies above every frame below the last.
LEMMA ContainedAfterCut ==
  ASSUME NEW f, NEW fr \in Seq(Frame), NEW s \in Seq(StackIds), Places(f, fr, s),
         Len(fr) >= 1,
         NEW below \in Seq(Frame), Len(below) = Len(fr) - 1,
         \A i \in 1..Len(below) : below[i].prog = fr[i].prog
  PROVE  \E g : /\ Places(g, below, s)
                /\ Places(g, below, CutTo(s, fr[Len(fr)].prog))
<1> DEFINE n == Len(fr)
           id == fr[n].prog
           cut == RPosition(s, id)
           t == CutTo(s, id)
           g == [i \in 1..(n - 1) |-> f[i]]
<1>1. n \in Nat /\ n >= 1 /\ Len(s) \in Nat
  BY LenProperties
<1>2. /\ \A i \in 1..n : f[i] \in 1..Len(s) /\ s[f[i]] = fr[i].prog
      /\ \A i, j \in 1..n : i < j => f[i] < f[j]
  BY DEF Places
<1>3. f[n] \in 1..Len(s) /\ s[f[n]] = id
  BY <1>1, <1>2
<1>4. cut \in 1..Len(s) /\ f[n] <= cut
  BY <1>3, RPositionProperties
<1>5. /\ Len(t) = cut - 1
      /\ \A i \in 1..(cut - 1) : t[i] = s[i]
  <2>1. t = SubSeq(s, 1, cut - 1)
    BY <1>3 DEF CutTo
  <2>2. \A i \in 1..(cut - 1) : s[i] \in StackIds
    BY <1>1, <1>4, ElementOfSeq
  <2> HIDE DEF cut, t
  <2> QED BY <1>1, <1>4, <2>1, <2>2, SubSeqProperties
<1>6. \A i \in 1..(n - 1) : g[i] = f[i]
  OBVIOUS
<1> HIDE DEF id, cut, t
<1>7. ASSUME NEW i \in 1..(n - 1)
      PROVE  /\ i \in 1..n /\ f[i] \in 1..(cut - 1) /\ f[i] \in 1..Len(s)
             /\ s[f[i]] = below[i].prog /\ t[f[i]] = below[i].prog
  <2>1. i \in 1..n /\ n \in 1..n /\ i < n
    BY <1>1
  <2>2. f[i] \in 1..Len(s) /\ f[i] < f[n] /\ s[f[i]] = fr[i].prog
    BY <1>2, <2>1
  <2>3. f[i] \in 1..(cut - 1)
    BY <1>1, <1>3, <1>4, <2>2
  <2> QED BY <1>5, <2>1, <2>2, <2>3
<1>8. /\ g \in [1..(n - 1) -> 1..(cut - 1)]
      /\ g \in [1..(n - 1) -> 1..Len(s)]
  BY <1>7
<1> HIDE DEF g
<1>9. \A i, j \in 1..(n - 1) : i < j => g[i] < g[j]
  BY <1>2, <1>6, <1>7
<1>10. \A i \in 1..(n - 1) : s[g[i]] = below[i].prog /\ t[g[i]] = below[i].prog
  BY <1>6, <1>7
<1> HIDE DEF n
<1>11. Len(below) = n - 1
  BY DEF n
<1>12. Places(g, below, s)
  BY <1>8, <1>9, <1>10, <1>11 DEF Places
<1>13. Places(g, below, t)
  BY <1>5, <1>8, <1>9, <1>10, <1>11 DEF Places
<1> QED BY <1>12, <1>13 DEF t, id, n

LEMMA NextContained ==
  ASSUME LIInv, Next, OnlyEndsLost', NoEndImitated'
  PROVE  Contained'
<1> USE DEF LIInv, TypeOK
<1>1. /\ RuntimeTypeOK /\ RuntimeTypeOK'
      /\ frames \in Seq(Frame) /\ frames' \in Seq(Frame) /\ line' \in Line
  BY RuntimeType DEF Next, RuntimeTypeOK
<1>2. /\ (Opens \/ Ends \/ Stays) /\ drops' = drops
      /\ NoEndImitated /\ (Imitates(line') => line'.shape = "invoke")
  BY <1>1, RuntimeStep, ImitatedGrows DEF Next, NoEndImitated
<1>3. PICK f : Places(f, frames, program_stack)
  BY <1>2 DEF OnlyEndsLost, Contained
<1>4. program_stack' \in Seq(StackIds)
  BY NextType
<1>5. Len(frames) \in Nat /\ Len(program_stack) \in Nat
  BY <1>1, LenProperties
<1>6. CASE Opens
  <2>1. PICK frame \in Frame :
          /\ frames' = Append(frames, frame)
          /\ line' = [kind |-> "invoke", id |-> frame.prog, depth |-> Len(frames) + 1]
    BY <1>2, <1>6 DEF Opens, OnlyEndsLost
  <2>2. program_stack' = Append(program_stack, frame.prog)
    BY <2>1 DEF Next, ReadLine, StackAfter, ReadsAsInvoke, ReadsAsEnd, IdOf
  <2>3. \E g : Places(g, Append(frames, frame), Append(program_stack, frame.prog))
    BY <1>1, <1>3, ContainedAfterOpen
  <2> QED BY <2>1, <2>2, <2>3 DEF Contained
<1>7. CASE Ends
  <2>1. /\ frames # <<>> /\ Len(frames) >= 1
        /\ Last(frames) = frames[Len(frames)]
    BY <1>1, <1>7, LastProperties DEF Ends, Running
  <2>2. /\ Len(frames') = Len(frames) - 1
        /\ \A i \in 1..Len(frames') : frames'[i].prog = frames[i].prog
    BY <1>1, <1>7, UnwoundProperties DEF Ends
  <2>3. PICK g : /\ Places(g, frames', program_stack)
                 /\ Places(g, frames', CutTo(program_stack, frames[Len(frames)].prog))
    BY <1>1, <1>3, <2>1, <2>2, ContainedAfterCut
  <2>4. CASE line' = NoLine
    <3>1. program_stack' = program_stack
      BY <2>4 DEF Next, ReadLine, StackAfter, ReadsAsInvoke, ReadsAsEnd, NoLine
    <3> QED BY <2>3, <3>1 DEF Contained
  <2>5. CASE line' # NoLine
    <3>1. line'.kind \in {"success", "failed"} /\ line'.id = Last(frames).prog
      BY <1>7, <2>5 DEF Ends
    <3>2. program_stack' = CutTo(program_stack, Last(frames).prog)
      BY <3>1 DEF Next, ReadLine, StackAfter, ReadsAsInvoke, ReadsAsEnd, IdOf
    <3> QED BY <2>1, <2>3, <3>2 DEF Contained
  <2> QED BY <2>4, <2>5
<1>8. CASE Stays
  <2>1. /\ Len(program_stack') >= Len(program_stack)
        /\ \A i \in 1..Len(program_stack) : program_stack'[i] = program_stack[i]
    <3>1. ~ ReadsAsEnd(line')
      BY <1>2, <1>8 DEF Stays, Imitates, ReadsAsEnd
    <3>2. CASE ReadsAsInvoke(line')
      <4>1. program_stack' = Append(program_stack, IdOf(line'))
        BY <3>1, <3>2 DEF Next, ReadLine, StackAfter
      <4>2. IdOf(line') \in StackIds
        BY <1>1, <3>2, LineFields DEF ReadsAsInvoke, IdOf, StackIds
      <4> QED BY <1>5, <4>1, <4>2, AppendProperties
    <3>3. CASE ~ ReadsAsInvoke(line')
      BY <1>5, <3>1, <3>3 DEF Next, ReadLine, StackAfter
    <3> QED BY <3>2, <3>3
  <2>2. Places(f, frames, program_stack')
    BY <1>1, <1>3, <1>4, <2>1, ContainedInLonger
  <2>3. Places(f, frames', program_stack')
    BY <1>8, <2>2 DEF Stays, Places
  <2> QED BY <2>3 DEF Contained
<1> QED BY <1>2, <1>6, <1>7, <1>8

\* As long as no program has logged a message that reads as an end line, a log
\* that loses any number of end lines never makes the decoder forget a frame that
\* is still running, at any depth.
THEOREM LiveFrames == Spec => []LiveFramesKept
<1>1. Init => LIInv
  <2> SUFFICES ASSUME Init PROVE LIInv
    OBVIOUS
  <2>1. TypeOK /\ FramesShape
    BY InitType
  <2>2. Contained
    <3>1. frames = <<>> /\ program_stack = <<>>
      BY DEF Init, RuntimeInit
    <3> DEFINE g == [i \in 1..0 |-> i]
    <3>2. Places(g, frames, program_stack)
      BY <3>1 DEF Places
    <3> QED BY <3>2 DEF Contained
  <2> QED BY <2>1, <2>2 DEF LIInv
<1>2. LIInv /\ [Next]_vars => LIInv'
  <2> SUFFICES ASSUME LIInv, [Next]_vars PROVE LIInv'
    OBVIOUS
  <2>1. CASE Next
    BY <2>1, NextType, NextContained DEF LIInv
  <2>2. CASE UNCHANGED vars
    BY <2>2 DEF vars, rtVars, LIInv, TypeOK, RuntimeTypeOK, FramesShape, Running,
               OnlyEndsLost, NoEndImitated, Contained
  <2> QED BY <2>1, <2>2
<1>3. LIInv => LiveFramesKept
  BY ContainedEmbeds DEF LIInv, OnlyEndsLost, NoEndImitated, LiveFramesKept
<1> QED BY <1>1, <1>2, <1>3, PTL DEF Spec

-----------------------------------------------------------------------------
(* What the ids say of execution order *)

\* An instruction's place: an inner one is numbered within its top-level instruction.
Ids == {id \in [inner : BOOLEAN, index : Nat, sub : Nat] : id.inner \/ id.sub = 0}

\* Instruction a runs before instruction b.
RunsBefore(a, b) ==
  \/ a.index < b.index
  \/ a.index = b.index /\ b.inner /\ (a.inner => a.sub < b.sub)

\* The keys that stand for execution order tell it exactly.
LEMMA KeysTellOrder ==
  ASSUME NEW a \in Ids, NEW b \in Ids
  PROVE  Precedes(execution_key(a), execution_key(b)) <=> RunsBefore(a, b)
<1>1. /\ a.index \in Nat /\ b.index \in Nat /\ a.sub \in Nat /\ b.sub \in Nat
      /\ a.inner \in BOOLEAN /\ b.inner \in BOOLEAN
      /\ (a.inner \/ a.sub = 0) /\ (b.inner \/ b.sub = 0)
  BY DEF Ids
<1>2. CASE a.inner /\ b.inner
  BY <1>1, <1>2 DEF Precedes, execution_key, RunsBefore
<1>3. CASE a.inner /\ ~b.inner
  BY <1>1, <1>3 DEF Precedes, execution_key, RunsBefore
<1>4. CASE ~a.inner /\ b.inner
  BY <1>1, <1>4 DEF Precedes, execution_key, RunsBefore
<1>5. CASE ~a.inner /\ ~b.inner
  BY <1>1, <1>5 DEF Precedes, execution_key, RunsBefore
<1> QED BY <1>1, <1>2, <1>3, <1>4, <1>5

\* No instruction runs before itself, and of two only one runs first.
LEMMA OrderIsStrict ==
  ASSUME NEW a \in Ids, NEW b \in Ids, RunsBefore(a, b)
  PROVE  a # b /\ ~RunsBefore(b, a)
BY DEF Ids, RunsBefore

-----------------------------------------------------------------------------
(* What the report tells of an instruction, and what the instruction is *)

ApproveNames == {"Approve", "ApproveChecked"}
TransferNames == {"Transfer", "TransferChecked"}
MintNames == {"MintTo", "MintToChecked"}

Approving(i) ==
  /\ i.program = "token" /\ i.pays = None
  /\ \E a \in Accounts, k \in Appointees :
       \/ i.name = "Approve" /\ i.accounts = <<a, k, Owner[a]>>
       \/ i.name = "ApproveChecked" /\ i.accounts = <<a, MintOf[a], k, Owner[a]>>

Revoking(i) ==
  /\ i.program = "token" /\ i.pays = None /\ i.name = "Revoke"
  /\ \E a \in Accounts : i.accounts = <<a, Owner[a]>>

Transferring(i) ==
  /\ i.program = "token" /\ i.pays \in Accounts
  /\ \E a \in Accounts :
       \/ i.name = "Transfer" /\ i.accounts = <<a, i.pays, i.auth>>
       \/ i.name = "TransferChecked" /\ i.accounts = <<a, MintOf[a], i.pays, i.auth>>

Creating(i) ==
  /\ i.program = "token" /\ i.pays \in Accounts /\ i.name \in MintNames
  /\ i.accounts = <<MintOf[i.pays], i.pays, i.auth>>

Appointing(i) ==
  /\ i.program = "token" /\ i.pays = None /\ i.name = "SetAuthority"
  /\ \E m \in Mints : i.accounts = <<m, i.auth>>
  /\ i.data.new \in Appointees

Paying(i) ==
  /\ i.program = "system" /\ i.pays = FeePayer /\ i.auth \in Signers
  /\ \/ i.name = "Transfer" /\ i.accounts = <<i.auth, FeePayer>>
     \/ i.name \in {"TransferWithSeed", "WithdrawNonceAccount"}
          /\ i.accounts = <<Derived, i.auth, FeePayer>>

Shaped(i) ==
  Approving(i) \/ Revoking(i) \/ Transferring(i) \/ Creating(i) \/ Appointing(i) \/ Paying(i)

\* A role that one position has is read at that position.
LEMMA RoleRead ==
  ASSUME NEW i, NEW role, NEW fallback, NEW p \in DOMAIN i.accounts \cap DOMAIN Roles(i),
         \A q \in DOMAIN i.accounts \cap DOMAIN Roles(i) : Roles(i)[q] = role <=> q = p,
         p \in Nat
  PROVE  role_account(i, role, fallback) = i.accounts[p]
<1> DEFINE named == {q \in DOMAIN i.accounts \cap DOMAIN Roles(i) : Roles(i)[q] = role}
<1>1. named = {p}
  OBVIOUS
<1>2. Min({p}) = p
  BY DEF Min
<1> HIDE DEF named
<1>3. named # {}
  BY <1>1
<1> QED BY <1>1, <1>2, <1>3 DEF role_account, named

LEMMA ApproveRead ==
  ASSUME NEW i, Approving(i)
  PROVE  approved(i) = Grantee(i)
<1>1. PICK a \in Accounts, k \in Appointees :
         \/ i.name = "Approve" /\ i.accounts = <<a, k, Owner[a]>>
         \/ i.name = "ApproveChecked" /\ i.accounts = <<a, MintOf[a], k, Owner[a]>>
  BY DEF Approving
<1>2. i.program = "token"
  BY DEF Approving
<1>3. CASE i.name = "Approve" /\ i.accounts = <<a, k, Owner[a]>>
  <2>1. Roles(i) = <<"source", "delegate", "owner">>
    BY <1>2, <1>3 DEF Roles, token_program_role
  <2>2. role_account(i, "delegate", 1) = i.accounts[2]
    BY <1>3, <2>1, RoleRead
  <2> QED BY <1>3, <2>2 DEF approved, Grantee
<1>4. CASE i.name = "ApproveChecked" /\ i.accounts = <<a, MintOf[a], k, Owner[a]>>
  <2>1. Roles(i) = <<"source", "mint", "delegate", "owner">>
    BY <1>2, <1>4 DEF Roles, token_program_role
  <2>2. role_account(i, "delegate", 2) = i.accounts[3]
    BY <1>4, <2>1, RoleRead
  <2> QED BY <1>4, <2>2 DEF approved, Grantee
<1> QED BY <1>1, <1>3, <1>4

LEMMA TransferRead ==
  ASSUME NEW i, Transferring(i), NEW n
  PROVE  /\ role_account(i, "authority", n) = i.auth
         /\ role_account(i, "destination", n) = i.pays
<1>1. PICK a \in Accounts :
         \/ i.name = "Transfer" /\ i.accounts = <<a, i.pays, i.auth>>
         \/ i.name = "TransferChecked" /\ i.accounts = <<a, MintOf[a], i.pays, i.auth>>
  BY DEF Transferring
<1>2. i.program = "token"
  BY DEF Transferring
<1>3. CASE i.name = "Transfer" /\ i.accounts = <<a, i.pays, i.auth>>
  <2>1. Roles(i) = <<"source", "destination", "authority">>
    BY <1>2, <1>3 DEF Roles, token_program_role
  <2>2. role_account(i, "authority", n) = i.accounts[3]
    BY <1>3, <2>1, RoleRead
  <2>3. role_account(i, "destination", n) = i.accounts[2]
    BY <1>3, <2>1, RoleRead
  <2> QED BY <1>3, <2>2, <2>3
<1>4. CASE i.name = "TransferChecked" /\ i.accounts = <<a, MintOf[a], i.pays, i.auth>>
  <2>1. Roles(i) = <<"source", "mint", "destination", "authority">>
    BY <1>2, <1>4 DEF Roles, token_program_role
  <2>2. role_account(i, "authority", n) = i.accounts[4]
    BY <1>4, <2>1, RoleRead
  <2>3. role_account(i, "destination", n) = i.accounts[3]
    BY <1>4, <2>1, RoleRead
  <2> QED BY <1>4, <2>2, <2>3
<1> QED BY <1>1, <1>3, <1>4

LEMMA MintRead ==
  ASSUME NEW i, Creating(i), NEW n
  PROVE  /\ role_account(i, "mint", n) = i.accounts[1]
         /\ role_account(i, "to", n) = i.pays
         /\ role_account(i, "authority", n) = i.auth
<1>1. i.program = "token" /\ i.accounts = <<MintOf[i.pays], i.pays, i.auth>>
  BY DEF Creating
<1>2. Roles(i) = <<"mint", "to", "authority">>
  BY <1>1 DEF Creating, MintNames, Roles, token_program_role
<1>3. role_account(i, "mint", n) = i.accounts[1]
  BY <1>1, <1>2, RoleRead
<1>4. role_account(i, "to", n) = i.accounts[2]
  BY <1>1, <1>2, RoleRead
<1>5. role_account(i, "authority", n) = i.accounts[3]
  BY <1>1, <1>2, RoleRead
<1> QED BY <1>1, <1>3, <1>4, <1>5

LEMMA AppointmentRead ==
  ASSUME NEW i, Appointing(i), NEW n
  PROVE  role_account(i, "account", n) = i.accounts[1]
<1>1. PICK m \in Mints : i.accounts = <<m, i.auth>>
  BY DEF Appointing
<1>2. Roles(i) = <<"account", "current_authority">>
  BY DEF Appointing, Roles, token_program_role
<1> QED BY <1>1, <1>2, RoleRead

LEMMA PaymentRead ==
  ASSUME NEW i, Paying(i), NEW n
  PROVE  /\ i.name \in {"Transfer", "WithdrawNonceAccount"} => role_account(i, "to", n) = i.pays
         /\ i.name = "TransferWithSeed" => role_account(i, "from", n) = Derived
<1>1. i.program = "system" /\ i.pays = FeePayer
  BY DEF Paying
<1>2. CASE i.name = "Transfer" /\ i.accounts = <<i.auth, FeePayer>>
  <2>1. Roles(i) = <<"from", "to">>
    BY <1>1, <1>2 DEF Roles, system_program_role
  <2>2. role_account(i, "to", n) = i.accounts[2]
    BY <1>2, <2>1, RoleRead
  <2> QED BY <1>1, <1>2, <2>2
<1>3. CASE i.name = "TransferWithSeed" /\ i.accounts = <<Derived, i.auth, FeePayer>>
  <2>1. Roles(i) = <<"from", "from_base", "to">>
    BY <1>1, <1>3 DEF Roles, system_program_role
  <2>2. role_account(i, "from", n) = i.accounts[1]
    BY <1>3, <2>1, RoleRead
  <2> QED BY <1>1, <1>3, <2>2
<1>4. CASE i.name = "WithdrawNonceAccount" /\ i.accounts = <<Derived, i.auth, FeePayer>>
  <2>1. Roles(i) = <<"nonce_account", "authorized", "to">>
    BY <1>1, <1>4 DEF Roles, system_program_role
  <2>2. role_account(i, "to", n) = i.accounts[3]
    BY <1>4, <2>1, RoleRead
  <2> QED BY <1>1, <1>4, <2>2
<1> QED BY <1>2, <1>3, <1>4 DEF Paying

\* Whose signature nonsigner_transfer_authority looks for.
LEMMA AuthorityRead ==
  ASSUME NEW i, Shaped(i)
  PROVE  authority(i) = IF is_token(i, TransferNames) THEN i.auth
                        ELSE IF i.name = "TransferWithSeed" THEN Derived ELSE None
<1> USE DEF is_token, authority, TransferNames
<1>1. CASE Approving(i)
  BY <1>1 DEF Approving
<1>2. CASE Revoking(i)
  BY <1>2 DEF Revoking
<1>3. CASE Transferring(i)
  BY <1>3, TransferRead DEF Transferring
<1>4. CASE Creating(i)
  BY <1>4 DEF Creating, MintNames
<1>5. CASE Appointing(i)
  BY <1>5 DEF Appointing
<1>6. CASE Paying(i)
  BY <1>6, PaymentRead DEF Paying
<1> QED BY <1>1, <1>2, <1>3, <1>4, <1>5, <1>6 DEF Shaped

\* Whom the rules of the fee payer and of the repeated destination see paid.
LEMMA PaymentSeen ==
  ASSUME NEW i, Shaped(i)
  PROVE  transfer_of_money(i) = IF i.name = "TransferWithSeed" THEN None ELSE i.pays
<1> USE DEF is_token, transfer_of_money
<1>1. CASE Approving(i)
  BY <1>1 DEF Approving
<1>2. CASE Revoking(i)
  BY <1>2 DEF Revoking
<1>3. CASE Transferring(i)
  BY <1>3, TransferRead DEF Transferring
<1>4. CASE Creating(i)
  BY <1>4, MintRead DEF Creating, MintNames
<1>5. CASE Appointing(i)
  BY <1>5 DEF Appointing
<1>6. CASE Paying(i)
  BY <1>6, PaymentRead DEF Paying
<1> QED BY <1>1, <1>2, <1>3, <1>4, <1>5, <1>6 DEF Shaped

-----------------------------------------------------------------------------
(* The types *)

Addresses == Accounts \cup Mints \cup Keys \cup {Derived}
Names == ApproveNames \cup TransferNames \cup MintNames
           \cup {"Revoke", "SetAuthority", "TransferWithSeed", "WithdrawNonceAccount"}
Data == [type : {-1, 0, 1}, new : Keys \cup {None}]

\* What an instruction that ran can be.
Step ==
  {i \in [at : Ids, program : {"token", "system"}, name : Names, accounts : Seq(Addresses),
          data : Data, auth : Keys, pays : Accounts \cup Keys \cup {None}] : Shaped(i)}

Grants == [key : Keys \cup {None}, by : Ids \cup {Before}]

PatternsTypeOK ==
  /\ top \in Nat \cup {-1} /\ sub \in Nat /\ cpi \in BOOLEAN /\ (cpi => top \in Nat)
  /\ executed \in Seq(Step)
  /\ delegate \in [Accounts -> Grants] /\ minter \in [Mints -> Grants]
  /\ \A m \in Mints : minter[m].key \in Keys
  /\ spends \subseteq [approval : Ids, transfer : Ids]
  /\ takeovers \subseteq [appointment : Ids, mint : Ids]
  /\ reported \in BOOLEAN

LEMMA TuplesType ==
  ASSUME NEW S
  PROVE  /\ \A a, b \in S : <<a, b>> \in Seq(S)
         /\ \A a, b, c \in S : <<a, b, c>> \in Seq(S)
         /\ \A a, b, c, d \in S : <<a, b, c, d>> \in Seq(S)
OBVIOUS

\* An instruction that may run is a step once it has a place, and stays what it was.
Runs(ix, id) ==
  /\ [ix EXCEPT !.at = id] \in Step /\ [ix EXCEPT !.at = id].at = id
  /\ [ix EXCEPT !.at = id].name = ix.name /\ [ix EXCEPT !.at = id].program = ix.program
  /\ [ix EXCEPT !.at = id].accounts = ix.accounts /\ [ix EXCEPT !.at = id].data = ix.data
  /\ [ix EXCEPT !.at = id].auth = ix.auth /\ [ix EXCEPT !.at = id].pays = ix.pays

LEMMA ShapeKept ==
  ASSUME NEW i, NEW j, Shaped(i), j.name = i.name, j.program = i.program,
         j.accounts = i.accounts, j.data = i.data, j.auth = i.auth, j.pays = i.pays
  PROVE  Shaped(j)
<1>1. /\ Approving(i) => Approving(j)
      /\ Revoking(i) => Revoking(j)
  BY DEF Approving, Revoking
<1>2. /\ Transferring(i) => Transferring(j)
      /\ Creating(i) => Creating(j)
  BY DEF Transferring, Creating
<1>3. /\ Appointing(i) => Appointing(j)
      /\ Paying(i) => Paying(j)
  BY DEF Appointing, Paying
<1> QED BY <1>1, <1>2, <1>3 DEF Shaped

LEMMA StepOf ==
  ASSUME NEW p \in {"token", "system"}, NEW n \in Names, NEW accs \in Seq(Addresses),
         NEW d \in Data, NEW auth \in Keys, NEW pays \in Accounts \cup Keys \cup {None},
         NEW id \in Ids, NEW ix, ix = Ix(p, n, accs, d, auth, pays), Shaped(ix)
  PROVE  Runs(ix, id)
<1>1. ix = [at |-> Before, program |-> p, name |-> n, accounts |-> accs, data |-> d,
            auth |-> auth, pays |-> pays]
  BY DEF Ix
<1>2. [ix EXCEPT !.at = id] = [at |-> id, program |-> p, name |-> n, accounts |-> accs,
                               data |-> d, auth |-> auth, pays |-> pays]
  BY <1>1
<1> DEFINE i == [ix EXCEPT !.at = id]
<1>3. /\ i.at = id /\ i.name = ix.name /\ i.program = ix.program
      /\ i.accounts = ix.accounts /\ i.data = ix.data
      /\ i.auth = ix.auth /\ i.pays = ix.pays
  BY <1>1, <1>2
<1>4. i \in [at : Ids, program : {"token", "system"}, name : Names, accounts : Seq(Addresses),
             data : Data, auth : Keys, pays : Accounts \cup Keys \cup {None}]
  BY <1>2
<1> HIDE DEF i
<1>5. Shaped(i)
  BY <1>3, ShapeKept
<1> QED BY <1>3, <1>4, <1>5 DEF Runs, Step, i

LEMMA ApprovalRuns ==
  ASSUME NEW ix \in Approvals, NEW id \in Ids
  PROVE  Runs(ix, id) /\ Approving(ix)
<1>1. PICK a \in Accounts, k \in Appointees :
        ix \in {Ix("token", "Approve", <<a, k, Owner[a]>>, NoData, Owner[a], None),
               Ix("token", "ApproveChecked", <<a, MintOf[a], k, Owner[a]>>, NoData, Owner[a], None)}
  BY DEF Approvals, Ix
<1>2. /\ a \in Addresses /\ k \in Addresses /\ Owner[a] \in Keys /\ Owner[a] \in Addresses
      /\ MintOf[a] \in Addresses /\ NoData \in Data
  BY PatternsAssumption DEF Addresses, NoData, Data
<1>3. <<a, k, Owner[a]>> \in Seq(Addresses) /\ <<a, MintOf[a], k, Owner[a]>> \in Seq(Addresses)
  BY <1>2, TuplesType
<1>4. CASE ix = Ix("token", "Approve", <<a, k, Owner[a]>>, NoData, Owner[a], None)
  <2>1. Approving(ix)
    BY <1>4 DEF Ix, Approving
  <2> QED BY <2>1, <1>2, <1>3, <1>4, StepOf DEF Shaped, Names, ApproveNames
<1>5. CASE ix = Ix("token", "ApproveChecked", <<a, MintOf[a], k, Owner[a]>>, NoData, Owner[a], None)
  <2>1. Approving(ix)
    BY <1>5 DEF Ix, Approving
  <2> QED BY <2>1, <1>2, <1>3, <1>5, StepOf DEF Shaped, Names, ApproveNames
<1> QED BY <1>1, <1>4, <1>5

LEMMA RevocationRuns ==
  ASSUME NEW ix \in Revocations, NEW id \in Ids
  PROVE  Runs(ix, id) /\ Revoking(ix)
<1>1. PICK a \in Accounts : ix = Ix("token", "Revoke", <<a, Owner[a]>>, NoData, Owner[a], None)
  BY DEF Revocations, Ix
<1>2. a \in Addresses /\ Owner[a] \in Keys /\ Owner[a] \in Addresses /\ NoData \in Data
  BY PatternsAssumption DEF Addresses, NoData, Data
<1>3. <<a, Owner[a]>> \in Seq(Addresses)
  BY <1>2, TuplesType
<1>4. Revoking(ix)
  BY <1>1 DEF Ix, Revoking
<1> QED BY <1>1, <1>2, <1>3, <1>4, StepOf DEF Shaped, Names

LEMMA TransferRuns ==
  ASSUME PatternsTypeOK, NEW ix \in Transfers, NEW id \in Ids
  PROVE  Runs(ix, id) /\ Transferring(ix)
<1>0. PICK a \in Accounts :
        ix \in UNION {{Ix("token", "Transfer", <<a, b, k>>, NoData, k, b),
                      Ix("token", "TransferChecked", <<a, MintOf[a], b, k>>, NoData, k, b)}
                    : b \in Receivers(a), k \in Spenders(a)}
  BY DEF Transfers
<1>1. PICK b \in Receivers(a), k \in Spenders(a) :
        ix \in {Ix("token", "Transfer", <<a, b, k>>, NoData, k, b),
               Ix("token", "TransferChecked", <<a, MintOf[a], b, k>>, NoData, k, b)}
  BY <1>0
<1>2. b \in Accounts /\ k \in Keys
  BY PatternsAssumption DEF Receivers, Spenders, PatternsTypeOK, Grants
<1>3. /\ a \in Addresses /\ b \in Addresses /\ k \in Addresses /\ MintOf[a] \in Addresses
      /\ NoData \in Data
  BY <1>2, PatternsAssumption DEF Addresses, NoData, Data
<1>4. <<a, b, k>> \in Seq(Addresses) /\ <<a, MintOf[a], b, k>> \in Seq(Addresses)
  BY <1>3, TuplesType
<1>5. CASE ix = Ix("token", "Transfer", <<a, b, k>>, NoData, k, b)
  <2>1. Transferring(ix)
    BY <1>2, <1>5 DEF Ix, Transferring
  <2> QED BY <2>1, <1>2, <1>3, <1>4, <1>5, StepOf DEF Shaped, Names, TransferNames
<1>6. CASE ix = Ix("token", "TransferChecked", <<a, MintOf[a], b, k>>, NoData, k, b)
  <2>1. Transferring(ix)
    BY <1>2, <1>6 DEF Ix, Transferring
  <2> QED BY <2>1, <1>2, <1>3, <1>4, <1>6, StepOf DEF Shaped, Names, TransferNames
<1> QED BY <1>1, <1>5, <1>6

LEMMA MintingRuns ==
  ASSUME PatternsTypeOK, NEW ix \in Minting, NEW id \in Ids
  PROVE  Runs(ix, id) /\ Creating(ix) /\ ix.auth = minter[ix.accounts[1]].key
<1>1. PICK n \in MintNames, a \in Accounts :
        ix = Ix("token", n, <<MintOf[a], a, minter[MintOf[a]].key>>, NoData,
                minter[MintOf[a]].key, a)
  BY DEF Minting, Ix, MintNames
<1> DEFINE k == minter[MintOf[a]].key
<1>2. /\ a \in Addresses /\ MintOf[a] \in Addresses /\ k \in Keys /\ k \in Addresses
      /\ NoData \in Data
  BY PatternsAssumption DEF Addresses, NoData, Data, PatternsTypeOK
<1> HIDE DEF k
<1>3. ix = Ix("token", n, <<MintOf[a], a, k>>, NoData, k, a)
  BY <1>1 DEF k
<1>4. <<MintOf[a], a, k>> \in Seq(Addresses)
  BY <1>2, TuplesType
<1>5. Creating(ix)
  BY <1>3 DEF Ix, Creating
<1>6. Runs(ix, id)
  BY <1>2, <1>3, <1>4, <1>5, StepOf DEF Shaped, Names
<1>7. ix.auth = k /\ ix.accounts[1] = MintOf[a]
  BY <1>3 DEF Ix
<1> QED BY <1>5, <1>6, <1>7 DEF k

LEMMA ReassignmentRuns ==
  ASSUME PatternsTypeOK, NEW ix \in Reassignments, NEW id \in Ids
  PROVE  Runs(ix, id) /\ Appointing(ix)
<1>1. PICK m \in Mints, k \in Appointees, old \in Keys, t \in {0, 1} :
        ix = Ix("token", "SetAuthority", <<m, old>>, [type |-> t, new |-> k], old, None)
  <2>1. CASE ix \in {Ix("token", "SetAuthority", <<m, minter[m].key>>, [type |-> 0, new |-> k],
                        minter[m].key, None) : m \in Mints, k \in Appointees}
    <3>1. PICK m \in Mints, k \in Appointees :
            ix = Ix("token", "SetAuthority", <<m, minter[m].key>>, [type |-> 0, new |-> k],
                    minter[m].key, None)
      BY <2>1 DEF Ix
    <3>2. minter[m].key \in Keys
      BY DEF PatternsTypeOK
    <3> QED BY <3>1, <3>2
  <2>2. CASE ix \in {Ix("token", "SetAuthority", <<m, MintAuthority[m]>>, [type |-> 1, new |-> k],
                        MintAuthority[m], None) : m \in Mints, k \in Appointees}
    <3>1. PICK m \in Mints, k \in Appointees :
            ix = Ix("token", "SetAuthority", <<m, MintAuthority[m]>>, [type |-> 1, new |-> k],
                    MintAuthority[m], None)
      BY <2>2 DEF Ix
    <3>2. MintAuthority[m] \in Keys
      BY PatternsAssumption
    <3> QED BY <3>1, <3>2
  <2> QED BY <2>1, <2>2 DEF Reassignments
<1>2. m \in Addresses /\ old \in Addresses /\ [type |-> t, new |-> k] \in Data
  BY PatternsAssumption DEF Addresses, Data
<1>3. <<m, old>> \in Seq(Addresses)
  BY <1>2, TuplesType
<1>4. Appointing(ix)
  BY <1>1 DEF Ix, Appointing
<1> QED BY <1>1, <1>2, <1>3, <1>4, StepOf DEF Shaped, Names

LEMMA PaymentRuns ==
  ASSUME NEW ix \in Payments, NEW id \in Ids
  PROVE  Runs(ix, id) /\ Paying(ix)
<1>1. PICK k \in Signers :
        ix \in {Ix("system", "Transfer", <<k, FeePayer>>, NoData, k, FeePayer),
                Ix("system", "TransferWithSeed", <<Derived, k, FeePayer>>, NoData, k, FeePayer),
                Ix("system", "WithdrawNonceAccount", <<Derived, k, FeePayer>>, NoData, k, FeePayer)}
  BY DEF Payments, Ix
<1>2. /\ k \in Keys /\ k \in Addresses /\ FeePayer \in Keys /\ FeePayer \in Addresses
      /\ Derived \in Addresses /\ NoData \in Data
  BY PatternsAssumption DEF Addresses, NoData, Data
<1>3. <<k, FeePayer>> \in Seq(Addresses) /\ <<Derived, k, FeePayer>> \in Seq(Addresses)
  BY <1>2, TuplesType
<1>4. CASE ix = Ix("system", "Transfer", <<k, FeePayer>>, NoData, k, FeePayer)
  <2>1. Paying(ix)
    BY <1>4 DEF Ix, Paying
  <2> QED BY <2>1, <1>2, <1>3, <1>4, StepOf DEF Shaped, Names, TransferNames
<1>5. ASSUME NEW n \in {"TransferWithSeed", "WithdrawNonceAccount"},
             ix = Ix("system", n, <<Derived, k, FeePayer>>, NoData, k, FeePayer)
      PROVE  Runs(ix, id) /\ Paying(ix)
  <2>1. Paying(ix)
    BY <1>5 DEF Ix, Paying
  <2> QED BY <2>1, <1>2, <1>3, <1>5, StepOf DEF Shaped, Names
<1> QED BY <1>1, <1>4, <1>5

LEMMA InstructionRuns ==
  ASSUME PatternsTypeOK, NEW ix \in Instructions, NEW id \in Ids
  PROVE  /\ Runs(ix, id) /\ Shaped(ix)
         /\ Creating(ix) => ix.auth = minter[ix.accounts[1]].key
<1>1. CASE ix \in Approvals
  BY <1>1, ApprovalRuns DEF Shaped, Approving, Creating, MintNames
<1>2. CASE ix \in Revocations
  BY <1>2, RevocationRuns DEF Shaped, Revoking, Creating, MintNames
<1>3. CASE ix \in Transfers
  BY <1>3, TransferRuns DEF Shaped, Transferring, Creating, MintNames
<1>4. CASE ix \in Minting
  BY <1>4, MintingRuns DEF Shaped
<1>5. CASE ix \in Reassignments
  BY <1>5, ReassignmentRuns DEF Shaped, Appointing, Creating, MintNames
<1>6. CASE ix \in Payments
  BY <1>6, PaymentRuns DEF Shaped, Paying, Creating
<1> QED BY <1>1, <1>2, <1>3, <1>4, <1>5, <1>6 DEF Instructions

-----------------------------------------------------------------------------
(* What an instruction does to the ledger *)

Delegates(ix, id) ==
  \/ delegate' = delegate
  \/ \E a \in Accounts : delegate' = [delegate EXCEPT ![a] = [key |-> None, by |-> Before]]
  \/ /\ Approving(ix) /\ Grantee(ix) \in Keys
     /\ \E a \in Accounts : delegate' = [delegate EXCEPT ![a] = [key |-> Grantee(ix), by |-> id]]

Appoints(ix, id) ==
  \/ minter' = minter
  \/ /\ Appointing(ix) /\ ix.data.type = 0 /\ ix.accounts[1] \in Mints
     /\ minter' = [minter EXCEPT ![ix.accounts[1]] = [key |-> ix.data.new, by |-> id]]

Spends(ix, id) ==
  \/ spends' = spends
  \/ /\ Transferring(ix)
     /\ \E a \in Accounts :
          /\ delegate[a].key = ix.auth /\ delegate[a].by # Before
          /\ spends' = spends \cup {[approval |-> delegate[a].by, transfer |-> id]}

TakesOver(ix, id) ==
  \/ takeovers' = takeovers
  \/ /\ Creating(ix) /\ ix.accounts[1] \in Mints
     /\ minter[ix.accounts[1]].by # Before
     /\ takeovers' = takeovers
                       \cup {[appointment |-> minter[ix.accounts[1]].by, mint |-> id]}

LEMMA ApplyEffect ==
  ASSUME NEW ix, Shaped(ix), NEW id, Apply(ix, id)
  PROVE  Delegates(ix, id) /\ Appoints(ix, id) /\ Spends(ix, id) /\ TakesOver(ix, id)
<1> DEFINE a == ix.accounts[1]
           by == IF ix.name \in {"Transfer", "TransferChecked"} /\ ix.program = "token"
                 THEN IF delegate[a].key = ix.auth THEN delegate[a].by ELSE Before
                 ELSE Before
           of == IF ix.name \in {"MintTo", "MintToChecked"} THEN minter[a].by ELSE Before
<1>1. /\ spends' = spends \cup {[approval |-> b, transfer |-> id] : b \in {by} \ {Before}}
      /\ takeovers' = takeovers \cup {[appointment |-> b, mint |-> id] : b \in {of} \ {Before}}
  BY DEF Apply
<1>2. /\ by = Before => spends' = spends
      /\ by # Before => spends' = spends \cup {[approval |-> by, transfer |-> id]}
  <2> HIDE DEF by, of
  <2> QED BY <1>1
<1>3. /\ of = Before => takeovers' = takeovers
      /\ of # Before => takeovers' = takeovers \cup {[appointment |-> of, mint |-> id]}
  <2> HIDE DEF by, of
  <2> QED BY <1>1
<1>4. /\ ix.name = "Approve"
           => delegate' = [delegate EXCEPT ![a] = [key |-> ix.accounts[2], by |-> id]]
      /\ ix.name = "ApproveChecked"
           => delegate' = [delegate EXCEPT ![a] = [key |-> ix.accounts[3], by |-> id]]
      /\ ix.name = "Revoke" => delegate' = [delegate EXCEPT ![a] = [key |-> None, by |-> Before]]
      /\ ix.name \notin {"Approve", "ApproveChecked", "Revoke"} => delegate' = delegate
  BY DEF Apply
<1>5. minter' = IF ix.name = "SetAuthority" /\ ix.data.type = 0
                THEN [minter EXCEPT ![a] = [key |-> ix.data.new, by |-> id]] ELSE minter
  BY DEF Apply
<1>6. CASE Approving(ix)
  <2>1. PICK b \in Accounts, k \in Appointees :
          \/ ix.name = "Approve" /\ ix.accounts = <<b, k, Owner[b]>>
          \/ ix.name = "ApproveChecked" /\ ix.accounts = <<b, MintOf[b], k, Owner[b]>>
    BY <1>6 DEF Approving
  <2>2. a = b /\ Grantee(ix) = k /\ k \in Keys
    <3>1. k \in Keys
      BY PatternsAssumption
    <3>2. CASE ix.accounts = <<b, k, Owner[b]>>
      BY <3>1, <3>2 DEF Grantee
    <3>3. CASE ix.accounts = <<b, MintOf[b], k, Owner[b]>>
      BY <3>1, <3>3 DEF Grantee
    <3> QED BY <2>1, <3>2, <3>3
  <2>3. delegate' = [delegate EXCEPT ![b] = [key |-> Grantee(ix), by |-> id]]
    <3>1. CASE ix.name = "Approve" /\ ix.accounts = <<b, k, Owner[b]>>
      BY <3>1, <2>2, <1>4
    <3>2. CASE ix.name = "ApproveChecked" /\ ix.accounts = <<b, MintOf[b], k, Owner[b]>>
      BY <3>2, <2>2, <1>4
    <3> QED BY <2>1, <3>1, <3>2
  <2>4. by = Before /\ of = Before /\ minter' = minter
    BY <2>1, <1>5
  <2> HIDE DEF by, of, a
  <2> QED BY <1>2, <1>3, <1>6, <2>2, <2>3, <2>4 DEF Delegates, Appoints, Spends, TakesOver
<1>7. CASE Revoking(ix)
  <2>1. a \in Accounts /\ ix.name = "Revoke"
    BY <1>7 DEF Revoking
  <2>2. by = Before /\ of = Before /\ minter' = minter
    BY <2>1, <1>5
  <2> HIDE DEF by, of, a
  <2> QED BY <1>2, <1>3, <1>4, <2>1, <2>2 DEF Delegates, Appoints, Spends, TakesOver
<1>8. CASE Transferring(ix)
  <2>1. a \in Accounts /\ ix.name \in {"Transfer", "TransferChecked"} /\ ix.program = "token"
    BY <1>8 DEF Transferring
  <2>2. of = Before /\ minter' = minter /\ delegate' = delegate
    BY <2>1, <1>4, <1>5
  <2>3. by # Before => by = delegate[a].by /\ delegate[a].key = ix.auth
    BY <2>1
  <2> HIDE DEF by, of, a
  <2> QED BY <1>2, <1>3, <1>8, <2>1, <2>2, <2>3 DEF Delegates, Appoints, Spends, TakesOver
<1>9. CASE Creating(ix)
  <2>1. a \in Mints /\ ix.name \in {"MintTo", "MintToChecked"}
    BY <1>9, PatternsAssumption DEF Creating, MintNames
  <2>2. by = Before /\ minter' = minter /\ delegate' = delegate /\ of = minter[a].by
    BY <2>1, <1>4, <1>5
  <2> HIDE DEF by, of
  <2> QED BY <1>2, <1>3, <1>9, <2>1, <2>2 DEF Delegates, Appoints, Spends, TakesOver
<1>10. CASE Appointing(ix)
  <2>1. a \in Mints /\ ix.name = "SetAuthority"
    BY <1>10 DEF Appointing
  <2>2. by = Before /\ of = Before /\ delegate' = delegate
    BY <2>1, <1>4
  <2> HIDE DEF by, of
  <2> QED BY <1>2, <1>3, <1>5, <1>10, <2>1, <2>2 DEF Delegates, Appoints, Spends, TakesOver
<1>11. CASE Paying(ix)
  <2>1. /\ ix.program = "system"
        /\ ix.name \in {"Transfer", "TransferWithSeed", "WithdrawNonceAccount"}
    BY <1>11 DEF Paying
  <2>2. by = Before /\ of = Before /\ delegate' = delegate /\ minter' = minter
    BY <2>1, <1>4, <1>5
  <2> HIDE DEF by, of
  <2> QED BY <1>2, <1>3, <2>2 DEF Delegates, Appoints, Spends, TakesOver
<1> QED BY <1>6, <1>7, <1>8, <1>9, <1>10, <1>11 DEF Shaped

-----------------------------------------------------------------------------
(* The invariant of the execution *)

\* Steps are in the order of their ids, and the next one comes after them all.
InOrder ==
  \A p, q \in 1..Len(executed) : p < q => RunsBefore(executed[p].at, executed[q].at)

NextComesAfter ==
  \A p \in 1..Len(executed) :
    /\ executed[p].at.index <= top
    /\ executed[p].at.index = top /\ executed[p].at.inner => executed[p].at.sub < sub

\* At the top level only signers and multisigs act.
SignedAtTop ==
  \A p \in 1..Len(executed) :
    executed[p].at.inner \/ executed[p].auth \in Signers \cup Multisigs

\* The ledger remembers who gave each power.
GrantedBy(p, g) ==
  Approving(executed[p]) /\ executed[p].at = g.by /\ Grantee(executed[p]) = g.key

DelegatesKnown ==
  \A a \in Accounts :
    delegate[a].by = Before \/ \E p \in 1..Len(executed) : GrantedBy(p, delegate[a])

AppointedBy(p, m, g) ==
  /\ Appointing(executed[p]) /\ executed[p].data.type = 0 /\ executed[p].accounts[1] = m
  /\ executed[p].at = g.by /\ executed[p].data.new = g.key

AppointmentsKnown ==
  \A m \in Mints :
    minter[m].by = Before \/ \E p \in 1..Len(executed) : AppointedBy(p, m, minter[m])

\* A power is used after it was given, by whom it was given to.
SpendsAt(s, p, q) ==
  /\ p < q /\ executed[p].at = s.approval /\ executed[q].at = s.transfer
  /\ Approving(executed[p]) /\ Transferring(executed[q])
  /\ executed[q].auth = Grantee(executed[p])

SpendsKnown ==
  \A s \in spends : \E p, q \in 1..Len(executed) : SpendsAt(s, p, q)

TakesAt(t, p, q) ==
  /\ p < q /\ executed[p].at = t.appointment /\ executed[q].at = t.mint
  /\ Appointing(executed[p]) /\ executed[p].data.type = 0 /\ Creating(executed[q])
  /\ executed[q].accounts[1] = executed[p].accounts[1]
  /\ executed[q].auth = executed[p].data.new

TakeoversKnown ==
  \A t \in takeovers : \E p, q \in 1..Len(executed) : TakesAt(t, p, q)

\* The report lists steps that ran, each once, and the rules have judged just those.
Judged ==
  /\ reported => /\ listed \in Seq(Step) /\ Distinct(listed)
                 /\ Range(listed) \subseteq Range(executed)
                 /\ flags = detect_patterns(listed)
  /\ ~reported => flags = {}

PatternsInvariant ==
  /\ PatternsTypeOK
  /\ InOrder /\ NextComesAfter /\ SignedAtTop
  /\ DelegatesKnown /\ AppointmentsKnown /\ SpendsKnown /\ TakeoversKnown
  /\ Judged

-----------------------------------------------------------------------------
(* One more instruction *)

\* What a step that runs an instruction leaves: one more in the list.
Longer(i) ==
  /\ Len(executed') = Len(executed) + 1 /\ executed'[Len(executed) + 1] = i
  /\ \A p \in 1..Len(executed) : executed'[p] = executed[p]

LEMMA RunLonger ==
  ASSUME PatternsTypeOK, NEW ix \in Instructions, NEW id \in Ids, Run(ix, id)
  PROVE  /\ executed' \in Seq(Step) /\ Longer([ix EXCEPT !.at = id]) /\ Len(executed) \in Nat
         /\ \A p \in 1..(Len(executed) + 1) : p \in 1..Len(executed) \/ p = Len(executed) + 1
<1>1. executed \in Seq(Step) /\ [ix EXCEPT !.at = id] \in Step
  BY InstructionRuns DEF PatternsTypeOK, Runs
<1>2. executed' = Append(executed, [ix EXCEPT !.at = id])
  BY DEF Run
<1> DEFINE i == [ix EXCEPT !.at = id]
<1> HIDE DEF i
<1>3. /\ Append(executed, i) \in Seq(Step) /\ Len(Append(executed, i)) = Len(executed) + 1
      /\ \A p \in 1..Len(executed) : Append(executed, i)[p] = executed[p]
      /\ Append(executed, i)[Len(executed) + 1] = i
  BY <1>1, AppendProperties DEF i
<1>4. Len(executed) \in Nat
  BY <1>1, LenProperties
<1>5. executed' = Append(executed, i)
  BY <1>2 DEF i
<1>6. \A p \in 1..(Len(executed) + 1) : p \in 1..Len(executed) \/ p = Len(executed) + 1
  BY <1>4
<1>7. Longer(i)
  BY <1>3, <1>5 DEF Longer
<1> QED BY <1>3, <1>4, <1>5, <1>6, <1>7 DEF i

LEMMA RunTypes ==
  ASSUME PatternsInvariant, NEW ix \in Instructions, NEW id \in Ids, Run(ix, id)
  PROVE  /\ delegate' \in [Accounts -> Grants] /\ minter' \in [Mints -> Grants]
         /\ \A m \in Mints : minter'[m].key \in Keys
         /\ spends' \subseteq [approval : Ids, transfer : Ids]
         /\ takeovers' \subseteq [appointment : Ids, mint : Ids]
<1>1. /\ delegate \in [Accounts -> Grants] /\ minter \in [Mints -> Grants]
      /\ \A m \in Mints : minter[m].key \in Keys
      /\ spends \subseteq [approval : Ids, transfer : Ids]
      /\ takeovers \subseteq [appointment : Ids, mint : Ids]
  BY DEF PatternsInvariant, PatternsTypeOK
<1>2. Delegates(ix, id) /\ Appoints(ix, id) /\ Spends(ix, id) /\ TakesOver(ix, id)
  BY InstructionRuns, ApplyEffect DEF Run, PatternsInvariant
<1>3. delegate' \in [Accounts -> Grants]
  <2>1. [key |-> None, by |-> Before] \in Grants
    BY DEF Grants
  <2>2. Grantee(ix) \in Keys => [key |-> Grantee(ix), by |-> id] \in Grants
    BY DEF Grants
  <2> QED BY <1>1, <1>2, <2>1, <2>2 DEF Delegates
<1>4. minter' \in [Mints -> Grants] /\ \A m \in Mints : minter'[m].key \in Keys
  <2>1. CASE minter' = minter
    BY <1>1, <2>1
  <2>2. CASE minter' # minter
    <3>1. ix.data.new \in Keys /\ ix.accounts[1] \in Mints
      BY <1>2, <2>2, PatternsAssumption DEF Appoints, Appointing
    <3> DEFINE g == [key |-> ix.data.new, by |-> id]
               m == ix.accounts[1]
    <3>2. g \in Grants /\ g.key \in Keys /\ m \in Mints
      BY <3>1 DEF Grants
    <3>3. minter' = [minter EXCEPT ![m] = g]
      BY <1>2, <2>2 DEF Appoints
    <3> HIDE DEF g, m
    <3> QED BY <1>1, <3>2, <3>3
  <2> QED BY <2>1, <2>2
<1>5. spends' \subseteq [approval : Ids, transfer : Ids]
  <2>1. \A a \in Accounts : delegate[a].by # Before => delegate[a].by \in Ids
    BY <1>1 DEF Grants
  <2> QED BY <1>1, <1>2, <2>1 DEF Spends
<1>6. takeovers' \subseteq [appointment : Ids, mint : Ids]
  <2>1. \A m \in Mints : minter[m].by # Before => minter[m].by \in Ids
    BY <1>1 DEF Grants
  <2> QED BY <1>1, <1>2, <2>1 DEF TakesOver
<1> QED BY <1>1, <1>3, <1>4, <1>5, <1>6

LEMMA RunOrders ==
  ASSUME PatternsInvariant, NEW ix \in Instructions, NEW id \in Ids, Run(ix, id),
         \A p \in 1..Len(executed) : RunsBefore(executed[p].at, id),
         id.inner \/ ix.auth \in Signers \cup Multisigs
  PROVE  InOrder' /\ SignedAtTop'
<1> DEFINE i == [ix EXCEPT !.at = id]
<1>0. PICK n \in Nat : n = Len(executed)
  BY RunLonger DEF PatternsInvariant
<1>1. Longer(i) /\ \A p \in 1..(n + 1) : p \in 1..n \/ p = n + 1
  BY <1>0, RunLonger DEF PatternsInvariant
<1>2. i.at = id /\ i.auth = ix.auth
  BY InstructionRuns DEF PatternsInvariant, Runs
<1> HIDE DEF i
<1>3. /\ Len(executed') = n + 1 /\ executed'[n + 1] = i
      /\ \A p \in 1..n : executed'[p] = executed[p]
  BY <1>0, <1>1 DEF Longer
<1>4. InOrder'
  <2>1. SUFFICES ASSUME NEW p \in 1..(n + 1), NEW q \in 1..(n + 1), p < q
                 PROVE  RunsBefore(executed'[p].at, executed'[q].at)
    BY <1>3 DEF InOrder
  <2>2. p \in 1..n
    BY <1>1, <2>1
  <2>3. CASE q \in 1..n
    <3>1. RunsBefore(executed[p].at, executed[q].at)
      BY <1>0, <2>1, <2>2, <2>3 DEF PatternsInvariant, InOrder
    <3>2. executed'[p] = executed[p] /\ executed'[q] = executed[q]
      BY <2>2, <2>3, <1>3
    <3> QED BY <3>1, <3>2 DEF RunsBefore
  <2>4. CASE q = n + 1
    BY <1>0, <2>2, <2>4, <1>2, <1>3
  <2> QED BY <1>1, <2>3, <2>4
<1>5. SignedAtTop'
  <2>1. SUFFICES ASSUME NEW p \in 1..(n + 1)
                 PROVE  executed'[p].at.inner \/ executed'[p].auth \in Signers \cup Multisigs
    BY <1>3 DEF SignedAtTop
  <2>2. CASE p \in 1..n
    BY <1>0, <2>2, <1>3 DEF PatternsInvariant, SignedAtTop
  <2>3. CASE p = n + 1
    BY <2>3, <1>2, <1>3
  <2> QED BY <1>1, <2>2, <2>3
<1> QED BY <1>4, <1>5

LEMMA RunGrants ==
  ASSUME PatternsInvariant, NEW ix \in Instructions, NEW id \in Ids, Run(ix, id)
  PROVE  DelegatesKnown' /\ AppointmentsKnown'
<1> DEFINE i == [ix EXCEPT !.at = id]
<1>0. PICK n \in Nat : n = Len(executed)
  BY RunLonger DEF PatternsInvariant
<1>1. Longer(i)
  BY RunLonger DEF PatternsInvariant
<1>2. /\ i.at = id /\ i.name = ix.name /\ i.program = ix.program
      /\ i.accounts = ix.accounts /\ i.data = ix.data /\ i.auth = ix.auth /\ i.pays = ix.pays
  BY InstructionRuns DEF PatternsInvariant, Runs
<1> HIDE DEF i
<1>3. /\ Len(executed') = n + 1 /\ executed'[n + 1] = i
      /\ \A p \in 1..n : executed'[p] = executed[p]
      /\ n + 1 \in 1..(n + 1) /\ \A p \in 1..n : p \in 1..(n + 1)
  BY <1>0, <1>1 DEF Longer
<1>4. Delegates(ix, id) /\ Appoints(ix, id)
  BY InstructionRuns, ApplyEffect DEF Run, PatternsInvariant
<1>5. /\ delegate \in [Accounts -> Grants] /\ minter \in [Mints -> Grants]
  BY DEF PatternsInvariant, PatternsTypeOK
<1>6. DelegatesKnown'
  <2>1. SUFFICES ASSUME NEW a \in Accounts, delegate'[a].by # Before
                 PROVE  \E p \in 1..(n + 1) : GrantedBy(p, delegate[a])'
    BY <1>3 DEF DelegatesKnown
  <2>2. CASE delegate'[a] = delegate[a]
    <3>1. PICK p \in 1..n : GrantedBy(p, delegate[a])
      BY <1>0, <2>1, <2>2 DEF PatternsInvariant, DelegatesKnown
    <3>2. GrantedBy(p, delegate[a])'
      BY <1>3, <2>2, <3>1 DEF GrantedBy
    <3> QED BY <1>3, <3>2
  <2>3. CASE delegate'[a] # delegate[a]
    <3>1. PICK b \in Accounts :
             \/ delegate' = [delegate EXCEPT ![b] = [key |-> None, by |-> Before]]
             \/ /\ Approving(ix)
                /\ delegate' = [delegate EXCEPT ![b] = [key |-> Grantee(ix), by |-> id]]
      BY <1>4, <2>3 DEF Delegates
    <3>2. Approving(ix) /\ delegate'[a] = [key |-> Grantee(ix), by |-> id]
      BY <1>5, <2>1, <2>3, <3>1
    <3>3. Approving(i) /\ Grantee(i) = Grantee(ix)
      BY <1>2, <3>2 DEF Approving, Grantee
    <3>4. GrantedBy(n + 1, delegate[a])'
      BY <1>2, <1>3, <3>2, <3>3 DEF GrantedBy
    <3> QED BY <1>3, <3>4
  <2> QED BY <2>2, <2>3
<1>7. AppointmentsKnown'
  <2>1. SUFFICES ASSUME NEW m \in Mints, minter'[m].by # Before
                 PROVE  \E p \in 1..(n + 1) : AppointedBy(p, m, minter[m])'
    BY <1>3 DEF AppointmentsKnown
  <2>2. CASE minter'[m] = minter[m]
    <3>1. PICK p \in 1..n : AppointedBy(p, m, minter[m])
      BY <1>0, <2>1, <2>2 DEF PatternsInvariant, AppointmentsKnown
    <3>2. AppointedBy(p, m, minter[m])'
      BY <1>3, <2>2, <3>1 DEF AppointedBy
    <3> QED BY <1>3, <3>2
  <2>3. CASE minter'[m] # minter[m]
    <3>1. /\ Appointing(ix) /\ ix.data.type = 0 /\ ix.accounts[1] \in Mints
          /\ minter' = [minter EXCEPT ![ix.accounts[1]] = [key |-> ix.data.new, by |-> id]]
      BY <1>4, <2>3 DEF Appoints
    <3>2. ix.accounts[1] = m /\ minter'[m] = [key |-> ix.data.new, by |-> id]
      BY <1>5, <2>3, <3>1
    <3>3. Appointing(i)
      BY <1>2, <3>1 DEF Appointing
    <3>4. AppointedBy(n + 1, m, minter[m])'
      BY <1>2, <1>3, <3>1, <3>2, <3>3 DEF AppointedBy
    <3> QED BY <1>3, <3>4
  <2> QED BY <2>2, <2>3
<1> QED BY <1>6, <1>7

LEMMA RunUses ==
  ASSUME PatternsInvariant, NEW ix \in Instructions, NEW id \in Ids, Run(ix, id)
  PROVE  SpendsKnown' /\ TakeoversKnown'
<1> DEFINE i == [ix EXCEPT !.at = id]
<1>0. PICK n \in Nat : n = Len(executed)
  BY RunLonger DEF PatternsInvariant
<1>1. Longer(i)
  BY RunLonger DEF PatternsInvariant
<1>2. /\ i.at = id /\ i.name = ix.name /\ i.program = ix.program
      /\ i.accounts = ix.accounts /\ i.data = ix.data /\ i.auth = ix.auth /\ i.pays = ix.pays
      /\ Creating(ix) => ix.auth = minter[ix.accounts[1]].key
  BY InstructionRuns DEF PatternsInvariant, Runs
<1> HIDE DEF i
<1>3. /\ Len(executed') = n + 1 /\ executed'[n + 1] = i
      /\ \A p \in 1..n : executed'[p] = executed[p]
      /\ n + 1 \in 1..(n + 1) /\ \A p \in 1..n : p \in 1..(n + 1) /\ p < n + 1
  BY <1>0, <1>1 DEF Longer
<1>4. Spends(ix, id) /\ TakesOver(ix, id)
  BY InstructionRuns, ApplyEffect DEF Run, PatternsInvariant
<1>5. SpendsKnown'
  <2>1. SUFFICES ASSUME NEW s \in spends'
                 PROVE  \E p, q \in 1..(n + 1) : SpendsAt(s, p, q)'
    BY <1>3 DEF SpendsKnown
  <2>2. CASE s \in spends
    <3>1. PICK p \in 1..n, q \in 1..n : SpendsAt(s, p, q)
      BY <1>0, <2>2 DEF PatternsInvariant, SpendsKnown
    <3>2. SpendsAt(s, p, q)'
      BY <1>3, <3>1 DEF SpendsAt
    <3> QED BY <1>3, <3>2
  <2>3. CASE s \notin spends
    <3>1. PICK a \in Accounts :
             /\ Transferring(ix) /\ delegate[a].key = ix.auth /\ delegate[a].by # Before
             /\ s = [approval |-> delegate[a].by, transfer |-> id]
      BY <1>4, <2>3 DEF Spends
    <3>2. PICK p \in 1..n : GrantedBy(p, delegate[a])
      BY <1>0, <3>1 DEF PatternsInvariant, DelegatesKnown
    <3>3. Transferring(i)
      BY <1>2, <3>1 DEF Transferring
    <3>4. s.approval = delegate[a].by /\ s.transfer = id
      BY <3>1
    <3>5. SpendsAt(s, p, n + 1)'
      BY <1>2, <1>3, <3>1, <3>2, <3>3, <3>4 DEF SpendsAt, GrantedBy
    <3> QED BY <1>3, <3>5
  <2> QED BY <2>2, <2>3
<1>6. TakeoversKnown'
  <2>1. SUFFICES ASSUME NEW t \in takeovers'
                 PROVE  \E p, q \in 1..(n + 1) : TakesAt(t, p, q)'
    BY <1>3 DEF TakeoversKnown
  <2>2. CASE t \in takeovers
    <3>1. PICK p \in 1..n, q \in 1..n : TakesAt(t, p, q)
      BY <1>0, <2>2 DEF PatternsInvariant, TakeoversKnown
    <3>2. TakesAt(t, p, q)'
      BY <1>3, <3>1 DEF TakesAt
    <3> QED BY <1>3, <3>2
  <2>3. CASE t \notin takeovers
    <3> DEFINE m == ix.accounts[1]
    <3>1. /\ Creating(ix) /\ m \in Mints /\ minter[m].by # Before
          /\ t = [appointment |-> minter[m].by, mint |-> id]
      BY <1>4, <2>3 DEF TakesOver
    <3>2. PICK p \in 1..n : AppointedBy(p, m, minter[m])
      <4> HIDE DEF m
      <4> QED BY <1>0, <3>1 DEF PatternsInvariant, AppointmentsKnown
    <3>3. Creating(i)
      BY <1>2, <3>1 DEF Creating
    <3>4. t.appointment = minter[m].by /\ t.mint = id
      <4> HIDE DEF m
      <4> QED BY <3>1
    <3>5. TakesAt(t, p, n + 1)'
      BY <1>2, <1>3, <3>1, <3>2, <3>3, <3>4 DEF TakesAt, AppointedBy
    <3> QED BY <1>3, <3>5
  <2> QED BY <2>2, <2>3
<1> QED BY <1>5, <1>6

-----------------------------------------------------------------------------
(* The report *)

\* The steps that ran are different steps: their ids are.
LEMMA StepsDiffer ==
  ASSUME PatternsTypeOK, InOrder,
         NEW p \in 1..Len(executed), NEW q \in 1..Len(executed)
  PROVE  /\ executed[p] \in Step /\ executed[p].at \in Ids
         /\ executed[p].at = executed[q].at => p = q
         /\ Precedes(execution_key(executed[p].at), execution_key(executed[q].at)) <=> p < q
<1>1. executed \in Seq(Step) /\ Len(executed) \in Nat
  BY LenProperties DEF PatternsTypeOK
<1>2. executed[p] \in Step /\ executed[q] \in Step
  BY <1>1, ElementOfSeq
<1>3. executed[p].at \in Ids /\ executed[q].at \in Ids
  BY <1>2 DEF Step
<1>4. /\ p < q => RunsBefore(executed[p].at, executed[q].at)
      /\ q < p => RunsBefore(executed[q].at, executed[p].at)
  BY DEF InOrder
<1>5. p < q \/ q < p \/ p = q
  BY <1>1
<1>6. ~RunsBefore(executed[p].at, executed[p].at)
  BY <1>3, OrderIsStrict
<1>7. /\ p < q => executed[p].at # executed[q].at
      /\ q < p => executed[p].at # executed[q].at /\ ~RunsBefore(executed[p].at, executed[q].at)
  BY <1>3, <1>4, OrderIsStrict
<1>8. RunsBefore(executed[p].at, executed[q].at) <=> p < q
  <2>1. ~(p < q /\ q < p) /\ (p = q => ~(p < q))
    BY <1>1
  <2> QED BY <1>4, <1>5, <1>6, <1>7, <2>1
<1>9. Precedes(execution_key(executed[p].at), execution_key(executed[q].at))
        <=> RunsBefore(executed[p].at, executed[q].at)
  BY <1>3, KeysTellOrder
<1> QED BY <1>2, <1>3, <1>5, <1>7, <1>8, <1>9

\* all_instructions lists steps that ran, each once.
LEMMA AllInstructionsListed ==
  ASSUME PatternsTypeOK, InOrder, NEW meta \in BOOLEAN
  PROVE  /\ all_instructions(meta) \in Seq(Step) /\ Distinct(all_instructions(meta))
         /\ Range(all_instructions(meta)) \subseteq Range(executed)
<1> DEFINE inner == {ix \in ToSet(executed) : ix.at.inner}
           outside == ToSet(executed) \ inner
           front == Without(executed, inner)
           back == Without(executed, outside)
<1>1. executed \in Seq(Step) /\ DOMAIN executed = 1..Len(executed)
  BY LenProperties DEF PatternsTypeOK
<1>2. Distinct(executed)
  BY StepsDiffer DEF Distinct
<1>3. ToSet(executed) = Range(executed)
  BY DEF ToSet, Range
<1>4. /\ front \in Seq(Step) /\ Range(front) = Range(executed) \ inner /\ Distinct(front)
      /\ back \in Seq(Step) /\ Range(back) = Range(executed) \ outside /\ Distinct(back)
  <2> HIDE DEF inner, outside
  <2> QED BY <1>1, <1>2, WithoutProperties
<1>5. Range(front) \cap Range(back) = {}
  BY <1>3, <1>4
<1>6. /\ front \o back \in Seq(Step) /\ Distinct(front \o back)
      /\ Range(front \o back) = Range(front) \cup Range(back)
  <2> HIDE DEF front, back
  <2> QED BY <1>4, <1>5, ConcatDistinct
<1>7. front \o <<>> = front
  <2> HIDE DEF front
  <2> QED BY <1>4, ConcatEmptySeq
<1>8. CASE meta
  <2>1. all_instructions(meta) = front \o back
    BY <1>8 DEF all_instructions
  <2> HIDE DEF front, back
  <2> QED BY <1>4, <1>6, <2>1
<1>9. CASE ~meta
  <2>1. all_instructions(meta) = front \o <<>>
    BY <1>9 DEF all_instructions
  <2> HIDE DEF front, back
  <2> QED BY <1>4, <1>7, <2>1
<1> QED BY <1>8, <1>9

LEMMA PatternsInitLemma == ASSUME PatternsInit PROVE PatternsInvariant
<1> USE DEF PatternsInit
<1>1. executed \in Seq(Step) /\ Len(executed) = 0
  BY EmptySeq
<1>2. [key |-> None, by |-> Before] \in Grants
  BY DEF Grants
<1>3. \A m \in Mints : [key |-> MintAuthority[m], by |-> Before] \in Grants
  BY PatternsAssumption DEF Grants
<1>4. PatternsTypeOK
  BY <1>1, <1>2, <1>3, PatternsAssumption DEF PatternsTypeOK
<1>5. InOrder /\ NextComesAfter /\ SignedAtTop
  BY <1>1 DEF InOrder, NextComesAfter, SignedAtTop
<1>6. DelegatesKnown /\ AppointmentsKnown /\ SpendsKnown /\ TakeoversKnown /\ Judged
  BY DEF DelegatesKnown, AppointmentsKnown, SpendsKnown, TakeoversKnown, Judged
<1> QED BY <1>4, <1>5, <1>6 DEF PatternsInvariant

\* What every step that runs an instruction keeps.
LEMMA RunKeeps ==
  ASSUME PatternsInvariant, NEW ix \in Instructions, NEW id \in Ids, Run(ix, id),
         \A p \in 1..Len(executed) : RunsBefore(executed[p].at, id),
         id.inner \/ ix.auth \in Signers \cup Multisigs,
         top' \in Nat, sub' \in Nat, cpi' \in BOOLEAN
  PROVE  /\ PatternsTypeOK' /\ InOrder' /\ SignedAtTop'
         /\ DelegatesKnown' /\ AppointmentsKnown' /\ SpendsKnown' /\ TakeoversKnown' /\ Judged'
<1>1. PatternsTypeOK'
  <2>1. executed' \in Seq(Step)
    BY RunLonger DEF PatternsInvariant
  <2>2. reported' \in BOOLEAN
    BY DEF Run, PatternsInvariant, PatternsTypeOK
  <2> QED BY <2>1, <2>2, RunTypes DEF PatternsTypeOK
<1>2. InOrder' /\ SignedAtTop'
  BY RunOrders
<1>3. Judged'
  BY DEF Run, Judged, PatternsInvariant
<1> QED BY <1>1, <1>2, <1>3, RunGrants, RunUses

LEMMA TopLevelStep ==
  ASSUME PatternsInvariant, NEW ix \in Instructions, TopLevel(ix)
  PROVE  PatternsInvariant'
<1> DEFINE id == [inner |-> FALSE, index |-> top + 1, sub |-> 0]
<1>1. PICK t \in Nat : t = top + 1
  BY DEF PatternsInvariant, PatternsTypeOK
<1>2. id = [inner |-> FALSE, index |-> t, sub |-> 0] /\ id \in Ids
  BY <1>1 DEF Ids
<1>3. top' = t /\ sub' = 0 /\ cpi' \in BOOLEAN /\ Run(ix, id) /\ ix.auth \in Signers \cup Multisigs
  BY <1>1 DEF TopLevel
<1>4. \A p \in 1..Len(executed) : executed[p].at.index \in Nat /\ executed[p].at.index < t
  <2>1. \A p \in 1..Len(executed) : executed[p].at.index \in Nat /\ executed[p].at.index <= top
    BY StepsDiffer DEF PatternsInvariant, NextComesAfter, Ids
  <2>2. top \in Int
    BY DEF PatternsInvariant, PatternsTypeOK
  <2> QED BY <1>1, <2>1, <2>2
<1>5. \A p \in 1..Len(executed) : RunsBefore(executed[p].at, id)
  BY <1>2, <1>4 DEF RunsBefore
<1> HIDE DEF id
<1>6. /\ PatternsTypeOK' /\ InOrder' /\ SignedAtTop'
      /\ DelegatesKnown' /\ AppointmentsKnown' /\ SpendsKnown' /\ TakeoversKnown' /\ Judged'
  BY <1>2, <1>3, <1>5, RunKeeps
<1>7. NextComesAfter'
  <2> DEFINE i == [ix EXCEPT !.at = id]
  <2>1. /\ Longer(i) /\ i.at = id
        /\ \A p \in 1..(Len(executed) + 1) : p \in 1..Len(executed) \/ p = Len(executed) + 1
    BY <1>2, <1>3, RunLonger, InstructionRuns DEF PatternsInvariant, Runs
  <2> HIDE DEF i
  <2>2. SUFFICES ASSUME NEW p \in 1..(Len(executed) + 1)
                 PROVE  /\ executed'[p].at.index <= t
                        /\ ~(executed'[p].at.index = t /\ executed'[p].at.inner)
    BY <1>3, <2>1 DEF NextComesAfter, Longer
  <2>3. CASE p \in 1..Len(executed)
    BY <1>4, <2>1, <2>3 DEF Longer
  <2>4. CASE p = Len(executed) + 1
    BY <1>2, <2>1, <2>4 DEF Longer
  <2> QED BY <2>1, <2>3, <2>4
<1> QED BY <1>6, <1>7 DEF PatternsInvariant

LEMMA InnerStep ==
  ASSUME PatternsInvariant, NEW ix \in Instructions, Inner(ix)
  PROVE  PatternsInvariant'
<1> DEFINE id == [inner |-> TRUE, index |-> top, sub |-> sub]
<1>1. PICK t \in Nat, s \in Nat : t = top /\ s = sub
  BY DEF PatternsInvariant, PatternsTypeOK, Inner
<1>2. id = [inner |-> TRUE, index |-> t, sub |-> s] /\ id \in Ids
  BY <1>1 DEF Ids
<1>3. top' = t /\ sub' = s + 1 /\ cpi' \in BOOLEAN /\ Run(ix, id)
  BY <1>1 DEF Inner, PatternsInvariant, PatternsTypeOK
<1>4. \A p \in 1..Len(executed) :
        /\ executed[p].at.index \in Nat /\ executed[p].at.index <= t
        /\ executed[p].at.sub \in Nat /\ executed[p].at.inner \in BOOLEAN
        /\ executed[p].at.index = t /\ executed[p].at.inner => executed[p].at.sub < s
  BY <1>1, StepsDiffer DEF PatternsInvariant, NextComesAfter, Ids
<1>5. \A p \in 1..Len(executed) : RunsBefore(executed[p].at, id)
  BY <1>2, <1>4 DEF RunsBefore
<1>5a. id.inner /\ top' \in Nat /\ sub' \in Nat
  BY <1>2, <1>3
<1> HIDE DEF id
<1>6. /\ PatternsTypeOK' /\ InOrder' /\ SignedAtTop'
      /\ DelegatesKnown' /\ AppointmentsKnown' /\ SpendsKnown' /\ TakeoversKnown' /\ Judged'
  BY <1>2, <1>3, <1>5, <1>5a, RunKeeps
<1>7. NextComesAfter'
  <2> DEFINE i == [ix EXCEPT !.at = id]
  <2>1. /\ Longer(i) /\ i.at = id
        /\ \A p \in 1..(Len(executed) + 1) : p \in 1..Len(executed) \/ p = Len(executed) + 1
    BY <1>2, <1>3, RunLonger, InstructionRuns DEF PatternsInvariant, Runs
  <2> HIDE DEF i
  <2>2. SUFFICES ASSUME NEW p \in 1..(Len(executed) + 1)
                 PROVE  /\ executed'[p].at.index <= t
                        /\ executed'[p].at.index = t /\ executed'[p].at.inner
                             => executed'[p].at.sub < s + 1
    BY <1>3, <2>1 DEF NextComesAfter, Longer
  <2>3. CASE p \in 1..Len(executed)
    BY <1>4, <2>1, <2>3 DEF Longer
  <2>4. CASE p = Len(executed) + 1
    BY <1>2, <2>1, <2>4 DEF Longer
  <2> QED BY <2>1, <2>3, <2>4
<1> QED BY <1>6, <1>7 DEF PatternsInvariant

LEMMA CallProgramStep ==
  ASSUME PatternsInvariant, CallProgram
  PROVE  PatternsInvariant'
<1> USE DEF CallProgram, ledger
<1>1. top' = top + 1 /\ top' \in Nat /\ sub' = 0 /\ cpi' = TRUE /\ UNCHANGED executed
  BY DEF PatternsInvariant, PatternsTypeOK
<1>2. PatternsTypeOK'
  BY <1>1 DEF PatternsInvariant, PatternsTypeOK
<1>3. NextComesAfter'
  <2>1. ASSUME NEW p \in 1..Len(executed)
        PROVE  executed[p].at.index <= top + 1 /\ executed[p].at.index # top + 1
    <3>1. executed[p].at.index \in Nat /\ executed[p].at.index <= top /\ top \in Int
      BY StepsDiffer DEF PatternsInvariant, PatternsTypeOK, NextComesAfter, Ids
    <3> QED BY <3>1
  <2> QED BY <1>1, <2>1 DEF NextComesAfter
<1>4. InOrder' /\ SignedAtTop'
  BY DEF PatternsInvariant, InOrder, SignedAtTop
<1>5. DelegatesKnown' /\ AppointmentsKnown' /\ SpendsKnown' /\ TakeoversKnown' /\ Judged'
  BY DEF PatternsInvariant, DelegatesKnown, AppointmentsKnown, SpendsKnown, TakeoversKnown,
         Judged, GrantedBy, AppointedBy, SpendsAt, TakesAt
<1> QED BY <1>2, <1>3, <1>4, <1>5 DEF PatternsInvariant

LEMMA DetectStep ==
  ASSUME PatternsInvariant, DetectPatterns
  PROVE  PatternsInvariant'
<1>1. UNCHANGED <<top, sub, cpi, executed, delegate, minter, spends, takeovers>> /\ reported'
  BY DEF DetectPatterns, ledger
<1>2. PatternsTypeOK'
  BY <1>1 DEF DetectPatterns, PatternsInvariant, PatternsTypeOK
<1>3. InOrder' /\ NextComesAfter' /\ SignedAtTop'
  BY <1>1 DEF PatternsInvariant, InOrder, NextComesAfter, SignedAtTop
<1>4. DelegatesKnown' /\ AppointmentsKnown' /\ SpendsKnown' /\ TakeoversKnown'
  BY <1>1 DEF PatternsInvariant, DelegatesKnown, AppointmentsKnown, SpendsKnown, TakeoversKnown,
              GrantedBy, AppointedBy, SpendsAt, TakesAt
<1>5. Judged'
  <2>1. PICK meta \in BOOLEAN : listed' = all_instructions(meta)
    BY DEF DetectPatterns
  <2>2. listed' \in Seq(Step) /\ Distinct(listed') /\ Range(listed') \subseteq Range(executed)
    BY <2>1, AllInstructionsListed DEF PatternsInvariant
  <2>3. flags' = detect_patterns(listed')
    BY DEF DetectPatterns
  <2> QED BY <1>1, <2>2, <2>3 DEF Judged
<1> QED BY <1>2, <1>3, <1>4, <1>5 DEF PatternsInvariant

-----------------------------------------------------------------------------
(* What the report shows of the execution *)

LEMMA MinIn ==
  ASSUME NEW n \in Nat, NEW T \in SUBSET (1..n), T # {}
  PROVE  Min(T) \in T
<1>1. \E m \in T : \A k \in T : m <= k
  BY Smallest
<1> QED BY <1>1 DEF Min

LEMMA ListedRan ==
  ASSUME PatternsInvariant, reported
  PROVE  /\ Len(listed) \in Nat /\ DOMAIN listed = 1..Len(listed)
         /\ DOMAIN executed = 1..Len(executed)
         /\ \A i \in DOMAIN listed :
              listed[i] \in Step /\ \E p \in 1..Len(executed) : listed[i] = executed[p]
         /\ \A i, j \in DOMAIN listed : listed[i].at = listed[j].at => i = j
<1>1. /\ listed \in Seq(Step) /\ Distinct(listed) /\ Range(listed) \subseteq Range(executed)
      /\ executed \in Seq(Step)
  BY DEF PatternsInvariant, Judged, PatternsTypeOK
<1>2. /\ Len(listed) \in Nat /\ DOMAIN listed = 1..Len(listed)
      /\ DOMAIN executed = 1..Len(executed)
  BY <1>1, LenProperties
<1>3. ASSUME NEW i \in DOMAIN listed
      PROVE  listed[i] \in Step /\ \E p \in 1..Len(executed) : listed[i] = executed[p]
  <2>1. listed[i] \in Range(executed)
    BY <1>1 DEF Range
  <2>2. listed[i] \in Step
    BY <1>1, <1>2, ElementOfSeq
  <2> QED BY <1>2, <2>1, <2>2 DEF Range
<1>4. ASSUME NEW i \in DOMAIN listed, NEW j \in DOMAIN listed, listed[i].at = listed[j].at
      PROVE  i = j
  <2>1. PICK p \in 1..Len(executed) : listed[i] = executed[p]
    BY <1>3
  <2>2. PICK q \in 1..Len(executed) : listed[j] = executed[q]
    BY <1>3
  <2>3. p = q
    BY <1>4, <2>1, <2>2, StepsDiffer DEF PatternsInvariant
  <2> QED BY <1>1, <1>2, <2>1, <2>2, <2>3 DEF Distinct
<1> QED BY <1>2, <1>3, <1>4

LEMMA VisibleListed ==
  ASSUME PatternsInvariant, reported, NEW p \in 1..Len(executed), Visible(executed[p].at)
  PROVE  \E i \in DOMAIN listed : listed[i] = executed[p]
<1>1. PICK i \in DOMAIN listed : listed[i].at = executed[p].at
  BY DEF Visible, ToSet
<1>2. PICK q \in 1..Len(executed) : listed[i] = executed[q]
  BY ListedRan
<1>3. q = p
  BY <1>1, <1>2, StepsDiffer DEF PatternsInvariant
<1> QED BY <1>2, <1>3

LEMMA PositionIs ==
  ASSUME PatternsInvariant, NEW p \in 1..Len(executed)
  PROVE  Position(executed[p].at) = p /\ Instruction(executed[p].at) = executed[p]
<1>1. DOMAIN executed = 1..Len(executed)
  BY LenProperties DEF PatternsInvariant, PatternsTypeOK
<1>2. \A q \in 1..Len(executed) : executed[q].at = executed[p].at => q = p
  BY StepsDiffer DEF PatternsInvariant
<1>3. Position(executed[p].at) = p
  BY <1>1, <1>2 DEF Position
<1> QED BY <1>3 DEF Instruction

\* The first approval that fits a transfer, and the first mint that fits an appointment.
FirstApproval(l, t) == Min({a \in DOMAIN l : ApproveThenTransfer(l[a], l[t])})
FirstMint(l, s) == Min({m \in DOMAIN l : MintAuthorityTakeover(l[s], l[m])})

SpendFlag(l, t) ==
  Flag("approve_then_transfer", l[t].at, <<l[FirstApproval(l, t)].at, l[t].at>>)
AppointmentFlag(l, s) ==
  Flag("mint_authority_takeover", l[s].at, <<l[s].at, l[FirstMint(l, s)].at>>)

LEMMA ApproveFlag ==
  ASSUME NEW l, NEW f \in approve_then_transfer(l)
  PROVE  /\ f.rule = "approve_then_transfer"
         /\ \E t \in DOMAIN l :
              /\ \E a \in DOMAIN l : ApproveThenTransfer(l[a], l[t])
              /\ f = SpendFlag(l, t)
<1>1. PICK t \in DOMAIN l :
         /\ \E a \in DOMAIN l : ApproveThenTransfer(l[a], l[t])
         /\ f = SpendFlag(l, t)
  BY Zenon DEF approve_then_transfer, FirstApproval, SpendFlag
<1>2. f.rule = "approve_then_transfer"
  BY <1>1 DEF Flag, SpendFlag
<1> QED BY <1>1, <1>2

LEMMA NonsignerFlag ==
  ASSUME NEW l, NEW f \in nonsigner_transfer_authority(l)
  PROVE  /\ f.rule = "nonsigner_transfer_authority"
         /\ \E i \in DOMAIN l :
              /\ ~l[i].at.inner /\ authority(l[i]) \notin Signers \cup {None}
              /\ f = Flag("nonsigner_transfer_authority", l[i].at, <<l[i].at>>)
<1>1. PICK i \in DOMAIN l :
         /\ ~l[i].at.inner /\ authority(l[i]) \notin Signers \cup {None}
         /\ f = Flag("nonsigner_transfer_authority", l[i].at, <<l[i].at>>)
  BY Zenon DEF nonsigner_transfer_authority
<1>2. f.rule = "nonsigner_transfer_authority"
  BY <1>1 DEF Flag
<1> QED BY <1>1, <1>2

LEMMA FeePayerFlag ==
  ASSUME NEW l, NEW f \in fee_payer_recipient(l)
  PROVE  f.rule = "fee_payer_recipient"
<1>1. PICK i \in DOMAIN l : f = Flag("fee_payer_recipient", l[i].at, <<l[i].at>>)
  BY Zenon DEF fee_payer_recipient
<1> QED BY <1>1 DEF Flag

\* The listed instructions that are seen to pay d, and where they ran.
PaidTo(l, d) == Without(l, {ix \in ToSet(l) : transfer_of_money(ix) # d})
PlacesOf(s) == [i \in DOMAIN s |-> s[i].at]

LEMMA RepeatedFlag ==
  ASSUME NEW l, NEW f \in repeated_destination(l)
  PROVE  /\ f.rule = "repeated_destination"
         /\ \E d \in Accounts \cup Keys :
              /\ Len(PaidTo(l, d)) >= 2
              /\ f = Flag("repeated_destination", PaidTo(l, d)[1].at, PlacesOf(PaidTo(l, d)))
<1>1. PICK d \in Accounts \cup Keys :
         /\ Len(PaidTo(l, d)) >= 2
         /\ f = Flag("repeated_destination", PaidTo(l, d)[1].at, PlacesOf(PaidTo(l, d)))
  BY Zenon DEF repeated_destination, PaidTo, PlacesOf
<1>2. f.rule = "repeated_destination"
  BY <1>1 DEF Flag
<1> QED BY <1>1, <1>2

LEMMA TakeoverFlag ==
  ASSUME NEW l, NEW f \in mint_authority_takeover(l)
  PROVE  /\ f.rule = "mint_authority_takeover"
         /\ \E s \in DOMAIN l :
              /\ \E m \in DOMAIN l : MintAuthorityTakeover(l[s], l[m])
              /\ f = AppointmentFlag(l, s)
<1>1. PICK s \in DOMAIN l :
         /\ \E m \in DOMAIN l : MintAuthorityTakeover(l[s], l[m])
         /\ f = AppointmentFlag(l, s)
  BY Zenon DEF mint_authority_takeover, FirstMint, AppointmentFlag
<1>2. f.rule = "mint_authority_takeover"
  BY <1>1 DEF Flag, AppointmentFlag
<1> QED BY <1>1, <1>2

\* The flags of each rule are those that its function makes.
LEMMA FlagsOfRules ==
  ASSUME PatternsInvariant, reported
  PROVE  /\ Flagged("approve_then_transfer") = approve_then_transfer(listed)
         /\ Flagged("nonsigner_transfer_authority") = nonsigner_transfer_authority(listed)
         /\ Flagged("repeated_destination") = repeated_destination(listed)
         /\ Flagged("mint_authority_takeover") = mint_authority_takeover(listed)
<1>1. flags = detect_patterns(listed)
  BY DEF PatternsInvariant, Judged
<1>2. \A f \in approve_then_transfer(listed) : f.rule = "approve_then_transfer"
  BY ApproveFlag
<1>3. \A f \in nonsigner_transfer_authority(listed) : f.rule = "nonsigner_transfer_authority"
  BY NonsignerFlag
<1>4. \A f \in fee_payer_recipient(listed) : f.rule = "fee_payer_recipient"
  BY FeePayerFlag
<1>5. \A f \in repeated_destination(listed) : f.rule = "repeated_destination"
  BY RepeatedFlag
<1>6. \A f \in mint_authority_takeover(listed) : f.rule = "mint_authority_takeover"
  BY TakeoverFlag
<1> QED BY <1>1, <1>2, <1>3, <1>4, <1>5, <1>6 DEF Flagged, detect_patterns

\* A token instruction is of the shape its name says.
LEMMA NamesTellShape ==
  ASSUME NEW i, Shaped(i)
  PROVE  /\ is_token(i, {"Approve", "ApproveChecked"}) <=> Approving(i)
         /\ is_token(i, {"Transfer", "TransferChecked"}) <=> Transferring(i)
         /\ is_token(i, {"SetAuthority"}) <=> Appointing(i)
         /\ is_token(i, {"MintTo", "MintToChecked"}) <=> Creating(i)
<1> USE DEF is_token, MintNames
<1>1. CASE Approving(i)
  BY <1>1 DEF Approving, Transferring, Appointing, Creating
<1>2. CASE Revoking(i)
  BY <1>2 DEF Revoking, Approving, Transferring, Appointing, Creating
<1>3. CASE Transferring(i)
  BY <1>3 DEF Approving, Transferring, Appointing, Creating
<1>4. CASE Creating(i)
  BY <1>4 DEF Approving, Transferring, Appointing, Creating
<1>5. CASE Appointing(i)
  BY <1>5 DEF Approving, Transferring, Appointing, Creating
<1>6. CASE Paying(i)
  BY <1>6 DEF Paying, Approving, Transferring, Appointing, Creating
<1> QED BY <1>1, <1>2, <1>3, <1>4, <1>5, <1>6 DEF Shaped

\* Instructions of one tree are of one lineage.
LEMMA TreeIsLineage ==
  ASSUME NEW a \in Ids, NEW b \in Ids, OneTree(a, b)
  PROVE  same_lineage(a, b)
BY DEF Ids, OneTree, same_lineage

\* What approve_then_transfer compares is whether the transfer ran later, by the grantee.
LEMMA SpendJudged ==
  ASSUME PatternsInvariant, NEW p \in 1..Len(executed), NEW q \in 1..Len(executed)
  PROVE  ApproveThenTransfer(executed[p], executed[q])
           <=> /\ Approving(executed[p]) /\ Transferring(executed[q])
               /\ same_lineage(executed[p].at, executed[q].at)
               /\ p < q /\ executed[q].auth = Grantee(executed[p])
<1>1. Shaped(executed[p]) /\ Shaped(executed[q])
  BY StepsDiffer DEF PatternsInvariant, Step
<1>2. Precedes(execution_key(executed[p].at), execution_key(executed[q].at)) <=> p < q
  BY StepsDiffer DEF PatternsInvariant
<1>3. /\ is_token(executed[p], {"Approve", "ApproveChecked"}) <=> Approving(executed[p])
      /\ is_token(executed[q], {"Transfer", "TransferChecked"}) <=> Transferring(executed[q])
  BY <1>1, NamesTellShape
<1>4. Approving(executed[p]) => approved(executed[p]) = Grantee(executed[p])
  BY ApproveRead
<1>5. Transferring(executed[q])
        => role_account(executed[q], "authority", 0) = executed[q].auth
  BY TransferRead
<1> QED BY <1>2, <1>3, <1>4, <1>5 DEF ApproveThenTransfer

\* Every power given in the transaction and used in it is seen, if both are.
LEMMA DelegatedSpendFlaggedLemma == ASSUME PatternsInvariant PROVE DelegatedSpendFlagged
<1>1. SUFFICES ASSUME reported, NEW s \in spends, Visible(s.approval), Visible(s.transfer),
                      OneTree(s.approval, s.transfer)
               PROVE  \E f \in Flagged("approve_then_transfer") : f.about[2] = s.transfer
  BY DEF DelegatedSpendFlagged
<1>2. PICK p \in 1..Len(executed), q \in 1..Len(executed) : SpendsAt(s, p, q)
  BY DEF PatternsInvariant, SpendsKnown
<1>3. PICK i \in DOMAIN listed : listed[i] = executed[p]
  BY <1>1, <1>2, VisibleListed DEF SpendsAt
<1>4. PICK j \in DOMAIN listed : listed[j] = executed[q]
  BY <1>1, <1>2, VisibleListed DEF SpendsAt
<1>5. same_lineage(executed[p].at, executed[q].at)
  <2>1. executed[p].at \in Ids /\ executed[q].at \in Ids
    BY StepsDiffer DEF PatternsInvariant
  <2> QED BY <2>1, <1>1, <1>2, TreeIsLineage DEF SpendsAt
<1>6. ApproveThenTransfer(listed[i], listed[j])
  BY <1>2, <1>3, <1>4, <1>5, SpendJudged DEF SpendsAt
<1> DEFINE f == SpendFlag(listed, j)
<1>7. f \in approve_then_transfer(listed)
  <2>1. j \in {t \in DOMAIN listed :
                 \E a \in DOMAIN listed : ApproveThenTransfer(listed[a], listed[t])}
    BY <1>6
  <2> QED BY <2>1, Zenon DEF approve_then_transfer, FirstApproval, SpendFlag
<1>8. f.about[2] = s.transfer
  <2>1. f.about[2] = listed[j].at
    BY DEF Flag, SpendFlag
  <2> HIDE DEF f
  <2> QED BY <2>1, <1>2, <1>4 DEF SpendsAt
<1> HIDE DEF f
<1> QED BY <1>1, <1>7, <1>8, FlagsOfRules

\* What the rule reports of one flag.
LEMMA DrainOf ==
  ASSUME PatternsInvariant, reported, NEW f \in Flagged("approve_then_transfer")
  PROVE  \E j \in DOMAIN listed, p, q \in 1..Len(executed) :
           /\ listed[j] = executed[q] /\ p < q /\ executed[q].auth = Grantee(executed[p])
           /\ f = SpendFlag(listed, j)
           /\ f.about[1] = executed[p].at /\ f.about[2] = executed[q].at
<1>1. PICK j \in DOMAIN listed :
         /\ \E a \in DOMAIN listed : ApproveThenTransfer(listed[a], listed[j])
         /\ f = SpendFlag(listed, j)
  BY ApproveFlag, FlagsOfRules
<1> DEFINE i == FirstApproval(listed, j)
<1>2. i \in DOMAIN listed /\ ApproveThenTransfer(listed[i], listed[j])
  <2> DEFINE T == {a \in DOMAIN listed : ApproveThenTransfer(listed[a], listed[j])}
  <2>1. T \in SUBSET (1..Len(listed)) /\ T # {} /\ Len(listed) \in Nat
    BY <1>1, ListedRan
  <2>2. Min(T) \in T
    <3> HIDE DEF T
    <3> QED BY <2>1, MinIn
  <2>3. i = Min(T)
    BY DEF FirstApproval
  <2> HIDE DEF i
  <2> QED BY <2>2, <2>3
<1>3. f.about[1] = listed[i].at /\ f.about[2] = listed[j].at
  BY <1>1 DEF Flag, SpendFlag
<1> HIDE DEF i
<1>4. PICK p \in 1..Len(executed) : listed[i] = executed[p]
  BY <1>2, ListedRan
<1>5. PICK q \in 1..Len(executed) : listed[j] = executed[q]
  BY ListedRan
<1>6. p < q /\ executed[q].auth = Grantee(executed[p])
  BY <1>2, <1>4, <1>5, SpendJudged
<1> QED BY <1>1, <1>3, <1>4, <1>5, <1>6

LEMMA DrainFollowsApprovalLemma == ASSUME PatternsInvariant PROVE DrainFollowsApproval
<1>1. CASE ~reported
  BY <1>1 DEF DrainFollowsApproval, Flagged, PatternsInvariant, Judged
<1>2. CASE reported
  <2>1. ASSUME NEW f \in Flagged("approve_then_transfer")
        PROVE  /\ Position(f.about[1]) < Position(f.about[2])
               /\ Instruction(f.about[2]).auth = Grantee(Instruction(f.about[1]))
    <3>1. PICK j \in DOMAIN listed, p \in 1..Len(executed), q \in 1..Len(executed) :
             /\ p < q /\ executed[q].auth = Grantee(executed[p])
             /\ f.about[1] = executed[p].at /\ f.about[2] = executed[q].at
      BY <1>2, DrainOf
    <3>2. /\ Position(f.about[1]) = p /\ Position(f.about[2]) = q
          /\ Instruction(f.about[1]) = executed[p] /\ Instruction(f.about[2]) = executed[q]
      BY <3>1, PositionIs
    <3> QED BY <3>1, <3>2
  <2>2. ASSUME NEW f \in Flagged("approve_then_transfer"),
               NEW g \in Flagged("approve_then_transfer"), f.about[2] = g.about[2]
        PROVE  f = g
    <3>1. PICK i \in DOMAIN listed :
             /\ f = SpendFlag(listed, i)
             /\ f.about[2] = listed[i].at
      BY <1>2, DrainOf
    <3>2. PICK j \in DOMAIN listed :
             /\ g = SpendFlag(listed, j)
             /\ g.about[2] = listed[j].at
      BY <1>2, DrainOf
    <3>3. i = j
      BY <1>2, <2>2, <3>1, <3>2, ListedRan
    <3> QED BY <3>1, <3>2, <3>3
  <2> QED BY <2>1, <2>2 DEF DrainFollowsApproval
<1> QED BY <1>1, <1>2

\* What mint_authority_takeover compares, of an appointment and a mint that ran later.
LEMMA TakeoverJudged ==
  ASSUME PatternsInvariant, NEW p \in 1..Len(executed), NEW q \in 1..Len(executed), NEW t,
         TakesAt(t, p, q), OneTree(t.appointment, t.mint)
  PROVE  MintAuthorityTakeover(executed[p], executed[q])
<1>1. Shaped(executed[p]) /\ Shaped(executed[q])
  BY StepsDiffer DEF PatternsInvariant, Step
<1>2. /\ Appointing(executed[p]) /\ Creating(executed[q]) /\ p < q /\ executed[p].data.type = 0
      /\ executed[q].accounts[1] = executed[p].accounts[1]
      /\ executed[q].auth = executed[p].data.new
      /\ OneTree(executed[p].at, executed[q].at)
  BY DEF TakesAt
<1>3. /\ is_token(executed[p], {"SetAuthority"})
      /\ is_token(executed[q], {"MintTo", "MintToChecked"})
  BY <1>1, <1>2, NamesTellShape
<1>4. executed[p].at \in Ids /\ executed[q].at \in Ids /\ executed[p].at # executed[q].at
  <2>1. p # q
    BY <1>2
  <2> QED BY <2>1, StepsDiffer DEF PatternsInvariant
<1>5. same_lineage(executed[p].at, executed[q].at)
  BY <1>2, <1>4, TreeIsLineage
<1>6. /\ role_account(executed[q], "mint", 0) = executed[q].accounts[1]
      /\ role_account(executed[q], "authority", 2) = executed[q].auth
      /\ role_account(executed[p], "account", 0) = executed[p].accounts[1]
  BY <1>2, MintRead, AppointmentRead
<1> QED BY <1>2, <1>3, <1>4, <1>5, <1>6 DEF MintAuthorityTakeover

LEMMA TakeoverFlaggedLemma == ASSUME PatternsInvariant PROVE TakeoverFlagged
<1>1. SUFFICES ASSUME reported, NEW t \in takeovers, Visible(t.appointment), Visible(t.mint),
                      OneTree(t.appointment, t.mint)
               PROVE  \E f \in Flagged("mint_authority_takeover") : f.about[1] = t.appointment
  BY DEF TakeoverFlagged
<1>2. PICK p \in 1..Len(executed), q \in 1..Len(executed) : TakesAt(t, p, q)
  BY DEF PatternsInvariant, TakeoversKnown
<1>3. PICK i \in DOMAIN listed : listed[i] = executed[p]
  BY <1>1, <1>2, VisibleListed DEF TakesAt
<1>4. PICK j \in DOMAIN listed : listed[j] = executed[q]
  BY <1>1, <1>2, VisibleListed DEF TakesAt
<1>5. MintAuthorityTakeover(listed[i], listed[j])
  BY <1>1, <1>2, <1>3, <1>4, TakeoverJudged
<1> DEFINE f == AppointmentFlag(listed, i)
<1>6. f \in mint_authority_takeover(listed)
  <2>1. i \in {s \in DOMAIN listed :
                 \E m \in DOMAIN listed : MintAuthorityTakeover(listed[s], listed[m])}
    BY <1>5
  <2> QED BY <2>1, Zenon DEF mint_authority_takeover, FirstMint, AppointmentFlag
<1>7. f.about[1] = t.appointment
  <2>1. f.about[1] = listed[i].at
    BY DEF Flag, AppointmentFlag
  <2> HIDE DEF f
  <2> QED BY <2>1, <1>2, <1>3 DEF TakesAt
<1> HIDE DEF f
<1> QED BY <1>1, <1>6, <1>7, FlagsOfRules

\* The top-level instructions whose authority does not sign.
Unsigned(ix) ==
  /\ ~ix.at.inner
  /\ \/ is_token(ix, {"Transfer", "TransferChecked"}) /\ ix.auth \in Multisigs
     \/ ix.name = "TransferWithSeed"

LEMMA UnsignedSeen ==
  ASSUME PatternsInvariant, reported, NEW i \in DOMAIN listed
  PROVE  Unsigned(listed[i])
           <=> ~listed[i].at.inner /\ authority(listed[i]) \notin Signers \cup {None}
<1> DEFINE ix == listed[i]
<1>1. PICK p \in 1..Len(executed) : ix = executed[p]
  BY ListedRan
<1>2. /\ Shaped(ix) /\ ix.auth \in Keys
      /\ ix.at.inner \/ ix.auth \in Signers \cup Multisigs
  BY <1>1, StepsDiffer DEF PatternsInvariant, SignedAtTop, Step
<1> HIDE DEF ix
<1>3. authority(ix) = IF is_token(ix, TransferNames) THEN ix.auth
                      ELSE IF ix.name = "TransferWithSeed" THEN Derived ELSE None
  BY <1>2, AuthorityRead
<1>4. CASE is_token(ix, TransferNames)
  <2>1. ix.name # "TransferWithSeed"
    BY <1>4 DEF is_token, TransferNames
  <2> QED BY <1>2, <1>3, <1>4, <2>1, PatternsAssumption DEF Unsigned, TransferNames, ix
<1>5. CASE ~is_token(ix, TransferNames)
  BY <1>3, <1>5, PatternsAssumption DEF Unsigned, TransferNames, ix
<1> QED BY <1>4, <1>5

LEMMA NonsignerLemma == ASSUME PatternsInvariant PROVE NonsignerExplained
<1>1. SUFFICES ASSUME reported
               PROVE  {f.about[1] : f \in Flagged("nonsigner_transfer_authority")}
                        = {ix.at : ix \in {ix \in ToSet(listed) : Unsigned(ix)}}
  BY Zenon DEF NonsignerExplained, Unsigned
<1>2. ASSUME NEW f \in Flagged("nonsigner_transfer_authority")
      PROVE  \E ix \in ToSet(listed) : Unsigned(ix) /\ f.about[1] = ix.at
  <2>1. PICK i \in DOMAIN listed :
           /\ ~listed[i].at.inner /\ authority(listed[i]) \notin Signers \cup {None}
           /\ f = Flag("nonsigner_transfer_authority", listed[i].at, <<listed[i].at>>)
    BY <1>1, FlagsOfRules, NonsignerFlag
  <2>2. Unsigned(listed[i])
    BY <1>1, <2>1, UnsignedSeen
  <2>3. f.about[1] = listed[i].at
    BY <2>1 DEF Flag
  <2> QED BY <2>2, <2>3 DEF ToSet
<1>3. ASSUME NEW ix \in ToSet(listed), Unsigned(ix)
      PROVE  \E f \in Flagged("nonsigner_transfer_authority") : f.about[1] = ix.at
  <2>1. PICK i \in DOMAIN listed : ix = listed[i]
    BY DEF ToSet
  <2>2. ~listed[i].at.inner /\ authority(listed[i]) \notin Signers \cup {None}
    BY <1>1, <1>3, <2>1, UnsignedSeen
  <2> DEFINE f == Flag("nonsigner_transfer_authority", listed[i].at, <<listed[i].at>>)
  <2>3. f \in nonsigner_transfer_authority(listed)
    BY <2>2, Zenon DEF nonsigner_transfer_authority
  <2>4. f.about[1] = ix.at
    BY <2>1 DEF Flag
  <2> HIDE DEF f
  <2> QED BY <1>1, <2>3, <2>4, FlagsOfRules
<1> QED BY <1>2, <1>3

-----------------------------------------------------------------------------
(* Repeated destinations *)

\* Distinct elements are as many as there are of them.
LEMMA DistinctCardinality ==
  ASSUME NEW S, NEW s \in Seq(S), Distinct(s)
  PROVE  Cardinality(Range(s)) = Len(s)
<1> DEFINE n == Len(s)
<1>1. n \in Nat /\ DOMAIN s = 1..n /\ s \in [1..n -> S]
  BY LenProperties
<1>2. Range(s) = {s[i] : i \in 1..n}
  BY <1>1 DEF Range
<1>3. s \in [1..n -> Range(s)]
  BY <1>1, <1>2
<1>4. \A i, j \in 1..n : s[i] = s[j] => i = j
  BY DEF Distinct
<1> HIDE DEF n
<1>5. s \in Bijection(1..n, Range(s))
  BY <1>1, <1>2, <1>3, <1>4 DEF Bijection, Injection, Surjection, IsInjective
<1>6. Cardinality(Range(s)) = n
  BY <1>1, <1>5, FS_CountingElements DEF ExistsBijection
<1> QED BY <1>6 DEF n

\* The instructions that paid d, as FanInNamed counts them.
PayingOf(d) ==
  {ix.at : ix \in {ix \in ToSet(listed) : ix.pays = d /\ ix.name # "TransferWithSeed"}}

\* What the rule collects for d is just that, each instruction once.
LEMMA PaidToCounts ==
  ASSUME PatternsInvariant, reported, NEW d \in Accounts \cup Keys
  PROVE  /\ ToSet(PlacesOf(PaidTo(listed, d))) = PayingOf(d)
         /\ Len(PlacesOf(PaidTo(listed, d))) = Len(PaidTo(listed, d))
         /\ Cardinality(PayingOf(d)) = Len(PaidTo(listed, d))
<1> DEFINE to == PaidTo(listed, d)
           places == PlacesOf(to)
           gone == {ix \in ToSet(listed) : transfer_of_money(ix) # d}
           n == Len(to)
<1>1. listed \in Seq(Step) /\ Distinct(listed)
  BY DEF PatternsInvariant, Judged
<1>2. to \in Seq(Step) /\ Range(to) = Range(listed) \ gone /\ Distinct(to)
  <2>1. to = Without(listed, gone)
    BY DEF PaidTo
  <2> HIDE DEF to, gone
  <2> QED BY <1>1, <2>1, WithoutProperties
<1>3. Range(listed) = ToSet(listed) /\ Range(listed) = {listed[i] : i \in DOMAIN listed}
  BY DEF Range, ToSet
<1>4. ASSUME NEW ix \in Range(listed)
      PROVE  /\ ix \in gone <=> ~(ix.pays = d /\ ix.name # "TransferWithSeed")
             /\ ix.at \in Ids
             /\ \A jx \in Range(listed) : ix.at = jx.at => ix = jx
  <2>1. ix \in Step
    BY <1>3, ListedRan
  <2>2. Shaped(ix) /\ ix.at \in Ids
    BY <2>1 DEF Step
  <2>3. d # None
    BY PatternsAssumption
  <2>4. transfer_of_money(ix) # d <=> ~(ix.pays = d /\ ix.name # "TransferWithSeed")
    BY <2>2, <2>3, PaymentSeen
  <2>5. \A jx \in Range(listed) : ix.at = jx.at => ix = jx
    BY <1>3, ListedRan
  <2> QED BY <1>3, <2>2, <2>4, <2>5
<1>5. PayingOf(d) = {ix.at : ix \in Range(to)}
  <2>1. Range(to) = {ix \in ToSet(listed) : ix.pays = d /\ ix.name # "TransferWithSeed"}
    <3> HIDE DEF to, gone
    <3> QED BY <1>2, <1>3, <1>4
  <2> HIDE DEF to
  <2> QED BY <2>1 DEF PayingOf
<1> HIDE DEF to, gone
<1>6. n \in Nat /\ DOMAIN to = 1..n /\ Range(to) = {to[i] : i \in 1..n}
  BY <1>2, LenProperties DEF Range
<1>7. \A i \in 1..n : to[i] \in Range(listed)
  BY <1>2, <1>6
<1>8. places = [i \in 1..n |-> to[i].at]
  BY <1>6 DEF PlacesOf
<1>9. places \in Seq(Ids) /\ Len(places) = n /\ DOMAIN places = 1..n
  <2>1. places \in [1..n -> Ids] /\ DOMAIN places = 1..n
    BY <1>4, <1>7, <1>8
  <2> HIDE DEF places, n
  <2>2. places \in Seq(Ids)
    BY <1>6, <2>1, SeqDef
  <2> QED BY <1>6, <2>1, <2>2, LenProperties
<1>10. \A i \in 1..n : places[i] = to[i].at
  BY <1>8
<1> HIDE DEF places
<1>11. Distinct(places)
  <2>1. SUFFICES ASSUME NEW i \in 1..n, NEW j \in 1..n, places[i] = places[j]
                 PROVE  i = j
    BY <1>9 DEF Distinct
  <2>2. to[i] = to[j]
    BY <1>4, <1>7, <1>10, <2>1
  <2> QED BY <1>2, <2>2 DEF Distinct
<1>12. ToSet(places) = PayingOf(d) /\ Range(places) = PayingOf(d)
  <2>1. PayingOf(d) = {to[i].at : i \in 1..n}
    BY <1>5, <1>6
  <2>2. ToSet(places) = {places[i] : i \in 1..n} /\ Range(places) = {places[i] : i \in 1..n}
    BY <1>9 DEF ToSet, Range
  <2> QED BY <1>10, <2>1, <2>2
<1>13. Cardinality(PayingOf(d)) = n
  BY <1>9, <1>11, <1>12, DistinctCardinality
<1> QED BY <1>9, <1>12, <1>13 DEF places, to

LEMMA FanInNamedLemma == ASSUME PatternsInvariant PROVE FanInNamed
<1>1. SUFFICES ASSUME reported, NEW d \in Accounts \cup Keys
               PROVE  Cardinality(PayingOf(d)) >= 2
                        <=> \E f \in Flagged("repeated_destination") :
                              /\ ToSet(f.about) = PayingOf(d)
                              /\ Len(f.about) = Cardinality(PayingOf(d))
  BY Zenon DEF FanInNamed, PayingOf
<1>2. Cardinality(PayingOf(d)) = Len(PaidTo(listed, d))
  BY <1>1, PaidToCounts
<1>3. ASSUME Cardinality(PayingOf(d)) >= 2
      PROVE  \E f \in Flagged("repeated_destination") :
               ToSet(f.about) = PayingOf(d) /\ Len(f.about) = Cardinality(PayingOf(d))
  <2> DEFINE f == Flag("repeated_destination", PaidTo(listed, d)[1].at, PlacesOf(PaidTo(listed, d)))
  <2>1. Len(PaidTo(listed, d)) >= 2
    BY <1>2, <1>3
  <2>2. f \in repeated_destination(listed)
    BY <2>1, Zenon DEF repeated_destination, PaidTo, PlacesOf
  <2>3. f.about = PlacesOf(PaidTo(listed, d))
    BY DEF Flag
  <2> HIDE DEF f
  <2> QED BY <1>1, <1>2, <2>2, <2>3, FlagsOfRules, PaidToCounts
<1>4. ASSUME NEW f \in Flagged("repeated_destination"), Len(f.about) = Cardinality(PayingOf(d))
      PROVE  Cardinality(PayingOf(d)) >= 2
  <2>1. PICK e \in Accounts \cup Keys :
           /\ Len(PaidTo(listed, e)) >= 2
           /\ f = Flag("repeated_destination", PaidTo(listed, e)[1].at, PlacesOf(PaidTo(listed, e)))
    BY <1>1, FlagsOfRules, RepeatedFlag
  <2>2. f.about = PlacesOf(PaidTo(listed, e))
    BY <2>1 DEF Flag
  <2>3. Len(f.about) = Len(PaidTo(listed, e))
    BY <1>1, <2>2, PaidToCounts
  <2> QED BY <1>4, <2>1, <2>3
<1> QED BY <1>3, <1>4

-----------------------------------------------------------------------------
\* The step of every action.
LEMMA PatternsStep ==
  ASSUME PatternsInvariant, [PatternsNext]_patternsVars
  PROVE  PatternsInvariant'
<1>1. ASSUME NEW ix \in Instructions, TopLevel(ix)
      PROVE  PatternsInvariant'
  BY <1>1, TopLevelStep
<1>2. ASSUME NEW ix \in Instructions, Inner(ix)
      PROVE  PatternsInvariant'
  BY <1>2, InnerStep
<1>3. CASE CallProgram
  BY <1>3, CallProgramStep
<1>4. CASE DetectPatterns
  BY <1>4, DetectStep
<1>5. CASE UNCHANGED patternsVars
  <2> USE <1>5 DEF patternsVars, ledger, PatternsInvariant
  <2>1. PatternsTypeOK' /\ Judged'
    BY DEF PatternsTypeOK, Judged
  <2>2. InOrder' /\ NextComesAfter' /\ SignedAtTop'
    BY DEF InOrder, NextComesAfter, SignedAtTop
  <2>3. DelegatesKnown' /\ AppointmentsKnown'
    BY DEF DelegatesKnown, AppointmentsKnown, GrantedBy, AppointedBy
  <2>4. SpendsKnown' /\ TakeoversKnown'
    BY DEF SpendsKnown, TakeoversKnown, SpendsAt, TakesAt
  <2> QED BY <2>1, <2>2, <2>3, <2>4
<1> QED BY <1>1, <1>2, <1>3, <1>4, <1>5 DEF PatternsNext

\* Instructions run in the order of their ids, whoever acts at the top level signs or is a
\* multisig, the ledger knows which instruction gave each power, and the report lists
\* instructions that ran, each once.
THEOREM PatternsInductive == PatternsSpec => []PatternsInvariant
<1> QED BY PatternsInitLemma, PatternsStep, PTL DEF PatternsSpec

\* approve_then_transfer flags the spending of what this transaction delegated, all that it
\* can see of it and nothing else.
THEOREM DelegationTheorem == PatternsSpec => []DelegationJudged
<1>1. PatternsInvariant => DelegationJudged
  BY DelegatedSpendFlaggedLemma, DrainFollowsApprovalLemma DEF DelegationJudged
<1> QED BY <1>1, PatternsInductive, PTL

\* mint_authority_takeover flags every mint by an authority this transaction appointed that
\* it can see.
THEOREM TakeoverTheorem == PatternsSpec => []TakeoverFlagged
BY TakeoverFlaggedLemma, PatternsInductive, PTL

\* nonsigner_transfer_authority names just the transfers of multisigs and from derived
\* addresses.
THEOREM NonsignerTheorem == PatternsSpec => []NonsignerExplained
BY NonsignerLemma, PatternsInductive, PTL

\* repeated_destination names just the destinations paid several times, with every payment.
THEOREM FanInTheorem == PatternsSpec => []FanInNamed
BY FanInNamedLemma, PatternsInductive, PTL
=============================================================================
