----------------------------- MODULE RuntimeLog -----------------------------
(***************************************************************************)
(* The program log a Solana runtime produces while it executes one         *)
(* transaction, line by line.  The runtime is not part of the repository;  *)
(* it is modelled from the lines src/src/sim_crossref.rs and               *)
(* src/src/event_decoder.rs match and from what the fixtures of their      *)
(* tests contain.  The two parsers are folds over that log, so each of     *)
(* them is composed with the runtime by handing it every line as it is     *)
(* appended.                                                               *)
(*                                                                         *)
(* A top-level instruction opens a frame of depth 1 and a cross-program    *)
(* invocation a deeper one.  A frame of a program that is not built in     *)
(* reports the compute units it consumed, those of its callees included,   *)
(* before it ends.  A frame that fails takes every enclosing frame and     *)
(* the rest of the transaction with it.                                    *)
(***************************************************************************)
EXTENDS Naturals, Sequences, SequencesExt

CONSTANTS
  Programs,      \* program ids that may be invoked
  Builtins,      \* the programs that print no "consumed" line
  Events,        \* names of the events a program can log as "Program data: "
  UserTexts,     \* what a program logs through msg!, by the shape of its words
  DropChoices,   \* sets of line kinds the size-limited log collector may lose
  Costs,         \* compute units a frame spends itself
  MaxTop,        \* bound: top-level instructions of the transaction
  MaxDepth,      \* bound: nesting of invocations
  MaxCalls       \* bound: invocations over the whole transaction

LineKinds == {"invoke", "success", "failed", "consumed", "data", "text"}

\* msg!("success ...") and so on appear as "Program log: success ...".
TextShapes == {"plain", "invoke", "success", "failed"}

ASSUME ProgramsAssumption == Builtins \subseteq Programs
ASSUME TextsAssumption == UserTexts \subseteq TextShapes
ASSUME DropsAssumption == DropChoices \subseteq SUBSET LineKinds
ASSUME BoundsAssumption == /\ Costs \subseteq Nat
                           /\ MaxTop \in Nat /\ MaxDepth \in Nat /\ MaxCalls \in Nat

VARIABLES
  frames,   \* the invocation stack: program, top-level index, units, reported
  tops,     \* top-level instructions started
  calls,    \* invocations started
  aborted,  \* some frame has failed
  drops,    \* the kinds this log may lose
  line      \* the line just appended to the log; NoLine when it was lost

rtVars == <<frames, tops, calls, aborted, drops, line>>

NoLine == [kind |-> "none"]

Line == [kind : {"invoke"}, id : Programs, depth : Nat]
          \cup [kind : {"success", "failed"}, id : Programs]
          \cup [kind : {"consumed"}, id : Programs, units : Nat]
          \cup [kind : {"data"}, matches : SUBSET Events]
          \cup [kind : {"text"}, shape : UserTexts]
          \cup {NoLine}

Frame == [prog : Programs, top : Nat, units : Nat, reported : BOOLEAN]

RuntimeTypeOK ==
  /\ frames \in Seq(Frame)
  /\ tops \in Nat
  /\ calls \in Nat
  /\ aborted \in BOOLEAN
  /\ drops \in DropChoices
  /\ line \in Line

RuntimeInit ==
  /\ frames = <<>>
  /\ tops = 0
  /\ calls = 0
  /\ aborted = FALSE
  /\ drops \in DropChoices
  /\ line = NoLine

Running == frames # <<>>

\* Append a line to the log, which may lose it when it is over its size limit.
Log(l) == /\ line' \in IF l.kind \in drops THEN {l, NoLine} ELSE {l}
          /\ drops' = drops

NewFrame(p, top) == [prog |-> p, top |-> top, units |-> 0, reported |-> FALSE]

InvokeTop(p) ==
  /\ ~Running /\ ~aborted
  /\ tops < MaxTop /\ calls < MaxCalls
  /\ frames' = <<NewFrame(p, tops)>>
  /\ tops' = tops + 1
  /\ calls' = calls + 1
  /\ Log([kind |-> "invoke", id |-> p, depth |-> 1])
  /\ UNCHANGED aborted

\* The runtime lets a program re-enter itself directly, and no other re-entrancy.
InvokeInner(p) ==
  /\ Running /\ ~aborted
  /\ ~Last(frames).reported
  /\ Last(frames).prog \notin Builtins
  /\ Len(frames) < MaxDepth /\ calls < MaxCalls
  /\ \A i \in 1..(Len(frames) - 1) : frames[i].prog # p
  /\ frames' = Append(frames, NewFrame(p, Last(frames).top))
  /\ calls' = calls + 1
  /\ Log([kind |-> "invoke", id |-> p, depth |-> Len(frames) + 1])
  /\ UNCHANGED <<tops, aborted>>

\* A running program writes to the log: an event, or a message of its own.
Speaking == /\ Running /\ ~aborted
            /\ ~Last(frames).reported
            /\ Last(frames).prog \notin Builtins

LogData(matches) ==
  /\ Speaking
  /\ Log([kind |-> "data", matches |-> matches])
  /\ UNCHANGED <<frames, tops, calls, aborted>>

LogText(shape) ==
  /\ Speaking
  /\ Log([kind |-> "text", shape |-> shape])
  /\ UNCHANGED <<frames, tops, calls, aborted>>

Report(frame, units) == [frame EXCEPT !.units = units, !.reported = TRUE]
Absorb(frame, callee) == [frame EXCEPT !.units = @ + callee.units]

Consume(cost) ==
  /\ Running
  /\ Last(frames).prog \notin Builtins
  /\ ~Last(frames).reported
  /\ LET units == Last(frames).units + cost
     IN  /\ frames' = [frames EXCEPT ![Len(frames)] = Report(@, units)]
         /\ Log([kind |-> "consumed", id |-> Last(frames).prog, units |-> units])
  /\ UNCHANGED <<tops, calls, aborted>>

\* The stack without its last frame, whose units count as the caller's too.
Unwound ==
  LET n == Len(frames)
  IN  IF n = 1
        THEN <<>>
        ELSE [Front(frames) EXCEPT ![n - 1] = Absorb(@, frames[n])]

EndSuccess ==
  /\ Running /\ ~aborted
  /\ Last(frames).reported \/ Last(frames).prog \in Builtins
  /\ frames' = Unwound
  /\ Log([kind |-> "success", id |-> Last(frames).prog])
  /\ UNCHANGED <<tops, calls, aborted>>

EndFailed ==
  /\ Running
  /\ Last(frames).reported \/ Last(frames).prog \in Builtins
  /\ frames' = Unwound
  /\ aborted' = TRUE
  /\ Log([kind |-> "failed", id |-> Last(frames).prog])
  /\ UNCHANGED <<tops, calls>>

RuntimeNext ==
  \/ \E p \in Programs : InvokeTop(p) \/ InvokeInner(p)
  \/ \E matches \in SUBSET Events : LogData(matches)
  \/ \E shape \in UserTexts : LogText(shape)
  \/ \E cost \in Costs : Consume(cost)
  \/ EndSuccess \/ EndFailed

-----------------------------------------------------------------------------
(***************************************************************************)
(* The runtime's own invariant, on which both parsers rely: every frame    *)
(* belongs to the top-level instruction started last, and a re-entered     *)
(* program is the one directly below.                                      *)
(***************************************************************************)
FramesShape ==
  /\ \A i \in 1..Len(frames) : frames[i].top + 1 = tops
  /\ Running => tops > 0
=============================================================================
