---------------------------- MODULE EventDecoder ----------------------------
(***************************************************************************)
(* event_decoder::decode_events: the Anchor events of a transaction are    *)
(* read from its log, each one attributed to the program on top of an      *)
(* invocation stack the decoder rebuilds from the log's words.             *)
(*                                                                         *)
(* The decoder has no line grammar of its own beyond "Program <id> <tail>",*)
(* so a program's message, "Program log: <tail>", is a line whose id is    *)
(* "log:".                                                                 *)
(***************************************************************************)
EXTENDS RuntimeLog

CONSTANTS
  LogId,        \* the id the decoder reads in "Program log: ..."
  Unknown,      \* the attribution of an event with no program on the stack
  IdlEvents,    \* the IDL's events, in its order: the first match wins
  MaxEvents,    \* bound: decoded events
  MaxImitations \* bound: messages that read like a runtime line

ASSUME IdsAssumption == LogId \notin Programs /\ Unknown \notin Programs
ASSUME IdlAssumption == IdlEvents \in Seq(Events)
ASSUME MaxEventsAssumption == MaxEvents \in Nat /\ MaxImitations \in Nat

VARIABLES
  program_stack,  \* decode_events' local stack of program ids
  events,         \* report.events
  emitted,        \* history: the program that really logged each decodable event
  imitated        \* history: what messages that read like runtime lines read as

vars == <<rtVars, program_stack, events, emitted, imitated>>

\* What can stand where the decoder expects the id of an invocation.
StackIds == Programs \cup {LogId : shape \in UserTexts \cap {"invoke"}}
EventRecord == [name : Range(IdlEvents), program_id : StackIds \cup {Unknown}]

TypeOK ==
  /\ RuntimeTypeOK
  /\ program_stack \in Seq(StackIds)
  /\ events \in Seq(EventRecord)
  /\ emitted \in Seq(Programs)
  /\ imitated \in Seq(UserTexts \ {"plain"})

\* split_once(' ') of what follows "Program ".
IdOf(l) == IF l.kind = "text" THEN LogId ELSE l.id

\* Mutant: every message is taken for an invocation.
ReadsAsInvoke_AnyText(l) == l.kind \in {"invoke", "text"}

ReadsAsInvoke(l) == l.kind = "invoke" \/ (l.kind = "text" /\ l.shape = "invoke")

ReadsAsEnd(l) == \/ l.kind \in {"success", "failed"}
                 \/ l.kind = "text" /\ l.shape \in {"success", "failed"}

\* rposition: the last place of id on the stack.
RPosition(s, id) ==
  CHOOSE i \in 1..Len(s) : s[i] = id /\ \A j \in (i + 1)..Len(s) : s[j] # id

\* Mutant: position() for rposition().
CutTo_First(s, id) ==
  IF \E i \in 1..Len(s) : s[i] = id
    THEN SubSeq(s, 1, (CHOOSE i \in 1..Len(s) :
                         s[i] = id /\ \A j \in 1..(i - 1) : s[j] # id) - 1)
    ELSE IF s = <<>> THEN s ELSE Front(s)

\* The stack after an end line: cut back to below id's frame, or popped when
\* id has none.
CutTo(s, id) ==
  IF \E i \in 1..Len(s) : s[i] = id
    THEN SubSeq(s, 1, RPosition(s, id) - 1)
    ELSE IF s = <<>> THEN s ELSE Front(s)

StackAfter(s, l) ==
  CASE ReadsAsInvoke(l) -> Append(s, IdOf(l))
    [] ReadsAsEnd(l) -> CutTo(s, IdOf(l))
    [] OTHER -> s

Attribution(s) == IF s = <<>> THEN Unknown ELSE Last(s)

\* decode_data: the first IDL event whose discriminator the payload starts with.
Decodable(matches) == \E i \in 1..Len(IdlEvents) : IdlEvents[i] \in matches

EventName(matches) ==
  IdlEvents[CHOOSE i \in 1..Len(IdlEvents) :
              /\ IdlEvents[i] \in matches
              /\ \A j \in 1..(i - 1) : IdlEvents[j] \notin matches]

EventsAfter(l) ==
  IF l.kind = "data" /\ Decodable(l.matches)
    THEN Append(events, [name |-> EventName(l.matches),
                         program_id |-> Attribution(program_stack)])
    ELSE events

\* A message that starts the way a line of the runtime does.
Imitates(l) == l.kind = "text" /\ l.shape # "plain"

\* One iteration of decode_events over the line just logged.
ReadLine ==
  /\ line'.kind = "data" => Len(events) < MaxEvents
  /\ events' = EventsAfter(line')
  /\ program_stack' = StackAfter(program_stack, line')
  /\ emitted' = IF line'.kind = "data" /\ Decodable(line'.matches)
                  THEN Append(emitted, Last(frames).prog)
                  ELSE emitted
  /\ Imitates(line') => Len(imitated) < MaxImitations
  /\ imitated' = IF Imitates(line') THEN Append(imitated, line'.shape) ELSE imitated

Init == /\ RuntimeInit
        /\ program_stack = <<>>
        /\ events = <<>>
        /\ emitted = <<>>
        /\ imitated = <<>>

Next == RuntimeNext /\ ReadLine

Spec == Init /\ [][Next]_vars

-----------------------------------------------------------------------------
(* Properties *)

\* Every decodable event is reported once, under the program that emitted it.
Attributed ==
  /\ Len(events) = Len(emitted)
  /\ \A i \in 1..Len(events) : events[i].program_id = emitted[i]

FaithfulLog == drops \cap {"invoke", "success", "failed"} = {}

\* Every decoded event names the program that emitted it, none is lost and
\* none is invented, as long as the log lost no invoke or end line and no
\* program has yet logged a message that reads like one.
AttributedToEmitter == FaithfulLog /\ imitated = <<>> => Attributed

\* Some increasing choice of positions of t spells s.
Embeds(s, t) ==
  \E f \in [1..Len(s) -> 1..Len(t)] :
    /\ \A i, j \in 1..Len(s) : i < j => f[i] < f[j]
    /\ \A i \in 1..Len(s) : t[f[i]] = s[i]

\* A log that loses only end lines never makes the decoder forget a frame that
\* is still running, as long as no message has read like an end: what rposition
\* and truncate remove at the end of one frame was opened inside it, by a call
\* or by a message that reads like one.
LiveFramesKept ==
  drops \subseteq {"success", "failed"} /\ Range(imitated) \subseteq {"invoke"} =>
    Embeds([i \in 1..Len(frames) |-> frames[i].prog], program_stack)
=============================================================================
