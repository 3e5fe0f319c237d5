-------------------------- MODULE DisassemblyProofs --------------------------
(***************************************************************************)
(* Proofs about Disassembly: for any number of runs of rts, whatever their *)
(* targets, the sizes of the pipes and the deadlines, one inductive        *)
(* invariant and the three safety properties that follow from it.          *)
(***************************************************************************)
EXTENDS Disassembly, ProofLemmas

-----------------------------------------------------------------------------
(* The inductive invariant *)

Steps == {"probe", "fetch", "mkdir", "write", "spawn", "poll", "clock", "read", "clean", "done"}

\* Between fetching a target's ELF and its analysis or its warning.
Working(r) == pc[r] \notin {"probe", "fetch", "done"}

Children == [state : Alive \cup {"none", "exited", "failed", "killed"},
             elf : Programs \cup {None}, owes : Nat, pipe : Nat]

TypeInv ==
  /\ targets \in [Runs -> Seq(Programs)] /\ keep \in [Runs -> BOOLEAN]
  /\ queue \in [Runs -> Seq(Programs)]
  /\ pc \in [Runs -> Steps]
  /\ child \in [Runs -> Children]
  /\ listing \in [Runs -> Programs \cup {None}]
  /\ analyses \in [Runs -> Seq([program : Programs, listing : Programs \cup {None}])]
  /\ warnings \in [Runs -> Seq(Programs \cup {"not installed"})]
  /\ files \in [Dirs -> Files \cup {None}]
  /\ finished \subseteq Runs \X Programs

NotInstalled(r) == pc[r] = "done" /\ warnings[r] = <<"not installed">>

\* The loop of one run: what is queued is still to come, and everything else of
\* the targets is in the report.
QueueOK(r) ==
  /\ Working(r) => queue[r] # <<>>
  /\ Distinct(queue[r]) /\ Range(queue[r]) \subseteq Range(targets[r])
  /\ Analysed(r) \cap Range(queue[r]) = {}

CountOK(r) ==
  /\ pc[r] = "probe" => warnings[r] = <<>>
  /\ pc[r] = "done" => NotInstalled(r) \/ queue[r] = <<>>
  /\ ~NotInstalled(r) =>
       /\ Analysed(r) \cup Range(warnings[r]) \cup Range(queue[r]) = Range(targets[r])
       /\ Len(analyses[r]) + Len(warnings[r]) + Len(queue[r]) = Len(targets[r])

\* The child lives only while it is polled, and a listing is read only after it
\* exited successfully.
ChildOK(r) ==
  /\ Running(r) => pc[r] \in {"poll", "clock"}
  /\ pc[r] \in {"read", "clean"} => child[r].state = "exited"

FinishedOK(r) ==
  \A p : <<r, p>> \in finished =>
    p \in Analysed(r) \/ /\ queue[r] # <<>> /\ p = Head(queue[r])
                         /\ child[r].state = "exited" /\ pc[r] \in {"poll", "read", "clean"}

\* Run r has the directory of its target p to itself.
Own(r, p) == ~Shared(r, p)

\* From the write on, the directory holds the target's ELF; what the child loaded
\* and what it left is the target's.
CurrentOK(r) ==
  pc[r] \in {"spawn", "poll", "clock", "read", "clean"} /\ Own(r, Head(queue[r])) =>
    LET p == Head(queue[r])
    IN  /\ Present(r) /\ files[Dir(r)].so = p
        /\ pc[r] # "spawn" =>
             /\ child[r].state \in {"loaded", "written", "exited"} => child[r].elf = p
             /\ child[r].state \in {"written", "exited"} => files[Dir(r)].out = p
        /\ pc[r] = "clean" => listing[r] = p

ListingOK(r) ==
  \A i \in 1..Len(analyses[r]) :
    analyses[r][i].listing = analyses[r][i].program \/ Shared(r, analyses[r][i].program)

\* A kept directory that is the run's and one target's stays as the analysis left it.
Alone(r, p) == /\ keep[r] /\ ~Shared(r, p)
               /\ \A q \in Range(targets[r]) : ShortKey[q] = ShortKey[p] => q = p
KeptOK(r) ==
  \A p \in Analysed(r) : Alone(r, p) =>
    files[<<TRUE, ShortKey[p]>>] # None /\ files[<<TRUE, ShortKey[p]>>].out = p

\* Whoever made the temporary directory works in it, or left a warning, unless the
\* directory could not be removed.
Owner(r, k) ==
  /\ ~keep[r]
  /\ \/ \E q \in Programs : ShortKey[q] = k /\ q \in Range(warnings[r])
     \/ Working(r) /\ pc[r] # "mkdir" /\ ShortKey[Head(queue[r])] = k

LeftoverOK ==
  \A k \in Range(ShortKey) :
    files[<<FALSE, k>>] # None /\ <<FALSE, k>> \notin unremoved => \E r \in Runs : Owner(r, k)

RunOK(r) == QueueOK(r) /\ CountOK(r) /\ ChildOK(r) /\ FinishedOK(r)
DirOK(r) == CurrentOK(r) /\ ListingOK(r) /\ KeptOK(r)

DisassemblyInv == TypeInv /\ (\A r \in Runs : RunOK(r) /\ DirOK(r)) /\ LeftoverOK

-----------------------------------------------------------------------------
(* The steps, by what they do to a run's report *)

\* A target is given up with a warning.
Warned(r) ==
  /\ queue[r] # <<>>
  /\ pc[r] \in {"fetch", "mkdir", "write", "spawn", "poll", "clock"}
  /\ queue' = [queue EXCEPT ![r] = Tail(queue[r])]
  /\ warnings' = [warnings EXCEPT ![r] = Append(warnings[r], Head(queue[r]))]
  /\ pc' = [pc EXCEPT ![r] = "fetch"]
  /\ UNCHANGED <<targets, keep, listing, analyses, files, finished>>
  /\ child' = [child EXCEPT ![r] = child'[r]] /\ ~Running(r)'
  /\ pc[r] = "poll" => child[r].state = "failed"

\* The work on the first target goes on.
Worked(r) ==
  /\ queue[r] # <<>> /\ pc[r] \notin {"probe", "done", "clean"}
  /\ pc' = [pc EXCEPT ![r] = pc'[r]] /\ Working(r)'
  /\ UNCHANGED <<targets, keep, queue, analyses, warnings, finished>>

\* Each of analyze_programs' steps is one of these.
LEMMA ParentSteps ==
  ASSUME TypeInv, NEW r \in Runs, QueueOK(r), ChildOK(r), Parent(r)
  PROVE  Worked(r) \/ Warned(r) \/ Collect(r) \/ Probe(r) \/ Return(r)
<1> USE DEF TypeInv, Children, At, Goto, Working, Running
<1>1. /\ queue \in [Runs -> Seq(Programs)] /\ pc \in [Runs -> Steps]
      /\ pc[r] \in {"mkdir", "write", "spawn", "poll", "clock", "read", "clean"} => queue[r] # <<>>
      /\ Running(r) => pc[r] \in {"poll", "clock"}
      /\ child[r] \in Children
  BY DEF QueueOK, ChildOK
<1>2. ASSUME Warn(r), UNCHANGED <<targets, keep, files, finished>>, queue[r] # <<>>,
             pc[r] \in {"fetch", "mkdir", "write", "spawn", "poll", "clock"},
             pc[r] = "poll" => child[r].state = "failed",
             child' = [child EXCEPT ![r] = child'[r]], ~Running(r)'
      PROVE  Warned(r)
  BY <1>2 DEF Warn, Warned, Rest
<1>3. UNCHANGED child => child' = [child EXCEPT ![r] = child'[r]] /\ Running(r)' = Running(r)
  OBVIOUS
<1>4. CASE Fetch(r)
  BY <1>1, <1>2, <1>3, <1>4 DEF Fetch, Worked
<1>5. CASE MakeDir(r)
  BY <1>1, <1>2, <1>3, <1>5 DEF MakeDir, Worked
<1>6. CASE WriteElf(r)
  BY <1>1, <1>2, <1>3, <1>6 DEF WriteElf, Worked
<1>7. CASE Spawn(r)
  BY <1>1, <1>2, <1>3, <1>7 DEF Spawn, Worked
<1>8. CASE ReapFailed(r)
  <2>1. ~Running(r)
    BY <1>8 DEF ReapFailed, Alive
  <2> QED BY <1>1, <1>2, <1>3, <1>8, <2>1 DEF ReapFailed
<1>9. CASE Kill(r)
  <2>1. child' = [child EXCEPT ![r] = child'[r]] /\ ~Running(r)'
    BY <1>1, <1>9 DEF Kill, Alive
  <2> QED BY <1>1, <1>2, <1>9, <2>1 DEF Kill, DeadlineHit
<1>10. CASE Reap(r) \/ StillRunning(r) \/ Sleep(r) \/ ReadListing(r)
  BY <1>1, <1>10 DEF Reap, StillRunning, Sleep, ReadListing, Worked
<1> QED BY <1>4, <1>5, <1>6, <1>7, <1>8, <1>9, <1>10 DEF Parent

\* What the report says of run r after a warning.
LEMMA WarnedReport ==
  ASSUME TypeInv, NEW r \in Runs, QueueOK(r), Warned(r)
  PROVE  /\ Analysed(r)' = Analysed(r) /\ Len(analyses'[r]) = Len(analyses[r])
         /\ Range(warnings'[r]) = Range(warnings[r]) \cup {Head(queue[r])}
         /\ Len(warnings'[r]) = Len(warnings[r]) + 1
         /\ Range(queue[r]) = Range(queue'[r]) \cup {Head(queue[r])}
         /\ Head(queue[r]) \notin Range(queue'[r]) /\ Distinct(queue'[r])
         /\ Len(queue'[r]) = Len(queue[r]) - 1
         /\ warnings'[r] \in Seq(Programs \cup {"not installed"})
         /\ queue'[r] \in Seq(Programs) /\ Head(queue[r]) \in Programs
<1>1. /\ queue[r] \in Seq(Programs) /\ queue[r] # <<>> /\ Distinct(queue[r])
      /\ queue'[r] = Tail(queue[r])
  BY DEF TypeInv, Warned, QueueOK
<1>2. /\ warnings[r] \in Seq(Programs \cup {"not installed"})
      /\ warnings'[r] = Append(warnings[r], Head(queue[r]))
  BY DEF TypeInv, Warned
<1>3. analyses' = analyses
  BY DEF Warned
<1>4. Head(queue[r]) \in Programs
  BY <1>1, HeadTailProperties
<1> DEFINE W == Programs \cup {"not installed"}
<1>5. /\ Range(warnings'[r]) = Range(warnings[r]) \cup {Head(queue[r])}
      /\ Len(warnings'[r]) = Len(warnings[r]) + 1 /\ warnings'[r] \in Seq(W)
  <2>1. warnings[r] \in Seq(W) /\ Head(queue[r]) \in W
    BY <1>2, <1>4
  <2> HIDE DEF W
  <2> DEFINE a == Append(warnings[r], Head(queue[r]))
  <2>2. Range(a) = Range(warnings[r]) \cup {Head(queue[r])} /\ a \in Seq(W)
    BY <2>1, AppendRange
  <2>3. Len(a) = Len(warnings[r]) + 1
    BY <2>1, AppendProperties
  <2> QED BY <1>2, <2>2, <2>3
<1>6. /\ Range(queue[r]) = Range(queue'[r]) \cup {Head(queue[r])}
      /\ Head(queue[r]) \notin Range(queue'[r]) /\ Distinct(queue'[r])
      /\ Len(queue'[r]) = Len(queue[r]) - 1 /\ queue'[r] \in Seq(Programs)
  BY <1>1, TailRange
<1>7. Analysed(r)' = Analysed(r) /\ Len(analyses'[r]) = Len(analyses[r])
  BY <1>3 DEF Analysed
<1> QED BY <1>4, <1>5, <1>6, <1>7

\* And after an analysis.
LEMMA CollectReport ==
  ASSUME TypeInv, NEW r \in Runs, QueueOK(r), Collect(r)
  PROVE  /\ Analysed(r)' = Analysed(r) \cup {Head(queue[r])}
         /\ Len(analyses'[r]) = Len(analyses[r]) + 1
         /\ Len(analyses[r]) \in Nat
         /\ \A i \in 1..Len(analyses[r]) : analyses'[r][i] = analyses[r][i]
         /\ analyses'[r][Len(analyses[r]) + 1] =
              [program |-> Head(queue[r]), listing |-> listing[r]]
         /\ analyses'[r] \in Seq([program : Programs, listing : Programs \cup {None}])
         /\ Range(queue[r]) = Range(queue'[r]) \cup {Head(queue[r])}
         /\ Head(queue[r]) \notin Range(queue'[r]) /\ Distinct(queue'[r])
         /\ Len(queue'[r]) = Len(queue[r]) - 1
         /\ queue'[r] \in Seq(Programs) /\ Head(queue[r]) \in Programs
<1> DEFINE R == [program : Programs, listing : Programs \cup {None}]
           e == [program |-> Head(queue[r]), listing |-> listing[r]]
           s == analyses[r]
<1>1. /\ queue[r] \in Seq(Programs) /\ queue[r] # <<>> /\ Distinct(queue[r])
      /\ queue'[r] = Tail(queue[r])
  BY DEF TypeInv, Collect, QueueOK, Working, At
<1>2. Head(queue[r]) \in Programs
  BY <1>1, HeadTailProperties
<1>3. s \in Seq(R) /\ e \in R /\ analyses'[r] = Append(s, e) /\ e.program = Head(queue[r])
  BY <1>2 DEF TypeInv, Collect
<1> HIDE DEF R, e, s
<1>4. /\ Append(s, e) \in Seq(R) /\ Len(Append(s, e)) = Len(s) + 1 /\ Len(s) \in Nat
      /\ \A i \in 1..Len(s) : Append(s, e)[i] = s[i]
      /\ Append(s, e)[Len(s) + 1] = e
  BY <1>3, AppendProperties, LenProperties
<1>5. {Append(s, e)[i].program : i \in 1..(Len(s) + 1)}
        = {s[i].program : i \in 1..Len(s)} \cup {e.program}
  <2>1. \A i : i \in 1..(Len(s) + 1) <=> i \in 1..Len(s) \/ i = Len(s) + 1
    BY <1>4
  <2> QED BY <1>4, <2>1
<1>6. Analysed(r)' = {Append(s, e)[i].program : i \in 1..(Len(s) + 1)}
  BY <1>3, <1>4 DEF Analysed
<1>7. Analysed(r) = {s[i].program : i \in 1..Len(s)}
  BY DEF Analysed, s
<1>8. /\ Range(queue[r]) = Range(queue'[r]) \cup {Head(queue[r])}
      /\ Head(queue[r]) \notin Range(queue'[r]) /\ Distinct(queue'[r])
      /\ Len(queue'[r]) = Len(queue[r]) - 1
      /\ queue'[r] \in Seq(Programs)
  BY <1>1, TailRange
<1>9. Analysed(r)' = Analysed(r) \cup {Head(queue[r])}
  BY <1>3, <1>5, <1>6, <1>7
<1> QED BY <1>2, <1>3, <1>4, <1>8, <1>9 DEF R, e, s

-----------------------------------------------------------------------------
(* A run's own steps *)

\* A run's queue holds the targets that are not in its report yet.
LEMMA QueueKept ==
  ASSUME TypeInv, NEW r \in Runs, RunOK(r), Parent(r)
  PROVE  QueueOK(r)'
<1>1. QueueOK(r) /\ ChildOK(r) /\ pc \in [Runs -> Steps]
  BY DEF RunOK, TypeInv
<1>2. CASE Worked(r)
  BY <1>1, <1>2 DEF Worked, QueueOK, Analysed
<1>3. CASE Warned(r)
  BY <1>1, <1>3, WarnedReport, ZenonT(30) DEF Warned, QueueOK, Working
<1>4. CASE Collect(r)
  BY <1>1, <1>4, CollectReport DEF Collect, QueueOK, Working, Goto
<1>5. CASE Probe(r) \/ Return(r)
  <2>1. UNCHANGED <<targets, queue, analyses>> /\ pc'[r] \in {"fetch", "done"}
    BY <1>1, <1>5 DEF Probe, Return, Goto
  <2> QED BY <1>1, <2>1 DEF QueueOK, Working, Analysed
<1> QED BY <1>1, <1>2, <1>3, <1>4, <1>5, ParentSteps

\* A target leaves the queue for one entry of the report.
LEMMA CountKept ==
  ASSUME TypeInv, NEW r \in Runs, RunOK(r), Parent(r)
  PROVE  CountOK(r)'
<1>1. QueueOK(r) /\ ChildOK(r) /\ CountOK(r) /\ pc \in [Runs -> Steps]
  BY DEF RunOK, TypeInv
<1>2. /\ Len(analyses[r]) \in Nat /\ Len(warnings[r]) \in Nat /\ Len(queue[r]) \in Nat
      /\ Len(targets[r]) \in Nat
  BY LenProperties DEF TypeInv
<1>3. CASE Worked(r)
  BY <1>1, <1>3 DEF Worked, Working, CountOK, NotInstalled, Analysed
<1>4. CASE Warned(r)
  <2>1. pc'[r] = "fetch" /\ pc[r] # "done" /\ targets' = targets
    BY <1>1, <1>4 DEF Warned
  <2>2. ~NotInstalled(r) /\ ~NotInstalled(r)'
    BY <2>1 DEF NotInstalled
  <2>3. /\ Analysed(r) \cup Range(warnings[r]) \cup Range(queue[r]) = Range(targets[r])
        /\ Len(analyses[r]) + Len(warnings[r]) + Len(queue[r]) = Len(targets[r])
    BY <1>1, <2>2 DEF CountOK
  <2>4. Analysed(r)' \cup Range(warnings'[r]) \cup Range(queue'[r]) = Range(targets[r])
    BY <1>1, <1>4, <2>3, WarnedReport
  <2>5. Len(analyses'[r]) + Len(warnings'[r]) + Len(queue'[r]) = Len(targets[r])
    <3> DEFINE a == Len(analyses[r])
               w == Len(warnings[r])
               q == Len(queue[r])
               n == Len(targets[r])
               a1 == Len(analyses'[r])
               w1 == Len(warnings'[r])
               q1 == Len(queue'[r])
    <3>1. a \in Nat /\ w \in Nat /\ q \in Nat /\ n \in Nat /\ a + w + q = n
      BY <1>2, <2>3
    <3>2. a1 = a /\ w1 = w + 1 /\ q1 = q - 1
      BY <1>1, <1>4, WarnedReport
    <3> HIDE DEF a, w, q, n, a1, w1, q1
    <3>3. a1 + w1 + q1 = n
      BY <3>1, <3>2
    <3> QED BY <3>3 DEF n, a1, w1, q1
  <2> QED BY <2>1, <2>2, <2>4, <2>5 DEF CountOK
<1>5. CASE Collect(r)
  <2>1. pc'[r] = "fetch" /\ pc[r] # "done" /\ targets' = targets /\ warnings' = warnings
    BY <1>1, <1>5 DEF Collect, At, Goto
  <2>2. ~NotInstalled(r) /\ ~NotInstalled(r)'
    BY <2>1 DEF NotInstalled
  <2>3. /\ Analysed(r) \cup Range(warnings[r]) \cup Range(queue[r]) = Range(targets[r])
        /\ Len(analyses[r]) + Len(warnings[r]) + Len(queue[r]) = Len(targets[r])
    BY <1>1, <2>2 DEF CountOK
  <2>4. Analysed(r)' \cup Range(warnings'[r]) \cup Range(queue'[r]) = Range(targets[r])
    BY <1>1, <1>5, <2>1, <2>3, CollectReport
  <2>5. Len(analyses'[r]) + Len(warnings'[r]) + Len(queue'[r]) = Len(targets[r])
    <3> DEFINE a == Len(analyses[r])
               w == Len(warnings[r])
               q == Len(queue[r])
               n == Len(targets[r])
               a1 == Len(analyses'[r])
               w1 == Len(warnings'[r])
               q1 == Len(queue'[r])
    <3>1. a \in Nat /\ w \in Nat /\ q \in Nat /\ n \in Nat /\ a + w + q = n
      BY <1>2, <2>3
    <3>2. a1 = a + 1 /\ w1 = w /\ q1 = q - 1
      BY <1>1, <1>5, <2>1, CollectReport
    <3> HIDE DEF a, w, q, n, a1, w1, q1
    <3>3. a1 + w1 + q1 = n
      BY <3>1, <3>2
    <3> QED BY <3>3 DEF n, a1, w1, q1
  <2> QED BY <2>1, <2>2, <2>4, <2>5 DEF CountOK
<1>6. CASE Probe(r)
  <2>1. UNCHANGED <<targets, queue, analyses>> /\ pc[r] = "probe" /\ warnings[r] = <<>>
    BY <1>1, <1>6 DEF Probe, At, CountOK
  <2>2. CASE pc'[r] = "fetch" /\ warnings' = warnings
    BY <1>1, <2>1, <2>2 DEF CountOK, NotInstalled, Analysed
  <2>3. CASE pc'[r] = "done" /\ warnings'[r] = Append(warnings[r], "not installed")
    <3>1. Append(<<>>, "not installed") = <<"not installed">>
      OBVIOUS
    <3>2. warnings'[r] = <<"not installed">>
      BY <2>1, <2>3, <3>1
    <3> QED BY <2>3, <3>2 DEF CountOK, NotInstalled
  <2> QED BY <1>1, <1>6, <2>2, <2>3 DEF Probe, Goto, TypeInv
<1>7. CASE Return(r)
  <2>1. /\ UNCHANGED <<targets, queue, analyses, warnings>> /\ pc[r] = "fetch" /\ pc'[r] = "done"
        /\ queue[r] = <<>>
    BY <1>1, <1>7 DEF Return, At, Goto
  <2> QED BY <1>1, <2>1 DEF CountOK, NotInstalled, Analysed
<1> QED BY <1>1, <1>3, <1>4, <1>5, <1>6, <1>7, ParentSteps

\* A child is left alive by no step but those of the polling.
LEMMA ChildKept ==
  ASSUME TypeInv, NEW r \in Runs, RunOK(r), Parent(r)
  PROVE  ChildOK(r)'
<1> USE DEF At, Goto
<1>1. QueueOK(r) /\ ChildOK(r) /\ pc \in [Runs -> Steps]
  BY DEF RunOK, TypeInv
<1>2. child[r].state = "exited" => ~Running(r)
  BY DEF Running, Alive
<1>3. CASE Warned(r)
  BY <1>1, <1>3 DEF Warned, ChildOK
<1>4. CASE Fetch(r) /\ ~Warn(r)
  BY <1>1, <1>4 DEF Fetch, ChildOK, Running
<1>5. CASE MakeDir(r) /\ ~Warn(r)
  BY <1>1, <1>5 DEF MakeDir, ChildOK, Running
<1>6. CASE WriteElf(r) /\ ~Warn(r)
  BY <1>1, <1>6 DEF WriteElf, ChildOK, Running
<1>7. CASE Spawn(r) /\ ~Warn(r)
  BY <1>1, <1>7 DEF Spawn, ChildOK, Running
<1>8. CASE Reap(r) \/ StillRunning(r) \/ Sleep(r) \/ ReadListing(r)
  BY <1>1, <1>2, <1>8
     DEF Reap, Succeeded, StillRunning, Sleep, ReadListing, ChildOK, Running
<1>9. CASE Collect(r) \/ Probe(r) \/ Return(r)
  BY <1>1, <1>9 DEF Collect, Probe, Return, ChildOK, Running
<1>10. Worked(r) => ~Warn(r)
  BY <1>1 DEF Worked, Working, Warn
<1>11. ReapFailed(r) \/ Kill(r) => Warn(r)
  BY DEF ReapFailed, Kill
<1>12. CASE Worked(r)
  BY <1>4, <1>5, <1>6, <1>7, <1>8, <1>9, <1>10, <1>11, <1>12 DEF Parent
<1> QED BY <1>1, <1>3, <1>9, <1>12, ParentSteps

\* What a child finished is given up by no step.
LEMMA FinishedKept ==
  ASSUME TypeInv, NEW r \in Runs, RunOK(r), Parent(r)
  PROVE  FinishedOK(r)'
<1>1. QueueOK(r) /\ ChildOK(r) /\ FinishedOK(r) /\ pc \in [Runs -> Steps]
  BY DEF RunOK, TypeInv
<1>2. finished' = finished
  BY DEF Parent, Probe, Fetch, MakeDir, WriteElf, Spawn, Reap, ReapFailed, StillRunning, Sleep,
         Kill, ReadListing, Collect, Return
<1>3. SUFFICES ASSUME NEW p, <<r, p>> \in finished, p \notin Analysed(r)'
               PROVE  /\ queue'[r] # <<>> /\ p = Head(queue'[r])
                      /\ child'[r].state = "exited" /\ pc'[r] \in {"poll", "read", "clean"}
  BY <1>2 DEF FinishedOK
<1>4. Analysed(r) \subseteq Analysed(r)'
  <2>1. CASE Collect(r)
    BY <1>1, <2>1, CollectReport
  <2>2. CASE ~Collect(r)
    BY <1>1, <2>2, ParentSteps DEF Worked, Warned, Probe, Return, Analysed
  <2> QED BY <2>1, <2>2
<1>5. /\ queue[r] # <<>> /\ p = Head(queue[r]) /\ child[r].state = "exited"
      /\ pc[r] \in {"poll", "read", "clean"}
  BY <1>1, <1>3, <1>4 DEF FinishedOK
<1>6. ~Warned(r)
  BY <1>1, <1>5 DEF Warned
<1>7. CASE Collect(r)
  BY <1>1, <1>3, <1>5, <1>7, CollectReport
<1>8. CASE Worked(r)
  <2>1. Reap(r) \/ ReadListing(r)
    BY <1>5, <1>8 DEF Parent, Probe, Fetch, MakeDir, WriteElf, Spawn, ReapFailed, StillRunning,
                      Sleep, Kill, Collect, Return, At, Goto, DeadlineHit, Running, Alive, Worked
  <2> QED BY <1>1, <1>5, <1>8, <2>1 DEF Worked, Reap, ReadListing, Goto
<1>9. ~Probe(r) /\ ~Return(r)
  BY <1>5 DEF Probe, Return, At
<1> QED BY <1>1, <1>6, <1>7, <1>8, <1>9, ParentSteps

\* The steps of its child, and the clock.
LEMMA ChildRunKept ==
  ASSUME TypeInv, NEW r \in Runs, RunOK(r), Child(r)
  PROVE  RunOK(r)'
<1>1. QueueOK(r) /\ CountOK(r) /\ ChildOK(r) /\ FinishedOK(r)
  BY DEF RunOK
<1>2. UNCHANGED <<targets, parentVars>>
  BY DEF Child, Load, WriteListing, Complain, ExitOk, ExitFailed
<1>3. QueueOK(r)' /\ CountOK(r)'
  BY <1>1, <1>2 DEF parentVars, QueueOK, CountOK, Working, NotInstalled, Analysed
<1>4. Running(r)
  BY DEF Child, Load, WriteListing, Complain, ExitOk, ExitFailed, ChildState, Running, Alive
<1>5. pc[r] \in {"poll", "clock"} /\ queue[r] # <<>>
  BY <1>1, <1>4 DEF ChildOK, QueueOK, Working
<1>6. ChildOK(r)'
  BY <1>2, <1>5 DEF ChildOK, parentVars
<1>7. FinishedOK(r)'
  <2>1. CASE finished' = finished
    <3>1. \A p : <<r, p>> \in finished => p \in Analysed(r)
      BY <1>1, <1>4 DEF FinishedOK, Running, Alive
    <3> QED BY <1>2, <2>1, <3>1 DEF FinishedOK, parentVars, Analysed
  <2>2. CASE ExitOk(r) /\ finished' # finished
    <3>1. pc[r] = "poll" /\ finished' = finished \cup {<<r, Head(queue[r])>>}
      BY <1>5, <2>2 DEF ExitOk, At
    <3>2. child'[r].state = "exited"
      BY <2>2 DEF ExitOk, ChildState, TypeInv, Children
    <3>3. \A p : <<r, p>> \in finished => p \in Analysed(r)
      BY <1>1, <1>4 DEF FinishedOK, Running, Alive
    <3> QED BY <1>2, <1>5, <3>1, <3>2, <3>3 DEF FinishedOK, parentVars, Analysed
  <2> QED BY <2>1, <2>2 DEF Child, Load, WriteListing, Complain, ExitFailed
<1> QED BY <1>3, <1>6, <1>7 DEF RunOK

-----------------------------------------------------------------------------
(* The steps of the others *)

\* A run's steps touch its own state and the directory it works in.
LEMMA Apart ==
  ASSUME TypeInv, NEW r \in Runs, RunOK(r), Parent(r) \/ Child(r)
  PROVE  /\ UNCHANGED <<targets, keep>>
         /\ \A s \in Runs \ {r} :
              /\ UNCHANGED <<queue[s], pc[s], child[s], listing[s], analyses[s], warnings[s]>>
              /\ \A p : <<s, p>> \in finished' <=> <<s, p>> \in finished
         /\ \/ files' = files
            \/ /\ Working(r) /\ queue[r] # <<>>
               /\ \A d \in Dirs \ {Dir(r)} : files'[d] = files[d]
<1> USE DEF At, Goto, TypeInv, Warn
<1>1. Working(r) => queue[r] # <<>>
  BY DEF RunOK, QueueOK
<1>2. Running(r) => Working(r)
  BY DEF RunOK, ChildOK, Working
<1>3. CASE Parent(r)
  <2>1. UNCHANGED <<targets, keep, finished>>
    BY <1>3 DEF Parent, Probe, Fetch, MakeDir, WriteElf, Spawn, Reap, ReapFailed, StillRunning,
                Sleep, Kill, ReadListing, Collect, Return
  <2>2. \A s \in Runs \ {r} :
          UNCHANGED <<queue[s], pc[s], child[s], listing[s], analyses[s], warnings[s]>>
    BY <1>3 DEF Parent, Probe, Fetch, MakeDir, WriteElf, Spawn, Reap, ReapFailed, StillRunning,
                Sleep, Kill, ReadListing, Collect, Return
  <2>3. \/ files' = files
        \/ Working(r) /\ \A d \in Dirs \ {Dir(r)} : files'[d] = files[d]
    <3>1. CASE Collect(r)
      <4>1. /\ Working(r)
            /\ files' = files \/ \E left \in Removed(files[Dir(r)]) :
                                  files' = [files EXCEPT ![Dir(r)] = left]
        BY <3>1 DEF Collect, Cleaned, Working
      <4> QED BY <4>1
    <3>2. CASE ~Collect(r)
      BY <1>3, <3>2 DEF Parent, Probe, Fetch, MakeDir, WriteElf, Spawn, Reap, ReapFailed,
                        StillRunning, Sleep, Kill, ReadListing, Return, Working
    <3> QED BY <3>1, <3>2
  <2> QED BY <1>1, <2>1, <2>2, <2>3
<1>4. CASE Child(r)
  <2>1. UNCHANGED <<targets, keep, parentVars>>
    BY <1>4 DEF Child, Load, WriteListing, Complain, ExitOk, ExitFailed
  <2>2. Working(r)
    BY <1>2, <1>4 DEF Child, Load, WriteListing, Complain, ExitOk, ExitFailed, ChildState, Running,
                      Alive
  <2>3. \A s \in Runs \ {r} : child'[s] = child[s]
    BY <1>4 DEF Child, Load, WriteListing, Complain, ExitOk, ExitFailed, ChildState
  <2>4. finished' \in {finished, finished \cup {<<r, Head(queue[r])>>}}
    BY <1>4 DEF Child, Load, WriteListing, Complain, ExitOk, ExitFailed
  <2>5. files' = files \/ \A d \in Dirs \ {Dir(r)} : files'[d] = files[d]
    BY <1>4 DEF Child, Load, WriteListing, Complain, ExitOk, ExitFailed
  <2> QED BY <1>1, <2>1, <2>2, <2>3, <2>4, <2>5 DEF parentVars
<1> QED BY <1>3, <1>4

\* What the others do leaves a run's report and child alone.
LEMMA RunKept ==
  ASSUME TypeInv, \A q \in Runs : RunOK(q), [Next]_vars, NEW r \in Runs
  PROVE  RunOK(r)'
<1> DEFINE Quiet == /\ UNCHANGED <<targets, queue[r], pc[r], analyses[r], warnings[r], child[r]>>
                    /\ \A p : <<r, p>> \in finished' <=> <<r, p>> \in finished
<1>1. RunOK(r)
  OBVIOUS
<1>2. ASSUME Quiet PROVE RunOK(r)'
  <2>1. /\ Working(r)' = Working(r) /\ NotInstalled(r)' = NotInstalled(r)
        /\ Analysed(r)' = Analysed(r) /\ Running(r)' = Running(r)
    BY <1>2 DEF Working, NotInstalled, Analysed, Running
  <2>2. QueueOK(r)' /\ CountOK(r)' /\ ChildOK(r)'
    BY <1>1, <1>2, <2>1 DEF RunOK, QueueOK, CountOK, ChildOK
  <2>3. FinishedOK(r)'
    BY <1>1, <1>2, <2>1 DEF RunOK, FinishedOK
  <2> QED BY <2>2, <2>3 DEF RunOK
<1>3. CASE Parent(r)
  BY <1>1, <1>3, QueueKept, CountKept, ChildKept, FinishedKept DEF RunOK
<1>4. CASE Child(r)
  BY <1>1, <1>4, ChildRunKept
<1>5. ASSUME NEW q \in Runs, Parent(q) \/ Child(q), q # r PROVE RunOK(r)'
  <2>1. Quiet
    BY <1>5, Apart
  <2> QED BY <1>2, <2>1
<1>6. CASE Tick \/ UNCHANGED vars
  <2>1. Quiet
    BY <1>6 DEF Tick, vars, parentVars
  <2> QED BY <1>2, <2>1
<1> QED BY <1>3, <1>4, <1>5, <1>6 DEF Next

-----------------------------------------------------------------------------
(* Types *)

\* The directory a run works in.
LEMMA DirsOf ==
  ASSUME TypeInv, NEW r \in Runs, queue[r] # <<>>
  PROVE  Dir(r) \in Dirs /\ Head(queue[r]) \in Programs
<1>1. Head(queue[r]) \in Programs
  BY HeadTailProperties DEF TypeInv
<1> QED BY <1>1, KeysAssumption DEF TypeInv, Dir, Dirs, Range

\* Writing a file keeps a directory a directory.
LEMMA FileType ==
  ASSUME NEW f \in Files, NEW p \in Programs \cup {None}
  PROVE  [f EXCEPT !.so = p] \in Files /\ [f EXCEPT !.out = p] \in Files
BY DEF Files

ChildStates == Alive \cup {"none", "exited", "failed", "killed"}

\* The changes of a child.
LEMMA ChildType ==
  ASSUME NEW c \in Children
  PROVE  /\ \A to \in ChildStates : [c EXCEPT !.state = to] \in Children
         /\ \A to \in ChildStates, p \in Programs \cup {None} :
              [c EXCEPT !.state = to, !.elf = p] \in Children
         /\ c.owes > 0 => [c EXCEPT !.owes = @ - 1, !.pipe = @ + 1] \in Children
<1>1. \A to \in ChildStates : [c EXCEPT !.state = to] \in Children
  BY DEF Children, ChildStates
<1>2. \A to \in ChildStates, p \in Programs \cup {None} :
        [c EXCEPT !.state = to, !.elf = p] \in Children
  BY DEF Children, ChildStates
<1>3. ASSUME c.owes > 0 PROVE [c EXCEPT !.owes = @ - 1, !.pipe = @ + 1] \in Children
  <2>1. c.owes \in Nat /\ c.pipe \in Nat
    BY DEF Children
  <2>2. c.owes - 1 \in Nat /\ c.pipe + 1 \in Nat
    BY <1>3, <2>1
  <2> QED BY <2>2 DEF Children
<1> QED BY <1>1, <1>2, <1>3

\* What the steps of a run make of the directories.
FilesMove(r) ==
  \/ files' = files
  \/ /\ At(r, "mkdir") /\ pc'[r] = "write" /\ ~Present(r)
     /\ files' = [files EXCEPT ![Dir(r)] = [so |-> None, out |-> None]]
  \/ /\ At(r, "write") /\ pc'[r] = "spawn" /\ Present(r)
     /\ files' = [files EXCEPT ![Dir(r)] = [files[Dir(r)] EXCEPT !.so = Head(queue[r])]]
  \/ /\ Collect(r) /\ ~keep[r]
     /\ \E left \in Removed(files[Dir(r)]) : files' = [files EXCEPT ![Dir(r)] = left]
  \/ /\ WriteListing(r)
     /\ files' = [files EXCEPT ![Dir(r)] = [files[Dir(r)] EXCEPT !.out = child[r].elf]]

\* What a removal leaves of a directory is a directory, and nothing of none.
LEMMA RemovedType ==
  ASSUME NEW dir \in Files \cup {None}
  PROVE  Removed(dir) \subseteq Files \cup {None} /\ Removed(None) = {None}
<1>1. CASE dir = None
  BY <1>1 DEF Removed
<1>2. CASE dir # None
  <2>1. dir.so \in Programs \cup {None} /\ dir.out \in Programs \cup {None}
    BY <1>2 DEF Files
  <2>2. [so : {dir.so, None}, out : {dir.out, None}] \subseteq Files
    BY <2>1 DEF Files
  <2> QED BY <1>2, <2>2 DEF Removed
<1> QED BY <1>1, <1>2

\* There are no others.
LEMMA FilesMoves ==
  ASSUME TypeInv, NEW r \in Runs, Parent(r) \/ Child(r)
  PROVE  FilesMove(r)
<1> USE DEF TypeInv, FilesMove
<1>1. CASE MakeDir(r)
  BY <1>1 DEF MakeDir, Goto, Warn, At
<1>2. CASE WriteElf(r)
  BY <1>2 DEF WriteElf, Goto, Warn, At
<1>3. CASE Collect(r)
  BY <1>3 DEF Collect, Cleaned
<1>4. CASE WriteListing(r)
  BY <1>4 DEF WriteListing
<1>5. CASE ~MakeDir(r) /\ ~WriteElf(r) /\ ~Collect(r) /\ ~WriteListing(r)
  BY <1>5 DEF Parent, Child, Probe, Fetch, Spawn, Reap, ReapFailed, StillRunning, Sleep, Kill,
              ReadListing, Return, Load, Complain, ExitOk, ExitFailed
<1> QED BY <1>1, <1>2, <1>3, <1>4, <1>5

\* The variables keep their types.
LEMMA TypeKept ==
  ASSUME TypeInv, \A r \in Runs : RunOK(r), [Next]_vars
  PROVE  TypeInv'
<1>1. ASSUME NEW r \in Runs, Parent(r) PROVE TypeInv'
  <2>1. QueueOK(r) /\ ChildOK(r) /\ CountOK(r)
    BY DEF RunOK
  <2>2. UNCHANGED <<targets, keep, finished>>
    BY <1>1 DEF Parent, Probe, Fetch, MakeDir, WriteElf, Spawn, Reap, ReapFailed, StillRunning,
                Sleep, Kill, ReadListing, Collect, Return
  <2>3. queue' \in [Runs -> Seq(Programs)]
    BY <1>1, <2>1, ParentSteps, WarnedReport, CollectReport
       DEF TypeInv, Worked, Warned, Collect, Probe, Return
  <2>4. pc' \in [Runs -> Steps]
    BY <1>1 DEF TypeInv, Steps, Goto, Warn, Parent, Probe, Fetch, MakeDir, WriteElf, Spawn, Reap,
                ReapFailed, StillRunning, Sleep, Kill, ReadListing, Collect, Return
  <2>5. child' \in [Runs -> Children]
    <3>1. CASE Spawn(r)
      <4>1. \A owes \in Chunks : [Idle EXCEPT !.state = "started", !.owes = owes] \in Children
        BY BoundsAssumption DEF Idle, Alive, Children
      <4> QED BY <3>1, <4>1, ZenonT(30) DEF Spawn, TypeInv
    <3>2. CASE Kill(r)
      <4>1. /\ child[r] \in Children /\ child[r].state \in ChildStates
            /\ child' = [child EXCEPT ![r] = [child[r] EXCEPT !.state =
                            IF Running(r) THEN "killed" ELSE child[r].state]]
        BY <3>2 DEF Kill, TypeInv, Children, ChildStates
      <4>2. (IF Running(r) THEN "killed" ELSE child[r].state) \in ChildStates
        BY <4>1 DEF ChildStates
      <4>3. child'[r] \in Children
        BY <4>1, <4>2, ChildType DEF TypeInv
      <4> QED BY <4>1, <4>3 DEF TypeInv
    <3>3. CASE ~Spawn(r) /\ ~Kill(r)
      BY <1>1, <3>3 DEF TypeInv, Parent, Probe, Fetch, MakeDir, WriteElf, Reap,
                ReapFailed, StillRunning, Sleep, ReadListing, Collect, Return
    <3> QED BY <3>1, <3>2, <3>3
  <2>6. listing' \in [Runs -> Programs \cup {None}]
    <3>1. CASE ReadListing(r)
      <4>1. queue[r] # <<>>
        BY <2>1, <3>1 DEF QueueOK, Working, ReadListing, At
      <4>2. files[Dir(r)] \in Files \cup {None}
        BY <4>1, DirsOf DEF TypeInv
      <4>3. Present(r) => files[Dir(r)].out \in Programs \cup {None}
        BY <4>2 DEF Present, Files
      <4> QED BY <3>1, <4>3 DEF ReadListing, TypeInv
    <3>2. CASE ~ReadListing(r)
      BY <1>1, <3>2 DEF TypeInv, Warn, Parent, Probe, Fetch, MakeDir, WriteElf, Spawn, Kill, Reap,
                ReapFailed, StillRunning, Sleep, Collect, Return
    <3> QED BY <3>1, <3>2
  <2>7. analyses' \in [Runs -> Seq([program : Programs, listing : Programs \cup {None}])]
    <3>1. CASE Collect(r)
      BY <2>1, <3>1, CollectReport DEF Collect, TypeInv
    <3>2. CASE ~Collect(r)
      BY <1>1, <2>1, <3>2, ParentSteps DEF TypeInv, Worked, Warned, Probe, Return
    <3> QED BY <3>1, <3>2
  <2>8. warnings' \in [Runs -> Seq(Programs \cup {"not installed"})]
    <3>1. CASE Warned(r)
      BY <2>1, <3>1, WarnedReport DEF Warned, TypeInv
    <3>2. CASE Probe(r)
      <4>1. Append(warnings[r], "not installed") \in Seq(Programs \cup {"not installed"})
        BY AppendProperties DEF TypeInv
      <4> QED BY <3>2, <4>1 DEF TypeInv, Probe
    <3>3. CASE ~Warned(r) /\ ~Probe(r)
      BY <1>1, <2>1, <3>3, ParentSteps DEF TypeInv, Worked, Collect, Return
    <3> QED BY <3>1, <3>2, <3>3
  <2>9. files' \in [Dirs -> Files \cup {None}]
    <3>1. [so |-> None, out |-> None] \in Files
      BY DEF Files
    <3>2. At(r, "write") /\ Present(r) =>
            [files[Dir(r)] EXCEPT !.so = Head(queue[r])] \in Files
      <4>1. At(r, "write") => queue[r] # <<>>
        BY <2>1 DEF QueueOK, Working, At
      <4> QED BY <4>1, DirsOf, FileType DEF TypeInv, Present
    <3>3. ~WriteListing(r)
      BY <1>1, <2>1 DEF ChildOK, Running, Alive, WriteListing, ChildState, Parent, parentVars,
         Probe, Fetch, MakeDir, WriteElf, Spawn, Reap, Warn, Goto,
         ReapFailed, StillRunning, Sleep, Kill, ReadListing, Collect, Return, At,
         DeadlineHit, TypeInv
    <3>4. Collect(r) => Removed(files[Dir(r)]) \subseteq Files \cup {None}
      <4>1. Collect(r) => queue[r] # <<>>
        BY <2>1 DEF QueueOK, Working, Collect, At
      <4> QED BY <4>1, DirsOf, RemovedType DEF TypeInv
    <3> QED BY <1>1, <3>1, <3>2, <3>3, <3>4, FilesMoves DEF FilesMove, TypeInv
  <2> QED BY <2>2, <2>3, <2>4, <2>5, <2>6, <2>7, <2>8, <2>9 DEF TypeInv
<1>2. ASSUME NEW r \in Runs, Child(r) PROVE TypeInv'
  <2>1. RunOK(r) /\ Running(r)
    BY <1>2 DEF Child, Load, WriteListing, Complain, ExitOk, ExitFailed, ChildState, Running, Alive
  <2>2. pc[r] \in {"poll", "clock"} /\ queue[r] # <<>>
    BY <2>1 DEF RunOK, ChildOK, QueueOK, Working
  <2>3. Dir(r) \in Dirs /\ files[Dir(r)] \in Files \cup {None}
    BY <2>2, DirsOf DEF TypeInv
  <2>4. UNCHANGED <<targets, keep, parentVars>>
    BY <1>2 DEF Child, Load, WriteListing, Complain, ExitOk, ExitFailed
  <2>5. child' \in [Runs -> Children]
    <3>1. CASE Load(r)
      <4>1. files[Dir(r)].so \in Programs \cup {None}
        BY <2>3, <3>1 DEF Load, Present, Files
      <4>2. [child[r] EXCEPT !.state = "loaded", !.elf = files[Dir(r)].so] \in Children
        BY <4>1, ChildType DEF TypeInv, ChildStates, Alive
      <4> QED BY <3>1, <4>2 DEF Load, TypeInv
    <3>2. CASE Complain(r)
      <4>1. [child[r] EXCEPT !.owes = @ - 1, !.pipe = @ + 1] \in Children
        BY <3>2, ChildType DEF Complain, TypeInv
      <4> QED BY <3>2, <4>1 DEF Complain, TypeInv
    <3>3. CASE WriteListing(r) \/ ExitOk(r) \/ ExitFailed(r)
      <4>1. \A to \in {"written", "exited", "failed"} : [child[r] EXCEPT !.state = to] \in Children
        BY ChildType DEF TypeInv, ChildStates, Alive
      <4>2. \E to \in {"written", "exited", "failed"} :
              child' = [child EXCEPT ![r] = [child[r] EXCEPT !.state = to]]
        BY <3>3 DEF WriteListing, ExitOk, ExitFailed, ChildState
      <4> QED BY <4>1, <4>2 DEF TypeInv
    <3> QED BY <1>2, <3>1, <3>2, <3>3 DEF Child
  <2>6. files' \in [Dirs -> Files \cup {None}]
    <3>1. CASE WriteListing(r)
      <4>1. child[r].elf \in Programs \cup {None}
        BY DEF TypeInv, Children
      <4>2. [files[Dir(r)] EXCEPT !.out = child[r].elf] \in Files
        BY <2>3, <3>1, <4>1, FileType DEF WriteListing, Present
      <4> QED BY <3>1, <4>2 DEF WriteListing, TypeInv
    <3>2. CASE ~WriteListing(r)
      BY <1>2, <3>2 DEF Child, Load, Complain, ExitOk, ExitFailed, TypeInv
    <3> QED BY <3>1, <3>2
  <2>7. finished' \subseteq Runs \X Programs
    <3>1. finished' \in {finished, finished \cup {<<r, Head(queue[r])>>}}
      BY <1>2 DEF Child, Load, WriteListing, Complain, ExitOk, ExitFailed
    <3>2. Head(queue[r]) \in Programs /\ finished \subseteq Runs \X Programs
      BY <2>2, DirsOf DEF TypeInv
    <3> QED BY <3>1, <3>2
  <2> QED BY <2>4, <2>5, <2>6, <2>7 DEF TypeInv, parentVars
<1>3. CASE Tick \/ UNCHANGED vars
  BY <1>3 DEF Tick, vars, parentVars, TypeInv
<1> QED BY <1>1, <1>2, <1>3 DEF Next

-----------------------------------------------------------------------------
(* The directories *)

\* The target worked on is one of the run's, and not one it has analysed.
LEMMA Current ==
  ASSUME TypeInv, NEW r \in Runs, QueueOK(r), queue[r] # <<>>
  PROVE  /\ Head(queue[r]) \in Programs /\ Head(queue[r]) \in Range(targets[r])
         /\ Head(queue[r]) \notin Analysed(r)
<1>1. queue[r] \in Seq(Programs)
  BY DEF TypeInv
<1>2. Head(queue[r]) \in Range(queue[r]) /\ Head(queue[r]) \in Programs
  BY <1>1, TailRange, HeadTailProperties
<1> QED BY <1>2 DEF QueueOK

\* No other run works in a directory that is a run's own.
LEMMA Elsewhere ==
  ASSUME TypeInv, NEW r \in Runs, NEW q \in Runs, q # r, QueueOK(q), queue[q] # <<>>,
         NEW p \in Programs, ~Shared(r, p)
  PROVE  Dir(q) # <<keep[r], ShortKey[p]>>
BY Current DEF Shared, Dir

\* What depends on the command lines alone.
LEMMA Fixed ==
  ASSUME UNCHANGED <<targets, keep>>, NEW r \in Runs, NEW p
  PROVE  Shared(r, p)' = Shared(r, p) /\ Alone(r, p)' = Alone(r, p)
BY DEF Shared, Alone

\* No step of the run spoils the listing of a directory that is its own.
LEMMA CurrentByParent ==
  ASSUME TypeInv, NEW r \in Runs, RunOK(r), CurrentOK(r), Parent(r)
  PROVE  CurrentOK(r)'
<1> USE DEF At, Goto
<1>1. QueueOK(r) /\ ChildOK(r) /\ pc \in [Runs -> Steps] /\ UNCHANGED <<targets, keep>>
  BY Apart DEF RunOK, TypeInv
<1>2. CASE ~Worked(r)
  <2>1. pc'[r] \in {"fetch", "done"}
    BY <1>1, <1>2, ParentSteps DEF Warned, Collect, Probe, Return
  <2> QED BY <2>1 DEF CurrentOK
<1>3. CASE Worked(r)
  <2> DEFINE p == Head(queue[r])
  <2>1. queue' = queue /\ queue[r] # <<>> /\ ~Warn(r)
    BY <1>1, <1>3 DEF Worked, Working, Warn
  <2>2. Dir(r) \in Dirs /\ p \in Programs /\ Dir(r)' = Dir(r)
    BY <1>1, <2>1, DirsOf DEF Dir
  <2>3. Shared(r, p)' = Shared(r, p)
    BY <1>1, <2>1, Fixed
  <2>4. CASE Fetch(r) \/ MakeDir(r)
    <3>1. pc'[r] \in {"mkdir", "write"}
      BY <1>1, <2>1, <2>4 DEF Fetch, MakeDir
    <3> QED BY <3>1 DEF CurrentOK
  <2>5. CASE WriteElf(r)
    <3>1. /\ files[Dir(r)] \in Files /\ pc'[r] = "spawn"
          /\ files' = [files EXCEPT ![Dir(r)] = [files[Dir(r)] EXCEPT !.so = p]]
      BY <1>1, <2>1, <2>2, <2>5 DEF WriteElf, TypeInv, Present
    <3>2. files'[Dir(r)] = [files[Dir(r)] EXCEPT !.so = p]
      BY <2>2, <3>1 DEF TypeInv
    <3>3. files'[Dir(r)] # None /\ files'[Dir(r)].so = p
      BY <2>2, <3>1, <3>2, FileType, KeysAssumption DEF Files
    <3> QED BY <2>1, <2>2, <3>1, <3>3 DEF CurrentOK, Present
  <2>6. CASE Spawn(r)
    <3>1. /\ pc[r] = "spawn" /\ pc'[r] = "poll" /\ child'[r].state = "started"
          /\ files' = files
      <4>1. PICK owes \in Chunks :
              child' = [child EXCEPT ![r] = [Idle EXCEPT !.state = "started", !.owes = owes]]
        BY <2>1, <2>6 DEF Spawn
      <4>2. child'[r] = [Idle EXCEPT !.state = "started", !.owes = owes]
        BY <4>1 DEF TypeInv
      <4>3. child'[r].state = "started"
        BY <4>2 DEF Idle
      <4> QED BY <1>1, <2>1, <2>6, <4>3 DEF Spawn, TypeInv
    <3> QED BY <2>1, <2>2, <2>3, <3>1 DEF CurrentOK, Present, Own
  <2>7. CASE Reap(r) \/ StillRunning(r) \/ Sleep(r)
    <3>1. /\ pc[r] \in {"poll", "clock"} /\ pc'[r] \in {"poll", "clock", "read"}
          /\ UNCHANGED <<files, child>>
      BY <1>1, <2>7 DEF Reap, StillRunning, Sleep
    <3> QED BY <2>1, <2>2, <2>3, <3>1 DEF CurrentOK, Present, Own
  <2>8. CASE ReadListing(r)
    <3>1. /\ pc[r] = "read" /\ pc'[r] = "clean" /\ UNCHANGED <<files, child>>
          /\ listing'[r] = IF Present(r) THEN files[Dir(r)].out ELSE None
      BY <1>1, <2>8 DEF ReadListing, TypeInv
    <3>2. child[r].state = "exited"
      BY <1>1, <3>1 DEF ChildOK
    <3> QED BY <2>1, <2>2, <2>3, <3>1, <3>2 DEF CurrentOK, Present, Own
  <2>9. ~ReapFailed(r) /\ ~Kill(r)
    BY <2>1 DEF ReapFailed, Kill
  <2>10. ~Probe(r) /\ ~Collect(r) /\ ~Return(r)
    BY <1>1, <1>3 DEF Worked, Probe, Collect, Return, Working
  <2> QED BY <2>4, <2>5, <2>6, <2>7, <2>8, <2>9, <2>10 DEF Parent
<1> QED BY <1>2, <1>3

\* Neither does a step of its child.
LEMMA CurrentByChild ==
  ASSUME TypeInv, NEW r \in Runs, RunOK(r), CurrentOK(r), Child(r)
  PROVE  CurrentOK(r)'
<1> DEFINE p == Head(queue[r])
           f == files[Dir(r)]
<1>1. UNCHANGED <<targets, keep, parentVars>>
  BY DEF Child, Load, WriteListing, Complain, ExitOk, ExitFailed
<1>2. Running(r)
  BY DEF Child, Load, WriteListing, Complain, ExitOk, ExitFailed, ChildState, Running, Alive
<1>3. pc[r] \in {"poll", "clock"} /\ queue[r] # <<>> /\ pc'[r] = pc[r] /\ queue' = queue
  BY <1>1, <1>2 DEF RunOK, ChildOK, QueueOK, Working, parentVars
<1>4. Dir(r) \in Dirs /\ Dir(r)' = Dir(r) /\ Shared(r, p)' = Shared(r, p)
  BY <1>1, <1>3, DirsOf, Fixed DEF Dir
<1>5. SUFFICES ASSUME ~Shared(r, p)
               PROVE  /\ Present(r)' /\ files'[Dir(r)].so = p
                      /\ child'[r].state \in {"loaded", "written", "exited"} => child'[r].elf = p
                      /\ child'[r].state \in {"written", "exited"} => files'[Dir(r)].out = p
  BY <1>3, <1>4 DEF CurrentOK, Own
<1>6. /\ Present(r) /\ f.so = p /\ f \in Files
      /\ child[r].state \in {"loaded", "written", "exited"} => child[r].elf = p
      /\ child[r].state \in {"written", "exited"} => f.out = p
  BY <1>3, <1>4, <1>5 DEF CurrentOK, Own, Present, TypeInv
<1>7. child[r] \in Children /\ child \in [Runs -> Children]
  BY DEF TypeInv
<1>8. CASE Load(r)
  <2>1. child'[r] = [child[r] EXCEPT !.state = "loaded", !.elf = f.so] /\ files' = files
    BY <1>7, <1>8 DEF Load
  <2> QED BY <1>4, <1>6, <1>7, <2>1 DEF Present, Children
<1>9. CASE WriteListing(r)
  <2>1. /\ child[r].state = "loaded" /\ child'[r] = [child[r] EXCEPT !.state = "written"]
        /\ files' = [files EXCEPT ![Dir(r)] = [f EXCEPT !.out = child[r].elf]]
    BY <1>7, <1>9 DEF WriteListing, ChildState
  <2>2. files'[Dir(r)] = [f EXCEPT !.out = p]
    BY <1>4, <1>6, <2>1 DEF TypeInv
  <2>3. files'[Dir(r)] \in Files /\ files'[Dir(r)].so = p /\ files'[Dir(r)].out = p
    BY <1>3, <1>6, <2>2, DirsOf DEF Files
  <2>4. child'[r].elf = p
    BY <1>6, <1>7, <2>1 DEF Children
  <2> QED BY <1>4, <2>3, <2>4, KeysAssumption DEF Present
<1>10. CASE Complain(r)
  <2>1. /\ child'[r] = [child[r] EXCEPT !.owes = @ - 1, !.pipe = @ + 1] /\ files' = files
    BY <1>7, <1>10 DEF Complain
  <2>2. child'[r].state = child[r].state /\ child'[r].elf = child[r].elf
    BY <1>7, <2>1 DEF Children
  <2> QED BY <1>4, <1>6, <2>1, <2>2 DEF Present
<1>11. CASE ExitOk(r)
  <2>1. /\ child[r].state = "written" /\ child'[r] = [child[r] EXCEPT !.state = "exited"]
        /\ files' = files
    BY <1>7, <1>11 DEF ExitOk, ChildState
  <2> QED BY <1>4, <1>6, <1>7, <2>1 DEF Present, Children
<1>12. CASE ExitFailed(r)
  <2>1. child'[r] = [child[r] EXCEPT !.state = "failed"] /\ files' = files
    BY <1>7, <1>12 DEF ExitFailed, ChildState
  <2>2. child'[r].state = "failed"
    BY <1>7, <2>1 DEF Children
  <2> QED BY <1>4, <1>6, <2>1, <2>2 DEF Present
<1> QED BY <1>8, <1>9, <1>10, <1>11, <1>12 DEF Child

\* What a run's own step leaves of the directories it kept.
LEMMA KeptByOwn ==
  ASSUME TypeInv, NEW r \in Runs, RunOK(r), DirOK(r), Parent(r) \/ Child(r)
  PROVE  ListingOK(r)' /\ KeptOK(r)'
<1>1. /\ QueueOK(r) /\ ChildOK(r) /\ CurrentOK(r) /\ ListingOK(r) /\ KeptOK(r)
      /\ UNCHANGED <<targets, keep>>
  BY Apart DEF RunOK, DirOK
<1>2. CASE Collect(r)
  <2> DEFINE p == Head(queue[r])
  <2>1. pc[r] = "clean" /\ queue[r] # <<>> /\ child[r].state = "exited"
    BY <1>1, <1>2 DEF Collect, At, ChildOK, QueueOK, Working
  <2>2. Dir(r) \in Dirs /\ p \in Programs
    BY <2>1, DirsOf
  <2>3. ~Shared(r, p) => Present(r) /\ files[Dir(r)].out = p /\ listing[r] = p
    BY <1>1, <2>1 DEF CurrentOK, Own
  <2>4. ListingOK(r)'
    <3>1. /\ Len(analyses'[r]) = Len(analyses[r]) + 1 /\ Len(analyses[r]) \in Nat
          /\ \A i \in 1..Len(analyses[r]) : analyses'[r][i] = analyses[r][i]
          /\ analyses'[r][Len(analyses[r]) + 1] = [program |-> p, listing |-> listing[r]]
      BY <1>1, <1>2, CollectReport
    <3>2. \A i \in 1..Len(analyses'[r]) : i \in 1..Len(analyses[r]) \/ i = Len(analyses[r]) + 1
      BY <3>1
    <3>3. \A i \in 1..Len(analyses'[r]) :
            \/ analyses'[r][i].listing = analyses'[r][i].program
            \/ Shared(r, analyses'[r][i].program)
      BY <1>1, <2>3, <3>1, <3>2, SMTT(30) DEF ListingOK
    <3> QED BY <1>1, <3>3 DEF ListingOK, Shared
  <2>5. KeptOK(r)'
    <3>1. SUFFICES ASSUME NEW x \in Analysed(r) \cup {p}, Alone(r, x)
                   PROVE  /\ files'[<<TRUE, ShortKey[x]>>] # None
                          /\ files'[<<TRUE, ShortKey[x]>>].out = x
      BY <1>1, <1>2, CollectReport, Fixed DEF KeptOK
    <3>2. files' = files
      BY <1>2, <3>1 DEF Collect, Cleaned, Alone
    <3>3. CASE x = p
      BY <2>3, <3>1, <3>2, <3>3 DEF Alone, Present, Dir
    <3>4. CASE x \in Analysed(r)
      BY <1>1, <3>1, <3>2, <3>4 DEF KeptOK
    <3> QED BY <3>3, <3>4
  <2> QED BY <2>4, <2>5
<1>3. CASE ~Collect(r)
  <2>1. analyses'[r] = analyses[r]
    <3>1. CASE Parent(r)
      BY <1>1, <1>3, <3>1, ParentSteps DEF Worked, Warned, Probe, Return
    <3>2. CASE Child(r)
      BY <3>2 DEF Child, Load, WriteListing, Complain, ExitOk, ExitFailed, parentVars
    <3> QED BY <3>1, <3>2
  <2>2. Analysed(r)' = Analysed(r)
    BY <2>1 DEF Analysed
  <2>3. ListingOK(r)'
    BY <1>1, <2>1 DEF ListingOK, Shared
  <2>4. SUFFICES ASSUME NEW x \in Analysed(r), Alone(r, x)
                 PROVE  files'[<<TRUE, ShortKey[x]>>] = files[<<TRUE, ShortKey[x]>>]
    BY <1>1, <2>2, <2>3, Fixed DEF KeptOK
  <2>5. x \in Programs /\ <<TRUE, ShortKey[x]>> \in Dirs
    <3>1. \A i \in 1..Len(analyses[r]) :
            analyses[r][i] \in [program : Programs, listing : Programs \cup {None}]
      BY ElementOfSeq DEF TypeInv
    <3>2. x \in Programs
      BY <2>4, <3>1 DEF Analysed
    <3> QED BY <3>2, KeysAssumption DEF Dirs, Range
  <2>6. queue[r] # <<>> => Dir(r) # <<TRUE, ShortKey[x]>>
    BY <1>1, <2>4, Current DEF Alone, Dir
  <2> QED BY <2>5, <2>6, Apart
<1> QED BY <1>2, <1>3

\* Nor a step of another run.
LEMMA DirKept ==
  ASSUME TypeInv, \A q \in Runs : RunOK(q), NEW r \in Runs, DirOK(r), [Next]_vars
  PROVE  DirOK(r)'
<1>1. CASE Parent(r) \/ Child(r)
  BY <1>1, CurrentByParent, CurrentByChild, KeptByOwn DEF DirOK
<1>2. ASSUME UNCHANGED <<targets, keep, queue[r], pc[r], child[r], listing[r], analyses[r]>>,
             \A p \in Programs : ~Shared(r, p) =>
               files'[<<keep[r], ShortKey[p]>>] = files[<<keep[r], ShortKey[p]>>]
      PROVE  DirOK(r)'
  <2>1. CurrentOK(r)'
    <3>1. Dir(r)' = Dir(r) /\ Shared(r, Head(queue[r]))' = Shared(r, Head(queue[r]))
      BY <1>2, Fixed DEF Dir
    <3>2. CASE pc[r] \notin {"spawn", "poll", "clock", "read", "clean"} \/ ~Own(r, Head(queue[r]))
      BY <1>2, <3>1, <3>2 DEF CurrentOK, Own
    <3>3. CASE pc[r] \in {"spawn", "poll", "clock", "read", "clean"} /\ Own(r, Head(queue[r]))
      <4>1. Head(queue[r]) \in Programs
        BY <3>3, Current DEF RunOK, QueueOK, Working
      <4>2. files'[Dir(r)] = files[Dir(r)]
        BY <1>2, <3>3, <4>1 DEF Own, Dir
      <4> QED BY <1>2, <3>1, <4>2 DEF CurrentOK, DirOK, Own, Present
    <3> QED BY <3>2, <3>3
  <2>2. ListingOK(r)'
    BY <1>2 DEF DirOK, ListingOK, Shared
  <2>3. KeptOK(r)'
    <3>1. Analysed(r)' = Analysed(r)
      BY <1>2 DEF Analysed
    <3>2. SUFFICES ASSUME NEW x \in Analysed(r), Alone(r, x)
                   PROVE  files'[<<TRUE, ShortKey[x]>>] = files[<<TRUE, ShortKey[x]>>]
      BY <1>2, <3>1, Fixed DEF DirOK, KeptOK
    <3>3. \A i \in 1..Len(analyses[r]) :
            analyses[r][i] \in [program : Programs, listing : Programs \cup {None}]
      BY ElementOfSeq DEF TypeInv
    <3>4. x \in Programs
      BY <3>2, <3>3 DEF Analysed
    <3> QED BY <1>2, <3>2, <3>4 DEF Alone
  <2> QED BY <2>1, <2>2, <2>3 DEF DirOK
<1>3. ASSUME NEW q \in Runs, Parent(q) \/ Child(q), q # r PROVE DirOK(r)'
  <2>1. /\ UNCHANGED <<targets, keep, queue[r], pc[r], child[r], listing[r], analyses[r]>>
        /\ \/ files' = files
           \/ queue[q] # <<>> /\ \A d \in Dirs \ {Dir(q)} : files'[d] = files[d]
    BY <1>3, Apart
  <2>2. \A p \in Programs : <<keep[r], ShortKey[p]>> \in Dirs
    BY KeysAssumption DEF Dirs, Range, TypeInv
  <2>3. \A p \in Programs : ~Shared(r, p) /\ queue[q] # <<>> => Dir(q) # <<keep[r], ShortKey[p]>>
    BY <1>3, Elsewhere DEF RunOK
  <2> QED BY <1>2, <2>1, <2>2, <2>3
<1>4. CASE Tick \/ UNCHANGED vars
  BY <1>2, <1>4 DEF Tick, vars, parentVars
<1> QED BY <1>1, <1>3, <1>4 DEF Next

\* Whoever owns a temporary directory keeps owning it, unless it tries in vain to
\* remove it.
LEMMA OwnerKept ==
  ASSUME TypeInv, NEW r \in Runs, RunOK(r), Parent(r) \/ Child(r),
         NEW k, Owner(r, k), files'[<<FALSE, k>>] # None, k \in Range(ShortKey),
         <<FALSE, k>> \notin unremoved'
  PROVE  Owner(r, k)'
<1>1. QueueOK(r) /\ ChildOK(r) /\ pc \in [Runs -> Steps] /\ UNCHANGED <<targets, keep>>
  BY Apart DEF RunOK, TypeInv
<1>2. CASE Child(r)
  <2>1. UNCHANGED parentVars
    BY <1>2 DEF Child, Load, WriteListing, Complain, ExitOk, ExitFailed
  <2> QED BY <1>1, <2>1 DEF Owner, Working, parentVars
<1>3. CASE Parent(r) /\ \E q \in Programs : ShortKey[q] = k /\ q \in Range(warnings[r])
  <2>1. Range(warnings[r]) \subseteq Range(warnings'[r])
    <3>1. CASE Warned(r)
      BY <1>1, <3>1, WarnedReport
    <3>2. CASE Probe(r)
      <4>1. warnings[r] = <<>> \/ warnings'[r] = warnings[r]
        BY <3>2 DEF Probe, At, RunOK, CountOK
      <4>2. Range(<<>>) = {}
        BY DEF Range
      <4> QED BY <4>1, <4>2
    <3>3. CASE ~Warned(r) /\ ~Probe(r)
      BY <1>1, <1>3, <3>3, ParentSteps DEF Worked, Collect, Return
    <3> QED BY <3>1, <3>2, <3>3
  <2> QED BY <1>1, <1>3, <2>1 DEF Owner
<1>4. CASE Parent(r) /\ Working(r) /\ pc[r] # "mkdir" /\ ShortKey[Head(queue[r])] = k
  <2>1. queue[r] # <<>> /\ Dir(r) = <<FALSE, k>> /\ Dir(r) \in Dirs /\ Head(queue[r]) \in Programs
        /\ keep[r] = FALSE
    BY <1>1, <1>4, DirsOf DEF QueueOK, Owner, Dir, TypeInv
  <2>2. CASE Worked(r)
    <3>1. pc'[r] # "mkdir"
      BY <1>1, <1>4, <2>2 DEF Worked, Working, Parent, Probe, Fetch, MakeDir, WriteElf, Spawn, Reap,
         ReapFailed, StillRunning, Sleep, Kill, ReadListing, Collect, Return, Warn, Goto, At
    <3> QED BY <1>1, <1>4, <2>1, <2>2, <3>1 DEF Worked, Owner
  <2>3. CASE Warned(r)
    BY <1>1, <1>4, <2>1, <2>3, WarnedReport DEF Owner
  <2>4. CASE Collect(r)
    BY <2>1, <2>4 DEF Collect
  <2>5. ~Probe(r) /\ ~Return(r)
    BY <1>4 DEF Probe, Return, At, Working
  <2> QED BY <1>1, <1>4, <2>2, <2>3, <2>4, <2>5, ParentSteps
<1> QED BY <1>2, <1>3, <1>4 DEF Owner

\* Whoever makes one owns it.
LEMMA Made ==
  ASSUME TypeInv, NEW r \in Runs, RunOK(r), Parent(r) \/ Child(r),
         NEW k \in Range(ShortKey), files[<<FALSE, k>>] = None, files'[<<FALSE, k>>] # None
  PROVE  Owner(r, k)'
<1>1. <<FALSE, k>> \in Dirs /\ UNCHANGED <<targets, keep>> /\ QueueOK(r)
  BY Apart DEF Dirs, RunOK
<1>2. files' # files /\ Dir(r) = <<FALSE, k>> /\ queue[r] # <<>>
  BY <1>1, Apart
<1>3. Dir(r) \in Dirs /\ ~Present(r)
  BY <1>1, <1>2 DEF Present
<1>4. ~WriteListing(r)
  BY <1>3 DEF WriteListing
<1>5. Removed(files[Dir(r)]) = {None}
  BY <1>3, RemovedType DEF Present
<1>6. (\E left \in Removed(files[Dir(r)]) : files' = [files EXCEPT ![Dir(r)] = left]) =>
         files'[<<FALSE, k>>] = None
  BY <1>1, <1>2, <1>5 DEF TypeInv
<1>7. At(r, "mkdir") /\ pc'[r] = "write"
  BY <1>2, <1>3, <1>4, <1>6, FilesMoves DEF FilesMove
<1>8. queue' = queue
  <2>1. ~Child(r)
    BY <1>7 DEF Child, Load, WriteListing, Complain, ExitOk, ExitFailed, parentVars, At
  <2>2. ~Warned(r) /\ ~Collect(r) /\ ~Probe(r) /\ ~Return(r)
    BY <1>7 DEF Warned, Collect, Probe, Return, At, TypeInv
  <2> QED BY <2>1, <2>2, ParentSteps DEF RunOK, Worked
<1> QED BY <1>1, <1>2, <1>7, <1>8 DEF Owner, Working, Dir

\* A directory that could not be removed is forgotten only when it has gone.
LEMMA UnremovedMoves ==
  ASSUME NEW r \in Runs, Parent(r) \/ Child(r), NEW d \in unremoved, files'[d] # None
  PROVE  d \in unremoved'
<1>1. CASE Collect(r)
  BY <1>1 DEF Collect
<1>2. CASE ~Collect(r)
  BY <1>2 DEF Parent, Child, Probe, Fetch, MakeDir, WriteElf, Spawn, Reap, ReapFailed, StillRunning,
              Sleep, Kill, ReadListing, Return, Load, WriteListing, Complain, ExitOk, ExitFailed
<1> QED BY <1>1, <1>2

\* So every temporary directory has an owner, or could not be removed.
LEMMA LeftoverKept ==
  ASSUME TypeInv, \A q \in Runs : RunOK(q), LeftoverOK, [Next]_vars
  PROVE  LeftoverOK'
<1>1. ASSUME NEW q \in Runs, NEW k, Owner(q, k),
             UNCHANGED <<keep, queue[q], pc[q], warnings[q]>>
      PROVE  Owner(q, k)'
  BY <1>1 DEF Owner, Working
<1>2. ASSUME NEW r \in Runs, Parent(r) \/ Child(r) PROVE LeftoverOK'
  <2>1. SUFFICES ASSUME NEW k \in Range(ShortKey), files'[<<FALSE, k>>] # None,
                        <<FALSE, k>> \notin unremoved'
                 PROVE  \E q \in Runs : Owner(q, k)'
    BY DEF LeftoverOK
  <2>2. CASE files[<<FALSE, k>>] = None
    BY <1>2, <2>1, <2>2, Made
  <2>3. CASE files[<<FALSE, k>>] # None
    <3>0. <<FALSE, k>> \notin unremoved
      BY <1>2, <2>1, UnremovedMoves
    <3>1. PICK q \in Runs : Owner(q, k)
      BY <2>3, <3>0 DEF LeftoverOK
    <3>2. CASE q = r
      BY <1>2, <2>1, <3>1, <3>2, OwnerKept
    <3>3. CASE q # r
      BY <1>1, <1>2, <3>1, <3>3, Apart
    <3> QED BY <3>2, <3>3
  <2> QED BY <2>2, <2>3
<1>3. CASE Tick \/ UNCHANGED vars
  BY <1>3 DEF Tick, vars, parentVars, LeftoverOK, Owner, Working
<1> QED BY <1>2, <1>3 DEF Next

-----------------------------------------------------------------------------
(* The theorems *)

\* The invariant holds at the start.
LEMMA DisassemblyInit == Init => DisassemblyInv
<1> SUFFICES ASSUME Init PROVE DisassemblyInv
  OBVIOUS
<1>1. ASSUME NEW r \in Runs
      PROVE  /\ targets[r] \in Seq(Programs) /\ targets[r] # <<>> /\ IsInjective(targets[r])
             /\ queue[r] = targets[r] /\ pc[r] = "probe" /\ child[r] = Idle
             /\ analyses[r] = <<>> /\ warnings[r] = <<>>
  BY TargetsAssumption DEF Init
<1>2. TypeInv
  <2>1. targets \in [Runs -> Seq(Programs)] /\ keep \in [Runs -> BOOLEAN]
    BY <1>1, TargetsAssumption DEF Init
  <2>2. Idle \in Children
    BY DEF Idle, Children
  <2> QED BY <2>1, <2>2, EmptySeq DEF Init, TypeInv, Steps
<1>3. ASSUME NEW r \in Runs PROVE RunOK(r) /\ DirOK(r)
  <2>1. Analysed(r) = {} /\ Range(warnings[r]) = {} /\ Len(analyses[r]) = 0 /\ Len(warnings[r]) = 0
    BY <1>1 DEF Analysed, Range
  <2>2. Distinct(targets[r])
    BY <1>1, LenProperties DEF IsInjective, Distinct
  <2>3. QueueOK(r)
    BY <1>1, <2>1, <2>2 DEF QueueOK, Working
  <2>4. CountOK(r)
    <3>1. Len(targets[r]) \in Nat
      BY <1>1, LenProperties
    <3>2. 0 + 0 + Len(targets[r]) = Len(targets[r])
      BY <3>1
    <3> QED BY <1>1, <2>1, <3>2 DEF CountOK
  <2>5. ChildOK(r) /\ FinishedOK(r)
    BY <1>1 DEF ChildOK, FinishedOK, Running, Idle, Alive, Init
  <2>6. DirOK(r)
    BY <1>1, <2>1 DEF DirOK, CurrentOK, ListingOK, KeptOK
  <2> QED BY <2>3, <2>4, <2>5, <2>6 DEF RunOK
<1>4. LeftoverOK
  BY DEF Init, LeftoverOK, Dirs
<1> QED BY <1>2, <1>3, <1>4 DEF DisassemblyInv

\* Every step keeps it.
LEMMA DisassemblyStep == DisassemblyInv /\ [Next]_vars => DisassemblyInv'
BY TypeKept, RunKept, DirKept, LeftoverKept DEF DisassemblyInv

\* The inductive invariant: however the runs, their children and the clock
\* interleave, each run's queue, report, child and directory agree.
THEOREM DisassemblyInvariant == Spec => []DisassemblyInv
BY DisassemblyInit, DisassemblyStep, PTL DEF Spec

\* In every interleaving of any number of runs, a report's listing is its own
\* program's unless another run shares the directory.
THEOREM ListingTheorem == Spec => []OwnListing
<1>1. DisassemblyInv => OwnListing
  BY DEF DisassemblyInv, DirOK, ListingOK, OwnListing
<1> QED BY <1>1, DisassemblyInvariant, PTL

\* Every target of every run ends up in the report once, as an analysis or as a
\* warning, and one whose child finished in time as an analysis.
THEOREM TargetsTheorem == Spec => []TargetsAccounted
<1>1. ASSUME DisassemblyInv PROVE FinishedIsKept
  <2>1. finished \subseteq Runs \X Programs
    BY <1>1 DEF DisassemblyInv, TypeInv
  <2> QED BY <1>1, <2>1 DEF DisassemblyInv, RunOK, FinishedOK, FinishedIsKept
<1>2. ASSUME DisassemblyInv PROVE EachTargetOnce
  <2>1. SUFFICES ASSUME NEW r \in Runs, pc[r] = "done", warnings[r] # <<"not installed">>
                 PROVE  /\ Analysed(r) \cup Range(warnings[r]) = Range(targets[r])
                        /\ Len(analyses[r]) + Len(warnings[r]) = Len(targets[r])
    BY DEF EachTargetOnce
  <2>2. ~NotInstalled(r) /\ CountOK(r)
    BY <1>2, <2>1 DEF DisassemblyInv, RunOK, NotInstalled
  <2>3. queue[r] = <<>>
    BY <2>1, <2>2 DEF CountOK
  <2> DEFINE a == Len(analyses[r])
             w == Len(warnings[r])
             q == Len(queue[r])
             n == Len(targets[r])
  <2>4. a \in Nat /\ w \in Nat /\ q = 0 /\ a + w + q = n
    BY <1>2, <2>2, <2>3, LenProperties, EmptySeq DEF DisassemblyInv, TypeInv, CountOK
  <2>5. Range(<<>>) = {}
    BY DEF Range
  <2>6. Analysed(r) \cup Range(warnings[r]) = Range(targets[r])
    BY <2>2, <2>3, <2>5 DEF CountOK
  <2> HIDE DEF a, w, q, n
  <2>7. a + w = n
    BY <2>4
  <2> QED BY <2>6, <2>7 DEF a, w, n
<1>3. DisassemblyInv => TargetsAccounted
  BY <1>1, <1>2 DEF TargetsAccounted
<1> QED BY <1>3, DisassemblyInvariant, PTL

\* A temporary directory is left behind only by a failed analysis or by a removal
\* that failed, and what --output-disassembly keeps is the program's own, unless
\* another target shares its directory.
THEOREM DirectoriesTheorem == Spec => []DirectoriesKept
<1>1. ASSUME DisassemblyInv PROVE LeftoversExplained
  <2>1. SUFFICES ASSUME AllDone, NEW p \in Programs, files[<<FALSE, ShortKey[p]>>] # None,
                        <<FALSE, ShortKey[p]>> \notin unremoved
                 PROVE  \E r \in Runs, q \in Programs :
                          ~keep[r] /\ ShortKey[q] = ShortKey[p] /\ q \in Range(warnings[r])
    BY DEF LeftoversExplained
  <2>2. ShortKey[p] \in Range(ShortKey)
    BY KeysAssumption DEF Range
  <2>3. PICK r \in Runs : Owner(r, ShortKey[p])
    BY <1>1, <2>1, <2>2 DEF DisassemblyInv, LeftoverOK
  <2>4. ~Working(r)
    BY <2>1 DEF AllDone, Working
  <2> QED BY <2>3, <2>4 DEF Owner
<1>2. DisassemblyInv => ArtifactsKept
  BY DEF DisassemblyInv, DirOK, KeptOK, Alone, ArtifactsKept
<1>3. DisassemblyInv => DirectoriesKept
  BY <1>1, <1>2 DEF DirectoriesKept
<1> QED BY <1>3, DisassemblyInvariant, PTL
=============================================================================
