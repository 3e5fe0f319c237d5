----------------------------- MODULE Disassembly -----------------------------
(***************************************************************************)
(* bytecode::analyze_programs: for every target, the program's ELF is      *)
(* fetched, written into a directory, and handed to a sol-azy child        *)
(* process, which the tool polls until it exits or a deadline passes; the  *)
(* listing the child left in the directory is then read back.              *)
(*                                                                         *)
(* What runs beside the tool: the child, whose stderr is a pipe of bounded *)
(* size that nobody reads while it runs; the clock; and other runs of rts, *)
(* which share the directories.  A directory is named after the first      *)
(* eight characters of the program's key (short_key), under the system's   *)
(* temporary directory or under --output-disassembly.                      *)
(***************************************************************************)
EXTENDS Naturals, Sequences, SequencesExt

CONSTANTS
  Runs,          \* processes of rts
  Programs,
  ShortKey,      \* what short_key makes of a program's key
  TargetChoices, \* per run: the targets it may have
  KeepChoices,   \* whether --output-disassembly may be given
  None,          \* no program, no listing, no directory
  PipeSize,      \* bound: chunks of stderr the pipe holds
  Chunks,        \* bound: how many chunks of stderr a child may write
  Timeout        \* bound: SOL_AZY_TIMEOUT, in steps of the clock; 120 s in the code

Files == [so : Programs \cup {None}, out : Programs \cup {None}]

ASSUME KeysAssumption == DOMAIN ShortKey = Programs /\ None \notin Programs \cup Files
ASSUME TargetsAssumption ==
  /\ KeepChoices \subseteq BOOLEAN
  /\ DOMAIN TargetChoices = Runs
  /\ \A r \in Runs : \A choice \in TargetChoices[r] :
       choice \in Seq(Programs) /\ choice # <<>> /\ IsInjective(choice)
ASSUME BoundsAssumption == PipeSize \in Nat /\ Chunks \subseteq Nat /\ Timeout \in Nat

VARIABLES
  targets,    \* per run: bytecode_targets
  keep,       \* per run: options.artifact_dir is given
  queue,      \* per run: the targets left, the current one first
  pc,         \* per run: where analyze_programs is
  child,      \* per run: its sol-azy process
  timer,      \* per run: what is left until the child's deadline
  listing,    \* per run: run_reverse's result
  analyses,   \* per run: report.program_analyses
  warnings,   \* per run: the targets that left a warning, and "not installed"
  files,      \* the directories: the ELF and the listing in each
  finished,   \* history: the targets whose child exited successfully, save those
              \* that did between a poll and its look at the clock
  unremoved   \* history: the directories whose last removal failed

parentVars == <<queue, pc, listing, analyses, warnings>>
vars == <<targets, keep, parentVars, child, timer, files, finished, unremoved>>

Dirs == BOOLEAN \X Range(ShortKey)
Dir(r) == <<keep[r], ShortKey[Head(queue[r])]>>
Present(r) == files[Dir(r)] # None

Alive == {"started", "loaded", "written"}
Idle == [state |-> "none", elf |-> None, owes |-> 0, pipe |-> 0]
Running(r) == child[r].state \in Alive

At(r, step) == pc[r] = step
Goto(r, step) == pc' = [pc EXCEPT ![r] = step]

-----------------------------------------------------------------------------
(* analyze_programs and run_reverse *)

\* The loop goes on with the next target.
Rest(r) == Tail(queue[r])

Warn(r) == /\ warnings' = [warnings EXCEPT ![r] = Append(@, Head(queue[r]))]
           /\ queue' = [queue EXCEPT ![r] = Rest(r)]
           /\ Goto(r, "fetch")
           /\ UNCHANGED <<listing, analyses>>

\* is_available.
Probe(r) ==
  /\ At(r, "probe")
  /\ \/ Goto(r, "fetch") /\ UNCHANGED <<queue, warnings>>
     \/ /\ Goto(r, "done")
        /\ warnings' = [warnings EXCEPT ![r] = Append(@, "not installed")]
        /\ UNCHANGED queue
  /\ UNCHANGED <<targets, keep, listing, analyses, child, timer, files, finished, unremoved>>

\* fetch_program_elf finds the ELF, none, or fails.
Fetch(r) ==
  /\ At(r, "fetch") /\ queue[r] # <<>>
  /\ \/ Goto(r, "mkdir") /\ UNCHANGED <<queue, listing, analyses, warnings>>
     \/ Warn(r)
  /\ UNCHANGED <<targets, keep, child, timer, files, finished, unremoved>>

MakeDir(r) ==
  /\ At(r, "mkdir")
  /\ \/ /\ files' = IF Present(r) THEN files
                    ELSE [files EXCEPT ![Dir(r)] = [so |-> None, out |-> None]]
        /\ Goto(r, "write") /\ UNCHANGED <<queue, listing, analyses, warnings>>
     \/ Warn(r) /\ UNCHANGED files
  /\ UNCHANGED <<targets, keep, child, timer, finished, unremoved>>

WriteElf(r) ==
  /\ At(r, "write")
  /\ \/ /\ Present(r)
        /\ files' = [files EXCEPT ![Dir(r)].so = Head(queue[r])]
        /\ Goto(r, "spawn") /\ UNCHANGED <<queue, listing, analyses, warnings>>
     \/ Warn(r) /\ UNCHANGED files
  /\ UNCHANGED <<targets, keep, child, timer, finished, unremoved>>

Spawn(r) ==
  /\ At(r, "spawn")
  /\ \/ /\ \E owes \in Chunks :
             child' = [child EXCEPT ![r] = [Idle EXCEPT !.state = "started", !.owes = owes]]
        /\ timer' = [timer EXCEPT ![r] = Timeout]
        /\ Goto(r, "poll") /\ UNCHANGED <<queue, listing, analyses, warnings>>
     \/ Warn(r) /\ UNCHANGED <<child, timer>>
  /\ UNCHANGED <<targets, keep, files, finished, unremoved>>

\* Mutant: any exit is taken for a success.
Succeeded_AnyStatus(r) == child[r].state \in {"exited", "failed"}

Succeeded(r) == child[r].state = "exited"

\* Mutants: the deadline is looked at first, or not at all.
DeadlineHit_First(r) == pc[r] \in {"poll", "clock"} /\ timer[r] = 0
DeadlineHit_Never(r) == FALSE

\* The clock is looked at after try_wait found the child running; the child may
\* exit in between.
DeadlineHit(r) == At(r, "clock") /\ timer[r] = 0

\* try_wait.
Reap(r) ==
  /\ At(r, "poll") /\ Succeeded(r) /\ ~DeadlineHit(r)
  /\ Goto(r, "read")
  /\ UNCHANGED <<targets, keep, queue, listing, analyses, warnings, child, timer, files,
                 finished, unremoved>>

ReapFailed(r) ==
  /\ At(r, "poll") /\ child[r].state = "failed" /\ ~Succeeded(r) /\ ~DeadlineHit(r)
  /\ Warn(r)
  /\ UNCHANGED <<targets, keep, child, timer, files, finished, unremoved>>

StillRunning(r) ==
  /\ At(r, "poll") /\ Running(r) /\ ~DeadlineHit(r)
  /\ Goto(r, "clock")
  /\ UNCHANGED <<targets, keep, queue, listing, analyses, warnings, child, timer, files,
                 finished, unremoved>>

Sleep(r) ==
  /\ At(r, "clock") /\ ~DeadlineHit(r)
  /\ Goto(r, "poll")
  /\ UNCHANGED <<targets, keep, queue, listing, analyses, warnings, child, timer, files,
                 finished, unremoved>>

\* A kill that comes too late does nothing, and the analysis is given up all the same.
Kill(r) ==
  /\ DeadlineHit(r)
  /\ child' = [child EXCEPT ![r].state = IF Running(r) THEN "killed" ELSE @]
  /\ Warn(r)
  /\ UNCHANGED <<targets, keep, timer, files, finished, unremoved>>

\* read_to_string(..).unwrap_or_default().
ReadListing(r) ==
  /\ At(r, "read")
  /\ listing' = [listing EXCEPT ![r] = IF Present(r) THEN files[Dir(r)].out ELSE None]
  /\ Goto(r, "clean")
  /\ UNCHANGED <<targets, keep, queue, analyses, warnings, child, timer, files, finished,
                 unremoved>>

\* What remove_dir_all makes of a directory: nothing is left, or it fails, and
\* each file is gone or not.
Removed(dir) ==
  {None} \cup IF dir = None THEN {} ELSE [so : {dir.so, None}, out : {dir.out, None}]

\* Mutant: the directory is removed whether it is to be kept or not.
Cleaned_Always(r) == {[files EXCEPT ![Dir(r)] = left] : left \in Removed(files[Dir(r)])}

\* The directory is removed unless the artifacts are to be kept; that the removal
\* failed is not looked at.
Cleaned(r) ==
  IF keep[r] THEN {files}
  ELSE {[files EXCEPT ![Dir(r)] = left] : left \in Removed(files[Dir(r)])}

Collect(r) ==
  /\ At(r, "clean")
  /\ files' \in Cleaned(r)
  /\ unremoved' = IF keep[r] THEN unremoved
                   ELSE IF files'[Dir(r)] = None THEN unremoved \ {Dir(r)}
                   ELSE unremoved \cup {Dir(r)}
  /\ analyses' = [analyses EXCEPT ![r] =
                    Append(@, [program |-> Head(queue[r]), listing |-> listing[r]])]
  /\ queue' = [queue EXCEPT ![r] = Tail(@)]
  /\ Goto(r, "fetch")
  /\ UNCHANGED <<targets, keep, listing, warnings, child, timer, finished>>

Return(r) ==
  /\ At(r, "fetch") /\ queue[r] = <<>>
  /\ Goto(r, "done")
  /\ UNCHANGED <<targets, keep, queue, listing, analyses, warnings, child, timer, files,
                 finished, unremoved>>

Parent(r) ==
  \/ Probe(r) \/ Fetch(r) \/ MakeDir(r) \/ WriteElf(r) \/ Spawn(r)
  \/ Reap(r) \/ ReapFailed(r) \/ StillRunning(r) \/ Sleep(r) \/ Kill(r)
  \/ ReadListing(r) \/ Collect(r) \/ Return(r)

-----------------------------------------------------------------------------
(* sol-azy and the clock *)

\* The child reads program.so, leaves a listing, and exits; it fails when its
\* directory or program.so has gone, or for reasons of its own.
ChildState(r, from, to) ==
  /\ child[r].state = from
  /\ child' = [child EXCEPT ![r].state = to]

Load(r) ==
  /\ child[r].state = "started" /\ Present(r) /\ files[Dir(r)].so # None
  /\ child' = [child EXCEPT ![r].state = "loaded", ![r].elf = files[Dir(r)].so]
  /\ UNCHANGED <<targets, keep, parentVars, timer, files, finished, unremoved>>

WriteListing(r) ==
  /\ ChildState(r, "loaded", "written") /\ Present(r)
  /\ files' = [files EXCEPT ![Dir(r)].out = child[r].elf]
  /\ UNCHANGED <<targets, keep, parentVars, timer, finished, unremoved>>

\* A write to stderr blocks while the pipe is full.
RoomFor(r) == child[r].pipe < PipeSize

Complain(r) ==
  /\ Running(r) /\ child[r].owes > 0 /\ RoomFor(r)
  /\ child' = [child EXCEPT ![r].owes = @ - 1, ![r].pipe = @ + 1]
  /\ UNCHANGED <<targets, keep, parentVars, timer, files, finished, unremoved>>

ExitOk(r) ==
  /\ child[r].owes = 0 /\ ChildState(r, "written", "exited")
  /\ finished' = IF At(r, "clock") THEN finished
                   ELSE finished \cup {<<r, Head(queue[r])>>}
  /\ UNCHANGED <<targets, keep, parentVars, timer, files, unremoved>>

ExitFailed(r) ==
  /\ child[r].owes = 0 /\ \E from \in Alive : ChildState(r, from, "failed")
  /\ UNCHANGED <<targets, keep, parentVars, timer, files, finished, unremoved>>

Tick ==
  /\ \E r \in Runs : pc[r] \in {"poll", "clock"} /\ timer[r] > 0
  /\ timer' = [r \in Runs |-> IF timer[r] > 0 THEN timer[r] - 1 ELSE 0]
  /\ UNCHANGED <<targets, keep, parentVars, child, files, finished, unremoved>>

Init ==
  /\ targets \in [Runs -> UNION Range(TargetChoices)]
  /\ \A r \in Runs : targets[r] \in TargetChoices[r]
  /\ keep \in [Runs -> KeepChoices]
  /\ queue = targets
  /\ pc = [r \in Runs |-> "probe"]
  /\ child = [r \in Runs |-> Idle]
  /\ timer = [r \in Runs |-> 0]
  /\ listing = [r \in Runs |-> None]
  /\ analyses = [r \in Runs |-> <<>>]
  /\ warnings = [r \in Runs |-> <<>>]
  /\ files = [d \in Dirs |-> None]
  /\ finished = {}
  /\ unremoved = {}

Child(r) == Load(r) \/ WriteListing(r) \/ Complain(r) \/ ExitOk(r) \/ ExitFailed(r)

Next == Tick \/ \E r \in Runs : Parent(r) \/ Child(r)

\* The tool keeps polling and time passes.  Nothing is assumed of a child that
\* disassembles; only "sol-azy --help", which Probe waits for without a deadline,
\* is taken to return.
Spec == Init /\ [][Next]_vars /\ WF_vars(Tick) /\ \A r \in Runs : WF_vars(Parent(r))

-----------------------------------------------------------------------------
(* Properties *)

Analysed(r) == {analyses[r][i].program : i \in 1..Len(analyses[r])}

\* Another run may use run r's directory for program p.
Shared(r, p) == \E s \in Runs \ {r} : /\ keep[s] = keep[r]
                                      /\ \E q \in Range(targets[s]) : ShortKey[q] = ShortKey[p]

\* An analysis is made from the listing of its own program: not from what a
\* failed or killed child left in a directory of the same name, and not from
\* nothing (README.md:24: the ELF is fetched and analyzed).  Two runs of rts that
\* share a directory can spoil each other's.
OwnListing ==
  \A r \in Runs : \A i \in 1..Len(analyses[r]) :
    LET a == analyses[r][i] IN a.listing = a.program \/ Shared(r, a.program)

\* A child that exited successfully is analysed, however late that was noticed,
\* unless it exited between the last poll and its look at the clock.
FinishedIsKept ==
  \A f \in finished :
    f[2] \in Analysed(f[1]) \/ (queue[f[1]] # <<>> /\ f[2] = Head(queue[f[1]]))

\* When a run returns, each of its targets was analysed or left one warning,
\* never both, unless sol-azy is not installed: all of them are there, and there
\* are no more entries than targets.
EachTargetOnce ==
  \A r \in Runs : pc[r] = "done" /\ warnings[r] # <<"not installed">> =>
    /\ Analysed(r) \cup Range(warnings[r]) = Range(targets[r])
    /\ Len(analyses[r]) + Len(warnings[r]) = Len(targets[r])

\* No target is lost between the child, the clock and the report.
TargetsAccounted == FinishedIsKept /\ EachTargetOnce

AllDone == \A r \in Runs : pc[r] = "done"

\* A temporary directory outlives the runs only if an analysis that used it
\* failed, or the last attempt to remove it did (bytecode.rs:319-321, which says
\* nothing of it).
LeftoversExplained ==
  AllDone => \A p \in Programs :
    files[<<FALSE, ShortKey[p]>>] # None /\ <<FALSE, ShortKey[p]>> \notin unremoved =>
      \E r \in Runs, q \in Programs :
        ~keep[r] /\ ShortKey[q] = ShortKey[p] /\ q \in Range(warnings[r])

\* Kept artifacts are the analysed program's, unless another target, of this run or
\* another, shares its directory.
ArtifactsKept ==
  AllDone => \A r \in Runs : keep[r] =>
    \A p \in Analysed(r) :
      /\ ~Shared(r, p)
      /\ \A q \in Range(targets[r]) : ShortKey[q] = ShortKey[p] => q = p
      =>
        files[<<TRUE, ShortKey[p]>>] # None /\ files[<<TRUE, ShortKey[p]>>].out = p

\* The runs leave the directories as the user asked, gone, or kept and the
\* program's own, but for failures and for directories that several targets share.
DirectoriesKept == LeftoversExplained /\ ArtifactsKept

\* Whatever the child does (it may hang, or block on its stderr), the run ends.
Terminates == \A r \in Runs : <>(pc[r] = "done")
=============================================================================
