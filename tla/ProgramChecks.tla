----------------------------- MODULE ProgramChecks -----------------------------
(***************************************************************************)
(* simulator::verify_programs_inner: who owns each program, whether the    *)
(* verified-build registry knows it, and who can upgrade it.  A program's  *)
(* account has: exists, executable, owner and programdata, the address its *)
(* data points at (<<>> when it points nowhere); a program data account:   *)
(* exists and authority, <<>> when there is none.                          *)
(***************************************************************************)
EXTENDS Endpoint

CONSTANT Trusted   \* the protocol programs that are not checked

\* What the stage is given: programs with an account, and program data with one.
ProgramsAsked(j) ==
  /\ j.instructions \in Seq(DOMAIN j.lives)
  /\ \A p \in DOMAIN j.lives : \A a \in Moments(j, p) :
       a.exists => a.programdata = <<>> \/ a.programdata[1] \in DOMAIN j.lives

Upgradeable == "BPFLoaderUpgradeable"
Frozen == "BPFLoader2"

Flag(about, what, authority) ==
  [program |-> job.instructions[at], index |-> about, what |-> what, authority |-> authority]
Raise(what) == found \cup {Flag(at, what, <<>>)}

\* Each program once, and the trusted ones not at all.
Known(p) == p \in cache \/ p \in Trusted

\* The next instruction, with what is to be reported of this one's program.
NextProgram(flags) ==
  /\ at' = at + 1 /\ step' = "owner" /\ held' = <<>> /\ found' = flags
  /\ UNCHANGED <<job, chain, cache>>

ProgramsEnd == step = "owner" /\ at > Len(job.instructions) /\ Finish({})

SkipProgram ==
  /\ step = "owner" /\ at <= Len(job.instructions) /\ Known(job.instructions[at])
  /\ cache' = cache \cup {job.instructions[at]}
  /\ at' = at + 1 /\ UNCHANGED <<job, chain, step, held, found>>

\* What check_program_owner's answer is reported as, other than upgradeable.
OwnerVerdict(answer) ==
  IF Failed(answer) THEN {"owner unchecked"}
  ELSE IF answer[1].exists /\ answer[1].executable /\ answer[1].owner = Frozen THEN {}
  ELSE {"unknown"}

IsUpgradeable(answer) ==
  ~Failed(answer) /\ answer[1].exists /\ answer[1].executable /\ answer[1].owner = Upgradeable

CheckOwner ==
  /\ step = "owner" /\ at <= Len(job.instructions) /\ ~Known(job.instructions[at])
  /\ cache' = cache \cup {job.instructions[at]}
  /\ \E answer \in Answers(job.instructions[at]) :
       IF IsUpgradeable(answer)
         THEN step' = "registry" /\ UNCHANGED <<job, chain, at, held, found>>
         ELSE /\ at' = at + 1 /\ found' = found \cup {Flag(at, w, <<>>) : w \in OwnerVerdict(answer)}
              /\ UNCHANGED <<job, chain, step, held>>

\* 404 and is_verified = false read alike.
CheckRegistry ==
  /\ step = "registry"
  /\ \E verdict \in {"verified", "unverified build", "registry unchecked"} :
       /\ verdict # "registry unchecked" =>
            (verdict = "verified") = (job.instructions[at] \in job.verified)
       /\ found' = IF verdict = "verified" THEN found ELSE Raise(verdict)
  /\ step' = "pointer" /\ UNCHANGED <<job, chain, at, held, cache>>

\* check_upgrade_authority: the program's data names another account, which
\* names the authority. A failure of either request is not reported. (An account
\* that is program data itself is not executable and does not come this far.)
FetchPointer ==
  /\ step = "pointer"
  /\ \E answer \in Answers(job.instructions[at]) :
       IF Failed(answer) \/ ~answer[1].exists \/ answer[1].programdata = <<>> THEN NextProgram(found)
       ELSE held' = answer[1].programdata /\ step' = "authority" /\ UNCHANGED <<job, chain, at, cache, found>>

\* Mutant: a program data account that is gone reads as no authority.
AuthorityOf_Closed(answer) ==
  IF Failed(answer) THEN {} ELSE {IF answer[1].exists THEN answer[1].authority ELSE <<>>}

\* A failure is not reported, nor an account that is gone.
AuthorityOf(answer) == IF Failed(answer) \/ ~answer[1].exists THEN {} ELSE {answer[1].authority}

FetchAuthority ==
  /\ step = "authority"
  /\ \E answer \in Answers(held[1]) :
       NextProgram(found \cup {Flag(at, IF a = <<>> THEN "immutable" ELSE "authority", a) : a \in AuthorityOf(answer)})

ProgramsNext ==
  ProgramsEnd \/ SkipProgram \/ CheckOwner \/ CheckRegistry \/ FetchPointer \/ FetchAuthority

-----------------------------------------------------------------------------
FirstUse(p) == CHOOSE i \in DOMAIN job.instructions :
                 /\ job.instructions[i] = p
                 /\ \A j \in 1..(i - 1) : job.instructions[j] # p
About(p) == {f \in found : f.program = p}

\* Each program is judged once, at its first instruction, whichever requests
\* failed and whatever happened to its accounts meanwhile: nothing is reported
\* of it only if it was trusted, frozen, or verified at some moment; a warning
\* was true at some moment; and a program that is reported immutable has a program
\* data account that declares no authority, not one that is gone.
EveryProgramJudged ==
  (job.kind = "programs" /\ step = "done") =>
    \A p \in Range(job.instructions) :
      LET frozen == \E a \in Past(p) : a.exists /\ a.executable /\ a.owner = Frozen
          upgradeable == \E a \in Past(p) : a.exists /\ a.executable /\ a.owner = Upgradeable
      IN  /\ \A f \in About(p) : f.index = FirstUse(p) /\ p \notin Trusted
          /\ About(p) = {} => p \in Trusted \/ frozen \/ (upgradeable /\ p \in job.verified)
          /\ \A f \in About(p) :
               /\ f.what = "unknown" => \E a \in Past(p) : ~(a.exists /\ a.executable /\ a.owner \in {Frozen, Upgradeable})
               /\ f.what = "unverified build" => upgradeable /\ p \notin job.verified
               /\ f.what = "immutable" =>
                    \E a \in Past(p) : /\ a.exists /\ a.programdata # <<>>
                                       /\ \E d \in Past(a.programdata[1]) : d.exists /\ d.authority = <<>>
               /\ f.what = "authority" =>
                    \E a \in Past(p) : /\ a.exists /\ a.programdata # <<>>
                                       /\ \E d \in Past(a.programdata[1]) : d.exists /\ d.authority = f.authority
          /\ Cardinality({f \in About(p) : f.what \in {"immutable", "authority"}}) <= 1
=============================================================================
