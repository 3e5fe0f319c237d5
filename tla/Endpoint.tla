------------------------------- MODULE Endpoint -------------------------------
(***************************************************************************)
(* The RPC endpoint as the network stages use it: one request at a time,   *)
(* answered with what an account holds now, or failing, while others go on *)
(* changing the accounts.  An account's life is what it holds one after    *)
(* the other; chain says how far each account has come.  A request fails   *)
(* when it cannot be sent, times out, or its answer is an error or is not  *)
(* understood: the stages do not tell these apart.                         *)
(***************************************************************************)
EXTENDS Naturals, Sequences, FiniteSets, SequencesExt

VARIABLES
  job,    \* what the stage is given: a record with the lives of the accounts
  chain,  \* account -> its place in its life
  at,     \* where the stage's loop is
  step,   \* the request that is next; "done" or "error" at the end
  held,   \* what an earlier answer of this round gave
  cache,  \* what the stage remembers: keys, or pairs of a key and an answer
  found   \* the results and flags

\* What a stage may be given: no account's life is empty.
Lives(j) == \A a \in DOMAIN j.lives : j.lives[a] \in Seq(Range(j.lives[a])) /\ j.lives[a] # <<>>
Moments(j, a) == Range(j.lives[a])

stage == <<at, step, held, cache, found>>

Account(a) == job.lives[a][chain[a]]

\* What the account has held up to now.
Past(a) == {job.lives[a][i] : i \in 1..chain[a]}

\* A request's answers: one, or none when it fails.
Answers(a) == { <<Account(a)>>, <<>> }

Failed(answer) == answer = <<>>

\* Someone else's transaction changes an account.
Others ==
  /\ step \notin {"done", "error"}
  /\ \E a \in DOMAIN chain :
       /\ chain[a] < Len(job.lives[a])
       /\ chain' = [chain EXCEPT ![a] = @ + 1]
  /\ UNCHANGED <<job, stage>>

StartStage(first) == at = 1 /\ step = first /\ held = <<>> /\ cache = {} /\ found = {}

Finish(result) ==
  /\ step' = "done" /\ found' = found \cup result
  /\ UNCHANGED <<job, chain, at, held, cache>>
=============================================================================
