------------------------------- MODULE Replay -------------------------------
(***************************************************************************)
(* Replaying a transaction: replay_svm, the client, starts the rts-replay  *)
(* service, writes a request to its stdin, and waits, up to a deadline,    *)
(* for the report on its stdout.  The service (replay/src) loads accounts  *)
(* one by one from a chain that moves meanwhile, then executes the         *)
(* transaction and its mutations on what it loaded.                        *)
(*                                                                         *)
(* Two processes, the two pipes between them, the clock and the chain.     *)
(* What LiteSVM makes of a transaction is Run: a transfer moves lamports   *)
(* between wallets, or an amount inside the data of token accounts.        *)
(***************************************************************************)
EXTENDS Integers, Sequences, SequencesExt, FiniteSetsExt

CONSTANTS
  Wallets, Tokens,   \* accounts whose balance is lamports, or part of their data
  Placeholder,       \* an account of a lookup table that was not resolved
  Transactions,      \* what may be replayed
  Chains,            \* what the chain may hold at first
  Versions,          \* protocol versions a build may speak
  MaxAmount,         \* u64::MAX in the code
  Builtin,           \* programs LiteSVM has without being given them
  PipeSize,          \* bound: chunks a pipe holds
  RequestSize,       \* bound: chunks of a request
  ReportSize,        \* bound: chunks of a report
  Timeout,           \* bound: REPLAY_TIMEOUT, in steps of the clock; 120 s in the code
  MaxMoves           \* bound: transfers other transactions make meanwhile

Accounts == Wallets \cup Tokens
Amount == 0..MaxAmount
Instruction == [program : STRING, from : Accounts, to : Accounts, amount : Amount]

Transaction == [instructions : Seq(Instruction), static : SUBSET (Accounts \cup STRING),
                looked_up : SUBSET (Accounts \cup {Placeholder})]

ASSUME TransactionsAssumption ==
  Transactions \subseteq Transaction /\ Placeholder \notin Accounts
ASSUME ChainsAssumption ==
  \A c \in Chains : DOMAIN c \subseteq Accounts /\ c \in [DOMAIN c -> Amount]
ASSUME ReplayBoundsAssumption ==
  /\ MaxAmount \in Nat \ {0} /\ PipeSize \in Nat \ {0} /\ RequestSize \in Nat
  /\ ReportSize \in Nat /\ Timeout \in Nat /\ MaxMoves \in Nat

VARIABLES
  speaks,      \* the version of each side
  tx, request, \* the decoded transaction and what is asked about it
  client, unsent, timer, got, result,
  stdin, closed, stdout,   \* chunks in the pipes; the client has dropped its stdin
  service, unfetched, svm, pre, report, unprinted,
  chain, moves

clientVars == <<client, unsent, timer, got, result>>
pipeVars == <<stdin, closed, stdout>>
serviceVars == <<service, unfetched, svm, pre, report, unprinted>>
chainVars == <<chain, moves>>
replayVars == <<speaks, tx, request, clientVars, pipeVars, serviceVars, chainVars>>

-----------------------------------------------------------------------------
(* collect_accounts, build_mutations *)

ProgramsOf(t) == {t.instructions[i].program : i \in 1..Len(t.instructions)}

\* The message's accounts but the programs of its instructions, and what its
\* lookup tables resolved to; the tables themselves are not among them.
Collected(t) == (t.static \ ProgramsOf(t)) \cup (t.looked_up \ {Placeholder})

\* set_instruction_amount knows the layouts of transfers only.
HasLayout(ins) == ins.program \in {"system", "token"}

\* Twice the amount (saturating) and half of it, unless equal to it, and zero.
Candidates(amount) ==
  LET Unless(value) == IF value = amount THEN <<>> ELSE <<value>>
  IN  Unless(Min({2 * amount, MaxAmount})) \o Unless(amount \div 2) \o Unless(0)

Mutated(t, i, value) == [t EXCEPT !.instructions[i].amount = value]

MutationsOf(t, i) ==
  LET values == Candidates(t.instructions[i].amount)
  IN  IF HasLayout(t.instructions[i])
        THEN [k \in 1..Len(values) |-> Mutated(t, i, values[k])] ELSE <<>>

build_mutations(t) ==
  FlattenSeq([i \in 1..Len(t.instructions) |-> MutationsOf(t, i)])

-----------------------------------------------------------------------------
(* LiteSVM, and execute and diff_outcomes around it *)

Held(state, k) == IF k \in DOMAIN state THEN state[k] ELSE 0

\* A transfer of lamports may create its recipient, one of tokens may not.
CanMove(state, ins) ==
  /\ ins.from \in DOMAIN state /\ state[ins.from] >= ins.amount
  /\ ins.program = "token" => ins.to \in DOMAIN state

MovedTo(state, ins) ==
  [k \in DOMAIN state \cup {ins.to} |->
     Held(state, k) + (IF k = ins.to THEN ins.amount ELSE 0)
                    - (IF k = ins.from THEN ins.amount ELSE 0)]

\* One instruction, after the units and the state of those before it.
Step(run, ins) ==
  IF ~run.success THEN run
  ELSE LET ok == IF HasLayout(ins) THEN CanMove(run.state, ins)
                 ELSE ins.program \in run.loaded
       IN  [run EXCEPT !.success = ok, !.units = @ + 1,
              !.state = IF ok /\ HasLayout(ins) THEN MovedTo(@, ins) ELSE @]

\* A transaction whose lookup tables are not in the SVM does not run at all.
Run(t, machine) ==
  FoldLeft(Step, [success |-> t.looked_up = {}, units |-> 0, state |-> machine.state,
                  loaded |-> machine.loaded], t.instructions)

Outcome(t, machine, before) ==
  LET run == Run(t, machine)
      known == DOMAIN before \cap DOMAIN run.state
      differs(kind) == {k \in known \cap kind : run.success /\ run.state[k] # before[k]}
  IN  [success |-> run.success, units |-> run.units,
       sol_deltas |-> [k \in differs(Wallets) |-> run.state[k] - before[k]],
       data_changed |-> differs(Tokens)]

\* Mutant: the deltas only the original has are not reported.
diff_outcomes_NoLeftover(original, mutated) ==
  {w \in {"success", "units", "data_changed"} : original[w] # mutated[w]}
    \cup {k \in DOMAIN mutated.sol_deltas :
            Held(original.sol_deltas, k) # mutated.sol_deltas[k]}

diff_outcomes(original, mutated) ==
  {w \in {"success", "units", "data_changed"} : original[w] # mutated[w]}
    \cup {k \in DOMAIN original.sol_deltas \cup DOMAIN mutated.sol_deltas :
            Held(original.sol_deltas, k) # Held(mutated.sol_deltas, k)}

\* Mutant: the transaction is sent instead of simulated.
Committed_Sent(t) == IF Run(t, svm).success THEN [svm EXCEPT !.state = Run(t, svm).state] ELSE svm

\* simulate_transaction leaves the accounts as they are.
Committed(t) == svm

-----------------------------------------------------------------------------
(* The client *)

Give(status) == result' = [status |-> status, report |-> <<>>] /\ client' = "done"

Collect ==
  /\ client = "collect"
  /\ \E found \in SUBSET (ProgramsOf(tx) \ {"system"}) :
       request' = [accounts |-> Collected(tx), programs |-> found,
                   mutations |-> build_mutations(tx)]
  /\ client' = "spawn"
  /\ UNCHANGED <<speaks, tx, unsent, timer, got, result, pipeVars, serviceVars, chainVars>>

Spawn ==
  /\ client = "spawn"
  /\ \/ client' = "write" /\ service' = "read" /\ unsent' = RequestSize /\ UNCHANGED result
     \/ Give("failed") /\ UNCHANGED <<service, unsent>>
  /\ UNCHANGED <<speaks, tx, request, timer, got, pipeVars, unfetched, svm, pre, report,
                 unprinted, chainVars>>

Exited == service \in {"exited", "failed"}

\* A write to a service that has exited fails.
WriteChunk ==
  /\ client = "write" /\ unsent > 0
  /\ \/ ~Exited /\ stdin < PipeSize /\ stdin' = stdin + 1 /\ unsent' = unsent - 1
        /\ UNCHANGED <<client, result>>
     \/ Exited /\ Give("failed") /\ UNCHANGED <<stdin, unsent>>
  /\ UNCHANGED <<speaks, tx, request, timer, got, closed, stdout, serviceVars, chainVars>>

CloseStdin ==
  /\ client = "write" /\ unsent = 0
  /\ closed' = TRUE /\ client' = "wait" /\ timer' = Timeout
  /\ UNCHANGED <<speaks, tx, request, unsent, got, result, stdin, stdout, serviceVars,
                 chainVars>>

\* wait_with_output drains the pipe while it waits.
Drain ==
  /\ client = "wait" /\ stdout > 0
  /\ stdout' = stdout - 1 /\ got' = got + 1
  /\ UNCHANGED <<speaks, tx, request, client, unsent, timer, result, stdin, closed,
                 serviceVars, chainVars>>

\* Mutant: the output is complete, so the process is not waited for.
Ready_Output == stdout = 0 /\ got = ReportSize

Ready == stdout = 0 /\ Exited

\* The exit status, the output and its version, in this order.
Finish ==
  /\ client = "wait" /\ Ready
  /\ IF service # "failed" /\ got = ReportSize /\ speaks.service = speaks.client
       THEN result' = [status |-> "accepted", report |-> report] /\ client' = "done"
       ELSE Give("failed")
  /\ UNCHANGED <<speaks, tx, request, unsent, timer, got, pipeVars, serviceVars, chainVars>>

\* Mutant: no timeout.
Expired_Never == FALSE

\* tokio's timeout polls what it limits first.
Expired == timer = 0 /\ ~Ready

\* The child is left to itself.
GiveUp ==
  /\ client = "wait" /\ Expired
  /\ Give("timed_out")
  /\ UNCHANGED <<speaks, tx, request, unsent, timer, got, pipeVars, serviceVars, chainVars>>

Tick ==
  /\ client = "wait" /\ timer > 0
  /\ timer' = timer - 1
  /\ UNCHANGED <<speaks, tx, request, client, unsent, got, result, pipeVars, serviceVars,
                 chainVars>>

Client == Collect \/ Spawn \/ WriteChunk \/ CloseStdin \/ Drain \/ Finish \/ GiveUp

-----------------------------------------------------------------------------
(* The service *)

ServiceDoes(from, to) == service = from /\ service' = to

Read ==
  /\ service = "read" /\ stdin > 0
  /\ stdin' = stdin - 1
  /\ UNCHANGED <<speaks, tx, request, clientVars, closed, stdout, serviceVars, chainVars>>

\* read_to_string ends with the pipe; a request of another version is refused.
ReadEnd ==
  /\ stdin = 0 /\ closed
  /\ ServiceDoes("read", IF speaks.service = speaks.client THEN "load" ELSE "failed")
  /\ UNCHANGED <<speaks, tx, request, clientVars, pipeVars, unfetched, svm, pre, report,
                 unprinted, chainVars>>

\* A program that cannot be loaded is a warning.
LoadPrograms ==
  /\ ServiceDoes("load", "fetch")
  /\ \E given \in SUBSET request.programs : svm' = [svm EXCEPT !.loaded = Builtin \cup given]
  /\ unfetched' = request.accounts
  /\ UNCHANGED <<speaks, tx, request, clientVars, pipeVars, pre, report, unprinted, chainVars>>

Extended(state, k) == [a \in DOMAIN state \cup {k} |-> IF a = k THEN chain[k] ELSE state[a]]

\* An account the chain does not have is left unset with a warning.
FetchAccount ==
  /\ service = "fetch" /\ unfetched # {}
  /\ LET k == CHOOSE a \in unfetched : TRUE
     IN  /\ unfetched' = unfetched \ {k}
         /\ IF k \in DOMAIN chain
              THEN /\ pre' = Extended(pre, k)
                   /\ svm' = [svm EXCEPT !.state = Extended(@, k)]
              ELSE UNCHANGED <<pre, svm>>
  /\ UNCHANGED <<speaks, tx, request, clientVars, pipeVars, service, report, unprinted,
                 chainVars>>

ExecuteOriginal ==
  /\ ServiceDoes("fetch", "mutate") /\ unfetched = {}
  /\ report' = [report EXCEPT !.original = <<Outcome(tx, svm, pre)>>]
  /\ svm' = Committed(tx)
  /\ UNCHANGED <<speaks, tx, request, clientVars, pipeVars, unfetched, pre, unprinted,
                 chainVars>>

\* The mutations answered or warned of so far.
Position == Len(report.mutations) + Len(report.undecodable) + 1

ExecuteMutation ==
  /\ service = "mutate" /\ Position <= Len(request.mutations)
  /\ LET mutated == request.mutations[Position]
         outcome == Outcome(mutated, svm, pre)
     IN  \/ /\ report' = [report EXCEPT !.mutations =
                            Append(@, [label |-> Position, outcome |-> outcome,
                                       delta |-> diff_outcomes(report.original[1], outcome)])]
            /\ svm' = Committed(mutated)
         \/ /\ report' = [report EXCEPT !.undecodable = Append(@, Position)]
            /\ UNCHANGED svm
  /\ UNCHANGED <<speaks, tx, request, clientVars, pipeVars, service, unfetched, pre,
                 unprinted, chainVars>>

StartPrinting ==
  /\ ServiceDoes("mutate", "print") /\ Position > Len(request.mutations)
  /\ unprinted' = ReportSize
  /\ UNCHANGED <<speaks, tx, request, clientVars, pipeVars, unfetched, svm, pre, report,
                 chainVars>>

WriteReport ==
  /\ service = "print" /\ unprinted > 0 /\ stdout < PipeSize
  /\ stdout' = stdout + 1 /\ unprinted' = unprinted - 1
  /\ UNCHANGED <<speaks, tx, request, clientVars, stdin, closed, service, unfetched, svm, pre,
                 report, chainVars>>

Exit ==
  /\ ServiceDoes("print", "exited") /\ unprinted = 0
  /\ UNCHANGED <<speaks, tx, request, clientVars, pipeVars, unfetched, svm, pre, report,
                 unprinted, chainVars>>

\* A request, an account or a transaction that cannot be read or decoded ends the
\* service, and it may be killed at any time.
Fail ==
  /\ \E from \in {"read", "load", "fetch", "mutate", "print"} : ServiceDoes(from, "failed")
  /\ UNCHANGED <<speaks, tx, request, clientVars, pipeVars, unfetched, svm, pre, report,
                 unprinted, chainVars>>

Service ==
  \/ Read \/ ReadEnd \/ LoadPrograms \/ FetchAccount \/ ExecuteOriginal \/ ExecuteMutation
  \/ StartPrinting \/ WriteReport \/ Exit \/ Fail

-----------------------------------------------------------------------------

\* Other transactions move balances while the service loads them.
ChainMoves ==
  /\ service = "fetch" /\ moves < MaxMoves
  /\ \E from, to \in DOMAIN chain :
       /\ from # to /\ chain[from] > 0 /\ chain[to] < MaxAmount
       /\ {from, to} \subseteq Wallets \/ {from, to} \subseteq Tokens
       /\ chain' = [chain EXCEPT ![from] = @ - 1, ![to] = @ + 1]
  /\ moves' = moves + 1
  /\ UNCHANGED <<speaks, tx, request, clientVars, pipeVars, serviceVars>>

ReplayInit ==
  /\ speaks \in [client : Versions, service : Versions]
  /\ tx \in Transactions /\ chain \in Chains
  /\ request = [accounts |-> {}, programs |-> {}, mutations |-> <<>>]
  /\ client = "collect" /\ unsent = 0 /\ timer = 0 /\ got = 0
  /\ result = [status |-> "none", report |-> <<>>]
  /\ stdin = 0 /\ closed = FALSE /\ stdout = 0
  /\ service = "none" /\ unfetched = {} /\ unprinted = 0 /\ moves = 0
  /\ svm = [state |-> <<>>, loaded |-> {}] /\ pre = <<>>
  /\ report = [original |-> <<>>, mutations |-> <<>>, undecodable |-> <<>>]

ReplayNext == Client \/ Service \/ Tick \/ ChainMoves

\* The client keeps going, time passes, and the service reads what it is sent;
\* nothing else is assumed of it.
ReplaySpec ==
  /\ ReplayInit /\ [][ReplayNext]_replayVars
  /\ WF_replayVars(Client) /\ WF_replayVars(Tick) /\ WF_replayVars(Read)

-----------------------------------------------------------------------------
(* Properties *)

Accepted == result.status = "accepted"
Machine == [state |-> pre, loaded |-> svm.loaded]

\* An accepted report answers the whole request: each mutation has its outcome
\* or a warning, in the request's order, and every outcome, the original's too,
\* is that of its own transaction alone on the accounts that were loaded,
\* whatever was executed before it.
AnswersRequest ==
  Accepted =>
    LET r == result.report
        labels == {r.mutations[k].label : k \in 1..Len(r.mutations)}
    IN  /\ r.original = <<Outcome(tx, Machine, pre)>>
        /\ labels \cap ToSet(r.undecodable) = {}
        /\ labels \cup ToSet(r.undecodable) = 1..Len(request.mutations)
        /\ \A k \in 1..Len(r.mutations) :
             /\ k > 1 => r.mutations[k - 1].label < r.mutations[k].label
             /\ r.mutations[k].outcome =
                  Outcome(request.mutations[r.mutations[k].label], Machine, pre)

\* Every mutation is the transaction with another amount in one instruction.
MutantsDiffer ==
  \A m \in ToSet(request.mutations) :
    \E i \in 1..Len(tx.instructions) :
      /\ m.instructions[i].amount # tx.instructions[i].amount
      /\ m = Mutated(tx, i, m.instructions[i].amount)

\* Each mutation is another transaction, and is answered as itself.
MutationsAnswered == MutantsDiffer /\ AnswersRequest

\* Balances of the loaded accounts after a transaction.
Final(t) == LET run == Run(t, Machine)
            IN  [k \in DOMAIN pre |-> IF run.success THEN run.state[k] ELSE pre[k]]

\* A mutation reported to change nothing leaves every loaded wallet with what the
\* original leaves it.  Of token accounts only that they changed is compared, so this
\* cannot be said of them.
SolEffectReported ==
  Accepted => \A m \in ToSet(result.report.mutations) :
    m.delta = {} => \A k \in DOMAIN pre \cap Wallets :
      Final(request.mutations[m.label])[k] = Final(tx)[k]

\* A service that still runs when the client is done was given up at the deadline.
OrphansExplained ==
  client = "done" /\ service # "none" /\ ~Exited => result.status = "timed_out"

\* The client ends, whatever the service does once it has read its request.
Terminates == <>(client = "done")
=============================================================================
