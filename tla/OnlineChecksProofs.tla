-------------------------- MODULE OnlineChecksProofs --------------------------
(***************************************************************************)
(* What the network stages report, whatever the accounts they ask for go   *)
(* through and whichever requests fail.                                    *)
(***************************************************************************)
EXTENDS OnlineChecks, ProofLemmas, FiniteSetTheorems

-----------------------------------------------------------------------------
(* The endpoint: an account is somewhere in its life, and only goes on. *)

ChainOK ==
  /\ Lives(job)
  /\ chain \in [DOMAIN job.lives -> Nat \ {0}]
  /\ \A a \in DOMAIN job.lives : chain[a] <= Len(job.lives[a])

LEMMA ChainStarts ==
  ASSUME Lives(job), chain = [a \in DOMAIN job.lives |-> 1]
  PROVE  ChainOK
<1>1. ASSUME NEW a \in DOMAIN job.lives
      PROVE  1 <= Len(job.lives[a])
  BY DEF Lives
<1> QED BY <1>1 DEF ChainOK

\* An answer is something the account has held.
LEMMA AnswersPast ==
  ASSUME ChainOK, NEW a \in DOMAIN job.lives, NEW answer \in Answers(a), ~Failed(answer)
  PROVE  answer[1] \in Past(a) /\ answer[1] \in Moments(job, a)
<1>1. answer = <<job.lives[a][chain[a]]>>
  BY DEF Answers, Failed, Account
<1>2. chain[a] \in 1..Len(job.lives[a]) /\ chain[a] \in 1..chain[a]
  BY DEF ChainOK
<1>3. DOMAIN job.lives[a] = 1..Len(job.lives[a])
  BY DEF ChainOK, Lives
<1>4. answer[1] = job.lives[a][chain[a]]
  BY <1>1
<1>5. answer[1] \in Past(a)
  BY <1>2, <1>4 DEF Past
<1> QED BY <1>2, <1>3, <1>4, <1>5 DEF Moments, Range

LEMMA ChainKept ==
  ASSUME ChainOK, UNCHANGED <<job, chain>>
  PROVE  ChainOK' /\ \A a \in DOMAIN job.lives : Past(a)' = Past(a)
BY DEF ChainOK, Lives, Past

LEMMA ChainMoves ==
  ASSUME ChainOK, Others
  PROVE  ChainOK' /\ \A a \in DOMAIN job.lives : Past(a) \subseteq Past(a)'
<1>1. job' = job
  BY DEF Others
<1>2. PICK b \in DOMAIN chain : /\ chain[b] < Len(job.lives[b])
                                /\ chain' = [chain EXCEPT ![b] = chain[b] + 1]
  BY DEF Others
<1>3. b \in DOMAIN job.lives /\ chain \in [DOMAIN job.lives -> Nat \ {0}]
  BY <1>2 DEF ChainOK
<1>4. Len(job.lives[b]) \in Nat
  BY <1>3 DEF ChainOK, Lives
<1>5. ASSUME NEW a \in DOMAIN job.lives
      PROVE  /\ chain'[a] \in Nat \ {0} /\ chain[a] <= chain'[a] /\ chain'[a] <= Len(job.lives[a])
  <2>1. CASE a = b
    BY <1>2, <1>3, <1>4, <2>1
  <2>2. CASE a # b
    <3>1. chain'[a] = chain[a]
      BY <1>2, <1>3, <2>2
    <3> QED BY <1>3, <3>1 DEF ChainOK
  <2> QED BY <2>1, <2>2
<1>6. chain' \in [DOMAIN job.lives -> Nat \ {0}]
  BY <1>2, <1>3, <1>5
<1>7. ChainOK'
  BY <1>1, <1>5, <1>6 DEF ChainOK, Lives
<1>8. ASSUME NEW a \in DOMAIN job.lives
      PROVE  Past(a) \subseteq Past(a)'
  BY <1>1, <1>3, <1>5 DEF Past
<1> QED BY <1>7, <1>8

\* No step changes what the stage was given.
LEMMA JobKept ==
  ASSUME Next
  PROVE  job' = job
<1>1. CASE IdlNext
  BY <1>1 DEF IdlNext, FetchIdlData, FetchIdlOwner, IdlFailed, NextAddress, Finish
<1>2. CASE ProgramsNext
  BY <1>2 DEF ProgramsNext, ProgramsEnd, SkipProgram, CheckOwner, CheckRegistry, FetchPointer,
              FetchAuthority, NextProgram, Finish
<1>3. CASE FeedsNext
  BY <1>3 DEF FeedsNext, SkipPlaceholder, FetchFeedOwner, FetchFeedData, FeedsEnd, NextFeed
<1>4. CASE AmountsNext
  BY <1>4 DEF AmountsNext, AmountsEnd, AmountHere, AmountCached, FetchDecimals, NextAmount, Finish
<1>5. CASE Others \/ Stopped
  BY <1>5 DEF Others, Stopped
<1> QED BY <1>1, <1>2, <1>3, <1>4, <1>5 DEF Next

-----------------------------------------------------------------------------
(* resolve_token_amounts *)

\* Decimals that were read from an account, at a moment of it.
HadDecimals(key, d) == \E a \in Past(key) : a.exists /\ a.decimals = <<d>>

\* A result is true, and the part of the property that is about a result.
Shown(r) ==
  /\ r.instruction \in DOMAIN job.instructions /\ r.instruction < at
  /\ LET ix == job.instructions[r.instruction]
     IN  IF ix.inline # <<>> THEN <<r.decimals>> = ix.inline
         ELSE ix.of \in DOMAIN job.lives /\ HadDecimals(ix.of, r.decimals)

\* What the cache holds was answered to a request.
Remembered(c) ==
  /\ c.key \in DOMAIN job.lives /\ c = [key |-> c.key, decimals |-> c.decimals]
  /\ c.decimals = <<>> \/ \E d \in Nat : c.decimals = <<d>> /\ HadDecimals(c.key, d)

\* Why an instruction that the loop has passed shows an amount, or none.
Explained(i) ==
  LET ix == job.instructions[i]
  IN  (ix.program \in TokenPrograms /\ ix.name \in WithAmount /\ ix.amount # <<>>) =>
        \/ \E r \in found : r.instruction = i
        \/ ix.inline = <<>> /\ ~job.rpc
        \/ ix.inline = <<>> /\ [key |-> ix.of, decimals |-> <<>>] \in cache

AmountsInv ==
  /\ job \in Jobs.amounts /\ ChainOK
  /\ step \in {"amount", "done"} /\ at \in Nat \ {0}
  /\ held \in Seq(DOMAIN job.lives) /\ IsInjective(held)
  /\ \A key \in Range(held) : CachedOf(key) # {}
  /\ \A c \in cache : Remembered(c)
  /\ \A r \in found : Shown(r)
  /\ \A i \in DOMAIN job.instructions : i < at => Explained(i)
  /\ step = "done" => at > Len(job.instructions)

\* The job of the stage, in the parts its steps use.
LEMMA AmountsJob ==
  ASSUME job \in Jobs.amounts
  PROVE  /\ job.kind = "amounts" /\ Lives(job) /\ AmountsAsked(job)
         /\ Len(job.instructions) \in Nat
         /\ DOMAIN job.instructions = 1..Len(job.instructions)
         /\ \A i \in DOMAIN job.instructions : job.instructions[i] \in Range(job.instructions)
<1>1. job.kind = "amounts" /\ Lives(job)
  BY JobsAssumption DEF FirstStep
<1>2. AmountsAsked(job)
  BY JobsAssumption
<1>3. job.instructions \in Seq(Range(job.instructions))
  BY <1>2 DEF AmountsAsked
<1> QED BY <1>1, <1>2, <1>3 DEF Range

\* The account an instruction asks for is the one that has its decimals.
LEMMA SourceIsOf ==
  ASSUME job \in Jobs.amounts, at \in DOMAIN job.instructions, HasAmount, Asked.inline = <<>>
  PROVE  /\ Asked.of \in DOMAIN job.lives
         /\ job.rpc => Source = {Asked.of}
         /\ ~job.rpc => Source = {}
<1>1. Asked \in Range(job.instructions) /\ AmountsAsked(job)
  BY AmountsJob DEF Asked
<1>2. PICK k \in DOMAIN Asked.accounts :
        /\ mint_source_position(Asked.name) = <<k>>
        /\ Asked.accounts[k] = Asked.of /\ Asked.of \in DOMAIN job.lives
  BY <1>1 DEF AmountsAsked, HasAmount
<1>3. Range(mint_source_position(Asked.name)) = {k}
  BY <1>2 DEF Range
<1> QED BY <1>2, <1>3 DEF Source

\* A sequence of at most one element.
LEMMA AtMostOne ==
  ASSUME NEW S, NEW s \in Seq(S), Len(s) <= 1
  PROVE  \/ s = <<>> /\ Range(s) = {}
         \/ \E d \in S : s = <<d>> /\ Range(s) = {d}
<1>1. CASE Len(s) = 0
  <2>1. s # <<>> => Len(s) \in Nat \ {0}
    BY EmptySeq
  <2>2. s = <<>>
    BY <1>1, <2>1
  <2> QED BY <2>2 DEF Range
<1>2. CASE Len(s) = 1
  <2>1. s[1] \in S /\ DOMAIN s = {1}
    BY <1>2
  <2>2. <<s[1]>> \in Seq(S) /\ Len(<<s[1]>>) = 1
    BY <2>1
  <2>3. \A i \in 1..Len(s) : s[i] = <<s[1]>>[i]
    BY <1>2
  <2>6. Len(s) = Len(<<s[1]>>)
    BY <1>2, <2>2
  <2>4. s = <<s[1]>>
    BY <2>2, <2>3, <2>6, SeqEqual
  <2>5. Range(s) = {s[1]}
    BY <2>1 DEF Range
  <2> QED BY <2>1, <2>4, <2>5
<1>3. Len(s) = 0 \/ Len(s) = 1
  <2> DEFINE n == Len(s)
  <2>1. n \in Nat /\ n <= 1
    BY LenProperties
  <2> HIDE DEF n
  <2>2. n = 0 \/ n = 1
    BY <2>1
  <2> QED BY <2>2 DEF n
<1> QED BY <1>1, <1>2, <1>3

\* The loop goes on to the next instruction.
LEMMA AmountAdvances ==
  ASSUME AmountsInv, step = "amount", at <= Len(job.instructions),
         NEW amounts, NextAmount(amounts),
         cache \subseteq cache', \A c \in cache' : Remembered(c),
         held' \in Seq(DOMAIN job.lives), IsInjective(held'),
         \A key \in Range(held') : \E c \in cache' : c.key = key,
         \A r \in amounts : /\ r.instruction = at
                            /\ LET ix == job.instructions[at]
                               IN  IF ix.inline # <<>> THEN <<r.decimals>> = ix.inline
                                   ELSE ix.of \in DOMAIN job.lives /\ HadDecimals(ix.of, r.decimals),
         \A i \in DOMAIN job.instructions : i = at => Explained(i)'
  PROVE  AmountsInv'
<1>1. /\ job' = job /\ chain' = chain /\ step' = step /\ at' = at + 1
      /\ found' = found \cup amounts
  BY DEF NextAmount
<1>2. at \in Nat /\ at \in DOMAIN job.instructions /\ at' \in Nat \ {0} /\ job.instructions = job'.instructions
  BY <1>1, AmountsJob DEF AmountsInv
<1>3. ChainOK' /\ \A a \in DOMAIN job.lives : Past(a)' = Past(a)
  BY <1>1, ChainKept DEF AmountsInv
<1>4. ASSUME NEW key \in DOMAIN job.lives, NEW d
      PROVE  HadDecimals(key, d)' <=> HadDecimals(key, d)
  BY <1>3 DEF HadDecimals
<1>5. \A c \in cache' : Remembered(c)'
  BY <1>1, <1>4 DEF Remembered
<1>6. ASSUME NEW r \in found'
      PROVE  Shown(r)'
  <2>1. CASE r \in found
    <3>1. Shown(r)
      BY <2>1 DEF AmountsInv
    <3>2. r.instruction \in DOMAIN job.instructions /\ r.instruction < at
      BY <3>1 DEF Shown
    <3>3. r.instruction < at'
      BY <1>1, <1>2, <3>2, AmountsJob DEF AmountsInv
    <3> QED BY <1>1, <1>4, <3>1, <3>3 DEF Shown
  <2>2. CASE r \in amounts
    <3>1. r.instruction = at /\ at < at'
      BY <1>1, <1>2, <2>2
    <3> QED BY <1>1, <1>2, <1>4, <2>2, <3>1 DEF Shown
  <2> QED BY <1>1, <2>1, <2>2
<1>7. ASSUME NEW i \in DOMAIN job.instructions, i < at'
      PROVE  Explained(i)'
  <2>1. i \in Nat
    BY AmountsJob DEF AmountsInv
  <2>2. i = at \/ i < at
    BY <1>1, <1>2, <1>7, <2>1
  <2>3. CASE i < at
    <3>1. Explained(i)
      BY <2>3 DEF AmountsInv
    <3> QED BY <1>1, <3>1 DEF Explained
  <2> QED BY <2>2, <2>3
<1>8. \A key \in Range(held') : CachedOf(key)' # {}
  BY DEF CachedOf
<1>9. \A i \in DOMAIN job'.instructions : i < at' => Explained(i)'
  BY <1>1, <1>7
<1>10. step' \in {"amount", "done"} /\ step' # "done" /\ job' \in Jobs.amounts /\ held' \in Seq(DOMAIN job'.lives)
  BY <1>1 DEF AmountsInv
<1> QED BY <1>2, <1>3, <1>5, <1>6, <1>8, <1>9, <1>10 DEF AmountsInv

LEMMA AmountsStart ==
  ASSUME Init, job.kind = "amounts"
  PROVE  AmountsInv
<1>1. PICK s \in DOMAIN FirstStep : job \in Jobs[s]
  BY DEF Init
<1>2. s = "amounts"
  BY <1>1, JobsAssumption
<1>3. job \in Jobs.amounts /\ Lives(job)
  BY <1>1, <1>2, JobsAssumption
<1>4. ChainOK
  BY <1>3, ChainStarts DEF Init
<1>5. at = 1 /\ step = "amount" /\ held = <<>> /\ cache = {} /\ found = {}
  BY DEF Init, StartStage, FirstStep
<1>6. held \in Seq(DOMAIN job.lives) /\ IsInjective(held) /\ Range(held) = {}
  BY <1>5 DEF IsInjective, Range
<1>7. \A i \in DOMAIN job.instructions : ~(i < at)
  BY <1>3, <1>5, AmountsJob
<1> QED BY <1>3, <1>4, <1>5, <1>6, <1>7 DEF AmountsInv

\* Nothing but the accounts changes, if that.
LEMMA AmountsKept ==
  ASSUME AmountsInv, UNCHANGED <<job, stage>>, ChainOK',
         \A a \in DOMAIN job.lives : Past(a) \subseteq Past(a)'
  PROVE  AmountsInv'
<1>1. job' = job /\ at' = at /\ step' = step /\ held' = held /\ cache' = cache /\ found' = found
  BY DEF stage
<1>2. ASSUME NEW key \in DOMAIN job.lives, NEW d, HadDecimals(key, d)
      PROVE  HadDecimals(key, d)'
  BY <1>2 DEF HadDecimals
<1>3. \A c \in cache' : Remembered(c)'
  BY <1>1, <1>2 DEF Remembered, AmountsInv
<1>4. \A r \in found' : Shown(r)'
  BY <1>1, <1>2 DEF Shown, AmountsInv
<1>5. \A i \in DOMAIN job'.instructions : i < at' => Explained(i)'
  BY <1>1 DEF Explained, AmountsInv
<1>6. \A key \in Range(held') : CachedOf(key)' # {}
  BY <1>1 DEF CachedOf, AmountsInv
<1> QED BY <1>1, <1>3, <1>4, <1>5, <1>6 DEF AmountsInv

LEMMA AmountsEndKept ==
  ASSUME AmountsInv, AmountsEnd
  PROVE  AmountsInv'
<1>1. /\ UNCHANGED <<job, chain>> /\ at' = at /\ held' = held /\ cache' = cache /\ found' = found
      /\ step' = "done" /\ at > Len(job.instructions)
  BY DEF AmountsEnd, Finish
<1>2. ChainOK' /\ \A a \in DOMAIN job.lives : Past(a)' = Past(a)
  BY <1>1, ChainKept DEF AmountsInv
<1>7. ASSUME NEW key \in DOMAIN job.lives, NEW d
      PROVE  HadDecimals(key, d)' <=> HadDecimals(key, d)
  BY <1>2 DEF HadDecimals
<1>3. \A c \in cache' : Remembered(c)'
  BY <1>1, <1>7 DEF Remembered, AmountsInv
<1>4. \A r \in found' : Shown(r)'
  BY <1>1, <1>7 DEF Shown, AmountsInv
<1>5. \A i \in DOMAIN job'.instructions : i < at' => Explained(i)'
  BY <1>1 DEF Explained, AmountsInv
<1>6. \A key \in Range(held') : CachedOf(key)' # {}
  BY <1>1 DEF CachedOf, AmountsInv
<1> QED BY <1>1, <1>2, <1>3, <1>4, <1>5, <1>6 DEF AmountsInv

\* The instruction the loop is at, and what the stage's input says of it.
LEMMA AskedOne ==
  ASSUME AmountsInv, at <= Len(job.instructions)
  PROVE  /\ at \in DOMAIN job.instructions /\ Asked = job.instructions[at]
         /\ \/ Asked.inline = <<>> /\ Range(Asked.inline) = {}
            \/ \E d \in Nat : Asked.inline = <<d>> /\ Range(Asked.inline) = {d}
<1>1. at \in DOMAIN job.instructions
  BY AmountsJob DEF AmountsInv
<1>2. Asked \in Range(job.instructions)
  BY <1>1, AmountsJob DEF AmountsInv, Asked
<1>3. Asked.inline \in Seq(Nat) /\ Len(Asked.inline) <= 1
  BY <1>2, AmountsJob DEF AmountsInv, AmountsAsked
<1> QED BY <1>1, <1>3, AtMostOne DEF Asked

LEMMA AmountHereKept ==
  ASSUME AmountsInv, AmountHere
  PROVE  AmountsInv'
<1> DEFINE amounts == {Amount(d) : d \in IF HasAmount THEN Range(Asked.inline) ELSE {}}
<1>1. /\ step = "amount" /\ at <= Len(job.instructions) /\ Source = {}
      /\ NextAmount(amounts) /\ held' = held /\ cache' = cache
  BY DEF AmountHere
<1>2. found' = found \cup amounts /\ job' = job
  BY <1>1 DEF NextAmount
<1>3. at \in DOMAIN job.instructions /\ Asked = job.instructions[at]
  BY <1>1, AskedOne
<1>4. HasAmount /\ Asked.inline = <<>> => ~job.rpc
  <2>1. SUFFICES ASSUME HasAmount, Asked.inline = <<>>, job.rpc
                 PROVE  FALSE
    OBVIOUS
  <2>2. Source = {Asked.of}
    BY <1>3, <2>1, SourceIsOf DEF AmountsInv
  <2> QED BY <1>1, <2>2
<1>5. ASSUME NEW r \in amounts
      PROVE  /\ HasAmount /\ r.instruction = at /\ Asked.inline # <<>> /\ <<r.decimals>> = Asked.inline
  <2>1. PICK d \in (IF HasAmount THEN Range(Asked.inline) ELSE {}) : r = Amount(d)
    BY <1>5
  <2>2. HasAmount /\ d \in Range(Asked.inline)
    BY <2>1
  <2>3. Asked.inline = <<d>>
    BY <1>1, <2>2, AskedOne
  <2>4. <<d>> # <<>>
    OBVIOUS
  <2> QED BY <2>1, <2>2, <2>3, <2>4 DEF Amount
<1>6. ASSUME NEW i \in DOMAIN job.instructions, i = at
      PROVE  Explained(i)'
  <2>1. CASE HasAmount /\ Asked.inline # <<>>
    <3>1. PICK d \in Nat : Range(Asked.inline) = {d}
      BY <1>1, <2>1, AskedOne
    <3>2. Amount(d) \in found' /\ Amount(d).instruction = i
      BY <1>2, <1>6, <2>1, <3>1 DEF Amount
    <3> QED BY <3>2 DEF Explained
  <2>2. CASE HasAmount /\ Asked.inline = <<>>
    BY <1>2, <1>3, <1>4, <1>6, <2>2 DEF Explained
  <2>3. CASE ~HasAmount
    BY <1>2, <1>3, <1>6, <2>3 DEF Explained, HasAmount
  <2> QED BY <2>1, <2>2, <2>3
<1>7. \A r \in amounts : /\ r.instruction = at
                         /\ LET ix == job.instructions[at]
                            IN  IF ix.inline # <<>> THEN <<r.decimals>> = ix.inline
                                ELSE ix.of \in DOMAIN job.lives /\ HadDecimals(ix.of, r.decimals)
  BY <1>3, <1>5
<1>8. \A c \in cache' : Remembered(c)
  BY <1>1 DEF AmountsInv
<1>9. held' \in Seq(DOMAIN job.lives) /\ IsInjective(held')
  BY <1>1 DEF AmountsInv
<1>10. \A key \in Range(held') : \E c \in cache' : c.key = key
  BY <1>1 DEF AmountsInv, CachedOf
<1> HIDE DEF amounts
<1> QED BY <1>1, <1>6, <1>7, <1>8, <1>9, <1>10, AmountAdvances

\* An instruction that an account is asked for, by a request or of the cache.
LEMMA AskedOf ==
  ASSUME AmountsInv, at <= Len(job.instructions), NEW key \in Source
  PROVE  /\ HasAmount /\ Asked.inline = <<>>
         /\ key = Asked.of /\ key \in DOMAIN job.lives
<1>1. HasAmount /\ Asked.inline = <<>> /\ job.rpc
  BY DEF Source
<1> QED BY <1>1, AskedOne, SourceIsOf DEF AmountsInv

\* What is shown or not for such an instruction once the cache has its account.
LEMMA AmountsFrom ==
  ASSUME AmountsInv, at <= Len(job.instructions), NEW key \in Source, NEW decimals,
         NextAmount({Amount(d) : d \in Range(decimals)}),
         Remembered([key |-> key, decimals |-> decimals]),
         [key |-> key, decimals |-> decimals] \in cache'
  PROVE  /\ \A r \in {Amount(d) : d \in Range(decimals)} :
              /\ r.instruction = at
              /\ LET ix == job.instructions[at]
                 IN  IF ix.inline # <<>> THEN <<r.decimals>> = ix.inline
                     ELSE ix.of \in DOMAIN job.lives /\ HadDecimals(ix.of, r.decimals)
         /\ \A i \in DOMAIN job.instructions : i = at => Explained(i)'
<1>1. Asked.inline = <<>> /\ key = Asked.of /\ key \in DOMAIN job.lives /\ Asked = job.instructions[at]
  BY AskedOf, AskedOne
<1>2. job' = job /\ found' = found \cup {Amount(d) : d \in Range(decimals)}
  BY DEF NextAmount
<1>3. CASE decimals = <<>>
  <2>1. Range(decimals) = {}
    BY <1>3 DEF Range
  <2>2. ASSUME NEW i \in DOMAIN job.instructions, i = at
        PROVE  Explained(i)'
    BY <1>1, <1>2, <1>3, <2>2 DEF Explained
  <2> QED BY <2>1, <2>2
<1>4. CASE decimals # <<>>
  <2>1. PICK d \in Nat : decimals = <<d>> /\ HadDecimals(key, d)
    BY <1>4 DEF Remembered
  <2>2. Range(decimals) = {d}
    BY <2>1 DEF Range
  <2>3. Amount(d) = [instruction |-> at, decimals |-> d]
    BY DEF Amount
  <2>4. Amount(d) \in found' /\ Amount(d).instruction = at
    BY <1>2, <2>2, <2>3
  <2>5. ASSUME NEW i \in DOMAIN job.instructions, i = at
        PROVE  Explained(i)'
    BY <2>4, <2>5 DEF Explained
  <2>6. {Amount(x) : x \in Range(decimals)} = {Amount(d)}
    BY <2>2
  <2> QED BY <1>1, <2>1, <2>3, <2>5, <2>6
<1> QED BY <1>3, <1>4

LEMMA AmountCachedKept ==
  ASSUME AmountsInv, AmountCached
  PROVE  AmountsInv'
<1>1. step = "amount" /\ at <= Len(job.instructions) /\ held' = held /\ cache' = cache
  BY DEF AmountCached
<1>13. PICK key \in Source : \E c \in CachedOf(key) : NextAmount({Amount(d) : d \in Range(c.decimals)})
  BY DEF AmountCached
<1>2. PICK c \in CachedOf(key) : NextAmount({Amount(d) : d \in Range(c.decimals)})
  BY <1>13
<1>3. c \in cache' /\ c = [key |-> key, decimals |-> c.decimals] /\ Remembered(c)
  BY <1>1, <1>2 DEF CachedOf, AmountsInv, Remembered
<1> DEFINE decimals == c.decimals
<1>4. NextAmount({Amount(d) : d \in Range(decimals)})
  BY <1>2
<1>5. Remembered([key |-> key, decimals |-> decimals]) /\ [key |-> key, decimals |-> decimals] \in cache'
  BY <1>3
<1>6. \A x \in cache' : Remembered(x)
  BY <1>1 DEF AmountsInv
<1>7. held' \in Seq(DOMAIN job.lives) /\ IsInjective(held')
  BY <1>1 DEF AmountsInv
<1>8. \A k \in Range(held') : \E x \in cache' : x.key = k
  BY <1>1 DEF AmountsInv, CachedOf
<1> HIDE DEF decimals
<1> DEFINE amounts == {Amount(d) : d \in Range(decimals)}
<1>9. /\ \A r \in amounts :
            /\ r.instruction = at
            /\ LET ix == job.instructions[at]
               IN  IF ix.inline # <<>> THEN <<r.decimals>> = ix.inline
                   ELSE ix.of \in DOMAIN job.lives /\ HadDecimals(ix.of, r.decimals)
      /\ \A i \in DOMAIN job.instructions : i = at => Explained(i)'
      /\ NextAmount(amounts)
  BY <1>1, <1>4, <1>5, AmountsFrom
<1> HIDE DEF amounts
<1> QED BY <1>1, <1>6, <1>7, <1>8, <1>9, AmountAdvances

LEMMA FetchDecimalsKept ==
  ASSUME AmountsInv, FetchDecimals
  PROVE  AmountsInv'
<1>1. step = "amount" /\ at <= Len(job.instructions)
  BY DEF FetchDecimals
<1>16. PICK key \in Source :
         /\ CachedOf(key) = {}
         /\ \E answer \in Answers(key) :
              /\ held' = Append(held, key)
              /\ cache' = cache \cup Remember(key, DecimalsFrom(answer, AskedKind))
              /\ NextAmount({Amount(d) : d \in Range(DecimalsFrom(answer, AskedKind))})
  BY DEF FetchDecimals
<1>2. PICK answer \in Answers(key) :
        /\ CachedOf(key) = {}
        /\ held' = Append(held, key)
        /\ cache' = cache \cup Remember(key, DecimalsFrom(answer, AskedKind))
        /\ NextAmount({Amount(d) : d \in Range(DecimalsFrom(answer, AskedKind))})
  BY <1>16
<1> DEFINE decimals == DecimalsFrom(answer, AskedKind)
           one == [key |-> key, decimals |-> decimals]
           amounts == {Amount(d) : d \in Range(decimals)}
<1>3. key \in DOMAIN job.lives
  BY <1>1, <1>2, AskedOf
<1>4. decimals = <<>> \/ \E d \in Nat : decimals = <<d>> /\ HadDecimals(key, d)
  <2>1. SUFFICES ASSUME decimals # <<>>
                 PROVE  \E d \in Nat : decimals = <<d>> /\ HadDecimals(key, d)
    OBVIOUS
  <2>2. ~Failed(answer) /\ answer[1].exists /\ decimals = answer[1].decimals
    BY <2>1 DEF DecimalsFrom
  <2>3. answer[1] \in Past(key) /\ answer[1] \in Moments(job, key)
    BY <1>2, <1>3, <2>2, AnswersPast DEF AmountsInv
  <2>4. answer[1].decimals \in Seq(Nat) /\ Len(answer[1].decimals) <= 1
    BY <1>3, <2>2, <2>3, AmountsJob DEF AmountsInv, AmountsAsked
  <2>5. decimals \in Seq(Nat) /\ Len(decimals) <= 1
    BY <2>2, <2>4
  <2> HIDE DEF decimals
  <2>6. PICK d \in Nat : decimals = <<d>>
    BY <2>1, <2>5, AtMostOne
  <2> QED BY <2>2, <2>3, <2>6 DEF HadDecimals
<1>5. cache' = cache \cup {one} /\ held' = Append(held, key) /\ NextAmount(amounts)
  BY <1>2 DEF Remember
<1> HIDE DEF decimals
<1>6. one.key = key /\ one.decimals = decimals
  OBVIOUS
<1>7. Remembered(one)
  BY <1>3, <1>4, <1>6 DEF Remembered
<1>8. key \notin Range(held)
  BY <1>2 DEF AmountsInv
<1>9. held' \in Seq(DOMAIN job.lives) /\ IsInjective(held') /\ Range(held') = Range(held) \cup {key}
  <2>1. held \in Seq(DOMAIN job.lives) /\ IsInjective(held)
    BY DEF AmountsInv
  <2>2. /\ held' \in Seq(DOMAIN job.lives) /\ Len(held') = Len(held) + 1
        /\ \A i \in 1..Len(held) : held'[i] = held[i]
        /\ held'[Len(held) + 1] = key
    BY <1>3, <1>5, <2>1, AppendProperties
  <2>3. Len(held) \in Nat /\ DOMAIN held = 1..Len(held) /\ DOMAIN held' = 1..(Len(held) + 1)
    BY <2>1, <2>2
  <2>4. \A i \in DOMAIN held : held[i] # key
    BY <1>8 DEF Range
  <2>5. IsInjective(held')
    BY <2>1, <2>2, <2>3, <2>4 DEF IsInjective
  <2>6. Range(held') = Range(held) \cup {key}
    BY <2>2, <2>3 DEF Range
  <2> QED BY <2>2, <2>5, <2>6
<1>10. \A k \in Range(held') : \E x \in cache' : x.key = k
  BY <1>5, <1>6, <1>9 DEF AmountsInv, CachedOf
<1>11. \A c \in cache' : Remembered(c)
  BY <1>5, <1>7 DEF AmountsInv
<1>12. one \in cache'
  BY <1>5
<1>13. /\ \A r \in amounts :
             /\ r.instruction = at
             /\ LET ix == job.instructions[at]
                IN  IF ix.inline # <<>> THEN <<r.decimals>> = ix.inline
                    ELSE ix.of \in DOMAIN job.lives /\ HadDecimals(ix.of, r.decimals)
       /\ \A i \in DOMAIN job.instructions : i = at => Explained(i)'
  BY <1>1, <1>2, <1>5, <1>7, <1>12, AmountsFrom
<1>14. cache \subseteq cache' /\ held' \in Seq(DOMAIN job.lives) /\ IsInjective(held')
  BY <1>5, <1>9
<1>15. NextAmount(amounts)
  BY <1>5
<1> HIDE DEF amounts
<1> QED BY <1>1, <1>10, <1>11, <1>13, <1>14, <1>15, AmountAdvances

\* Where the loop over the amounts stands, no other stage has a step.
LEMMA OnlyAmounts ==
  ASSUME AmountsInv, Next
  PROVE  AmountsNext \/ Others \/ Stopped
<1>1. step \in {"amount", "done"}
  BY DEF AmountsInv
<1>2. ~IdlNext
  BY <1>1 DEF IdlNext, FetchIdlData, FetchIdlOwner
<1>3. ~ProgramsNext
  BY <1>1 DEF ProgramsNext, ProgramsEnd, SkipProgram, CheckOwner, CheckRegistry, FetchPointer, FetchAuthority
<1>4. ~FeedsNext
  BY <1>1 DEF FeedsNext, SkipPlaceholder, FetchFeedOwner, FetchFeedData, FeedsEnd
<1> QED BY <1>2, <1>3, <1>4 DEF Next

LEMMA AmountsStep ==
  ASSUME AmountsInv, [Next]_<<job, chain, stage>>
  PROVE  AmountsInv'
<1>1. CASE AmountsNext
  BY <1>1, AmountsEndKept, AmountHereKept, AmountCachedKept, FetchDecimalsKept DEF AmountsNext
<1>2. CASE Others
  <2>1. ChainOK' /\ \A a \in DOMAIN job.lives : Past(a) \subseteq Past(a)'
    BY <1>2, ChainMoves DEF AmountsInv
  <2> QED BY <1>2, <2>1, AmountsKept DEF Others
<1>3. CASE UNCHANGED <<job, chain, stage>>
  <2>1. ChainOK' /\ \A a \in DOMAIN job.lives : Past(a)' = Past(a)
    BY <1>3, ChainKept DEF AmountsInv
  <2> QED BY <1>3, <2>1, AmountsKept
<1> QED BY <1>1, <1>2, <1>3, OnlyAmounts DEF Stopped

LEMMA AmountsShown ==
  ASSUME AmountsInv
  PROVE  AmountsInMintDecimals
<1>1. ASSUME NEW r \in found
      PROVE  LET ix == job.instructions[r.instruction]
             IN  IF ix.inline # <<>> THEN <<r.decimals>> = ix.inline
                 ELSE \E a \in Past(ix.of) : a.exists /\ a.decimals = <<r.decimals>>
  BY DEF AmountsInv, Shown, HadDecimals
<1>2. IsInjective(held)
  BY DEF AmountsInv
<1>3. ASSUME step = "done", NEW i \in DOMAIN job.instructions
      PROVE  Explained(i)
  <2>1. at \in Nat /\ i \in Nat /\ i <= Len(job.instructions) /\ Len(job.instructions) \in Nat
    BY AmountsJob DEF AmountsInv
  <2>2. i < at
    BY <1>3, <2>1 DEF AmountsInv
  <2> QED BY <2>2 DEF AmountsInv
<1> QED BY <1>1, <1>2, <1>3 DEF AmountsInMintDecimals, Explained

\* Of the behaviours that resolve token amounts, and so of all of them.
AmountsStage == job.kind = "amounts" => AmountsInv

\* resolve_token_amounts shows no amount in decimals that its mint, or the account
\* it came from, never had, and leaves none out without a reason, for any
\* instructions, any lives of the accounts and any requests that fail.
THEOREM AmountsAlways == Spec => []AmountsInMintDecimals
<1>1. Init => AmountsStage
  BY AmountsStart DEF AmountsStage
<1>2. AmountsStage /\ [Next]_<<job, chain, stage>> => AmountsStage'
  <2>1. SUFFICES ASSUME AmountsStage, [Next]_<<job, chain, stage>>, job'.kind = "amounts"
                 PROVE  AmountsInv'
    BY DEF AmountsStage
  <2>2. job' = job
    BY <2>1, JobKept
  <2> QED BY <2>1, <2>2, AmountsStep DEF AmountsStage
<1>3. AmountsStage => AmountsInMintDecimals
  BY AmountsShown DEF AmountsStage, AmountsInMintDecimals
<1> QED BY <1>1, <1>2, <1>3, PTL DEF Spec

-----------------------------------------------------------------------------
(* oracle *)

\* A result is what an account that the loop has passed was answered to hold.
ReadFeed(f) ==
  /\ f = [pubkey |-> f.pubkey, price |-> f.price] /\ f.pubkey \in DOMAIN job.lives
  /\ f.price.price \in Int /\ f.price.conf \in Nat
  /\ \E k \in DOMAIN job.accounts : k < at /\ job.accounts[k] = f.pubkey
  /\ \E a \in Past(f.pubkey) : a.exists /\ a.feed = <<f.price>>

FeedsInv ==
  /\ job \in Jobs.feeds /\ ChainOK
  /\ step \in {"feed_owner", "feed_data", "done"} /\ at \in Nat \ {0}
  /\ step = "feed_data" => at <= Len(job.accounts) /\ Here # Unresolved
  /\ \A f \in found : ReadFeed(f)
  /\ \A f, g \in found : f.pubkey = g.pubkey => f = g
  /\ step = "done" => held = <<check_feeds(found)>>

LEMMA FeedsJob ==
  ASSUME job \in Jobs.feeds
  PROVE  /\ job.kind = "feeds" /\ Lives(job) /\ FeedsAsked(job)
         /\ Len(job.accounts) \in Nat /\ DOMAIN job.accounts = 1..Len(job.accounts)
         /\ DOMAIN job.instructions \subseteq Nat \ {0}
<1>1. job.kind = "feeds" /\ Lives(job)
  BY JobsAssumption DEF FirstStep
<1>2. FeedsAsked(job)
  BY JobsAssumption
<1>3. job.accounts \in Seq(DOMAIN job.lives \cup {Unresolved})
  BY <1>2 DEF FeedsAsked
<1>4. job.instructions \in Seq(SUBSET DOMAIN job.lives)
  BY <1>2 DEF FeedsAsked
<1> QED BY <1>1, <1>2, <1>3, <1>4

LEMMA FeedsStart ==
  ASSUME Init, job.kind = "feeds"
  PROVE  FeedsInv
<1>1. PICK s \in DOMAIN FirstStep : job \in Jobs[s]
  BY DEF Init
<1>2. s = "feeds"
  BY <1>1, JobsAssumption
<1>3. job \in Jobs.feeds /\ Lives(job)
  BY <1>1, <1>2, JobsAssumption
<1>4. ChainOK
  BY <1>3, ChainStarts DEF Init
<1>5. at = 1 /\ step = "feed_owner" /\ found = {}
  BY DEF Init, StartStage, FirstStep
<1> QED BY <1>3, <1>4, <1>5 DEF FeedsInv

\* A result stays one whatever becomes of the accounts, and as the loop goes on.
LEMMA ReadFeedStays ==
  ASSUME FeedsInv, job' = job, at' \in {at, at + 1},
         \A a \in DOMAIN job.lives : Past(a) \subseteq Past(a)', NEW f, ReadFeed(f)
  PROVE  ReadFeed(f)'
<1>1. PICK k \in DOMAIN job.accounts : k < at /\ job.accounts[k] = f.pubkey
  BY DEF ReadFeed
<1>2. k \in Nat /\ at \in Nat
  BY FeedsJob DEF FeedsInv
<1>3. k < at'
  BY <1>1, <1>2
<1> QED BY <1>1, <1>3 DEF ReadFeed

LEMMA FlagsKept ==
  ASSUME job' = job, found' = found
  PROVE  check_feeds(found)' = check_feeds(found)
BY DEF check_feeds, FlagOf, Mismatched, instruction_of_pubkey, Stale

LEMMA FeedsKept ==
  ASSUME FeedsInv, UNCHANGED <<job, stage>>, ChainOK',
         \A a \in DOMAIN job.lives : Past(a) \subseteq Past(a)'
  PROVE  FeedsInv'
<1>1. job' = job /\ at' = at /\ step' = step /\ held' = held /\ found' = found
  BY DEF stage
<1>2. \A f \in found' : ReadFeed(f)'
  BY <1>1, ReadFeedStays DEF FeedsInv
<1>3. check_feeds(found)' = check_feeds(found)
  BY <1>1, FlagsKept
<1>4. Here' = Here
  BY <1>1 DEF Here
<1> QED BY <1>1, <1>2, <1>3, <1>4 DEF FeedsInv

\* The loop goes on to the next account, with at most one more feed.
LEMMA FeedAdvances ==
  ASSUME FeedsInv, step # "done", at <= Len(job.accounts), NEW feeds, NextFeed(feeds),
         \A f \in feeds : /\ f = [pubkey |-> f.pubkey, price |-> f.price]
                          /\ f.pubkey = Here /\ Here \in DOMAIN job.lives
                          /\ f.price.price \in Int /\ f.price.conf \in Nat
                          /\ \E a \in Past(f.pubkey) : a.exists /\ a.feed = <<f.price>>,
         \A f, g \in feeds : f = g
  PROVE  FeedsInv'
<1>1. /\ job' = job /\ chain' = chain /\ at' = at + 1 /\ step' = "feed_owner"
      /\ found' = found \cup feeds
  BY DEF NextFeed
<1>2. ChainOK' /\ \A a \in DOMAIN job.lives : Past(a)' = Past(a)
  BY <1>1, ChainKept DEF FeedsInv
<1>3. at \in DOMAIN job.accounts /\ at \in Nat /\ at < at'
  BY <1>1, FeedsJob DEF FeedsInv
<1>4. ASSUME NEW f \in found
      PROVE  ReadFeed(f)'
  <2>1. ReadFeed(f)
    BY DEF FeedsInv
  <2> QED BY <1>1, <1>2, <2>1, ReadFeedStays
<1>5. ASSUME NEW f \in feeds
      PROVE  ReadFeed(f)'
  BY <1>1, <1>2, <1>3 DEF ReadFeed, Here
<1>6. ASSUME NEW f \in found, NEW g \in feeds
      PROVE  f.pubkey # g.pubkey
  <2>1. SUFFICES ASSUME f.pubkey = g.pubkey
                 PROVE  FALSE
    OBVIOUS
  <2>2. PICK k \in DOMAIN job.accounts : k < at /\ job.accounts[k] = f.pubkey
    BY DEF FeedsInv, ReadFeed
  <2>3. job.accounts[at] = job.accounts[k] /\ job.accounts[at] \in DOMAIN job.lives
    BY <2>1, <2>2 DEF Here
  <2>4. job.accounts[at] # Unresolved
    BY <2>3, FeedsJob DEF FeedsAsked, FeedsInv
  <2>5. at = k
    BY <1>3, <2>2, <2>3, <2>4, FeedsJob DEF FeedsAsked, FeedsInv
  <2> QED BY <1>3, <2>2, <2>5
<1>7. \A f, g \in found : f.pubkey = g.pubkey => f = g
  BY DEF FeedsInv
<1>8. \A f, g \in found' : f.pubkey = g.pubkey => f = g
  BY <1>1, <1>6, <1>7
<1>9. at' \in Nat \ {0} /\ job' \in Jobs.feeds
  BY <1>1, <1>3 DEF FeedsInv
<1>10. \A f \in found' : ReadFeed(f)'
  BY <1>1, <1>4, <1>5
<1> QED BY <1>1, <1>2, <1>8, <1>9, <1>10 DEF FeedsInv

LEMMA FetchFeedDataKept ==
  ASSUME FeedsInv, FetchFeedData
  PROVE  FeedsInv'
<1>1. step = "feed_data" /\ at <= Len(job.accounts) /\ Here # Unresolved
  BY DEF FetchFeedData, FeedsInv
<1>2. at \in DOMAIN job.accounts /\ Here \in DOMAIN job.lives
  <2>1. at \in DOMAIN job.accounts
    BY <1>1, FeedsJob DEF FeedsInv
  <2>2. Here \in DOMAIN job.lives \cup {Unresolved}
    BY <2>1, FeedsJob DEF Here, FeedsAsked, FeedsInv
  <2> QED BY <1>1, <2>1, <2>2
<1>3. PICK answer \in Answers(Here) :
        NextFeed(IF Failed(answer) \/ ~answer[1].exists THEN {}
                 ELSE {[pubkey |-> Here, price |-> p] : p \in Range(answer[1].feed)})
  BY DEF FetchFeedData
<1>4. CASE Failed(answer) \/ ~answer[1].exists
  <2>1. NextFeed({})
    BY <1>3, <1>4
  <2> QED BY <1>1, <2>1, FeedAdvances
<1>5. CASE ~Failed(answer) /\ answer[1].exists
  <2> DEFINE feed == answer[1].feed
             feeds == {[pubkey |-> Here, price |-> p] : p \in Range(feed)}
  <2>1. NextFeed(feeds)
    BY <1>3, <1>5
  <2>2. answer[1] \in Past(Here) /\ answer[1] \in Moments(job, Here)
    BY <1>2, <1>5, AnswersPast DEF FeedsInv
  <2>3. /\ feed \in Seq(Range(feed)) /\ Len(feed) <= 1
        /\ \A p \in Range(feed) : p.price \in Int /\ p.conf \in Nat
    BY <1>2, <1>5, <2>2, FeedsJob DEF FeedsInv, FeedsAsked
  <2>4. \E a \in Past(Here) : a.exists /\ a.feed = feed
    BY <1>5, <2>2
  <2> HIDE DEF feed
  <2>5. Range(feed) = {} \/ \E p \in Range(feed) : feed = <<p>> /\ Range(feed) = {p}
    BY <2>3, AtMostOne
  <2>6. \A f, g \in feeds : f = g
    BY <2>5
  <2>7. ASSUME NEW f \in feeds
        PROVE  /\ f = [pubkey |-> f.pubkey, price |-> f.price]
               /\ f.pubkey = Here /\ Here \in DOMAIN job.lives
               /\ f.price.price \in Int /\ f.price.conf \in Nat
               /\ \E a \in Past(f.pubkey) : a.exists /\ a.feed = <<f.price>>
    <3>1. PICK p \in Range(feed) : f = [pubkey |-> Here, price |-> p]
      BY <2>7
    <3>2. f.pubkey = Here /\ f.price = p /\ feed = <<p>>
      BY <2>5, <3>1
    <3> QED BY <1>2, <2>3, <2>4, <3>1, <3>2
  <2> HIDE DEF feeds
  <2> QED BY <1>1, <2>1, <2>6, <2>7, FeedAdvances
<1> QED BY <1>4, <1>5

LEMMA FeedsStep ==
  ASSUME FeedsInv, [Next]_<<job, chain, stage>>
  PROVE  FeedsInv'
<1>1. step \in {"feed_owner", "feed_data", "done"}
  BY DEF FeedsInv
<1>2. ~IdlNext
  BY <1>1 DEF IdlNext, FetchIdlData, FetchIdlOwner
<1>3. ~ProgramsNext
  BY <1>1 DEF ProgramsNext, ProgramsEnd, SkipProgram, CheckOwner, CheckRegistry, FetchPointer, FetchAuthority
<1>4. ~AmountsNext
  BY <1>1 DEF AmountsNext, AmountsEnd, AmountHere, AmountCached, FetchDecimals
<1>5. CASE SkipPlaceholder
  BY <1>5, FeedAdvances DEF SkipPlaceholder
<1>6. CASE FetchFeedOwner
  <2>1. step = "feed_owner" /\ at <= Len(job.accounts) /\ Here # Unresolved
    BY <1>6 DEF FetchFeedOwner
  <2>2. CASE NextFeed({})
    BY <2>1, <2>2, FeedAdvances
  <2>3. CASE step' = "feed_data" /\ UNCHANGED <<job, chain, at, held, cache, found>>
    <3>1. ChainOK' /\ \A a \in DOMAIN job.lives : Past(a)' = Past(a)
      BY <2>3, ChainKept DEF FeedsInv
    <3>2. \A f \in found' : ReadFeed(f)'
      BY <2>3, <3>1, ReadFeedStays DEF FeedsInv
    <3>3. Here' = Here
      BY <2>3 DEF Here
    <3> QED BY <2>1, <2>3, <3>1, <3>2, <3>3 DEF FeedsInv
  <2> QED BY <1>6, <2>2, <2>3 DEF FetchFeedOwner
<1>7. CASE FeedsEnd
  <2>1. step' = "done" /\ held' = <<check_feeds(found)>> /\ UNCHANGED <<job, chain, at, cache, found>>
    BY <1>7 DEF FeedsEnd
  <2>2. ChainOK' /\ \A a \in DOMAIN job.lives : Past(a)' = Past(a)
    BY <2>1, ChainKept DEF FeedsInv
  <2>3. \A f \in found' : ReadFeed(f)'
    BY <2>1, <2>2, ReadFeedStays DEF FeedsInv
  <2>4. check_feeds(found)' = check_feeds(found)
    BY <2>1, FlagsKept
  <2> QED BY <2>1, <2>2, <2>3, <2>4 DEF FeedsInv
<1>8. CASE Others
  <2>1. ChainOK' /\ \A a \in DOMAIN job.lives : Past(a) \subseteq Past(a)'
    BY <1>8, ChainMoves DEF FeedsInv
  <2> QED BY <1>8, <2>1, FeedsKept DEF Others
<1>9. CASE UNCHANGED <<job, chain, stage>>
  <2>1. ChainOK' /\ \A a \in DOMAIN job.lives : Past(a)' = Past(a)
    BY <1>9, ChainKept DEF FeedsInv
  <2> QED BY <1>9, <2>1, FeedsKept
<1> QED BY <1>2, <1>3, <1>4, <1>5, <1>6, <1>7, <1>8, <1>9, FetchFeedDataKept
        DEF Next, FeedsNext, Stopped

\* The code's division loses nothing.
LEMMA WideToTheUnit ==
  ASSUME NEW p, p.price \in Int, p.conf \in Nat
  PROVE  TooWide(p) <=> p.price # 0 /\ p.conf * MaxConfRatio > Abs(p.price)
<1> DEFINE a == Abs(p.price)
           c == p.conf
<1>1. a \in Nat /\ c \in Nat /\ MaxConfRatio \in Nat \ {0}
  BY RatioAssumption DEF Abs
<1>2. c > a \div MaxConfRatio => c * MaxConfRatio > a
  <2>1. SUFFICES ASSUME ~(c * MaxConfRatio > a)
                 PROVE  ~(c > a \div MaxConfRatio)
    OBVIOUS
  <2> HIDE DEF a, c
  <2>2. a >= MaxConfRatio * c
    BY <1>1, <2>1
  <2>3. a \div MaxConfRatio >= c /\ a \div MaxConfRatio \in Nat
    BY <1>1, <2>2, DivAtLeast, DivMod
  <2> QED BY <1>1, <2>3
<1>3. c * MaxConfRatio > a => c > 0 /\ c > a \div MaxConfRatio
  <2>1. SUFFICES ASSUME c * MaxConfRatio > a
                 PROVE  c > 0 /\ c > a \div MaxConfRatio
    OBVIOUS
  <2> HIDE DEF a, c
  <2>2. a < MaxConfRatio * c
    BY <1>1, <2>1
  <2>3. a \div MaxConfRatio < c /\ a \div MaxConfRatio \in Nat
    BY <1>1, <2>2, DivBelow, DivMod
  <2> QED BY <1>1, <2>3
<1> QED BY <1>2, <1>3 DEF TooWide

LEMMA FirstNaming ==
  ASSUME job \in Jobs.feeds, NEW key, NEW i \in DOMAIN job.instructions
  PROVE  /\ (key \in job.instructions[i] /\ \A j \in 1..(i - 1) : key \notin job.instructions[j]) =>
              instruction_of_pubkey(key) = i
         /\ instruction_of_pubkey(key) = i => key \in job.instructions[i]
<1> DEFINE naming == {j \in DOMAIN job.instructions : key \in job.instructions[j]}
<1>1. naming \subseteq Nat \ {0} /\ DOMAIN job.instructions \subseteq Nat \ {0}
  BY FeedsJob
<1>2. instruction_of_pubkey(key) = IF naming = {} THEN 0 ELSE CHOOSE j \in naming : \A k \in naming : j <= k
  BY DEF instruction_of_pubkey
<1>3. i \in naming <=> key \in job.instructions[i]
  OBVIOUS
<1>4. (\A j \in 1..(i - 1) : key \notin job.instructions[j]) => \A k \in naming : i <= k
  <2>1. SUFFICES ASSUME \A j \in 1..(i - 1) : key \notin job.instructions[j], NEW k \in naming, ~(i <= k)
                 PROVE  FALSE
    OBVIOUS
  <2>2. k \in 1..(i - 1) /\ key \in job.instructions[k]
    BY <1>1, <2>1
  <2> QED BY <2>1, <2>2
<1> HIDE DEF naming
<1>5. naming # {} => \E j \in naming : \A k \in naming : j <= k
  <2>1. naming \in SUBSET Nat
    BY <1>1
  <2> QED BY <2>1, Smallest
<1>6. ASSUME i \in naming, \A k \in naming : i <= k
      PROVE  instruction_of_pubkey(key) = i
  <2>1. \A j \in naming : (\A k \in naming : j <= k) => j = i
    BY <1>1, <1>6
  <2> QED BY <1>2, <1>6, <2>1
<1>7. ASSUME instruction_of_pubkey(key) = i
      PROVE  i \in naming
  <2>1. i # 0
    BY <1>1
  <2>2. naming # {}
    BY <1>2, <1>7, <2>1
  <2> QED BY <1>2, <1>5, <1>7, <2>2
<1> QED BY <1>3, <1>4, <1>6, <1>7

LEMMA FeedsShown ==
  ASSUME FeedsInv
  PROVE  FeedsJudged
<1>1. SUFFICES ASSUME step = "done"
               PROVE  /\ \A f \in found :
                           /\ FlagOf("wide", instruction_of_pubkey(f.pubkey), f.pubkey) \in Flagged
                                <=> (f.price.price # 0 /\ f.price.conf * MaxConfRatio > Abs(f.price.price))
                           /\ \E a \in Past(f.pubkey) : a.exists /\ a.feed = <<f.price>>
                      /\ \A i \in DOMAIN job.instructions :
                           Differ(OwnFeeds(i)) => FlagOf("exponents", i, "") \in Flagged
                      /\ \A g \in Flagged : g.flag = "exponents" =>
                           Differ(IF g.index = 0 THEN Unnamed ELSE Named(g.index))
  BY DEF FeedsJudged, FeedsDone
<1>2. Flagged = check_feeds(found) /\ job \in Jobs.feeds
  BY <1>1 DEF Flagged, FeedsInv
<1>3. ASSUME NEW f \in found
      PROVE  FlagOf("wide", instruction_of_pubkey(f.pubkey), f.pubkey) \in Flagged <=> TooWide(f.price)
  <2>1. ASSUME TooWide(f.price)
        PROVE  FlagOf("wide", instruction_of_pubkey(f.pubkey), f.pubkey) \in Flagged
    BY <1>2, <2>1 DEF check_feeds
  <2>2. ASSUME FlagOf("wide", instruction_of_pubkey(f.pubkey), f.pubkey) \in Flagged
        PROVE  TooWide(f.price)
    <3>1. PICK g \in found :
            /\ TooWide(g.price)
            /\ FlagOf("wide", instruction_of_pubkey(g.pubkey), g.pubkey)
                 = FlagOf("wide", instruction_of_pubkey(f.pubkey), f.pubkey)
      BY <1>2, <2>2 DEF check_feeds, FlagOf
    <3>2. g.pubkey = f.pubkey
      BY <3>1 DEF FlagOf
    <3> QED BY <3>1, <3>2 DEF FeedsInv
  <2> QED BY <2>1, <2>2
<1>4. ASSUME NEW f \in found
      PROVE  /\ FlagOf("wide", instruction_of_pubkey(f.pubkey), f.pubkey) \in Flagged
                  <=> (f.price.price # 0 /\ f.price.conf * MaxConfRatio > Abs(f.price.price))
             /\ \E a \in Past(f.pubkey) : a.exists /\ a.feed = <<f.price>>
  <2>1. ReadFeed(f)
    BY DEF FeedsInv
  <2>2. TooWide(f.price) <=> f.price.price # 0 /\ f.price.conf * MaxConfRatio > Abs(f.price.price)
    BY <2>1, WideToTheUnit DEF ReadFeed
  <2> QED BY <1>3, <2>1, <2>2 DEF ReadFeed
<1>5. ASSUME NEW i \in DOMAIN job.instructions, Differ(OwnFeeds(i))
      PROVE  FlagOf("exponents", i, "") \in Flagged
  <2>1. PICK f \in OwnFeeds(i), g \in OwnFeeds(i) : f.price.expo # g.price.expo
    BY <1>5 DEF Differ
  <2>2. /\ f \in found /\ g \in found
        /\ instruction_of_pubkey(f.pubkey) = i /\ instruction_of_pubkey(g.pubkey) = i
    <3>1. ASSUME NEW h \in OwnFeeds(i)
          PROVE  /\ h \in found /\ h.pubkey \in job.instructions[i]
                 /\ \A j \in 1..(i - 1) : h.pubkey \notin job.instructions[j]
      BY <3>1 DEF OwnFeeds, Named
    <3> QED BY <1>2, <3>1, FirstNaming
  <2>3. i \in Mismatched(found)
    BY <2>1, <2>2 DEF Mismatched
  <2> QED BY <1>2, <2>3 DEF check_feeds
<1>6. ASSUME NEW flag \in Flagged, flag.flag = "exponents"
      PROVE  Differ(IF flag.index = 0 THEN Unnamed ELSE Named(flag.index))
  <2>1. PICK i \in Mismatched(found) : flag = FlagOf("exponents", i, "")
    <3>1. flag \in check_feeds(found)
      BY <1>2
    <3>2. \A f : FlagOf("wide", instruction_of_pubkey(f.pubkey), f.pubkey).flag = "wide"
                /\ FlagOf("stale", instruction_of_pubkey(f.pubkey), f.pubkey).flag = "stale"
      BY DEF FlagOf
    <3>3. flag \notin {FlagOf("wide", instruction_of_pubkey(f.pubkey), f.pubkey) : f \in {g \in found : TooWide(g.price)}}
      BY <1>6, <3>2
    <3>4. flag \notin {FlagOf("stale", instruction_of_pubkey(f.pubkey), f.pubkey) : f \in {g \in found : Stale(g.price)}}
      BY <1>6, <3>2
    <3>5. flag \in {FlagOf("exponents", i, "") : i \in Mismatched(found)}
      BY <3>1, <3>3, <3>4 DEF check_feeds
    <3> QED BY <3>5
  <2>2. flag.index = i
    BY <2>1 DEF FlagOf
  <2>3. PICK f \in found, g \in found :
          /\ instruction_of_pubkey(f.pubkey) = i /\ instruction_of_pubkey(g.pubkey) = i
          /\ f.price.expo # g.price.expo
    BY <2>1 DEF Mismatched
  <2>4. ASSUME NEW h \in found, instruction_of_pubkey(h.pubkey) = i
        PROVE  h \in IF i = 0 THEN Unnamed ELSE Named(i)
    <3> DEFINE naming == {j \in DOMAIN job.instructions : h.pubkey \in job.instructions[j]}
    <3>1. naming \in SUBSET Nat /\ 0 \notin naming
      BY <1>2, FeedsJob
    <3>2. i = IF naming = {} THEN 0 ELSE CHOOSE j \in naming : \A k \in naming : j <= k
      BY <2>4 DEF instruction_of_pubkey
    <3>3. naming # {} => i \in naming
      <4> HIDE DEF naming
      <4>1. naming # {} => \E j \in naming : \A k \in naming : j <= k
        BY <3>1, Smallest
      <4> QED BY <3>2, <4>1
    <3>4. CASE naming = {}
      <4>1. i = 0
        BY <3>2, <3>4
      <4> QED BY <3>4, <4>1 DEF Unnamed, Named
    <3>5. CASE naming # {}
      <4>1. i # 0
        BY <3>1, <3>3, <3>5
      <4>2. h.pubkey \in job.instructions[i]
        BY <3>3, <3>5
      <4> QED BY <4>1, <4>2 DEF Named
    <3> QED BY <3>4, <3>5
  <2> QED BY <2>2, <2>3, <2>4 DEF Differ
<1> QED BY <1>4, <1>5, <1>6

\* Of the behaviours that look for feeds, and so of all of them.
FeedsStage == job.kind = "feeds" => FeedsInv

\* check_feeds flags a feed as too wide exactly when its confidence exceeds the
\* ratio, for every price, confidence and ratio; what it judges, the feed's account
\* has held. A flag for exponents stands at every instruction that is the first to
\* name each of two feeds that differ, though not at every one that names two, and
\* is about feeds that differ and that its instruction names, or that none names.
THEOREM FeedsAlways == Spec => []FeedsJudged
<1>1. Init => FeedsStage
  BY FeedsStart DEF FeedsStage
<1>2. FeedsStage /\ [Next]_<<job, chain, stage>> => FeedsStage'
  <2>1. SUFFICES ASSUME FeedsStage, [Next]_<<job, chain, stage>>, job'.kind = "feeds"
                 PROVE  FeedsInv'
    BY DEF FeedsStage
  <2>2. job' = job
    BY <2>1, JobKept
  <2> QED BY <2>1, <2>2, FeedsStep DEF FeedsStage
<1>3. FeedsStage => FeedsJudged
  BY FeedsShown DEF FeedsStage, FeedsJudged, FeedsDone
<1> QED BY <1>1, <1>2, <1>3, PTL DEF Spec

-----------------------------------------------------------------------------
(* What verify_programs reports of the programs *)

\* What an account of a program has been.
OnceOwnedBy(p, owner) == \E a \in Past(p) : a.exists /\ a.executable /\ a.owner = owner
OncePointedAt(p, data) == \E a \in Past(p) : a.exists /\ a.programdata # <<>> /\ a.programdata[1] = data

First(i) == \A j \in 1..(i - 1) : job.instructions[j] # job.instructions[i]
OfAuthority(f) == f.what \in {"immutable", "authority"}

\* The program's data once declared this authority, or none.
OnceDeclared(p, what, authority) ==
  \E data \in DOMAIN job.lives :
    /\ OncePointedAt(p, data)
    /\ \E d \in Past(data) : /\ d.exists
                             /\ what = "immutable" => d.authority = <<>>
                             /\ what = "authority" => d.authority = authority

\* A flag is of a program's first use, and true.
TrueFlag(f) ==
  /\ f.index \in DOMAIN job.instructions /\ f.program = job.instructions[f.index]
  /\ First(f.index) /\ f.program \notin Trusted
  /\ f.what = "unknown" =>
       \E a \in Past(f.program) : ~(a.exists /\ a.executable /\ a.owner \in {Frozen, Upgradeable})
  /\ f.what = "unverified build" => OnceOwnedBy(f.program, Upgradeable) /\ f.program \notin job.verified
  /\ OfAuthority(f) => OnceDeclared(f.program, f.what, f.authority)

\* Why nothing need be reported of a program.
Judged(p) ==
  \/ \E f \in found : f.program = p
  \/ p \in Trusted
  \/ OnceOwnedBy(p, Frozen)
  \/ OnceOwnedBy(p, Upgradeable) /\ p \in job.verified

\* A program is being looked at.
Within == step \in {"registry", "pointer", "authority"}
Seen == {job.instructions[i] : i \in 1..(at - 1)} \cup (IF Within THEN {job.instructions[at]} ELSE {})

ProgramsInv ==
  /\ job \in Jobs.programs /\ ChainOK /\ at \in Nat \ {0}
  /\ step \in {"owner", "registry", "pointer", "authority", "done"}
  /\ at <= Len(job.instructions) + 1
  /\ cache = Seen
  /\ Within => /\ at <= Len(job.instructions) /\ First(at) /\ job.instructions[at] \notin Trusted
               /\ OnceOwnedBy(job.instructions[at], Upgradeable)
  /\ step = "authority" => held[1] \in DOMAIN job.lives /\ OncePointedAt(job.instructions[at], held[1])
  /\ step = "done" => at > Len(job.instructions)
  /\ \A f \in found : TrueFlag(f) /\ f.index <= at
  /\ \A f \in found : OfAuthority(f) => f.index < at
  /\ \A f, g \in found : OfAuthority(f) /\ OfAuthority(g) /\ f.program = g.program => f = g
  /\ \A i \in DOMAIN job.instructions :
       i < at \/ (i = at /\ step \in {"pointer", "authority"}) => Judged(job.instructions[i])

LEMMA ProgramsJob ==
  ASSUME job \in Jobs.programs
  PROVE  /\ job.kind = "programs" /\ Lives(job) /\ ProgramsAsked(job)
         /\ Len(job.instructions) \in Nat /\ DOMAIN job.instructions = 1..Len(job.instructions)
         /\ \A i \in DOMAIN job.instructions : job.instructions[i] \in DOMAIN job.lives
<1>1. job.kind = "programs" /\ Lives(job)
  BY JobsAssumption DEF FirstStep
<1>2. ProgramsAsked(job)
  BY JobsAssumption
<1>3. job.instructions \in Seq(DOMAIN job.lives)
  BY <1>2 DEF ProgramsAsked
<1> QED BY <1>1, <1>2, <1>3

LEMMA ProgramsStart ==
  ASSUME Init, job.kind = "programs"
  PROVE  ProgramsInv
<1>1. PICK s \in DOMAIN FirstStep : job \in Jobs[s]
  BY DEF Init
<1>2. s = "programs"
  BY <1>1, JobsAssumption
<1>3. job \in Jobs.programs /\ Lives(job)
  BY <1>1, <1>2, JobsAssumption
<1>4. ChainOK
  BY <1>3, ChainStarts DEF Init
<1>5. at = 1 /\ step = "owner" /\ cache = {} /\ found = {}
  BY DEF Init, StartStage, FirstStep
<1>6. cache = Seen
  BY <1>5 DEF Seen, Within
<1>7. at <= Len(job.instructions) + 1 /\ \A i \in DOMAIN job.instructions : ~(i < at)
  BY <1>3, <1>5, ProgramsJob
<1> QED BY <1>3, <1>4, <1>5, <1>6, <1>7 DEF ProgramsInv, Within

-----------------------------------------------------------------------------
(* What has been stays what has been. *)

LEMMA OnceStays ==
  ASSUME ProgramsInv, job' = job, \A a \in DOMAIN job.lives : Past(a) \subseteq Past(a)',
         NEW p \in DOMAIN job.lives
  PROVE  /\ \A owner : OnceOwnedBy(p, owner) => OnceOwnedBy(p, owner)'
         /\ \A data : OncePointedAt(p, data) => OncePointedAt(p, data)'
BY DEF OnceOwnedBy, OncePointedAt

LEMMA TrueFlagStays ==
  ASSUME ProgramsInv, job' = job, \A a \in DOMAIN job.lives : Past(a) \subseteq Past(a)',
         NEW f, TrueFlag(f)
  PROVE  TrueFlag(f)'
<1>1. f.program \in DOMAIN job.lives
  BY ProgramsJob DEF TrueFlag, ProgramsInv
<1>2. OnceOwnedBy(f.program, Upgradeable) => OnceOwnedBy(f.program, Upgradeable)'
  BY <1>1, OnceStays
<1>3. \A data : OncePointedAt(f.program, data) => OncePointedAt(f.program, data)'
  BY <1>1, OnceStays
<1>4. First(f.index)'
  BY DEF First, TrueFlag
<1>5. f.what = "unknown" =>
        (\E a \in Past(f.program) : ~(a.exists /\ a.executable /\ a.owner \in {Frozen, Upgradeable}))'
  BY <1>1 DEF TrueFlag
<1>6. OfAuthority(f) => OnceDeclared(f.program, f.what, f.authority)'
  <2>1. SUFFICES ASSUME OfAuthority(f)
                 PROVE  OnceDeclared(f.program, f.what, f.authority)'
    OBVIOUS
  <2>2. PICK data \in DOMAIN job.lives :
          /\ OncePointedAt(f.program, data)
          /\ \E d \in Past(data) : /\ d.exists
                                   /\ f.what = "immutable" => d.authority = <<>>
                                   /\ f.what = "authority" => d.authority = f.authority
    BY <2>1 DEF TrueFlag, OnceDeclared
  <2>3. OncePointedAt(f.program, data)' /\ data \in DOMAIN job'.lives
    BY <1>3, <2>2
  <2>4. (\E d \in Past(data) : /\ d.exists
                               /\ f.what = "immutable" => d.authority = <<>>
                               /\ f.what = "authority" => d.authority = f.authority)'
    BY <2>2
  <2> QED BY <2>3, <2>4 DEF OnceDeclared
<1> QED BY <1>2, <1>4, <1>5, <1>6 DEF TrueFlag, OfAuthority

LEMMA JudgedStays ==
  ASSUME ProgramsInv, job' = job, \A a \in DOMAIN job.lives : Past(a) \subseteq Past(a)',
         found \subseteq found', NEW p \in DOMAIN job.lives, Judged(p)
  PROVE  Judged(p)'
<1>1. \A owner : OnceOwnedBy(p, owner) => OnceOwnedBy(p, owner)'
  BY OnceStays
<1> QED BY <1>1 DEF Judged

-----------------------------------------------------------------------------
(* The steps *)

\* What every step has to show: the flags it adds are true of the program it is at,
\* and it does not leave a program unjudged.
LEMMA ProgramsAdvance ==
  ASSUME ProgramsInv, job' = job, ChainOK', \A a \in DOMAIN job.lives : Past(a) \subseteq Past(a)',
         found \subseteq found', at' \in {at, at + 1}, at' <= Len(job.instructions) + 1,
         step' \in {"owner", "registry", "pointer", "authority", "done"},
         cache' = Seen',
         Within' => /\ at' = at /\ at <= Len(job.instructions) /\ First(at)
                    /\ job.instructions[at] \notin Trusted
                    /\ OnceOwnedBy(job.instructions[at], Upgradeable),
         step' = "authority" => held'[1] \in DOMAIN job.lives /\ OncePointedAt(job.instructions[at], held'[1]),
         step' = "done" => at' > Len(job.instructions),
         \A f \in found' \ found : TrueFlag(f) /\ f.index = at /\ (OfAuthority(f) => at' = at + 1),
         \A f, g \in found' \ found : OfAuthority(f) /\ OfAuthority(g) => f = g,
         at' = at + 1 \/ step' \in {"pointer", "authority"} =>
           /\ at \in DOMAIN job.instructions
           /\ Judged(job.instructions[at]) \/ \E f \in found' : f.program = job.instructions[at]
  PROVE  ProgramsInv'
<1>1. at \in Nat \ {0} /\ at' \in Nat \ {0} /\ at <= at' /\ job \in Jobs.programs
  BY DEF ProgramsInv
<1>0. DOMAIN job.instructions \subseteq Nat \ {0}
  <2>1. DOMAIN job.instructions = 1..Len(job.instructions) /\ Len(job.instructions) \in Nat
    BY <1>1, ProgramsJob
  <2> QED BY <2>1
<1>2. ASSUME NEW f \in found'
      PROVE  TrueFlag(f) /\ TrueFlag(f)' /\ f.index <= at /\ f.index \in Nat \ {0}
  <2>1. TrueFlag(f) /\ f.index <= at
    BY <1>1 DEF ProgramsInv
  <2>4. f.index \in DOMAIN job.instructions
    BY <2>1 DEF TrueFlag
  <2>2. f.index \in Nat \ {0}
    BY <1>0, <2>4
  <2>3. TrueFlag(f)'
    BY <2>1, TrueFlagStays
  <2> QED BY <2>1, <2>2, <2>3
<1>3. ASSUME NEW f \in found', OfAuthority(f)
      PROVE  f.index < at'
  <2>1. CASE f \in found
    BY <1>1, <1>2, <1>3, <2>1 DEF ProgramsInv
  <2>2. CASE f \in found' \ found
    BY <1>1, <1>3, <2>2
  <2> QED BY <2>1, <2>2
<1>4. ASSUME NEW f \in found, NEW g \in found' \ found, OfAuthority(f), OfAuthority(g)
      PROVE  f.program # g.program
  <2>3. f.index < at /\ g.index = at
    BY <1>4 DEF ProgramsInv
  <2>4. f.index \in Nat \ {0}
    BY <1>2
  <2>1. f.index \in 1..(at - 1) /\ g.index = at
    BY <1>1, <2>3, <2>4
  <2>2. First(at) /\ g.program = job.instructions[at] /\ f.program = job.instructions[f.index]
    BY <1>2, <2>1 DEF TrueFlag
  <2> QED BY <2>1, <2>2 DEF First
<1>5. \A f, g \in found' : OfAuthority(f) /\ OfAuthority(g) /\ f.program = g.program => f = g
  BY <1>4 DEF ProgramsInv
<1>6. ASSUME NEW i \in DOMAIN job.instructions, i < at' \/ (i = at' /\ step' \in {"pointer", "authority"})
      PROVE  Judged(job.instructions[i])'
  <2>1. i \in Nat /\ job.instructions[i] \in DOMAIN job.lives
    BY <1>1, ProgramsJob
  <2>2. CASE i < at
    <3>1. Judged(job.instructions[i])
      BY <2>2 DEF ProgramsInv
    <3> QED BY <2>1, <3>1, JudgedStays
  <2>3. CASE ~(i < at)
    <3>1. i = at /\ (at' = at + 1 \/ step' \in {"pointer", "authority"})
      BY <1>1, <1>6, <2>1, <2>3 DEF Within
    <3>2. CASE Judged(job.instructions[at])
      BY <2>1, <3>1, <3>2, JudgedStays
    <3>3. CASE \E f \in found' : f.program = job.instructions[at]
      BY <3>1, <3>3 DEF Judged
    <3> QED BY <3>1, <3>2, <3>3
  <2> QED BY <2>2, <2>3
<1>7. Within' => /\ at' <= Len(job'.instructions) /\ First(at)' /\ job'.instructions[at'] \notin Trusted
                 /\ OnceOwnedBy(job.instructions[at], Upgradeable)'
  <2>1. SUFFICES ASSUME Within'
                 PROVE  /\ at' <= Len(job'.instructions) /\ First(at)' /\ job'.instructions[at'] \notin Trusted
                        /\ OnceOwnedBy(job.instructions[at], Upgradeable)'
    OBVIOUS
  <2>2. at' = at /\ at <= Len(job.instructions) /\ at \in DOMAIN job.instructions
    BY <1>1, <2>1, ProgramsJob
  <2>3. job.instructions[at] \in DOMAIN job.lives
    BY <1>1, <2>2, ProgramsJob
  <2>4. OnceOwnedBy(job.instructions[at], Upgradeable)'
    BY <2>1, <2>2, <2>3 DEF OnceOwnedBy
  <2>5. First(at)'
    BY <2>1, <2>2 DEF First
  <2> QED BY <2>1, <2>2, <2>4, <2>5
<1>8. step' = "authority" => held'[1] \in DOMAIN job'.lives /\ OncePointedAt(job.instructions[at], held[1])'
  <2>1. SUFFICES ASSUME step' = "authority"
                 PROVE  held'[1] \in DOMAIN job'.lives /\ OncePointedAt(job.instructions[at], held[1])'
    OBVIOUS
  <2>2. Within' /\ at' = at /\ at \in DOMAIN job.instructions
    BY <1>1, <2>1, ProgramsJob DEF Within
  <2>3. job.instructions[at] \in DOMAIN job.lives
    BY <1>1, <2>2, ProgramsJob
  <2> QED BY <2>1, <2>2, <2>3 DEF OncePointedAt
<1>9. \A f \in found' : TrueFlag(f)' /\ f.index <= at'
  BY <1>1, <1>2
<1>10. \A f \in found' : OfAuthority(f)' => f.index < at'
  BY <1>3 DEF OfAuthority
<1>11. \A f, g \in found' : OfAuthority(f)' /\ OfAuthority(g)' /\ f.program = g.program => f = g
  BY <1>5 DEF OfAuthority
<1>12. \A i \in DOMAIN job'.instructions :
         i < at' \/ (i = at' /\ step' \in {"pointer", "authority"}) => Judged(job.instructions[i])'
  BY <1>6
<1> QED BY <1>1, <1>7, <1>8, <1>9, <1>10, <1>11, <1>12 DEF ProgramsInv

\* The program the loop is at.
LEMMA ProgramHere ==
  ASSUME ProgramsInv, at <= Len(job.instructions)
  PROVE  /\ at \in Nat /\ at \in DOMAIN job.instructions /\ at < at + 1
         /\ at + 1 <= Len(job.instructions) + 1
         /\ job.instructions[at] \in DOMAIN job.lives /\ job \in Jobs.programs
<1>1. at \in Nat \ {0} /\ job \in Jobs.programs
  BY DEF ProgramsInv
<1>2. Len(job.instructions) \in Nat /\ DOMAIN job.instructions = 1..Len(job.instructions)
  BY <1>1, ProgramsJob
<1>3. at \in DOMAIN job.instructions
  BY <1>1, <1>2
<1> QED BY <1>1, <1>2, <1>3, ProgramsJob

\* What is remembered grows by the program the loop is at.
LEMMA SeenGrows ==
  ASSUME ProgramsInv, at <= Len(job.instructions), job' = job
  PROVE  LET before == {job.instructions[i] : i \in 1..(at - 1)}
         IN  /\ at' = at + 1 /\ ~Within' => Seen' = before \cup {job.instructions[at]}
             /\ at' = at /\ Within' => Seen' = before \cup {job.instructions[at]}
             /\ Within => Seen = before \cup {job.instructions[at]}
             /\ ~Within => Seen = before
<1>1. at \in Nat \ {0} /\ at + 1 - 1 = at /\ 1..at = (1..(at - 1)) \cup {at}
  BY DEF ProgramsInv
<1>2. {job.instructions[i] : i \in 1..at} = {job.instructions[i] : i \in 1..(at - 1)} \cup {job.instructions[at]}
  BY <1>1
<1> QED BY <1>1, <1>2 DEF Seen, Within

\* A flag of the program the loop is at, once its program has been recognised as
\* used for the first time.
LEMMA FlagHere ==
  ASSUME ProgramsInv, at <= Len(job.instructions), First(at), job.instructions[at] \notin Trusted,
         NEW what, NEW authority,
         what = "unknown" =>
           \E a \in Past(job.instructions[at]) : ~(a.exists /\ a.executable /\ a.owner \in {Frozen, Upgradeable}),
         what = "unverified build" =>
           OnceOwnedBy(job.instructions[at], Upgradeable) /\ job.instructions[at] \notin job.verified,
         what \in {"immutable", "authority"} => OnceDeclared(job.instructions[at], what, authority)
  PROVE  /\ TrueFlag(Flag(at, what, authority)) /\ Flag(at, what, authority).index = at
         /\ Flag(at, what, authority).program = job.instructions[at]
         /\ Flag(at, what, authority).what = what
<1> DEFINE f == Flag(at, what, authority)
<1>1. f.program = job.instructions[at] /\ f.index = at /\ f.what = what /\ f.authority = authority
  BY DEF Flag
<1>2. at \in DOMAIN job.instructions
  BY ProgramHere
<1> HIDE DEF f
<1>3. TrueFlag(f)
  BY <1>1, <1>2 DEF TrueFlag, OfAuthority
<1> QED BY <1>1, <1>3 DEF f

LEMMA PastKept ==
  ASSUME ProgramsInv, UNCHANGED <<job, chain>>
  PROVE  ChainOK' /\ \A a \in DOMAIN job.lives : Past(a) \subseteq Past(a)'
BY ChainKept DEF ProgramsInv

LEMMA ProgramsEndKept ==
  ASSUME ProgramsInv, ProgramsEnd
  PROVE  ProgramsInv'
<1>1. /\ step = "owner" /\ at > Len(job.instructions) /\ step' = "done"
      /\ UNCHANGED <<job, chain, at, cache, held>> /\ found' = found
  BY DEF ProgramsEnd, Finish
<1>2. ChainOK' /\ \A a \in DOMAIN job.lives : Past(a) \subseteq Past(a)'
  BY <1>1, PastKept
<1>3. ~Within /\ ~Within'
  BY <1>1 DEF Within
<1>4. cache' = Seen'
  BY <1>1, <1>3 DEF ProgramsInv, Seen
<1>5. at \in Nat /\ at' # at + 1 /\ at' <= Len(job.instructions) + 1
  BY <1>1 DEF ProgramsInv
<1> QED BY <1>1, <1>2, <1>3, <1>4, <1>5, ProgramsAdvance

LEMMA SkipProgramKept ==
  ASSUME ProgramsInv, SkipProgram
  PROVE  ProgramsInv'
<1>1. /\ step = "owner" /\ at <= Len(job.instructions) /\ Known(job.instructions[at])
      /\ cache' = cache \cup {job.instructions[at]} /\ at' = at + 1
      /\ UNCHANGED <<job, chain, step, held, found>>
  BY DEF SkipProgram
<1>2. ChainOK' /\ \A a \in DOMAIN job.lives : Past(a) \subseteq Past(a)'
  BY <1>1, PastKept
<1>3. ~Within /\ ~Within'
  BY <1>1 DEF Within
<1>4. cache' = Seen'
  BY <1>1, <1>3, SeenGrows DEF ProgramsInv
<1>5. Judged(job.instructions[at])
  <2>1. CASE job.instructions[at] \in Trusted
    BY <2>1 DEF Judged
  <2>2. CASE job.instructions[at] \in cache
    <3>1. cache = {job.instructions[i] : i \in 1..(at - 1)}
      BY <1>1, <1>3, SeenGrows DEF ProgramsInv
    <3>2. PICK i \in 1..(at - 1) : job.instructions[at] = job.instructions[i]
      BY <2>2, <3>1
    <3>3. i \in DOMAIN job.instructions /\ i < at
      <4>1. at \in Nat /\ DOMAIN job.instructions = 1..Len(job.instructions) /\ Len(job.instructions) \in Nat
        BY <1>1, ProgramHere, ProgramsJob
      <4> QED BY <1>1, <4>1
    <3>4. Judged(job.instructions[i])
      BY <3>3 DEF ProgramsInv
    <3> QED BY <3>2, <3>4
  <2> QED BY <1>1, <2>1, <2>2 DEF Known
<1>6. at \in DOMAIN job.instructions /\ at' <= Len(job.instructions) + 1
  BY <1>1, ProgramHere
<1> QED BY <1>1, <1>2, <1>3, <1>4, <1>5, <1>6, ProgramsAdvance

LEMMA CheckOwnerKept ==
  ASSUME ProgramsInv, CheckOwner
  PROVE  ProgramsInv'
<1> DEFINE p == job.instructions[at]
<1>1. /\ step = "owner" /\ at <= Len(job.instructions) /\ ~Known(p)
      /\ cache' = cache \cup {p} /\ job' = job /\ chain' = chain
  BY DEF CheckOwner
<1>2. ChainOK' /\ \A a \in DOMAIN job.lives : Past(a) \subseteq Past(a)'
  BY <1>1, PastKept
<1>3. ~Within /\ cache = {job.instructions[i] : i \in 1..(at - 1)}
  BY <1>1, SeenGrows DEF ProgramsInv, Within
<1>4. First(at) /\ p \notin Trusted
  BY <1>1, <1>3 DEF Known, First
<1>5. PICK answer \in Answers(p) :
        IF IsUpgradeable(answer)
          THEN step' = "registry" /\ UNCHANGED <<job, chain, at, held, found>>
          ELSE /\ at' = at + 1 /\ found' = found \cup {Flag(at, w, <<>>) : w \in OwnerVerdict(answer)}
               /\ UNCHANGED <<job, chain, step, held>>
  BY DEF CheckOwner
<1>6. at \in DOMAIN job.instructions /\ at + 1 <= Len(job.instructions) + 1 /\ p \in DOMAIN job.lives
      /\ at \in Nat /\ at # at + 1
  BY <1>1, ProgramHere
<1>7. ~Failed(answer) => answer[1] \in Past(p)
  BY <1>6, AnswersPast DEF ProgramsInv
<1>8. CASE IsUpgradeable(answer)
  <2>1. step' = "registry" /\ at' = at /\ held' = held /\ found' = found
    BY <1>5, <1>8
  <2>2. OnceOwnedBy(p, Upgradeable)
    BY <1>7, <1>8 DEF IsUpgradeable, OnceOwnedBy
  <2>3. Within' /\ cache' = Seen'
    <3>1. Within'
      BY <2>1 DEF Within
    <3> QED BY <1>1, <1>3, <2>1, <3>1, SeenGrows
  <2>4. at' <= Len(job.instructions) + 1
    BY <2>1 DEF ProgramsInv
  <2> QED BY <1>1, <1>2, <1>4, <1>6, <2>1, <2>2, <2>3, <2>4, ProgramsAdvance
<1>9. CASE ~IsUpgradeable(answer)
  <2> DEFINE flags == {Flag(at, w, <<>>) : w \in OwnerVerdict(answer)}
  <2>1. at' = at + 1 /\ found' = found \cup flags /\ step' = step /\ held' = held
    BY <1>5, <1>9
  <2>2. ~Within' /\ cache' = Seen'
    <3>1. ~Within'
      BY <1>1, <2>1 DEF Within
    <3> QED BY <1>1, <1>3, <2>1, <3>1, SeenGrows
  <2>3. ASSUME NEW f \in flags
        PROVE  TrueFlag(f) /\ f.index = at /\ ~OfAuthority(f) /\ f.program = p
    <3>1. PICK w \in OwnerVerdict(answer) : f = Flag(at, w, <<>>)
      BY <2>3
    <3>2. w \in {"owner unchecked", "unknown"}
      BY <3>1 DEF OwnerVerdict
    <3>3. w = "unknown" => \E a \in Past(p) : ~(a.exists /\ a.executable /\ a.owner \in {Frozen, Upgradeable})
      <4>1. SUFFICES ASSUME w = "unknown"
                     PROVE  \E a \in Past(p) : ~(a.exists /\ a.executable /\ a.owner \in {Frozen, Upgradeable})
        OBVIOUS
      <4>2. ~Failed(answer) /\ ~(answer[1].exists /\ answer[1].executable /\ answer[1].owner = Frozen)
        BY <3>1, <4>1 DEF OwnerVerdict
      <4>3. ~(answer[1].exists /\ answer[1].executable /\ answer[1].owner = Upgradeable)
        BY <1>9, <4>2 DEF IsUpgradeable
      <4> QED BY <1>7, <4>2, <4>3
    <3>4. TrueFlag(f) /\ f.index = at /\ f.program = p /\ f.what = w
      BY <1>1, <1>4, <3>1, <3>2, <3>3, FlagHere, ZenonT(30)
    <3> QED BY <3>2, <3>4 DEF OfAuthority
  <2>4. Judged(p) \/ \E f \in found' : f.program = p
    <3>1. CASE OwnerVerdict(answer) = {}
      <4>1. ~Failed(answer) /\ answer[1].exists /\ answer[1].executable /\ answer[1].owner = Frozen
        BY <3>1 DEF OwnerVerdict
      <4>2. OnceOwnedBy(p, Frozen)
        BY <1>7, <4>1 DEF OnceOwnedBy
      <4> QED BY <4>2 DEF Judged
    <3>2. CASE OwnerVerdict(answer) # {}
      <4>1. PICK w \in OwnerVerdict(answer) : TRUE
        BY <3>2
      <4>2. Flag(at, w, <<>>) \in flags
        BY <4>1
      <4> QED BY <2>1, <2>3, <4>2
    <3> QED BY <3>1, <3>2
  <2> HIDE DEF flags
  <2>5. \A f \in found' \ found : TrueFlag(f) /\ f.index = at /\ ~OfAuthority(f)
    BY <2>1, <2>3
  <2> QED BY <1>1, <1>2, <1>6, <2>1, <2>2, <2>4, <2>5, ProgramsAdvance
<1> QED BY <1>8, <1>9

\* What holds while a program is looked at.
LEMMA WithinHere ==
  ASSUME ProgramsInv, Within
  PROVE  /\ at <= Len(job.instructions) /\ First(at) /\ job.instructions[at] \notin Trusted
         /\ OnceOwnedBy(job.instructions[at], Upgradeable)
         /\ at \in DOMAIN job.instructions /\ job.instructions[at] \in DOMAIN job.lives
         /\ at \in Nat /\ at # at + 1 /\ at + 1 <= Len(job.instructions) + 1
         /\ at <= Len(job.instructions) + 1
         /\ job' = job /\ at' = at + 1 /\ ~Within' => Seen' = Seen
         /\ job' = job /\ at' = at /\ Within' => Seen' = Seen
         /\ cache = Seen
<1>1. /\ at <= Len(job.instructions) /\ First(at) /\ job.instructions[at] \notin Trusted
      /\ OnceOwnedBy(job.instructions[at], Upgradeable) /\ at <= Len(job.instructions) + 1
      /\ cache = Seen
  BY DEF ProgramsInv
<1>2. /\ at \in DOMAIN job.instructions /\ job.instructions[at] \in DOMAIN job.lives
      /\ at \in Nat /\ at + 1 <= Len(job.instructions) + 1
  BY <1>1, ProgramHere
<1>3. ASSUME job' = job, at' = at + 1, ~Within'
      PROVE  Seen' = Seen
  BY <1>1, <1>3, SeenGrows
<1>4. ASSUME job' = job, at' = at, Within'
      PROVE  Seen' = Seen
  BY <1>1, <1>4, SeenGrows
<1>5. at # at + 1
  BY <1>2
<1> QED BY <1>1, <1>2, <1>3, <1>4, <1>5

LEMMA CheckRegistryKept ==
  ASSUME ProgramsInv, CheckRegistry
  PROVE  ProgramsInv'
<1> DEFINE p == job.instructions[at]
<1>1. /\ step = "registry" /\ step' = "pointer" /\ job' = job /\ chain' = chain
      /\ at' = at /\ held' = held /\ cache' = cache /\ Within /\ Within'
  BY DEF CheckRegistry, Within
<1>2. ChainOK' /\ \A a \in DOMAIN job.lives : Past(a) \subseteq Past(a)'
  BY <1>1, PastKept
<1>3. PICK verdict \in {"verified", "unverified build", "registry unchecked"} :
        /\ verdict # "registry unchecked" => (verdict = "verified") = (p \in job.verified)
        /\ found' = IF verdict = "verified" THEN found ELSE Raise(verdict)
  BY DEF CheckRegistry
<1>4. CASE verdict = "verified"
  <2>1. found' = found /\ Judged(p)
    BY <1>1, <1>3, <1>4, WithinHere DEF Judged
  <2> QED BY <1>1, <1>2, <2>1, WithinHere, ProgramsAdvance
<1>5. CASE verdict # "verified"
  <2> DEFINE f == Flag(at, verdict, <<>>)
  <2>1. found' = found \cup {f}
    BY <1>3, <1>5 DEF Raise
  <2>2. verdict \in {"unverified build", "registry unchecked"}
        /\ (verdict = "unverified build" => p \notin job.verified)
    BY <1>3, <1>5
  <2>3. TrueFlag(f) /\ f.index = at /\ f.program = p /\ f.what = verdict
    BY <1>1, <2>2, WithinHere, FlagHere, ZenonT(30)
  <2>4. ~OfAuthority(f)
    BY <2>2, <2>3 DEF OfAuthority
  <2>5. \E g \in found' : g.program = p
    BY <2>1, <2>3
  <2> HIDE DEF f
  <2>6. \A g \in found' \ found : TrueFlag(g) /\ g.index = at /\ ~OfAuthority(g)
    BY <2>1, <2>3, <2>4
  <2> QED BY <1>1, <1>2, <2>1, <2>5, <2>6, WithinHere, ProgramsAdvance
<1> QED BY <1>4, <1>5

LEMMA FetchPointerKept ==
  ASSUME ProgramsInv, FetchPointer
  PROVE  ProgramsInv'
<1> DEFINE p == job.instructions[at]
<1>1. step = "pointer" /\ Within
  BY DEF FetchPointer, Within
<1>2. PICK answer \in Answers(p) :
        IF Failed(answer) \/ ~answer[1].exists \/ answer[1].programdata = <<>> THEN NextProgram(found)
        ELSE held' = answer[1].programdata /\ step' = "authority" /\ UNCHANGED <<job, chain, at, cache, found>>
  BY DEF FetchPointer
<1>3. Judged(p)
  BY <1>1, WithinHere DEF ProgramsInv
<1>4. job' = job /\ chain' = chain /\ cache' = cache /\ found' = found
  BY <1>2 DEF NextProgram
<1>5. ChainOK' /\ \A a \in DOMAIN job.lives : Past(a) \subseteq Past(a)'
  BY <1>4, PastKept
<1>6. CASE Failed(answer) \/ ~answer[1].exists \/ answer[1].programdata = <<>>
  <2>1. at' = at + 1 /\ step' = "owner" /\ ~Within'
    BY <1>2, <1>6 DEF NextProgram, Within
  <2> QED BY <1>1, <1>3, <1>4, <1>5, <2>1, WithinHere, ProgramsAdvance
<1>7. CASE ~(Failed(answer) \/ ~answer[1].exists \/ answer[1].programdata = <<>>)
  <2>1. held' = answer[1].programdata /\ step' = "authority" /\ at' = at /\ Within'
    BY <1>2, <1>7 DEF Within
  <2>2. answer[1] \in Past(p) /\ answer[1] \in Moments(job, p) /\ p \in DOMAIN job.lives
    BY <1>1, <1>7, WithinHere, AnswersPast DEF ProgramsInv
  <2>3. OncePointedAt(p, held'[1])
    BY <1>7, <2>1, <2>2 DEF OncePointedAt
  <2>4. held'[1] \in DOMAIN job.lives
    BY <1>7, <2>1, <2>2, ProgramsJob DEF ProgramsInv, ProgramsAsked
  <2> QED BY <1>1, <1>3, <1>4, <1>5, <2>1, <2>3, <2>4, WithinHere, ProgramsAdvance
<1> QED BY <1>6, <1>7

LEMMA FetchAuthorityKept ==
  ASSUME ProgramsInv, FetchAuthority
  PROVE  ProgramsInv'
<1> DEFINE p == job.instructions[at]
<1>1. step = "authority" /\ Within
  BY DEF FetchAuthority, Within
<1>2. PICK answer \in Answers(held[1]) :
        NextProgram(found \cup {Flag(at, IF a = <<>> THEN "immutable" ELSE "authority", a) : a \in AuthorityOf(answer)})
  BY DEF FetchAuthority
<1> DEFINE flags == {Flag(at, IF a = <<>> THEN "immutable" ELSE "authority", a) : a \in AuthorityOf(answer)}
<1>3. /\ job' = job /\ chain' = chain /\ cache' = cache /\ found' = found \cup flags
      /\ at' = at + 1 /\ step' = "owner" /\ ~Within'
  BY <1>2 DEF NextProgram, Within
<1>4. ChainOK' /\ \A a \in DOMAIN job.lives : Past(a) \subseteq Past(a)'
  BY <1>3, PastKept
<1>5. held[1] \in DOMAIN job.lives /\ OncePointedAt(p, held[1]) /\ Judged(p)
  BY <1>1, WithinHere DEF ProgramsInv
<1>6. ASSUME NEW f \in flags
      PROVE  TrueFlag(f) /\ f.index = at
  <2>1. PICK a \in AuthorityOf(answer) : f = Flag(at, IF a = <<>> THEN "immutable" ELSE "authority", a)
    BY <1>6
  <2> DEFINE what == IF a = <<>> THEN "immutable" ELSE "authority"
  <2>2. ~Failed(answer) /\ answer[1].exists /\ a = answer[1].authority
    BY <2>1 DEF AuthorityOf
  <2>3. answer[1] \in Past(held[1])
    BY <1>5, <2>2, AnswersPast DEF ProgramsInv
  <2>4. what \in {"immutable", "authority"} /\ (what = "immutable" => a = <<>>)
    OBVIOUS
  <2> HIDE DEF what
  <2>5. f = Flag(at, what, a)
    BY <2>1 DEF what
  <2>6. \E d \in Past(held[1]) : /\ d.exists
                                 /\ what = "immutable" => d.authority = <<>>
                                 /\ what = "authority" => d.authority = a
    BY <2>2, <2>3, <2>4
  <2>7. OnceDeclared(p, what, a)
    BY <1>5, <2>6 DEF OnceDeclared
  <2>8. at <= Len(job.instructions) /\ First(at) /\ p \notin Trusted
    BY <1>1, WithinHere
  <2>9. what # "unknown" /\ what # "unverified build"
    BY <2>4
  <2>10. TrueFlag(Flag(at, what, a)) /\ Flag(at, what, a).index = at
    BY <2>7, <2>8, <2>9, FlagHere
  <2> QED BY <2>5, <2>10
<1>7. \A f, g \in flags : f = g
  BY DEF AuthorityOf
<1> HIDE DEF flags
<1>8. /\ \A f \in found' \ found : TrueFlag(f) /\ f.index = at
      /\ \A f, g \in found' \ found : f = g
  BY <1>3, <1>6, <1>7
<1> QED BY <1>1, <1>3, <1>4, <1>5, <1>8, WithinHere, ProgramsAdvance

LEMMA ProgramsKept ==
  ASSUME ProgramsInv, UNCHANGED <<job, stage>>, ChainOK',
         \A a \in DOMAIN job.lives : Past(a) \subseteq Past(a)'
  PROVE  ProgramsInv'
<1>1. job' = job /\ at' = at /\ step' = step /\ held' = held /\ cache' = cache /\ found' = found
  BY DEF stage
<1>2. Within' = Within /\ Seen' = Seen
  BY <1>1 DEF Within, Seen
<1>3. at' <= Len(job.instructions) + 1 /\ cache' = Seen'
  BY <1>1, <1>2 DEF ProgramsInv
<1>4. Within' => /\ at' = at /\ at <= Len(job.instructions) /\ First(at)
                 /\ job.instructions[at] \notin Trusted
                 /\ OnceOwnedBy(job.instructions[at], Upgradeable)
  BY <1>1, <1>2, WithinHere
<1>5. at' # at + 1
  BY <1>1 DEF ProgramsInv
<1>6. step' \in {"pointer", "authority"} => at \in DOMAIN job.instructions /\ Judged(job.instructions[at])
  BY <1>1, WithinHere DEF ProgramsInv, Within
<1>7. step' \in {"owner", "registry", "pointer", "authority", "done"}
  BY <1>1 DEF ProgramsInv
<1>8. step' = "authority" => held'[1] \in DOMAIN job.lives /\ OncePointedAt(job.instructions[at], held'[1])
  BY <1>1 DEF ProgramsInv
<1>9. step' = "done" => at' > Len(job.instructions)
  BY <1>1 DEF ProgramsInv
<1> QED BY <1>1, <1>3, <1>4, <1>5, <1>6, <1>7, <1>8, <1>9, ProgramsAdvance

LEMMA ProgramsStep ==
  ASSUME ProgramsInv, [Next]_<<job, chain, stage>>
  PROVE  ProgramsInv'
<1>1. step \in {"owner", "registry", "pointer", "authority", "done"}
  BY DEF ProgramsInv
<1>2. ~IdlNext
  BY <1>1 DEF IdlNext, FetchIdlData, FetchIdlOwner
<1>3. ~FeedsNext
  BY <1>1 DEF FeedsNext, SkipPlaceholder, FetchFeedOwner, FetchFeedData, FeedsEnd
<1>4. ~AmountsNext
  BY <1>1 DEF AmountsNext, AmountsEnd, AmountHere, AmountCached, FetchDecimals
<1>5. CASE ProgramsNext
  BY <1>5, ProgramsEndKept, SkipProgramKept, CheckOwnerKept, CheckRegistryKept, FetchPointerKept,
     FetchAuthorityKept DEF ProgramsNext
<1>6. CASE Others
  <2>1. ChainOK' /\ \A a \in DOMAIN job.lives : Past(a) \subseteq Past(a)'
    BY <1>6, ChainMoves DEF ProgramsInv
  <2>2. UNCHANGED <<job, stage>>
    BY <1>6 DEF Others
  <2> QED BY <2>1, <2>2, ProgramsKept
<1>7. CASE UNCHANGED <<job, chain, stage>>
  <2>1. ChainOK' /\ \A a \in DOMAIN job.lives : Past(a) \subseteq Past(a)'
    BY <1>7, PastKept
  <2>2. UNCHANGED <<job, stage>>
    BY <1>7
  <2> QED BY <2>1, <2>2, ProgramsKept
<1> QED BY <1>2, <1>3, <1>4, <1>5, <1>6, <1>7 DEF Next, Stopped

-----------------------------------------------------------------------------
(* The theorem *)

LEMMA FirstUseIs ==
  ASSUME job \in Jobs.programs, NEW i \in DOMAIN job.instructions, First(i)
  PROVE  FirstUse(job.instructions[i]) = i
<1> DEFINE p == job.instructions[i]
           IsFirst(j) == /\ job.instructions[j] = p
                         /\ \A k \in 1..(j - 1) : job.instructions[k] # p
<1>1. DOMAIN job.instructions \subseteq Nat \ {0}
  <2>1. DOMAIN job.instructions = 1..Len(job.instructions) /\ Len(job.instructions) \in Nat
    BY ProgramsJob
  <2> QED BY <2>1
<1>2. IsFirst(i)
  BY DEF First
<1>3. ASSUME NEW j \in DOMAIN job.instructions, IsFirst(j)
      PROVE  j = i
  <2>1. ~(i < j)
    <3>1. SUFFICES ASSUME i < j
                   PROVE  FALSE
      OBVIOUS
    <3>2. i \in 1..(j - 1)
      BY <1>1, <3>1
    <3> QED BY <1>3, <3>2
  <2>2. ~(j < i)
    <3>1. SUFFICES ASSUME j < i
                   PROVE  FALSE
      OBVIOUS
    <3>2. j \in 1..(i - 1)
      BY <1>1, <3>1
    <3> QED BY <1>2, <1>3, <3>2
  <2> QED BY <1>1, <2>1, <2>2
<1>4. FirstUse(p) = CHOOSE j \in DOMAIN job.instructions : IsFirst(j)
  BY DEF FirstUse
<1> HIDE DEF IsFirst
<1> QED BY <1>2, <1>3, <1>4

LEMMA ProgramsReported ==
  ASSUME ProgramsInv
  PROVE  EveryProgramJudged
<1>1. SUFFICES ASSUME step = "done", NEW p \in Range(job.instructions)
               PROVE  LET frozen == \E a \in Past(p) : a.exists /\ a.executable /\ a.owner = Frozen
                          upgradeable == \E a \in Past(p) : a.exists /\ a.executable /\ a.owner = Upgradeable
                      IN  /\ \A f \in About(p) : f.index = FirstUse(p) /\ p \notin Trusted
                          /\ About(p) = {} => p \in Trusted \/ frozen \/ (upgradeable /\ p \in job.verified)
                          /\ \A f \in About(p) :
                               /\ f.what = "unknown" => \E a \in Past(p) : ~(a.exists /\ a.executable /\ a.owner \in {Frozen, Upgradeable})
                               /\ f.what = "unverified build" => upgradeable /\ p \notin job.verified
                               /\ f.what = "immutable" =>
                                    \E a \in Past(p) : /\ a.exists /\ a.programdata # <<>>
                                                       /\ \E d \in Past(a.programdata[1]) : d.exists /\ d.authority = <<>>
                               /\ f.what = "authority" =>
                                    \E a \in Past(p) : /\ a.exists /\ a.programdata # <<>>
                                                       /\ \E d \in Past(a.programdata[1]) : d.exists /\ d.authority = f.authority
                          /\ Cardinality({f \in About(p) : f.what \in {"immutable", "authority"}}) <= 1
  BY DEF EveryProgramJudged
<1>2. job \in Jobs.programs /\ \A f \in About(p) : TrueFlag(f) /\ f.program = p
  BY DEF ProgramsInv, About
<1>3. ASSUME NEW f \in About(p)
      PROVE  f.index = FirstUse(p) /\ p \notin Trusted
  BY <1>2, FirstUseIs DEF TrueFlag
<1>4. About(p) = {} =>
        p \in Trusted \/ OnceOwnedBy(p, Frozen) \/ (OnceOwnedBy(p, Upgradeable) /\ p \in job.verified)
  <2>1. PICK i \in DOMAIN job.instructions : job.instructions[i] = p
    BY DEF Range
  <2>2. i < at
    <3>1. DOMAIN job.instructions = 1..Len(job.instructions) /\ Len(job.instructions) \in Nat
      BY <1>2, ProgramsJob
    <3>2. at > Len(job.instructions) /\ at \in Nat
      BY <1>1 DEF ProgramsInv
    <3> QED BY <3>1, <3>2
  <2>3. Judged(p)
    BY <2>1, <2>2 DEF ProgramsInv
  <2> QED BY <2>3 DEF Judged, About
<1>5. ASSUME NEW f \in About(p)
      PROVE  /\ f.what = "unknown" => \E a \in Past(p) : ~(a.exists /\ a.executable /\ a.owner \in {Frozen, Upgradeable})
             /\ f.what = "unverified build" => OnceOwnedBy(p, Upgradeable) /\ p \notin job.verified
  BY <1>2 DEF TrueFlag
<1>6. ASSUME NEW f \in About(p), OfAuthority(f)
      PROVE  \E a \in Past(p) : /\ a.exists /\ a.programdata # <<>>
                                /\ \E d \in Past(a.programdata[1]) : /\ d.exists
                                                                     /\ f.what = "immutable" => d.authority = <<>>
                                                                     /\ f.what = "authority" => d.authority = f.authority
  <2>1. PICK data \in DOMAIN job.lives :
          /\ OncePointedAt(p, data)
          /\ \E d \in Past(data) : /\ d.exists
                                   /\ f.what = "immutable" => d.authority = <<>>
                                   /\ f.what = "authority" => d.authority = f.authority
    <3>1. OnceDeclared(f.program, f.what, f.authority) /\ f.program = p
      BY <1>2, <1>6 DEF TrueFlag
    <3>2. OnceDeclared(p, f.what, f.authority)
      BY <3>1
    <3> QED BY <3>2 DEF OnceDeclared
  <2> QED BY <2>1 DEF OncePointedAt
<1>7. ASSUME NEW f \in About(p)
      PROVE  /\ f.what = "immutable" =>
                  \E a \in Past(p) : /\ a.exists /\ a.programdata # <<>>
                                     /\ \E d \in Past(a.programdata[1]) : d.exists /\ d.authority = <<>>
             /\ f.what = "authority" =>
                  \E a \in Past(p) : /\ a.exists /\ a.programdata # <<>>
                                     /\ \E d \in Past(a.programdata[1]) : d.exists /\ d.authority = f.authority
  BY <1>6 DEF OfAuthority
<1>8. Cardinality({f \in About(p) : f.what \in {"immutable", "authority"}}) <= 1
  <2> DEFINE T == {f \in About(p) : f.what \in {"immutable", "authority"}}
  <2>1. \A f, g \in T : f = g
    BY <1>2 DEF About, OfAuthority, ProgramsInv
  <2> HIDE DEF T
  <2>2. CASE T = {}
    BY <2>2, FS_EmptySet DEF T
  <2>3. CASE T # {}
    <3>1. PICK f \in T : TRUE
      BY <2>3
    <3>2. T = {f}
      BY <2>1, <3>1
    <3>3. Cardinality(T) = 1
      BY <3>2, FS_Singleton
    <3> QED BY <3>3 DEF T
  <2> QED BY <2>2, <2>3
<1> QED BY <1>3, <1>4, <1>5, <1>7, <1>8 DEF OnceOwnedBy

\* Of the behaviours that check the programs, and so of all of them.
ProgramsStage == job.kind = "programs" => ProgramsInv

\* verify_programs judges every program once, at its first instruction; it is
\* silent only about a trusted, frozen or verified one, and warns only of what an
\* account has been: for any instructions, lives and failing requests.
THEOREM ProgramsAlways == Spec => []EveryProgramJudged
<1>1. Init => ProgramsStage
  BY ProgramsStart DEF ProgramsStage
<1>2. ProgramsStage /\ [Next]_<<job, chain, stage>> => ProgramsStage'
  <2>1. SUFFICES ASSUME ProgramsStage, [Next]_<<job, chain, stage>>, job'.kind = "programs"
                 PROVE  ProgramsInv'
    BY DEF ProgramsStage
  <2>2. job' = job
    BY <2>1, JobKept
  <2> QED BY <2>1, <2>2, ProgramsStep DEF ProgramsStage
<1>3. ProgramsStage => EveryProgramJudged
  BY ProgramsReported DEF ProgramsStage, EveryProgramJudged
<1> QED BY <1>1, <1>2, <1>3, PTL DEF Spec

-----------------------------------------------------------------------------
(* fetch_idl *)

\* Instructions in an IDL's own words.
Instructions(idl) ==
  [i \in DOMAIN idl.instructions |->
     LET leaves == Flat(idl.instructions[i]) IN [k \in DOMAIN leaves |-> Role(leaves[k])]]

\* What a readable IDL with groups of one level at most normalizes to.
LEMMA NormalizeIs ==
  ASSUME NEW idl, IdlOK(idl), GroupsOnce(idl)
  PROVE  normalize_idl_value(idl) = <<Instructions(idl)>>
<1>1. CASE idl.spec
  BY <1>1 DEF normalize_idl_value, Instructions
<1>2. CASE ~idl.spec
  <2>1. \A i \in DOMAIN idl.instructions : \A k \in DOMAIN idl.instructions[i] :
          ~idl.instructions[i][k].group
    BY <1>2 DEF GroupsOnce
  <2>2. normalize_idl_value(idl) =
          <<[i \in DOMAIN idl.instructions |->
              [k \in DOMAIN idl.instructions[i] |-> Role(idl.instructions[i][k])]]>>
    BY <1>2, <2>1 DEF normalize_idl_value
  <2>3. ASSUME NEW i \in DOMAIN idl.instructions
        PROVE  Flat(idl.instructions[i]) = idl.instructions[i]
    <3> DEFINE items == idl.instructions[i]
    <3>1. items \in Seq(Range(items))
      BY DEF IdlOK, Range
    <3>2. \A k \in DOMAIN items : ~items[k].group
      BY <2>1
    <3> HIDE DEF items
    <3>3. Flat(items) = FlattenSeq([k \in DOMAIN items |-> <<items[k]>>])
      <4>1. [k \in DOMAIN items |-> IF items[k].group THEN items[k].accounts ELSE <<items[k]>>] =
              [k \in DOMAIN items |-> <<items[k]>>]
        BY <3>2
      <4> QED BY <4>1 DEF Flat
    <3>4. Flat(items) = items
      BY <3>1, <3>3, FlattenSingles
    <3> QED BY <3>4 DEF items
  <2> QED BY <2>2, <2>3 DEF Instructions
<1> QED BY <1>1, <1>2

LEMMA InstructionsListed ==
  ASSUME NEW idl, IdlOK(idl)
  PROVE  /\ Lists(Instructions(idl), idl)
         /\ idl.instructions # <<>> => Instructions(idl) # <<>>
<1> DEFINE s == idl.instructions
           ins == Instructions(idl)
           leaves(i) == FlattenSeq([k \in DOMAIN s[i] |->
                          IF s[i][k].group THEN s[i][k].accounts ELSE <<s[i][k]>>])
<1>1. s \in Seq(Range(s)) /\ Len(s) \in Nat /\ DOMAIN s = 1..Len(s)
  BY LenProperties DEF IdlOK
<1>2. \A i \in DOMAIN s : ins[i] = [k \in DOMAIN leaves(i) |-> Role(leaves(i)[k])]
  BY DEF Instructions, Flat
<1>3. DOMAIN ins = DOMAIN s
  BY DEF Instructions
<1>4. Len(ins) = Len(s)
  <2>1. ins \in [1..Len(s) -> Range(ins)]
    BY <1>1, <1>3 DEF Range, Instructions
  <2> HIDE DEF ins, s
  <2> QED BY <1>1, <2>1, SeqDef, LenProperties
<1>5. Lists(ins, idl)
  BY <1>2, <1>3, <1>4 DEF Lists
<1>6. s # <<>> => ins # <<>>
  <2> HIDE DEF ins
  <2> QED BY <1>1, <1>3, EmptySeq
<1> QED BY <1>5, <1>6

\* What parse_idl_json gives, if anything.
LEMMA ParseIs ==
  ASSUME NEW text, text \in Seq(Range(text)), Len(text) <= 1,
         \A idl \in Range(text) : IdlOK(idl)
  PROVE  /\ \A ins \in parse_idl_json(text) :
              text # <<>> /\ (GroupsOnce(text[1]) => Lists(ins, text[1]))
         /\ (text # <<>> /\ text[1].instructions # <<>> /\ GroupsOnce(text[1])) =>
              parse_idl_json(text) # {}
<1>1. CASE text = <<>>
  BY <1>1 DEF parse_idl_json
<1>2. CASE text # <<>>
  <2> DEFINE idl == text[1]
             ins == Instructions(idl)
  <2>1. 1 \in DOMAIN text
    BY <1>2, LenProperties, EmptySeq
  <2>2. IdlOK(idl)
    BY <2>1 DEF Range
  <2>3. parse_idl_json(text) = {i \in Range(normalize_idl_value(idl)) : i # <<>>}
    BY <1>2 DEF parse_idl_json
  <2> HIDE DEF idl, ins
  <2>4. ASSUME GroupsOnce(idl)
        PROVE  parse_idl_json(text) = {ins} \ {<<>>}
    <3>1. normalize_idl_value(idl) = <<ins>>
      BY <2>2, <2>4, NormalizeIs DEF ins
    <3>2. Range(<<ins>>) = {ins}
      BY DEF Range
    <3> QED BY <2>3, <3>1, <3>2
  <2>5. Lists(ins, idl) /\ (idl.instructions # <<>> => ins # <<>>)
    BY <2>2, InstructionsListed DEF ins
  <2> QED BY <1>2, <2>4, <2>5 DEF idl
<1> QED BY <1>1, <1>2

\* An account of the stage.
AccountOK(a) ==
  a.exists =>
    /\ a.size \in Nat /\ a.text \in Seq(Range(a.text)) /\ Len(a.text) <= 1
    /\ \A idl \in Range(a.text) : IdlOK(idl)

\* The payload of an account is its text, or none.
LEMMA PayloadIs ==
  ASSUME NEW a, a.exists, AccountOK(a)
  PROVE  /\ Unpacked(a, "zlib") \in {a.text, <<>>}
         /\ Unpacked(a, "zlib") \o Unpacked(a, "gzip") \in {a.text, <<>>}
         /\ a.unpacked <= MaxIdlBytes =>
              /\ a.packing = "zlib" => Unpacked(a, "zlib") = a.text
              /\ a.packing \in {"zlib", "gzip"} =>
                   Unpacked(a, "zlib") \o Unpacked(a, "gzip") = a.text
<1> DEFINE S == Range(a.text)
           z == Unpacked(a, "zlib")
           g == Unpacked(a, "gzip")
<1>1. a.text \in Seq(S)
  BY DEF AccountOK
<1>2. /\ z = IF a.packing = "zlib" /\ a.unpacked <= MaxIdlBytes THEN a.text ELSE <<>>
      /\ g = IF a.packing = "gzip" /\ a.unpacked <= MaxIdlBytes THEN a.text ELSE <<>>
  BY DEF Unpacked
<1> HIDE DEF S, z, g
<1>3. <<>> \o a.text = a.text /\ a.text \o <<>> = a.text /\ <<>> \o <<>> = <<>>
  BY <1>1, ConcatEmptySeq, EmptySeq
<1>4. z = <<>> \/ g = <<>>
  BY <1>2
<1>5. z \o g \in {a.text, <<>>}
  BY <1>2, <1>3, <1>4
<1>6. ASSUME a.unpacked <= MaxIdlBytes, a.packing \in {"zlib", "gzip"}
      PROVE  z \o g = a.text
  BY <1>1, <1>2, <1>3, <1>6
<1> QED BY <1>2, <1>5, <1>6 DEF z, g

\* What is read at an address is listed in what stands there; what was published
\* is read.
LEMMA ParsedIs ==
  ASSUME NEW k, NEW a, a.exists, AccountOK(a)
  PROVE  /\ \A ins \in Parsed(k, a) :
              a.text # <<>> /\ (GroupsOnce(a.text[1]) => Lists(ins, a.text[1]))
         /\ Published(k, a) => Parsed(k, a) # {}
<1> DEFINE Good(text) ==
      \A ins \in parse_idl_json(text) :
        a.text # <<>> /\ (GroupsOnce(a.text[1]) => Lists(ins, a.text[1]))
<1>1. Good(a.text) /\ Good(<<>>)
  <2>1. Good(a.text)
    BY ParseIs DEF AccountOK
  <2>2. parse_idl_json(<<>>) = {}
    BY DEF parse_idl_json
  <2> QED BY <2>1, <2>2
<1> HIDE DEF Good
<1>2. \A ins \in parse_legacy_idl_bytes(a) \cup parse_metadata_idl_bytes(a) :
        a.text # <<>> /\ (GroupsOnce(a.text[1]) => Lists(ins, a.text[1]))
  <2> DEFINE z == Unpacked(a, "zlib")
             zg == Unpacked(a, "zlib") \o Unpacked(a, "gzip")
  <2>1. Good(z) /\ Good(zg)
    <3> HIDE DEF z, zg
    <3> QED BY <1>1, PayloadIs DEF z, zg
  <2>2. parse_legacy_idl_bytes(a) \in {parse_idl_json(a.text), parse_idl_json(z), {}}
    BY DEF parse_legacy_idl_bytes
  <2>3. parse_metadata_idl_bytes(a) \in {parse_idl_json(a.text), parse_idl_json(zg), {}}
    BY DEF parse_metadata_idl_bytes
  <2> HIDE DEF z, zg
  <2> QED BY <1>1, <2>1, <2>2, <2>3 DEF Good
<1>3. \A ins \in Parsed(k, a) :
        a.text # <<>> /\ (GroupsOnce(a.text[1]) => Lists(ins, a.text[1]))
  BY <1>2 DEF Parsed
<1>4. ASSUME Published(k, a)
      PROVE  Parsed(k, a) # {}
  <2>1. a.text # <<>> /\ a.text[1].instructions # <<>> /\ GroupsOnce(a.text[1])
        /\ a.unpacked <= MaxIdlBytes /\ a.fits
    BY <1>4 DEF Published
  <2>2. parse_idl_json(a.text) # {}
    BY <2>1, ParseIs DEF AccountOK
  <2>3. CASE Layout(k) = "legacy"
    <3>1. a.header \in {"internal", "plain"} /\ a.packing \in {"none", "zlib"}
      BY <1>4, <2>3 DEF Published
    <3>2. Parsed(k, a) = parse_legacy_idl_bytes(a)
      BY <2>3 DEF Parsed
    <3>3. a.packing = "zlib" => Unpacked(a, "zlib") = a.text
      BY <2>1, PayloadIs
    <3> QED BY <2>1, <2>2, <3>1, <3>2, <3>3 DEF parse_legacy_idl_bytes
  <2>4. CASE Layout(k) # "legacy"
    <3>1. /\ a.header = "metadata" /\ a.program = job.program /\ a.direct
          /\ a.packing \in {"none", "zlib", "gzip"}
      BY <1>4, <2>4 DEF Published
    <3>2. Parsed(k, a) = parse_metadata_idl_bytes(a)
      BY <2>4 DEF Parsed
    <3>3. a.packing # "none" => Unpacked(a, "zlib") \o Unpacked(a, "gzip") = a.text
      BY <2>1, <3>1, PayloadIs
    <3> QED BY <2>1, <2>2, <3>1, <3>2, <3>3 DEF parse_metadata_idl_bytes
  <2> QED BY <2>3, <2>4
<1> QED BY <1>3, <1>4

\* At some moment nothing was published at the address.
Unpublished(k) == \E a \in Past(job.addresses[k]) : ~Published(k, a)

\* What an address returned stood there.
Stood(k) ==
  \E a \in Past(job.addresses[k]) :
    /\ a.exists /\ a.text # <<>>
    /\ GroupsOnce(a.text[1]) => \A instructions \in found : Lists(instructions, a.text[1])

\* The answer that is kept stood at the address the search has come to.
Kept == \E a \in Past(job.addresses[at]) : held = <<a>> /\ a.exists /\ AccountOK(a)

IdlInv ==
  /\ job \in Jobs.idl /\ ChainOK
  /\ step \in {"idl_data", "idl_owner", "done", "error"}
  /\ at \in DOMAIN job.addresses
  /\ \A k \in DOMAIN job.addresses : k < at => Unpublished(k)
  /\ step = "idl_owner" => Kept
  /\ step # "done" => found = {}
  /\ step = "done" =>
       IF found = {} THEN \A k \in DOMAIN job.addresses : Unpublished(k) ELSE Stood(at)

LEMMA IdlJob ==
  ASSUME job \in Jobs.idl
  PROVE  /\ job.kind = "idl" /\ Lives(job) /\ Len(job.addresses) \in Nat \ {0}
         /\ DOMAIN job.addresses = 1..Len(job.addresses)
         /\ \A k \in DOMAIN job.addresses : job.addresses[k] \in DOMAIN job.lives
         /\ \A key \in DOMAIN job.lives : \A a \in Moments(job, key) : AccountOK(a)
<1>1. job.kind = "idl" /\ Lives(job)
  BY JobsAssumption DEF FirstStep
<1>2. IdlAsked(job)
  BY JobsAssumption
<1>3. /\ Len(job.addresses) \in Nat \ {0} /\ DOMAIN job.addresses = 1..Len(job.addresses)
      /\ \A k \in DOMAIN job.addresses : job.addresses[k] \in DOMAIN job.lives
  <2> DEFINE s == job.addresses
             D == DOMAIN job.lives
  <2>1. s \in Seq(D) /\ s # <<>>
    BY <1>2 DEF IdlAsked
  <2> HIDE DEF s, D
  <2>2. /\ Len(s) \in Nat \ {0} /\ DOMAIN s = 1..Len(s) /\ \A k \in DOMAIN s : s[k] \in D
    BY <2>1, LenProperties, EmptySeq, ElementOfSeq
  <2> QED BY <2>2 DEF s, D
<1> QED BY <1>1, <1>2, <1>3 DEF IdlAsked, AccountOK

LEMMA IdlStart ==
  ASSUME Init, job.kind = "idl"
  PROVE  IdlInv
<1>1. PICK s \in DOMAIN FirstStep : job \in Jobs[s]
  BY DEF Init
<1>2. s = "idl"
  BY <1>1, JobsAssumption
<1>3. job \in Jobs.idl /\ Lives(job)
  BY <1>1, <1>2, JobsAssumption
<1>4. ChainOK
  BY <1>3, ChainStarts DEF Init
<1>5. at = 1 /\ step = "idl_data" /\ found = {}
  BY DEF Init, StartStage, FirstStep
<1>6. at \in DOMAIN job.addresses /\ \A k \in DOMAIN job.addresses : ~(k < at)
  BY <1>3, <1>5, IdlJob
<1> QED BY <1>3, <1>4, <1>5, <1>6 DEF IdlInv

\* What was, stays so while the accounts go on.
LEMMA UnpublishedStays ==
  ASSUME job' = job, job \in Jobs.idl, NEW k \in DOMAIN job.addresses, Unpublished(k),
         \A a \in DOMAIN job.lives : Past(a) \subseteq Past(a)'
  PROVE  Unpublished(k)'
<1>1. job.addresses[k] \in DOMAIN job.lives
  BY IdlJob
<1>2. PICK a \in Past(job.addresses[k]) : ~Published(k, a)
  BY DEF Unpublished
<1>3. Published(k, a)' <=> Published(k, a)
  BY DEF Published, OwnerOf
<1> QED BY <1>1, <1>2, <1>3 DEF Unpublished

LEMMA IdlKept ==
  ASSUME IdlInv, UNCHANGED <<job, stage>>, ChainOK',
         \A a \in DOMAIN job.lives : Past(a) \subseteq Past(a)'
  PROVE  IdlInv'
<1>1. job' = job /\ at' = at /\ step' = step /\ held' = held /\ found' = found
  BY DEF stage
<1>2. at \in DOMAIN job.addresses /\ job \in Jobs.idl
      /\ \A k \in DOMAIN job.addresses : job.addresses[k] \in DOMAIN job.lives
  BY IdlJob DEF IdlInv
<1>3. \A k \in DOMAIN job.addresses : Unpublished(k) => Unpublished(k)'
  BY <1>1, <1>2, UnpublishedStays
<1>4. Stood(at) => Stood(at)'
  BY <1>1, <1>2 DEF Stood
<1>5. Kept => Kept'
  BY <1>1, <1>2 DEF Kept
<1> QED BY <1>1, <1>2, <1>3, <1>4, <1>5 DEF IdlInv

LEMMA NextAddressKept ==
  ASSUME IdlInv, step \in {"idl_data", "idl_owner"}, Unpublished(at), NextAddress
  PROVE  IdlInv'
<1>1. job' = job /\ chain' = chain /\ found = {}
  BY DEF IdlInv, NextAddress, Finish
<1>2. ChainOK' /\ \A a \in DOMAIN job.lives : Past(a) \subseteq Past(a)'
  BY <1>1, ChainKept DEF IdlInv
<1>3. job \in Jobs.idl /\ at \in DOMAIN job.addresses
      /\ \A k \in DOMAIN job.addresses : k < at => Unpublished(k)
  BY DEF IdlInv
<1>4. \A k \in DOMAIN job.addresses : Unpublished(k) => Unpublished(k)'
  BY <1>1, <1>2, <1>3, UnpublishedStays
<1>5. Len(job.addresses) \in Nat /\ DOMAIN job.addresses = 1..Len(job.addresses) /\ at \in Nat
  BY <1>3, IdlJob
<1>6. CASE at = Len(job.addresses)
  <2>1. step' = "done" /\ found' = {} /\ at' = at
    BY <1>1, <1>6 DEF NextAddress, Finish
  <2>2. \A k \in DOMAIN job.addresses : k < at \/ k = at
    BY <1>5, <1>6
  <2>3. \A k \in DOMAIN job.addresses : Unpublished(k)'
    BY <1>3, <1>4, <2>2
  <2> QED BY <1>1, <1>2, <1>3, <2>1, <2>3 DEF IdlInv
<1>7. CASE at # Len(job.addresses)
  <2>1. step' = "idl_data" /\ found' = found /\ at' = at + 1
    BY <1>7 DEF NextAddress
  <2>2. at + 1 \in DOMAIN job.addresses
    BY <1>3, <1>5, <1>7
  <2>3. \A k \in DOMAIN job.addresses : k < at + 1 => k < at \/ k = at
    BY <1>5
  <2>4. \A k \in DOMAIN job.addresses : k < at + 1 => Unpublished(k)'
    BY <1>3, <1>4, <2>3
  <2> QED BY <1>1, <1>2, <1>3, <2>1, <2>2, <2>4 DEF IdlInv
<1> QED BY <1>6, <1>7

LEMMA IdlFailedKept ==
  ASSUME IdlInv, step \in {"idl_data", "idl_owner"}, IdlFailed
  PROVE  IdlInv'
<1>1. job' = job /\ chain' = chain /\ at' = at /\ found' = found /\ step' = "error" /\ found = {}
  BY DEF IdlInv, IdlFailed
<1>2. ChainOK' /\ \A a \in DOMAIN job.lives : Past(a) \subseteq Past(a)'
  BY <1>1, ChainKept DEF IdlInv
<1>3. \A k \in DOMAIN job.addresses : Unpublished(k) => Unpublished(k)'
  BY <1>1, <1>2, UnpublishedStays DEF IdlInv
<1> QED BY <1>1, <1>2, <1>3 DEF IdlInv

LEMMA FetchIdlDataKept ==
  ASSUME IdlInv, FetchIdlData
  PROVE  IdlInv'
<1> DEFINE key == job.addresses[at]
<1>1. step = "idl_data" /\ at \in DOMAIN job.addresses /\ job \in Jobs.idl /\ ChainOK
  BY DEF IdlInv, FetchIdlData
<1>2. key \in DOMAIN job.lives
  BY <1>1, IdlJob
<1>3. PICK answer \in Answers(key) :
        IF Failed(answer) THEN IdlFailed
        ELSE IF ~answer[1].exists \/ answer[1].size > MaxIdlBytes THEN NextAddress
        ELSE held' = answer /\ step' = "idl_owner" /\ UNCHANGED <<job, chain, at, cache, found>>
  BY DEF FetchIdlData
<1>4. CASE Failed(answer)
  BY <1>1, <1>3, <1>4, IdlFailedKept
<1>5. CASE ~Failed(answer)
  <2> DEFINE a == answer[1]
  <2>1. a \in Past(key) /\ AccountOK(a)
    BY <1>1, <1>2, <1>5, AnswersPast, IdlJob
  <2>2. answer = <<a>>
    BY <1>5 DEF Answers, Failed
  <2>3. CASE ~a.exists \/ a.size > MaxIdlBytes
    <3>1. ~Published(at, a)
      BY <2>1, <2>3, MaxIdlBytesAssumption DEF Published, AccountOK
    <3>2. Unpublished(at)
      BY <2>1, <3>1 DEF Unpublished
    <3> QED BY <1>1, <1>3, <1>5, <2>3, <3>2, NextAddressKept
  <2>4. CASE ~(~a.exists \/ a.size > MaxIdlBytes)
    <3>1. /\ held' = <<a>> /\ step' = "idl_owner" /\ job' = job /\ chain' = chain /\ at' = at
          /\ found' = found /\ a.exists /\ found = {}
      BY <1>1, <1>3, <1>5, <2>2, <2>4 DEF IdlInv
    <3>2. ChainOK' /\ \A b \in DOMAIN job.lives : Past(b)' = Past(b)
      BY <1>1, <3>1, ChainKept
    <3>3. \A k \in DOMAIN job.addresses : Unpublished(k) => Unpublished(k)'
      BY <1>1, <3>1, <3>2, UnpublishedStays
    <3>4. a \in Past(job.addresses[at])'
      <4> HIDE DEF a
      <4> QED BY <2>1, <3>1 DEF Past
    <3>5. Kept'
      <4> HIDE DEF a
      <4> QED BY <2>1, <3>1, <3>4 DEF Kept, AccountOK
    <3> HIDE DEF a
    <3> QED BY <1>1, <3>1, <3>2, <3>3, <3>5 DEF IdlInv
  <2> QED BY <2>3, <2>4
<1> QED BY <1>4, <1>5

LEMMA FetchIdlOwnerKept ==
  ASSUME IdlInv, FetchIdlOwner
  PROVE  IdlInv'
<1> DEFINE key == job.addresses[at]
<1>1. step = "idl_owner" /\ at \in DOMAIN job.addresses /\ job \in Jobs.idl /\ ChainOK
      /\ found = {}
  BY DEF IdlInv, FetchIdlOwner
<1>2. key \in DOMAIN job.lives
  BY <1>1, IdlJob
<1>3. PICK h \in Past(key) : held = <<h>> /\ h.exists /\ AccountOK(h)
  BY <1>1 DEF IdlInv, Kept
<1>4. PICK answer \in Answers(key) :
        IF Failed(answer) THEN IdlFailed
        ELSE LET idls == IF answer[1].exists /\ answer[1].owner = OwnerOf(at)
                           THEN Parsed(at, held[1]) ELSE {}
             IN  IF idls # {} THEN Finish(idls) ELSE NextAddress
  BY <1>1 DEF FetchIdlOwner
<1>5. CASE Failed(answer)
  BY <1>1, <1>4, <1>5, IdlFailedKept
<1>6. CASE ~Failed(answer)
  <2> DEFINE a == answer[1]
             idls == IF a.exists /\ a.owner = OwnerOf(at) THEN Parsed(at, h) ELSE {}
  <2>1. a \in Past(key)
    BY <1>1, <1>2, <1>6, AnswersPast
  <2>2. IF idls # {} THEN Finish(idls) ELSE NextAddress
    <3>1. held[1] = h
      BY <1>3
    <3> QED BY <1>4, <1>6, <3>1
  <2>3. CASE idls = {}
    <3>1. ~Published(at, h) \/ ~Published(at, a)
      <4>1. CASE a.exists /\ a.owner = OwnerOf(at)
        BY <1>3, <2>3, <4>1, ParsedIs
      <4>2. CASE ~(a.exists /\ a.owner = OwnerOf(at))
        BY <4>2 DEF Published
      <4> QED BY <4>1, <4>2
    <3>2. Unpublished(at)
      BY <1>3, <2>1, <3>1 DEF Unpublished
    <3> QED BY <1>1, <2>2, <2>3, <3>2, NextAddressKept
  <2>4. CASE idls # {}
    <3>1. idls = Parsed(at, h)
      BY <2>4
    <3> HIDE DEF idls
    <3>2. /\ step' = "done" /\ found' = idls /\ job' = job /\ chain' = chain /\ at' = at
      BY <1>1, <2>2, <2>4 DEF Finish
    <3>3. ChainOK' /\ \A b \in DOMAIN job.lives : Past(b)' = Past(b)
      BY <1>1, <3>2, ChainKept
    <3>4. \A k \in DOMAIN job.addresses : Unpublished(k) => Unpublished(k)'
      BY <1>1, <3>2, <3>3, UnpublishedStays
    <3>5. \A ins \in found' : h.text # <<>> /\ (GroupsOnce(h.text[1]) => Lists(ins, h.text[1]))
      BY <1>3, <3>1, <3>2, ParsedIs
    <3>6. h \in Past(job.addresses[at])'
      BY <1>3, <3>2 DEF Past
    <3>7. Stood(at)'
      <4>1. PICK ins \in found' : TRUE
        BY <2>4, <3>2
      <4>2. /\ h.exists /\ h.text # <<>>
            /\ GroupsOnce(h.text[1]) =>
                 \A instructions \in found' : Lists(instructions, h.text[1])
        BY <1>3, <3>5, <4>1
      <4> QED BY <3>2, <3>6, <4>2 DEF Stood
    <3> QED BY <1>1, <2>4, <3>2, <3>3, <3>4, <3>7 DEF IdlInv
  <2> QED BY <2>3, <2>4
<1> QED BY <1>5, <1>6

LEMMA OnlyIdl ==
  ASSUME IdlInv, Next
  PROVE  IdlNext \/ Others \/ Stopped
<1>1. step \in {"idl_data", "idl_owner", "done", "error"}
  BY DEF IdlInv
<1>2. ~ProgramsNext
  <2>1. job.kind = "idl" /\ at \in DOMAIN job.addresses
    BY IdlJob DEF IdlInv
  <2> QED BY <1>1 DEF ProgramsNext, ProgramsEnd, SkipProgram, CheckOwner, CheckRegistry,
                  FetchPointer, FetchAuthority
<1>3. ~FeedsNext
  BY <1>1 DEF FeedsNext, SkipPlaceholder, FetchFeedOwner, FetchFeedData, FeedsEnd
<1>4. ~AmountsNext
  BY <1>1 DEF AmountsNext, AmountsEnd, AmountHere, AmountCached, FetchDecimals
<1> QED BY <1>2, <1>3, <1>4 DEF Next

LEMMA IdlStep ==
  ASSUME IdlInv, [Next]_<<job, chain, stage>>
  PROVE  IdlInv'
<1>1. CASE IdlNext
  BY <1>1, FetchIdlDataKept, FetchIdlOwnerKept DEF IdlNext
<1>2. CASE Others
  <2>1. ChainOK' /\ \A a \in DOMAIN job.lives : Past(a) \subseteq Past(a)'
    BY <1>2, ChainMoves DEF IdlInv
  <2> QED BY <1>2, <2>1, IdlKept DEF Others
<1>3. CASE UNCHANGED <<job, chain, stage>>
  <2>1. ChainOK' /\ \A a \in DOMAIN job.lives : Past(a)' = Past(a)
    BY <1>3, ChainKept DEF IdlInv
  <2> QED BY <1>3, <2>1, IdlKept
<1> QED BY <1>1, <1>2, <1>3, OnlyIdl DEF Stopped

LEMMA IdlHonest ==
  ASSUME IdlInv
  PROVE  SearchIsHonest
<1> SUFFICES ASSUME step = "done" PROVE SearchIsHonest
  BY DEF SearchIsHonest
<1>1. found = {} => \A k \in DOMAIN job.addresses :
        \E a \in Past(job.addresses[k]) : ~Published(k, a)
  BY DEF IdlInv, Unpublished
<1>2. ASSUME found # {}
      PROVE  /\ \A j \in 1..(at - 1) : \E a \in Past(job.addresses[j]) : ~Published(j, a)
             /\ \E a \in Past(job.addresses[at]) :
                  /\ a.exists /\ a.text # <<>>
                  /\ GroupsOnce(a.text[1]) =>
                       \A instructions \in found : Lists(instructions, a.text[1])
  <2>1. \A j \in 1..(at - 1) : j \in DOMAIN job.addresses /\ j < at
    <3>1. at \in 1..Len(job.addresses) /\ Len(job.addresses) \in Nat
          /\ DOMAIN job.addresses = 1..Len(job.addresses)
      BY IdlJob DEF IdlInv
    <3> QED BY <3>1
  <2>2. Stood(at) /\ \A j \in 1..(at - 1) : Unpublished(j)
    BY <1>2, <2>1 DEF IdlInv
  <2> QED BY <2>2 DEF Stood, Unpublished
<1>3. at \in DOMAIN job.addresses
  BY DEF IdlInv
<1> QED BY <1>1, <1>2, <1>3 DEF SearchIsHonest

\* Of the behaviours that look for an IDL, and so of all of them.
IdlStage == job.kind = "idl" => IdlInv

\* fetch_idl says that a program has no IDL only if each address was without a readable
\* one at some moment, and returns what stood at an address, for any addresses, any IDLs,
\* any lives of the accounts and any requests that fail.
THEOREM SearchAlways == Spec => []SearchIsHonest
<1>1. Init => IdlStage
  BY IdlStart DEF IdlStage
<1>2. IdlStage /\ [Next]_<<job, chain, stage>> => IdlStage'
  <2>1. SUFFICES ASSUME IdlStage, [Next]_<<job, chain, stage>>, job'.kind = "idl"
                 PROVE  IdlInv'
    BY DEF IdlStage
  <2>2. job' = job
    BY <2>1, JobKept
  <2> QED BY <2>1, <2>2, IdlStep DEF IdlStage
<1>3. IdlStage => SearchIsHonest
  BY IdlHonest DEF IdlStage, SearchIsHonest
<1> QED BY <1>1, <1>2, <1>3, PTL DEF Spec
=============================================================================
