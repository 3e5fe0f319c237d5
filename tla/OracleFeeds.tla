------------------------------ MODULE OracleFeeds ------------------------------
(***************************************************************************)
(* oracle: the Pyth price feeds among the report's accounts.  An account   *)
(* has: exists, owner, and feed, what its bytes decode to: <<>>, or one    *)
(* record of v2, price, conf, expo and publish_time.  job.accounts are the *)
(* report's keys (or Unresolved, a looked-up one without a key), none      *)
(* twice, so that the caches never answer; job.instructions the sets of    *)
(* keys the instructions name.                                             *)
(***************************************************************************)
EXTENDS Endpoint, Integers

CONSTANTS
  MaxConfRatio,    \* 100: the confidence may be 1% of the price
  StaleSkewSecs    \* 7200

ASSUME RatioAssumption == MaxConfRatio \in Nat \ {0}

Pyth == "pyth"
\* Bound: a flag keeps its instruction's number in a u8.
InstructionLimit == 256
Unresolved == "<unresolved>"

\* What the stage is given.
FeedsAsked(j) ==
  /\ j.accounts \in Seq(DOMAIN j.lives \cup {Unresolved})
  /\ \A i, k \in DOMAIN j.accounts : j.accounts[i] = j.accounts[k] => i = k \/ j.accounts[i] = Unresolved
  /\ Unresolved \notin DOMAIN j.lives
  /\ j.instructions \in Seq(SUBSET DOMAIN j.lives) /\ Len(j.instructions) <= InstructionLimit
  /\ \A key \in DOMAIN j.lives : \A a \in Moments(j, key) : a.exists =>
       a.feed \in Seq(Range(a.feed)) /\ Len(a.feed) <= 1
         /\ \A p \in Range(a.feed) : p.price \in Int /\ p.conf \in Nat

Here == job.accounts[at]
NextFeed(feeds) ==
  /\ at' = at + 1 /\ step' = "feed_owner" /\ found' = found \cup feeds
  /\ UNCHANGED <<job, chain, held, cache>>

SkipPlaceholder ==
  /\ step = "feed_owner" /\ at <= Len(job.accounts) /\ Here = Unresolved
  /\ NextFeed({})

\* An owner that is unknown - no account, or a failing request - does not rule a
\* feed out.
FetchFeedOwner ==
  /\ step = "feed_owner" /\ at <= Len(job.accounts) /\ Here # Unresolved
  /\ \E answer \in Answers(Here) :
       IF Failed(answer) \/ ~answer[1].exists \/ answer[1].owner = Pyth
         THEN step' = "feed_data" /\ UNCHANGED <<job, chain, at, held, cache, found>>
         ELSE NextFeed({})

FetchFeedData ==
  /\ step = "feed_data"
  /\ \E answer \in Answers(Here) :
       NextFeed(IF Failed(answer) \/ ~answer[1].exists THEN {}
                ELSE {[pubkey |-> Here, price |-> p] : p \in Range(answer[1].feed)})

-----------------------------------------------------------------------------
Abs(n) == IF n < 0 THEN -n ELSE n

TooWide(p) == p.conf > 0 /\ p.price # 0 /\ p.conf > Abs(p.price) \div MaxConfRatio
Stale(p) == ~p.v2 \/ (p.publish_time > 0 /\ Abs(job.now - p.publish_time) > StaleSkewSecs)

\* The first instruction that names a key; 0 when none does.
instruction_of_pubkey(key) ==
  LET naming == {i \in DOMAIN job.instructions : key \in job.instructions[i]}
  IN  IF naming = {} THEN 0 ELSE CHOOSE i \in naming : \A j \in naming : i <= j

\* Mutant: the feeds of all instructions are compared.
Mismatched_Anywhere(feeds) ==
  {instruction_of_pubkey(f.pubkey) : f \in {g \in feeds : \E h \in feeds : g.price.expo # h.price.expo}}
\* Feeds whose first instruction is the same and whose exponents differ.
Mismatched(feeds) ==
  {i \in {instruction_of_pubkey(f.pubkey) : f \in feeds} :
     \E f, g \in feeds : /\ instruction_of_pubkey(f.pubkey) = i /\ instruction_of_pubkey(g.pubkey) = i
                         /\ f.price.expo # g.price.expo}

FlagOf(what, i, key) == [flag |-> what, index |-> i, pubkey |-> key]

check_feeds(feeds) ==
  {FlagOf("wide", instruction_of_pubkey(f.pubkey), f.pubkey) : f \in {g \in feeds : TooWide(g.price)}}
  \cup {FlagOf("stale", instruction_of_pubkey(f.pubkey), f.pubkey) : f \in {g \in feeds : Stale(g.price)}}
  \cup {FlagOf("exponents", i, "") : i \in Mismatched(feeds)}

FeedsEnd ==
  /\ step = "feed_owner" /\ at > Len(job.accounts)
  /\ step' = "done" /\ held' = <<check_feeds(found)>>
  /\ UNCHANGED <<job, chain, at, cache, found>>

FeedsNext == SkipPlaceholder \/ FetchFeedOwner \/ FetchFeedData \/ FeedsEnd

-----------------------------------------------------------------------------
Named(i) == {f \in found : f.pubkey \in job.instructions[i]}
\* The feeds of an instruction that no earlier one names.
OwnFeeds(i) == {f \in Named(i) : \A j \in 1..(i - 1) : f \notin Named(j)}
Unnamed == {f \in found : \A i \in DOMAIN job.instructions : f \notin Named(i)}
Differ(feeds) == \E f, g \in feeds : f.price.expo # g.price.expo
Flagged == held[1]
FeedsDone == job.kind = "feeds" /\ step = "done"

\* Each feed that could be read is judged, whatever became of the other requests:
\* wide when its confidence exceeds the ratio, to the last unit, although the code
\* divides. Of the exponents only this is so: an instruction is flagged when it is
\* the first to name each of two feeds that differ, one that is flagged does name
\* two that differ, and a flag without an instruction (0) is about feeds that no
\* instruction names. That is less than oracle.rs:151 claims: an instruction that names
\* two feeds that differ is not flagged when an earlier one named one of them.
FeedsJudged ==
  FeedsDone =>
    /\ \A f \in found :
         /\ FlagOf("wide", instruction_of_pubkey(f.pubkey), f.pubkey) \in Flagged
              <=> (f.price.price # 0 /\ f.price.conf * MaxConfRatio > Abs(f.price.price))
         /\ \E a \in Past(f.pubkey) : a.exists /\ a.feed = <<f.price>>
    /\ \A i \in DOMAIN job.instructions :
         Differ(OwnFeeds(i)) => FlagOf("exponents", i, "") \in Flagged
    /\ \A g \in Flagged : g.flag = "exponents" =>
         Differ(IF g.index = 0 THEN Unnamed ELSE Named(g.index))
=============================================================================
