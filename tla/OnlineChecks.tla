----------------------------- MODULE OnlineChecks -----------------------------
(***************************************************************************)
(* The network stages of an audit against an endpoint whose requests fail  *)
(* and whose accounts change.  The stages run one after the other, each    *)
(* with a client and caches of its own, and hand nothing on but flags and  *)
(* results; so each behaviour runs one of them, over any accounts.         *)
(***************************************************************************)
EXTENDS IdlFetch, ProgramChecks, OracleFeeds, TokenAmounts

CONSTANT Jobs   \* stage -> what it may be given

FirstStep == [idl |-> "idl_data", programs |-> "owner", feeds |-> "feed_owner", amounts |-> "amount"]

ASSUME JobsAssumption ==
  /\ \A s \in DOMAIN FirstStep : \A j \in Jobs[s] : j.kind = s /\ Lives(j)
  /\ \A j \in Jobs.idl : IdlAsked(j)
  /\ \A j \in Jobs.programs : ProgramsAsked(j)
  /\ \A j \in Jobs.feeds : FeedsAsked(j)
  /\ \A j \in Jobs.amounts : AmountsAsked(j)

Init ==
  /\ \E s \in DOMAIN FirstStep : job \in Jobs[s]
  /\ chain = [a \in DOMAIN job.lives |-> 1]
  /\ StartStage(FirstStep[job.kind])

Stopped == step \in {"done", "error"} /\ UNCHANGED <<job, chain, stage>>

Next == IdlNext \/ ProgramsNext \/ FeedsNext \/ AmountsNext \/ Others \/ Stopped

Spec == Init /\ [][Next]_<<job, chain, stage>>
=============================================================================
