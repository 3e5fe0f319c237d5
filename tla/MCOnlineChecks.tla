---------------------------- MODULE MCOnlineChecks ----------------------------
(***************************************************************************)
(* What the network stages are given: short lives of the accounts each     *)
(* stage asks for, with what makes an answer unusable.                     *)
(***************************************************************************)
EXTENDS OnlineChecks


-----------------------------------------------------------------------------
(* An IDL at one, two or three addresses. *)

Leaf(n) == [name |-> n, signer |-> n = "payer", writable |-> n = "vault", group |-> FALSE, accounts |-> <<>>]
Group(n, items) == [name |-> n, signer |-> FALSE, writable |-> FALSE, group |-> TRUE, accounts |-> items]
Flatly == <<Leaf("payer"), Leaf("vault")>>
Grouped == <<Group("common", <<Leaf("payer")>>), Leaf("vault")>>
Twice == <<Group("outer", <<Group("inner", <<Leaf("payer")>>)>>), Leaf("vault")>>
Idl(spec, instructions) == <<[spec |-> spec, instructions |-> instructions]>>

IdlAccount(owner, header, text) ==
  [exists |-> TRUE, owner |-> owner, size |-> 2, header |-> header, program |-> "p", direct |-> TRUE,
   fits |-> TRUE, packing |-> "zlib", unpacked |-> 3, text |-> text]
NoAccount == [exists |-> FALSE]
Funded == [IdlAccount("system", "none", <<>>) EXCEPT !.size = 0]

LegacyIdl == IdlAccount("p", "internal", Idl(FALSE, <<Flatly>>))
MetadataIdl == IdlAccount(Pmp, "metadata", Idl(TRUE, <<Grouped>>))
LegacyOthers ==
  { [LegacyIdl EXCEPT !.size = 5], [LegacyIdl EXCEPT !.unpacked = 5], [LegacyIdl EXCEPT !.fits = FALSE],
    [LegacyIdl EXCEPT !.packing = "none"], [LegacyIdl EXCEPT !.packing = "gzip"],
    [LegacyIdl EXCEPT !.header = "plain"], [LegacyIdl EXCEPT !.header = "other"],
    [LegacyIdl EXCEPT !.text = <<>>], [LegacyIdl EXCEPT !.text = Idl(FALSE, <<>>)],
    [LegacyIdl EXCEPT !.text = Idl(TRUE, <<Grouped, Flatly>>)], [LegacyIdl EXCEPT !.text = Idl(TRUE, <<Twice>>)],
    [LegacyIdl EXCEPT !.text = Idl(FALSE, <<Grouped>>)] }
MetadataOthers ==
  { [MetadataIdl EXCEPT !.program = "q"], [MetadataIdl EXCEPT !.direct = FALSE],
    [MetadataIdl EXCEPT !.packing = "gzip"], [MetadataIdl EXCEPT !.packing = "none"],
    [MetadataIdl EXCEPT !.unpacked = 5], [MetadataIdl EXCEPT !.header = "internal"] }

LegacyLives == { <<NoAccount>>, <<LegacyIdl>>, <<NoAccount, LegacyIdl>>, <<LegacyIdl, NoAccount>>, <<Funded, LegacyIdl>> }
MetadataLives == { <<NoAccount>>, <<MetadataIdl>>, <<NoAccount, MetadataIdl>>, <<MetadataIdl, NoAccount, MetadataIdl>> }
IdlJob(a, b, c) ==
  [kind |-> "idl", program |-> "p", addresses |-> <<"legacy", "pda", "metadata">>,
   lives |-> [legacy |-> a, pda |-> b, metadata |-> c]]
IdlJobs ==
  {IdlJob(a, b, c) : a \in LegacyLives, b \in LegacyLives, c \in MetadataLives}
  \cup {IdlJob(<<v>>, <<NoAccount>>, <<MetadataIdl>>) : v \in LegacyOthers}
  \cup {IdlJob(<<NoAccount>>, <<v, LegacyIdl>>, <<NoAccount>>) : v \in LegacyOthers}
  \cup {IdlJob(<<NoAccount>>, <<NoAccount>>, <<v>>) : v \in MetadataOthers}

-----------------------------------------------------------------------------
(* Programs that are deployed, upgraded, frozen and closed meanwhile. *)

Program(owner, executable, points) ==
  [exists |-> TRUE, executable |-> executable, owner |-> owner, programdata |-> points]
Deployed == Program(Upgradeable, TRUE, <<"data">>)
Loaded2 == Program(Frozen, TRUE, <<>>)
Data(authority) == [exists |-> TRUE, executable |-> FALSE, owner |-> Upgradeable,
                    programdata |-> <<>>, authority |-> authority]
ProgramLives == { <<Deployed>>, <<NoAccount, Deployed>>, <<Loaded2>>, <<NoAccount>>,
                  <<Program(Upgradeable, FALSE, <<"data">>), Deployed>>, <<Program("other", TRUE, <<>>)>> }
DataLives == { <<Data(<<"k">>)>>, <<Data(<<>>)>>, <<Data(<<"k">>), Data(<<"m">>), Data(<<>>)>>,
               <<Data(<<"k">>), NoAccount>>, <<NoAccount>> }
Orders == { <<"p">>, <<"p", "q", "p">>, <<"t", "q", "t", "q">>, <<"q", "p">> }
ProgramJobs ==
  {[kind |-> "programs", instructions |-> o, verified |-> v,
    lives |-> [p |-> lp, q |-> lq, t |-> <<Program("loader", TRUE, <<>>)>>, data |-> d]] :
     o \in Orders, v \in {{}, {"p"}}, lp \in ProgramLives, lq \in {<<Loaded2>>, <<NoAccount>>}, d \in DataLives}

-----------------------------------------------------------------------------
(* Feeds at the bounds of the confidence and of the window, of two exponents. *)

Price(v2, price, conf, expo, time) ==
  [v2 |-> v2, price |-> price, conf |-> conf, expo |-> expo, publish_time |-> time]
Feed(p) == [exists |-> TRUE, owner |-> Pyth, feed |-> <<p>>]
Plain == [exists |-> TRUE, owner |-> "system", feed |-> <<>>]
Prices == {Price(TRUE, p, c, 8, 100) : p \in {-25, -20, 0, 9, 20, 25}, c \in {0, 1, 2, 3}}
          \cup {Price(TRUE, 50, 1, 8, t) : t \in {0, 1, 80, 79, 120, 121}} \cup {Price(FALSE, 50, 1, 8, 0)}
Eight == Price(TRUE, 50, 1, 8, 100)
Six == Price(TRUE, 50, 1, 6, 100)
FeedJob(accounts, instructions, lives) ==
  [kind |-> "feeds", accounts |-> accounts, instructions |-> instructions, now |-> 100, lives |-> lives]
FeedJobs ==
  {FeedJob(<<"a">>, <<{"a"}>>, [a |-> <<Feed(p)>>]) : p \in Prices}
  \cup {FeedJob(<<Unresolved, "a", "b">>, i, [a |-> la, b |-> lb]) :
          i \in { <<{"a", "b"}>>, <<{"a"}, {"b"}>>, <<{"a"}, {"a", "b"}>>, <<{}, {"a", "b"}>>, <<{}>> },
          la \in { <<Feed(Eight)>>, <<Feed(Eight), Feed(Six)>>, <<Plain>>, <<NoAccount, Feed(Eight)>> },
          lb \in { <<Feed(Six)>>, <<Feed(Eight), Feed(Six)>>, <<Plain, Feed(Six)>> }}

-----------------------------------------------------------------------------
(* Up to three token instructions over one mint and two of its accounts. *)

Holds(kind, d) == [exists |-> TRUE, kind |-> kind, decimals |-> <<d>>]
TokenIx(program, name, accounts, of, inline) ==
  [program |-> program, name |-> name, accounts |-> accounts, of |-> of, amount |-> <<5>>, inline |-> inline]
Transfer == TokenIx("token", "Transfer", <<"x", "y">>, "x", <<>>)
Checked == TokenIx("token_2022", "TransferChecked", <<"x", "mint", "y">>, "mint", <<6>>)
MintTo == TokenIx("token", "MintTo", <<"mint", "x">>, "mint", <<>>)
Burn == TokenIx("token_2022", "Burn", <<"x", "mint">>, "mint", <<>>)
\* Refused by the program: a token account where the mint should be.
Wrong == TokenIx("token", "MintTo", <<"x", "y">>, "x", <<>>)
Foreign == TokenIx("own", "Transfer", <<"x", "y">>, "x", <<>>)
Bare == [Transfer EXCEPT !.amount = <<>>]
AmountJobs ==
  {[kind |-> "amounts", rpc |-> r, instructions |-> s,
    lives |-> [mint |-> <<Holds("mint", 6)>>, x |-> lx, y |-> <<Holds("account", 6)>>]] :
     r \in BOOLEAN,
     s \in UNION {[1..n -> {Transfer, Checked, MintTo, Burn, Wrong, Foreign, Bare}] : n \in 1..3},
     lx \in { <<Holds("account", 6)>>, <<Holds("account", 6), NoAccount, Holds("account", 9)>> }}

MCJobs == [idl |-> IdlJobs, programs |-> ProgramJobs, feeds |-> FeedJobs, amounts |-> AmountJobs]
=============================================================================
