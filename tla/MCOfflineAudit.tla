---------------------------- MODULE MCOfflineAudit ----------------------------
(***************************************************************************)
(* Inputs of OfflineAudit, by family: each varies what one group of        *)
(* properties is about.  A client lists its accounts in four groups -      *)
(* writable signers, readonly signers, writable, readonly - and the header *)
(* follows from their sizes.                                               *)
(***************************************************************************)
EXTENDS OfflineAudit

Key(name) == <<"key", name>>
Payer == Key("payer")
Alice == Key("alice")
Own == Key("own")
Other == Key("other")
MCSysvars == {Key("clock")}

MCDiscriminator == [deposit |-> <<9, 9>>, foreign |-> <<8, 8>>]
NoSchema == [kind |-> "none", instructions |-> <<>>]

Ix(program, accounts, data) == [program |-> program, accounts |-> accounts, data |-> data]
Called(names) == [names |-> names, values |-> <<>>, pda |-> {}]
Repeat(v, n) == [i \in 1..n |-> v]

Tx(groups, keys, instructions) ==
  [signatures |-> Repeat("valid", groups[1] + groups[2]), v0 |-> FALSE,
   required |-> groups[1] + groups[2], readonly_signed |-> groups[2],
   readonly_unsigned |-> groups[4], keys |-> keys, instructions |-> instructions, lookups |-> <<>>]

AsBytes == [form |-> "bytes", symbols |-> FALSE, hex |-> FALSE, beyond58 |-> FALSE, utf8 |-> FALSE]

Input(t, groups, schema, meant) ==
  [call |-> "main", tx |-> t, groups |-> groups, schema |-> schema, meant |-> meant,
   given |-> AsBytes, trailing |-> <<>>, bytes |-> <<>>, other |-> t, damaged |-> FALSE]

Unspecified(t) == [i \in 1..Len(t.instructions) |-> Called({})]

-----------------------------------------------------------------------------
(* Privileges: every small header, a schema with roles. *)

Swap == [name |-> "swap", discriminator |-> <<7>>, args |-> <<>>,
         accounts |-> << [name |-> "owner", index |-> 1, signer |-> TRUE, writable |-> FALSE, pda |-> {}],
                         [name |-> "vault", index |-> 0, signer |-> FALSE, writable |-> TRUE, pda |-> {}] >>]
SwapTwo == [Swap EXCEPT !.name = "swap_two", !.discriminator = <<7, 1>>]
Native(program, instructions) == [kind |-> "native", instructions |-> instructions, program_id |-> program]

Groups == {1, 2} \X {0, 1} \X {0, 1, 2} \X {1, 2}
Total(g) == g[1] + g[2] + g[3] + g[4]
\* The schema's program comes last, a sysvar and a known program before it.
KeysFor(g, middle) == <<Payer>> \o SubSeq(middle, 1, Total(g) - 2) \o <<Own>>
Middles == { <<Alice, Key("clock"), SystemProgram, Key("a"), Key("b")>>,
             <<Key("clock"), Alice, Key("a"), SystemProgram, Key("b")>> }

Privileges ==
  {LET t == [Tx(g, KeysFor(g, m), <<Ix(Total(g) - 1, a, <<7>>)>>) EXCEPT !.v0 = TRUE,
               !.lookups = <<[writable |-> <<0>>, readonly |-> <<>>]>>]
   IN  Input(t, g, Native(Own, <<Swap>>), <<Called({"swap"})>>) :
     g \in Groups, m \in Middles, a \in {<<0, 1>>, <<1, 0>>, <<2, 2>>, <<1, 2, 0>>, <<6>>}}

-----------------------------------------------------------------------------
(* The compute budget: up to three instructions in any order. *)

BudgetKeys == <<Payer, ComputeBudgetProgram, SystemProgram, AssociatedTokenProgram, TokenProgram>>
BudgetKinds ==
  { [ix |-> Ix(1, <<>>, <<2, 3>>), name |-> "SetComputeUnitLimit"],
    [ix |-> Ix(1, <<>>, <<2, 0>>), name |-> "SetComputeUnitLimit"],
    [ix |-> Ix(1, <<>>, <<2>>), name |-> Unnamed],
    [ix |-> Ix(1, <<>>, <<0, 4, 0>>), name |-> "RequestUnits"],
    [ix |-> Ix(1, <<>>, <<3, 5, 0>>), name |-> "SetComputeUnitPrice"],
    [ix |-> Ix(1, <<>>, <<1, 9>>), name |-> "RequestHeapFrame"],
    [ix |-> Ix(2, <<0, 0>>, <<2, 1, 0>>), name |-> "Transfer"],
    [ix |-> Ix(3, <<0>>, <<1>>), name |-> "CreateIdempotent"],
    [ix |-> Ix(4, <<0, 0, 0>>, <<12, 1, 0, 6>>), name |-> "TransferChecked"],
    [ix |-> Ix(4, <<0>>, <<>>), name |-> Unnamed] }

Budget ==
  {LET t == Tx(<<1, 0, 0, 4>>, BudgetKeys, [i \in 1..Len(s) |-> s[i].ix])
   IN  Input(t, <<1, 0, 0, 4>>, NoSchema, [i \in 1..Len(s) |-> Called({s[i].name})]) :
     s \in UNION {[1..n -> BudgetKinds] : n \in 0..3}}

-----------------------------------------------------------------------------
(* Bytes: counts of one, two and three groups, lookups, indexes out of range. *)

AltLists == { <<>>, <<[writable |-> <<1>>, readonly |-> <<>>]>>,
             <<[writable |-> <<>>, readonly |-> <<>>], [writable |-> <<3, 4>>, readonly |-> <<5>>]>> }

Shapes ==
  {[Tx(<<1, 0, 0, 2>>, <<Payer, Alice, Own>>, ixs) EXCEPT !.v0 = v, !.lookups = IF v THEN l ELSE <<>>] :
     v \in BOOLEAN, l \in AltLists,
     ixs \in { <<>>, <<Ix(2, <<0, 5>>, <<1>>)>>, <<Ix(2, <<>>, Repeat(5, 17)), Ix(3, <<1, 4, 6>>, <<>>)>>,
               <<Ix(2, Repeat(1, 16), Repeat(31, 300)), Ix(2, <<31>>, <<2>>)>> }}

Bytes ==
  {[Input(t, <<1, 0, 0, 2>>, NoSchema, Unspecified(t)) EXCEPT !.trailing = e] :
     t \in Shapes, e \in {<<>>, <<0, 31>>}}

Library(t, bytes, o, damaged) ==
  [Input(t, <<1, 0, 0, 2>>, NoSchema, Unspecified(t)) EXCEPT
     !.call = "library", !.bytes = bytes, !.other = o, !.damaged = damaged]

Short == {t \in Shapes : \A i \in 1..Len(t.instructions) : Len(t.instructions[i].data) < 3}
Longest == CHOOSE t \in Shapes : \A u \in Shapes : Len(Serialize(u)) <= Len(Serialize(t))
Least == [Tx(<<1, 0, 0, 1>>, <<Payer, Own>>, <<Ix(1, <<0>>, <<1>>)>>) EXCEPT
            !.v0 = TRUE, !.lookups = <<[writable |-> <<>>, readonly |-> <<7>>]>>]

\* Least with other counts inside: in its instruction, in the header, in its lookup.
Inner ==
  {[Least EXCEPT !.instructions[1].accounts = <<0, 0>>],
   [Least EXCEPT !.instructions[1].data = <<1, 2>>],
   [Least EXCEPT !.readonly_unsigned = 0],
   [Least EXCEPT !.lookups[1] = [writable |-> <<7>>, readonly |-> <<>>]]}

\* The same transaction with the first count written in two bytes, in three, in three
\* beyond the limit, and in four.
Recounted(t, count) == count \o Tail(Serialize(t))
Other_bytes ==
  {Library(t, Serialize(o), o, FALSE) : t \in Short, o \in Shapes}
  \cup {Library(t, Serialize(o), o, FALSE) : t \in Inner \cup {Least}, o \in Inner \cup {Least}}
  \cup {Library(Least, SubSeq(Serialize(Least), 1, n), Least, TRUE) : n \in 0..(Len(Serialize(Least)) - 1)}
  \cup {Library(Longest, SubSeq(Serialize(Longest), 1, n), Longest, TRUE) :
          n \in {k \in 0..(Len(Serialize(Longest)) - 1) : k % 7 = 0}}
  \cup {Library(Least, Recounted(Least, <<17, 0>>), Least, FALSE),
        Library(Least, Recounted(Least, <<17, 16, 0>>), Least, FALSE),
        Library(Least, Recounted(Least, <<17, 16, 4>>), Least, TRUE),
        Library(Least, Recounted(Least, <<17, 16, 16, 0>>), Least, TRUE)}

-----------------------------------------------------------------------------
(* Signatures, encodings, and the System Program's instructions with seeds. *)

Signed ==
  {LET t == [Tx(g, <<Payer, Alice, Own>>, <<>>) EXCEPT !.signatures = s]
   IN  Input(t, g, NoSchema, <<>>) :
     g \in {<<1, 0, 1, 1>>, <<1, 1, 0, 1>>, <<2, 0, 0, 1>>},
     s \in UNION {[1..n -> {"valid", "invalid", "zeroed"}] : n \in 0..3}}

Given ==
  {x \in [form : {"base58", "base64", "hex", "bytes"}, symbols : BOOLEAN, hex : BOOLEAN,
          beyond58 : BOOLEAN, utf8 : BOOLEAN] :
     /\ x.form # "base64" => ~x.symbols
     /\ x.form \in {"base58", "bytes"} => ~x.beyond58
     /\ x.form = "hex" => x.hex
     /\ x.form = "bytes" => ~x.hex
     /\ x.form # "bytes" => x.utf8
     /\ x.hex => ~x.symbols}

Encodings == {[Input(Least, <<1, 0, 0, 1>>, NoSchema, Unspecified(Least)) EXCEPT !.given = x] : x \in Given}

\* Each length of data after the four tags that carry a seed.
Seeded ==
  {LET t == Tx(<<1, 0, 0, 1>>, <<Payer, SystemProgram>>, <<Ix(1, <<0, 0>>, <<tag>> \o Repeat(b, n))>>)
   IN  Input(t, <<1, 0, 0, 1>>, NoSchema, Unspecified(t)) :
     tag \in {3, 9, 10, 11}, n \in {0, 3, 4, 5, 6, 7, 8, 9, 12, 14, 16}, b \in {0, 1}}

-----------------------------------------------------------------------------
(* Schemas: dispatch and addresses of native expectations. *)

Vault == [Swap EXCEPT !.accounts = <<[@[1] EXCEPT !.index = 0], [@[2] EXCEPT !.index = 1]>>]
WithPda(decl, pda) == [decl EXCEPT !.accounts[2].pda = {pda}]

Expectations ==
  {LET keys == <<Payer, key, program>>
       t == [Tx(<<1, 0, 1, 1>>, keys, <<Ix(2, IF table THEN <<0, 3>> ELSE <<0, 1>>, data)>>) EXCEPT
               !.v0 = TRUE, !.lookups = IF table THEN <<[writable |-> <<4>>, readonly |-> <<>>]>> ELSE <<>>]
       name == CASE program = Other /\ only = Own -> Unnamed
                 [] data = <<6>> -> Unnamed
                 [] OTHER -> IF data = <<7, 1>> THEN "swap_two" ELSE "swap"
       true == IF dynamic = 1 THEN Append(seeds, SeedBytes(<<4>>)) ELSE seeds
   IN  Input(t, <<1, 0, 1, 1>>,
             Native(only, IF swapped THEN <<SwapTwo, decl>> ELSE <<decl, SwapTwo>>),
             <<[Called({name}) EXCEPT !.pda =
                  IF name # "swap" THEN {}
                  ELSE {[position |-> 2, seeds |-> true, opaque |-> seeds = <<>>,
                         dynamic |-> dynamic = 1]}]>>) :
     <<key, program, only, data, table, swapped, seeds, dynamic, decl>> \in
       {<<k, p, o, d, b, w, s, n,
          WithPda(Vault, [seeds |-> IF s = <<>> THEN <<>> ELSE <<<<1>>>>, dynamic |-> n])>> :
          k \in {Alice, Pda(Own, <<SeedBytes(<<1>>)>>), Pda(Own, <<SeedBytes(<<1, 4>>)>>)},
          p \in {Own, Other}, o \in {Own, NoKey}, d \in {<<7>>, <<7, 1>>, <<7, 2>>, <<6>>},
          b \in BOOLEAN, w \in BOOLEAN, s \in {<<>>, <<SeedBytes(<<1>>)>>}, n \in {0, 1}}}

\* One account, derived by several instructions and twice by one.
Derived ==
  LET Fixed(seed) == {[seeds |-> <<seed>>, dynamic |-> 0]}
      one == WithPda(Vault, [seeds |-> <<<<1>>>>, dynamic |-> 0])
      two == [Vault EXCEPT !.name = "swap_two", !.discriminator = <<7, 1>>,
                !.accounts[1].pda = Fixed(<<1>>), !.accounts[2].pda = Fixed(<<2>>)]
      calls == { [ix |-> Ix(2, <<0, 1>>, <<7>>), name |-> "swap"],
                 [ix |-> Ix(2, <<0, 1>>, <<7, 1>>), name |-> "swap_two"],
                 [ix |-> Ix(2, <<1, 1>>, <<7, 1>>), name |-> "swap_two"] }
  IN {LET t == Tx(<<1, 0, 1, 1>>, <<Payer, key, Own>>, [i \in 1..Len(s) |-> s[i].ix])
      IN  Input(t, <<1, 0, 1, 1>>, Native(Own, <<one, two>>), [i \in 1..Len(s) |-> Called({s[i].name})]) :
        key \in {Alice, Pda(Own, <<SeedBytes(<<1>>)>>), Pda(Own, <<SeedBytes(<<2>>)>>)},
        s \in UNION {[1..n -> calls] : n \in 1..3}}

-----------------------------------------------------------------------------
(* Schemas: an IDL's arguments, as Borsh writes them, and its addresses. *)

Scalar(width, seedable, signed) ==
  [layers |-> <<>>, kind |-> "scalar", width |-> width, seedable |-> seedable, signed |-> signed]
Text == [layers |-> <<>>, kind |-> "string", seedable |-> TRUE, signed |-> FALSE]
Defined == [layers |-> <<>>, kind |-> "other"]
Under(layer, ty) == [ty EXCEPT !.layers = <<layer>> \o @]
Option == [kind |-> "option"]
Vec == [kind |-> "vec"]
Array(n) == [kind |-> "array", len |-> n]
Arg(ty, value) == [ty |-> ty, value |-> value]

Scalars == {Arg(Scalar(1, TRUE, FALSE), Num(<<5>>)), Arg(Scalar(2, FALSE, FALSE), Num(<<0, 1>>)),
            Arg(Scalar(2, TRUE, TRUE), Num(<<1, 0>>)), Arg(Scalar(2, TRUE, TRUE), Num(<<1, 31>>))}
Compounds ==
  LET one == Scalar(1, TRUE, FALSE)
  IN {Arg(Text, Num(<<>>)), Arg(Text, Num(<<1, 2>>)),
      Arg(Under(Option, one), Null),
      Arg(Under(Option, one), List(<<Num(<<1>>)>>)),
      Arg(Under(Vec, one), List(<<>>)),
      Arg(Under(Vec, one), List(<<Num(<<5>>), Num(<<6>>)>>)),
      Arg(Under(Array(2), one), List(<<Num(<<1>>), Num(<<0>>)>>)),
      Arg(Under(Vec, Under(Option, one)), List(<<Null, List(<<Num(<<5>>)>>)>>)),
      Arg(Defined, Num(<<4>>))}

RECURSIVE Borsh(_, _, _)
Borsh(layers, kind, value) ==
  LET items == FlattenSeq([i \in 1..(Len(value) - 1) |-> Borsh(Tail(layers), kind, value[i + 1])])
  IN  CASE layers = <<>> -> (IF kind = "string" THEN <<Len(value) - 1>> ELSE <<>>) \o Tail(value)
        [] layers # <<>> /\ Head(layers) = Option -> IF value = Null THEN <<0>> ELSE <<1>> \o items
        [] layers # <<>> /\ Head(layers) = Vec -> <<Len(value) - 1>> \o items
        [] OTHER -> items

ArgNames == <<"x", "y">>
Idl(accounts, args) ==
  [kind |-> "idl",
   instructions |-> <<[name |-> "deposit", accounts |-> accounts,
                       args |-> [k \in 1..Len(args) |-> [name |-> ArgNames[k], ty |-> args[k].ty]]]>>]
DepositData(args) ==
  MCDiscriminator["deposit"] \o 
      FlattenSeq([k \in 1..Len(args) |-> Borsh(args[k].ty.layers, args[k].ty.kind, args[k].value)])
Values(args) == [k \in 1..Len(args) |-> args[k].value]

Arguments ==
  {LET t == Tx(<<1, 0, 0, 1>>, <<Payer, Own>>, <<Ix(1, <<>>, DepositData(args))>>)
   IN  Input(t, <<1, 0, 0, 1>>, Idl(<<>>, args),
             <<[Called({"deposit"}) EXCEPT !.values = Values(args)]>>) :
     args \in UNION {[1..n -> Scalars \cup Compounds] : n \in 0..2}}

Seed(kind, path, value) == [kind |-> kind, path |-> path, value |-> value]
Seeds == {Seed("const", Unnamed, {<<1>>}), Seed("const", Unnamed, {<<>>}), Seed("const", Unnamed, {}),
          Seed("account", "authority", {}), Seed("account", "payer", {}), Seed("account", Unnamed, {}),
          Seed("arg", "x", {}), Seed("arg", "y", {}), Seed("arg", Unnamed, {}),
          Seed("other", Unnamed, {})}
SeedLists ==
  {<<>>} \cup {<<s>> : s \in Seeds}
  \cup {<<f, s>> : f \in {Seed("const", Unnamed, {<<1>>}), Seed("account", "authority", {})}, s \in Seeds}

ArgLists ==
  LET unsigned == Arg(Scalar(1, TRUE, FALSE), Num(<<5>>))
  IN {<<unsigned, Arg(Text, Num(<<2, 3>>))>>, <<unsigned, Arg(Text, Num(<<1, 2, 3, 4>>))>>,
      <<Arg(Scalar(2, TRUE, TRUE), Num(<<1, 31>>)), Arg(Scalar(2, TRUE, TRUE), Num(<<1, 0>>))>>,
      <<Arg(Scalar(2, FALSE, FALSE), Num(<<1, 0>>)), unsigned>>, <<Arg(Defined, Num(<<4>>)), unsigned>>}

\* The bytes the program itself takes for a seed.
TrueSeed(seed, args) ==
  CASE seed.kind = "const" -> IF seed.value = {} THEN <<>> ELSE SeedBytes(CHOOSE v \in seed.value : TRUE)
    [] seed.kind = "account" -> SeedKey(Payer)
    [] seed.kind = "arg" /\ seed.path # Unnamed ->
         SeedBytes(Tail((IF seed.path = "x" THEN args[1] ELSE args[2]).value))
    [] OTHER -> SeedBytes(<<0>>)
TrueSeeds(seeds, args) == [k \in 1..Len(seeds) |-> TrueSeed(seeds[k], args)]

\* Whether an argument among the seeds is lost to the decoder.
Lost(arg) == ~arg.ty.seedable \/ (arg.ty.signed /\ arg.value[Len(arg.value)] >= Radix)
Opaque_seed(seed, args) ==
  /\ seed.kind = "arg"
  /\ \/ seed.path = Unnamed
     \/ args[1].ty = Defined
     \/ seed.path = "x" /\ Lost(args[1])
     \/ seed.path = "y" /\ Lost(args[2])

Addresses ==
  {LET state == IF right THEN Pda(Own, TrueSeeds(seeds, args)) ELSE Alice
       t == [Tx(<<1, 0, 1, 1>>, <<Payer, state, Own>>,
                <<Ix(2, IF table THEN <<3, 0>> ELSE SubSeq(<<1, 0>>, 1, n), DepositData(args))>>) EXCEPT
               !.v0 = TRUE, !.lookups = IF table THEN <<[writable |-> <<4>>, readonly |-> <<>>]>> ELSE <<>>]
       accounts == << [name |-> "state", signer |-> FALSE, pda |-> {seeds}],
                      [name |-> "authority", signer |-> TRUE, pda |-> {}] >>
   IN  Input(t, <<1, 0, 1, 1>>, Idl(accounts, args),
             <<[Called({"deposit"}) EXCEPT !.values = Values(args),
                  !.pda = {[position |-> 1, seeds |-> TrueSeeds(seeds, args), dynamic |-> FALSE,
                            opaque |-> \E k \in 1..Len(seeds) : Opaque_seed(seeds[k], args)]}]>>) :
     seeds \in SeedLists, args \in ArgLists, right \in BOOLEAN, table \in BOOLEAN, n \in {1, 2}}

MCInputs ==
  [privileges |-> Privileges, budget |-> Budget, bytes |-> Bytes, library |-> Other_bytes,
   signed |-> Signed, encodings |-> Encodings, seeded |-> Seeded, expectations |-> Expectations, derived |-> Derived,
   arguments |-> Arguments, addresses |-> Addresses]
=============================================================================
