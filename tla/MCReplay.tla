------------------------------ MODULE MCReplay ------------------------------
(* A finite instance of Replay: a transfer of lamports to a wallet that may   *)
(* not exist yet, a transfer of tokens, both after another, a program that    *)
(* may not be found, an instruction that only looks like a transfer, and a    *)
(* transaction with a lookup table.                                           *)
EXTENDS Replay

Sol(amount) == [program |-> "system", from |-> "payer", to |-> "friend", amount |-> amount]
Token(amount) == [program |-> "token", from |-> "vault", to |-> "purse", amount |-> amount]
Other == [program |-> "other", from |-> "payer", to |-> "friend", amount |-> 1]

Of(instructions, looked_up) ==
  [instructions |-> instructions, looked_up |-> looked_up,
   static |-> {instructions[i].program : i \in 1..Len(instructions)}
                \cup {instructions[i].from : i \in 1..Len(instructions)}
                \cup {instructions[i].to : i \in 1..Len(instructions)}]

MCTransactions ==
  {Of(<<Sol(a)>>, {}) : a \in {0, 1, 2, 3}}
    \cup {Of(<<Token(1)>>, {}), Of(<<Sol(1), Token(2)>>, {}), Of(<<Other, Sol(1)>>, {}),
          Of(<<Sol(1)>>, {"purse"}), Of(<<Sol(1)>>, {"<unresolved>"})}

MCChains == {[payer |-> 2, friend |-> 1, vault |-> 2, purse |-> 0], [payer |-> 3, vault |-> 1]}
=============================================================================
