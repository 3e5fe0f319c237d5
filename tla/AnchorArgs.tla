------------------------------ MODULE AnchorArgs ------------------------------
(***************************************************************************)
(* anchor_decoder: an instruction's arguments, read one after the other by *)
(* the types its IDL declares, and validator::encode_arg_seed, which turns *)
(* a decoded argument back into the bytes of a seed.                       *)
(*                                                                         *)
(* A type is a scalar of some width, or one the decoder does not know (a   *)
(* defined struct), under layers of options, vecs and arrays, outermost    *)
(* first.  A decoded value is a tagged tuple, so that unlike values can be *)
(* compared.                                                               *)
(***************************************************************************)
EXTENDS InstructionData

Null == <<"null">>
Num(bytes) == <<"num">> \o bytes
List(values) == <<"list">> \o values
Got(value, consumed) == [value |-> value, consumed |-> consumed]
NoProgress == Got(Null, 0)

-----------------------------------------------------------------------------
\* Mutant: a value that made no progress does not stop the reading.
Stops_Never(offset, next) == FALSE

\* Nothing was read: the last value.
Stops(offset, next) == next = offset

\* Up to n values, one after the other, until the data ends or one makes no progress:
\* what was read of it is a value all the same. value[i, at] is the i-th one, read at `at`.
ReadAll(data, start, n, value) ==
  LET Step(r, i) ==
        IF r.stopped \/ r.offset >= Len(data) THEN r
        ELSE LET v == value[i, r.offset]
             IN  [values |-> Append(r.values, v.value), offset |-> r.offset + v.consumed,
                  stopped |-> Stops(r.offset, r.offset + v.consumed)]
  IN  FoldLeft(Step, [values |-> <<>>, offset |-> start, stopped |-> FALSE], [i \in 1..n |-> i])

decode_anchor_scalar(data, offset, ty) ==
  LET has(n) == Len(data) >= offset + n
      bytes(from, n) == SubSeq(data, from + 1, from + n)
      n == LittleEndian(data, offset, U32Len)
  IN  CASE ty.kind = "scalar" /\ has(ty.width) -> Got(Num(bytes(offset, ty.width)), ty.width)
        [] ty.kind = "string" /\ has(U32Len) /\ has(U32Len + n) ->
             Got(Num(bytes(offset + U32Len, n)), U32Len + n)
        [] OTHER -> NoProgress

\* From the outermost of the layers that are left to the scalar.
decode_anchor_type(data, start, ty) ==
  LET Value[left \in 0..Len(ty.layers), offset \in Nat] ==
        LET layer == ty.layers[Len(ty.layers) + 1 - left]
            Items(from, n) ==
              LET r == ReadAll(data, from, n, [i \in 1..n, at \in Nat |-> Value[left - 1, at]])
              IN  Got(List(r.values), r.offset - offset)
        IN  CASE left = 0 -> decode_anchor_scalar(data, offset, ty)
              [] left > 0 /\ layer.kind = "option" ->
                   IF Len(data) > offset + 1 /\ data[offset + 1] = 1
                     THEN LET v == Value[left - 1, offset + 1]
                          IN  Got(List(<<v.value>>), 1 + v.consumed)
                     ELSE Got(Null, 1)
              [] left > 0 /\ layer.kind = "vec" ->
                   IF Len(data) > offset + U32Len
                     THEN Items(offset + U32Len, LittleEndian(data, offset, U32Len))
                     ELSE NoProgress
              [] left > 0 /\ layer.kind = "array" -> Items(offset, layer.len)
  IN  Value[Len(ty.layers), start]

\* The arguments that were read, in order.
decode_anchor_args(data, args) ==
  LET read == ReadAll(data, 0, Len(args),
                      [k \in 1..Len(args), at \in Nat |-> decode_anchor_type(data, at, args[k].ty)])
  IN  [k \in 1..Len(read.values) |->
         [name |-> args[k].name, ty |-> args[k].ty, value |-> read.values[k]]]

-----------------------------------------------------------------------------
(* validator: an argument as a seed. *)

\* The bytes encode_arg_seed makes of a value, if its type is one it knows:
\* unsigned numbers, strings, flags and keys, and i64 as long as it is not
\* negative - the decoder reads every integer as unsigned.
encode_arg_seed(value, ty) ==
  IF /\ ty.layers = <<>> /\ ty.kind \in {"scalar", "string"} /\ ty.seedable /\ value # Null
     /\ ~(ty.signed /\ value[Len(value)] >= Radix)
    THEN {Tail(value)} ELSE {}

\* resolve_arg_seed: the path's argument, when it was decoded. Paths into a
\* value find nothing, because the decoder knows no structs.
resolve_arg_seed(path, decoded) ==
  UNION {encode_arg_seed(a.value, a.ty) :
           a \in {decoded[k] : k \in {j \in 1..Len(decoded) : decoded[j].name = path}}}
=============================================================================
