------------------------------ MODULE WasmTypes ------------------------------
(***************************************************************************)
(* Value types, the 4-byte cells they occupy on the operand stack, block   *)
(* types, and the operand signatures of the instructions that only pop and *)
(* push operands.  Everything here is a pure operator; Validator and       *)
(* Interpreter are built from it.                                          *)
(***************************************************************************)
EXTENDS Integers, Sequences, FiniteSets

(* The value types a type section may name (is_value_type).                *)
ValueType == {"I32", "I64", "F32", "F64"}

(* is_64bit_type: the types whose values fill two cells.                   *)
Wide == {"I64", "F64"}

(* What the validator reads where no operand was ever pushed.              *)
NoType == "none"

(* wasm_value_type_cell_num summed over a sequence (wasm_get_cell_num): a  *)
(* byte that is no value type counts for nothing.                          *)
CellNum(types) ==
  Cardinality({i \in DOMAIN types : types[i] \in ValueType})
    + Cardinality({i \in DOMAIN types : types[i] \in Wide})

(***************************************************************************)
(* A block or function type: a sequence of parameter and one of result     *)
(* types.  The one-byte block type of the binary format is the case of no  *)
(* parameter and at most one result.                                       *)
(***************************************************************************)
FuncTypeSet == [param : Seq(ValueType), result : Seq(ValueType)]

Sig(pop, push) == [pop |-> pop, push |-> push]

-----------------------------------------------------------------------------
(***************************************************************************)
(* Operand signatures, one per group of case labels of                     *)
(* wasm_validator_code whose body is the same POP_AND_PUSH, named after    *)
(* the group's first opcode.  pop is written bottom first.                 *)
(***************************************************************************)
Unary(t, r)  == Sig(<<t>>, <<r>>)
Binary(t, r) == Sig(<<t, t>>, <<r>>)

MemorySig ==
  [ I32_LOAD     |-> Unary("I32", "I32"),
    I64_LOAD     |-> Unary("I32", "I64"),
    F32_LOAD     |-> Unary("I32", "F32"),
    F64_LOAD     |-> Unary("I32", "F64"),
    I32_STORE    |-> Sig(<<"I32", "I32">>, <<>>),
    I64_STORE    |-> Sig(<<"I32", "I64">>, <<>>),
    F32_STORE    |-> Sig(<<"I32", "F32">>, <<>>),
    F64_STORE    |-> Sig(<<"I32", "F64">>, <<>>),
    MEMORY_SIZE  |-> Sig(<<>>, <<"I32">>),
    MEMORY_GROW  |-> Unary("I32", "I32"),
    MEMORY_COPY  |-> Sig(<<"I32", "I32", "I32">>, <<>>),
    MEMORY_FILL  |-> Sig(<<"I32", "I32", "I32">>, <<>>) ]

ConstSig ==
  [ I32_CONST |-> Sig(<<>>, <<"I32">>),
    I64_CONST |-> Sig(<<>>, <<"I64">>),
    F32_CONST |-> Sig(<<>>, <<"F32">>),
    F64_CONST |-> Sig(<<>>, <<"F64">>) ]

(* Tests and comparisons leave an I32 whatever they compare.               *)
CompareSig ==
  [ I32_EQZ |-> Unary("I32", "I32"),  I32_EQ |-> Binary("I32", "I32"),
    I64_EQZ |-> Unary("I64", "I32"),  I64_EQ |-> Binary("I64", "I32"),
    F32_EQ  |-> Binary("F32", "I32"), F64_EQ |-> Binary("F64", "I32") ]

(* Arithmetic stays in its type; EXTEND8_S and its like are unary too.     *)
ArithmeticSig ==
  [ I32_CLZ |-> Unary("I32", "I32"), I32_ADD |-> Binary("I32", "I32"),
    I64_CLZ |-> Unary("I64", "I64"), I64_ADD |-> Binary("I64", "I64"),
    F32_ABS |-> Unary("F32", "F32"), F32_ADD |-> Binary("F32", "F32"),
    F64_ABS |-> Unary("F64", "F64"), F64_ADD |-> Binary("F64", "F64") ]

(* Conversions, reinterpretations and the saturating truncations.          *)
ConvertSig ==
  [ I32_WRAP_I64     |-> Unary("I64", "I32"), I32_TRUNC_F32    |-> Unary("F32", "I32"),
    I32_TRUNC_F64    |-> Unary("F64", "I32"), I64_EXTEND_I32   |-> Unary("I32", "I64"),
    I64_TRUNC_F32    |-> Unary("F32", "I64"), I64_TRUNC_F64    |-> Unary("F64", "I64"),
    F32_CONVERT_I32  |-> Unary("I32", "F32"), F32_CONVERT_I64  |-> Unary("I64", "F32"),
    F32_DEMOTE_F64   |-> Unary("F64", "F32"), F64_CONVERT_I32  |-> Unary("I32", "F64"),
    F64_CONVERT_I64  |-> Unary("I64", "F64"), F64_PROMOTE_F32  |-> Unary("F32", "F64") ]

=============================================================================
