--------------------------- MODULE MCInterpreter ---------------------------
(* Constants for the model checking of Interpreter.                        *)
EXTENDS Interpreter

Fn(param, result) == [param |-> param, result |-> result]
None   == <<>>
NoJump == {}

\* Control flow: blocks of three types, no locals, no imports.
ControlTypes  == {Fn(<<>>, <<>>), Fn(<<>>, <<"I32">>), Fn(<<"I32">>, <<"I32">>)}
ControlPlain  == {ConstSig.I32_CONST}
ControlTables == {<<0, 1>>, <<1, 0>>}
ControlFunc   == Fn(<<>>, <<"I32">>)

\* Nesting: deeper bodies over one block type.
NestingTypes == {Fn(<<>>, <<>>)}
NestingFunc  == Fn(<<>>, <<>>)

\* A block that leaves a result and takes nothing.
ResultTypes  == {Fn(<<>>, <<"I32">>)}

\* Operands: wide and narrow values, locals, globals, calls of every kind.
OperandTypes == {Fn(<<"I64">>, <<"I32">>)}
OperandPlain == {ConstSig.I32_CONST, ArithmeticSig.I32_ADD, ConvertSig.I64_EXTEND_I32}
OperandFunc  == Fn(<<"I64">>, <<"I32">>)
Imported     == <<Fn(<<"I32">>, <<"I64">>)>>
TypeSection  == <<Fn(<<"I64">>, <<"I32">>), Fn(<<"I32">>, <<"I64">>), Fn(<<>>, <<>>)>>
TwoLocals    == <<"I64", "I32">>
TwoGlobals   == <<[type |-> "I64", mutable |-> TRUE], [type |-> "I32", mutable |-> FALSE]>>

=============================================================================
