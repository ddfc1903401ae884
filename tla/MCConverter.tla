---------------------------- MODULE MCConverter ----------------------------
(***************************************************************************)
(* Contracts with few types: integers, booleans, byte arrays of two        *)
(* lengths, dynamic arrays of lists of integers.                           *)
(***************************************************************************)
EXTENDS Converter

Uint == [name |-> "INT", key |-> "uint256", width |-> 0, elem |-> NoElem]
Bool == [name |-> "BOOL", key |-> "bool", width |-> 0, elem |-> NoElem]
Bytes(m) == [name |-> "BYTES", key |-> "Bytes", width |-> m, elem |-> NoElem]

\* DynArray[uint256[2], 2]: its items can be appended to, and those of its lists read.
ListArray == [name |-> "DA_FL_INT", key |-> "array of uint256[2]", width |-> 2,
              elem |-> "uint256"]

Arrays == {ListArray}
NoArrays == {}

\* Functions with two outputs of the same type.
BytesOutputs == {<<Bytes(1), Bytes(1)>>}

\* For scopes, names and calls, where Uint stands for bool too.
ScopeTypes == {Uint, ListArray, Bytes(1), Bytes(2)}
ByteArray == [m \in {2} |-> Bytes(m)]

\* For outputs that meet variables of another width, where Bool stands for integers too.
SizedTypes == {Bool, Bytes(1), Bytes(2)}
ByteArrays == [m \in 1 .. 2 |-> Bytes(m)]

=============================================================================
