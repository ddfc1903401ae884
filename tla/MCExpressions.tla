--------------------------- MODULE MCExpressions ---------------------------
(***************************************************************************)
(* Words of two bytes of one bit: every size has a smaller and a greater   *)
(* neighbour.                                                              *)
(***************************************************************************)
EXTENDS Expressions

\* BIN_OP_MAP but "+" and "*", which nothing treats otherwise than "-", and "|", than "&".
AllOps == {"-", "/", "%", "**", "&", "^", "<<", ">>"}
RootOps == {"/", "**"}
Int2 == IntN(2, TRUE)
NaginiOps == (AllOps \ {"/"}) \cup {"//"}
DecOps == {"-", "/"}

RawNumbers == 0 .. 3
Types ==
  {IntN(1, FALSE), IntN(2, TRUE), Uint256, Plain("DECIMAL"), Bytes(2), String(2), BytesM(1),
   List(2, IntN(1, FALSE), FALSE), List(1, Uint256, FALSE), List(2, Uint256, FALSE), List(2, Uint256, TRUE),
   Plain("BOOL"), List(1, Plain("BOOL"), FALSE), List(2, List(1, Plain("BOOL"), FALSE), TRUE)}

Words == {Uint256}

=============================================================================
