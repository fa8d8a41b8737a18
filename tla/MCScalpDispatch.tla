--------------------------- MODULE MCScalpDispatch ---------------------------
(* Small instances of ScalpDispatch: an entry and an exit of one symbol, one *)
(* worker or two.  Services has an instance with entries of two symbols.     *)
EXTENDS ScalpDispatch, TLC

CONSTANTS e1, e2, b1, s1

MCEngine == {e1, e2}
MCOneEngine == {e1}

\* An entry and an exit of one symbol.
MCPairOrder == {b1, s1}
MCPairEntry == {b1}
MCPairSymbolOf == (b1 :> "X") @@ (s1 :> "X")

EngineSymmetry == Permutations(MCEngine)
=============================================================================
