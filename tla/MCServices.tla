----------------------------- MODULE MCServices -----------------------------
(* The symbols of the books in the run of Services: their resets just fit the *)
(* queue.                                                                     *)
EXTENDS Services

TwoSymbols == <<"a", "b">>
=============================================================================
