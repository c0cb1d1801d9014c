----------------------------- MODULE MCTxChain -----------------------------
(***************************************************************************)
(* MODCODs a and b share a constellation, c has another.  As with the real *)
(* tables a BB frame is shorter than an information block, and an          *)
(* information block shorter than a codeword.                              *)
(***************************************************************************)
EXTENDS TxChain, TLC

MCModcods == {"a", "b", "c"}
MCBbFrame == "a" :> 2 @@ "b" :> 3 @@ "c" :> 3
MCKbch == "a" :> 3 @@ "b" :> 4 @@ "c" :> 5
MCBitsPerSymbol == "a" :> 2 @@ "b" :> 2 @@ "c" :> 3

=============================================================================
