----------------------------- MODULE MCRxChain -----------------------------
(***************************************************************************)
(* Two constellations, with frames of 6 and 3 slots and a pilot block      *)
(* every two slots: as with the real table, the last slot of some MODCODs  *)
(* ends a pilot period.  Flipping the first bit of a header makes it one   *)
(* of the other MODCOD.                                                    *)
(***************************************************************************)
EXTENDS RxChain, TLC

MCModcods == {4, 20}
MCBitsPerSymbol == 4 :> 2 @@ 20 :> 4

\* No noise, as much as the vote stands, and one bit beyond it.
MCNoise == {NoNoise, [b \in PlsBits |-> 3], [NoNoise EXCEPT ![1] = 5]}

=============================================================================
