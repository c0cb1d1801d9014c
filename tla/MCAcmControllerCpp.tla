------------------------- MODULE MCAcmControllerCpp -------------------------
(***************************************************************************)
(* A table of four MODCODs in which MODCOD 3 needs less SNR than MODCOD 2, *)
(* as 8PSK 3/5 needs less than QPSK 9/10, and two SNRs: below MODCOD 1 and *)
(* clear of MODCOD 4.  With a history of two that starts at MODCOD 1's own *)
(* threshold the average takes six values, on both sides of the thresholds *)
(* of 1, 3 and 4 and, at 6, exactly on one.                                *)
(***************************************************************************)
EXTENDS AcmControllerCpp

MCThreshold == <<0, 8, 6, 12>>
MCSpectralEff == <<1, 2, 3, 4>>

MCSnrLevels == {-4, 16}

=============================================================================
