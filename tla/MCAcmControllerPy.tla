-------------------------- MODULE MCAcmControllerPy --------------------------
(***************************************************************************)
(* Three MODCODs, MODCOD 3 needing less SNR than MODCOD 2, and three SNRs: *)
(* below the table, inside the dead band of MODCOD 3 and above the table.  *)
(***************************************************************************)
EXTENDS AcmControllerPy

MCThreshold == <<0, 8, 6>>
MCSpectralEff == <<1, 2, 3>>

MCLevels == {-4, 7, 16}

\* A MODCOD of the table; 0, which Python takes for its last row; one beyond the table.
MCForceTargets == {2, 0, N + 1}

=============================================================================
