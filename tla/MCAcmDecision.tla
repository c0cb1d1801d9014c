-------------------------- MODULE MCAcmDecision --------------------------
(***************************************************************************)
(* AcmDecision on the 28 rows of the repository, with the default margin   *)
(* and hysteresis of each rule, and an SNR that moves freely over the      *)
(* range of the table in steps of 0.4 dB, plus levels at both sides of the *)
(* places where thresholds are out of order and around one MODCOD at which *)
(* the engine and the Python block change places.                          *)
(***************************************************************************)
EXTENDS AcmDecision, Dvbs2Table

\* The C++ block: 1.0 and 0.3 dB; rule_based_modcod of the engine: 0.5 and 0.3 dB;
\* the Python block: 1.0 and 0.5 dB; the simulation: 1.0 dB, and 1.5 dB to move up.
MCMargin == [cpp |-> 100, engine |-> 50, python |-> 100, simulation |-> 100]

MCHysteresis == [cpp |-> 30, engine |-> 30, python |-> 50, simulation |-> 50]

\* With the default settings of the engine and the Python block the two fit.
ASSUME DefaultsFit == SettingsFit

MCLevels ==
    {-260 + 40 * i : i \in 0 .. 54}
        \union {69, 70, 99, 100, 169, 170}      \* around row 3
        \union {699, 700, 742, 749, 750}        \* around rows 10 to 12
        \union {1046, 1047, 1096, 1097}         \* around rows 16 to 18
        \union {1118, 1147, 1148, 1422, 1423}   \* around rows 16, 17 and 24

=============================================================================
