---------------------------- MODULE Dvbs2Table ----------------------------
(***************************************************************************)
(* The table of the repository, MODCOD_TABLE, in hundredths of a dB and    *)
(* thousandths of a bit per symbol.  Rows 1-11 are QPSK, 12-17 8PSK, 18-23 *)
(* 16APSK and 24-28 32APSK.                                                *)
(***************************************************************************)
EXTENDS Integers

Dvbs2Threshold ==
    <<-185, -74, 20, 150, 273, 360, 453, 518, 568, 670, 692,
      600, 712, 841, 985, 1119, 1148,
      947, 1071, 1153, 1211, 1339, 1363,
      1323, 1414, 1478, 1619, 1655>>

Dvbs2SpectralEff ==
    <<490, 656, 789, 988, 1188, 1322, 1487, 1587, 1655, 1766, 1789,
      2228, 2479, 2794, 3093, 3318, 3348,
      3522, 3973, 4220, 4397, 4701, 4748,
      4875, 5195, 5405, 5784, 5848>>

-----------------------------------------------------------------------------
(***************************************************************************)
(* The AI engine has a table of its own, which "matches modcod_config.h",  *)
(* and so does the loopback simulation, without the 0.5 dB between the     *)
(* SNR a MODCOD needs and its threshold.                                   *)
(***************************************************************************)
EngineTable == [
    threshold |->
        <<-185, -74, 20, 150, 273, 360, 453, 518, 568, 670, 692,
          600, 712, 841, 985, 1119, 1148,
          947, 1071, 1153, 1211, 1339, 1363,
          1323, 1414, 1478, 1619, 1655>>,
    spectralEff |->
        <<490, 656, 789, 988, 1188, 1322, 1487, 1587, 1655, 1766, 1789,
          2228, 2479, 2794, 3093, 3318, 3348,
          3522, 3973, 4220, 4397, 4701, 4748,
          4875, 5195, 5405, 5784, 5848>>]

SimulationThreshold ==
    <<-235, -124, -30, 100, 223, 310, 403, 468, 518, 620, 642,
      550, 662, 791, 935, 1069, 1098,
      1103, 1273, 1364, 1428, 1569, 1605,
      1605, 1704, 1773, 1957, 2014>>

\* The engine decides on the table of the C++ block, row by row.
ASSUME TablesAgree ==
    EngineTable = [threshold |-> Dvbs2Threshold, spectralEff |-> Dvbs2SpectralEff]

\* The simulation never takes a MODCOD to need less than the table says; from
\* 16APSK on its rows ask for 2 to 4 dB more.
ASSUME SimulationIsStricter ==
    \A m \in 1 .. 28 :
        LET more == SimulationThreshold[m] + 50 - Dvbs2Threshold[m] IN
        IF m =< 17 THEN more = 0 ELSE more \in 200 .. 410

=============================================================================
