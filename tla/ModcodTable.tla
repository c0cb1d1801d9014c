---------------------------- MODULE ModcodTable ----------------------------
(***************************************************************************)
(* The DVB-S2 MODCOD table and the four selection rules of the repository: *)
(* those of the C++ acm_controller, the Python acm_controller, the AI      *)
(* engine and the loopback simulation.                                     *)
(*                                                                         *)
(* SNRs, thresholds, margins and hystereses are integers in one unit       *)
(* (hundredths of a dB in the instance with the real table).  Every rule   *)
(* has a margin and a hysteresis of its own, which are its parameters:     *)
(* d_snr_margin and d_hysteresis of the C++ block, snr_margin_db and       *)
(* hysteresis_db of the Python one, the default arguments of the engine's  *)
(* function.  The table is a constant: what the theorems use of it is      *)
(* TableAssumption, which the 28 rows of the repository satisfy.  The      *)
(* thresholds are NOT assumed to grow with the identifier, because they do *)
(* not: 8PSK 3/5 (id 12) needs less SNR than QPSK 9/10 (id 11), and 16APSK *)
(* 2/3 (id 18) less than 8PSK 8/9 (id 16).                                 *)
(***************************************************************************)
EXTENDS Integers

CONSTANTS
    N,             \* number of MODCODs, 28 in the repository
    Threshold,     \* Threshold[m]: SNR at which m is quasi-error-free
    SpectralEff    \* SpectralEff[m]: spectral efficiency of m

ModcodIds == 1 .. N

ASSUME TableAssumption ==
    /\ N \in Nat \ {0}
    /\ Threshold \in [ModcodIds -> Int]
    /\ SpectralEff \in [ModcodIds -> Nat]
    /\ \A m, k \in ModcodIds : m < k => SpectralEff[m] < SpectralEff[k]
    /\ \A m \in ModcodIds : Threshold[1] =< Threshold[m]

-----------------------------------------------------------------------------
(***************************************************************************)
(* Lookups in the table.                                                   *)
(***************************************************************************)

\* The MODCODs that close the link at snr with some slack to spare.
Feasible(snr, slack) == {m \in ModcodIds : snr >= Threshold[m] + slack}

\* Slip: the rows are taken to be sorted by threshold.
MostEfficient_ByThreshold(S) == CHOOSE m \in S : \A k \in S : Threshold[k] =< Threshold[m]

\* The loops over the table keep the entry with the greatest efficiency.
MostEfficient(S) == CHOOSE m \in S : \A k \in S : SpectralEff[k] =< SpectralEff[m]

\* select_modcod_for_snr / snr_to_modcod: MODCOD 1 when nothing is feasible.
select_modcod_for_snr(snr, margin) ==
    IF Feasible(snr, margin) = {} THEN 1
    ELSE MostEfficient(Feasible(snr, margin))

-----------------------------------------------------------------------------
(***************************************************************************)
(* The C++ controller: emergency downgrade below the threshold of the      *)
(* current MODCOD, otherwise the best MODCOD above it that is clear by     *)
(* margin and hysteresis.                                                  *)
(***************************************************************************)

\* Slip: the margin subtracted from the threshold instead of added.
best_up_MarginSign(snr, current, margin, hysteresis) ==
    MostEfficient({current} \union
                  {m \in Feasible(snr, hysteresis - margin) : m > current})

\* Slip: the loop stops at the next row that is clear.
best_up_NextRow(snr, current, margin, hysteresis) ==
    MostEfficient({current} \union
                  {m \in Feasible(snr, margin + hysteresis) : m = current + 1})

best_up(snr, current, margin, hysteresis) ==
    MostEfficient({current} \union
                  {m \in Feasible(snr, margin + hysteresis) : m > current})

\* Slip: no emergency branch.
compute_modcod_UpOnly(snr, current, margin, hysteresis) == best_up(snr, current, margin, hysteresis)

compute_modcod_with_hysteresis(snr, current, margin, hysteresis) ==
    IF snr < Threshold[current] - hysteresis
    THEN select_modcod_for_snr(snr, margin)
    ELSE best_up(snr, current, margin, hysteresis)

(***************************************************************************)
(* The rule of the AI engine.  Its emergency loop keeps the LAST feasible  *)
(* row, not the most efficient one, and its upward loop looks at the rows  *)
(* below the current one too.                                              *)
(***************************************************************************)
last_feasible(snr, margin) ==
    IF Feasible(snr, margin) = {} THEN 1
    ELSE CHOOSE m \in Feasible(snr, margin) :
            \A k \in Feasible(snr, margin) : k =< m

\* Slip: the upward loop subtracts the margin instead of adding it.
rule_based_modcod_MarginSign(snr, current, margin, hysteresis) ==
    IF snr < Threshold[current] - hysteresis
    THEN last_feasible(snr, margin)
    ELSE MostEfficient({current} \union Feasible(snr, hysteresis - margin))

rule_based_modcod(snr, current, margin, hysteresis) ==
    IF snr < Threshold[current] - hysteresis
    THEN last_feasible(snr, margin)
    ELSE MostEfficient({current} \union Feasible(snr, margin + hysteresis))

(***************************************************************************)
(* The Python controller: one target MODCOD, taken when the hysteresis of  *)
(* its direction is cleared, and otherwise no change at all.               *)
(***************************************************************************)

\* Slip: the hysteresis of the downgrade added instead of subtracted.
select_modcod_NoDeadBand(snr, current, margin, hysteresis) ==
    LET desired   == select_modcod_for_snr(snr, margin)
        upgrade   == /\ desired > current
                     /\ snr >= Threshold[desired] + margin + hysteresis
        downgrade == /\ desired < current
                     /\ snr < Threshold[current] + margin + hysteresis
    IN  IF upgrade \/ downgrade THEN desired ELSE current

select_modcod(snr, current, margin, hysteresis) ==
    LET desired   == select_modcod_for_snr(snr, margin)
        upgrade   == /\ desired > current
                     /\ snr >= Threshold[desired] + margin + hysteresis
        downgrade == /\ desired < current
                     /\ snr < Threshold[current] + margin - hysteresis
    IN  IF upgrade \/ downgrade THEN desired ELSE current

(***************************************************************************)
(* The loopback simulation: the last row that is clear, by the margin up   *)
(* to the current MODCOD and by the hysteresis on top above it.  Its       *)
(* DOWNGRADE_MARGIN_DB, 1.0 dB, is margin here, and its HYSTERESIS_DB,     *)
(* 1.5 dB, is margin + hysteresis.                                         *)
(***************************************************************************)
clear_for_simulation(snr, current, margin, hysteresis) ==
    {m \in Feasible(snr, margin) :
        m > current => snr >= Threshold[m] + margin + hysteresis}

modcod_for_snr_rule(snr, current, margin, hysteresis) ==
    LET clear == clear_for_simulation(snr, current, margin, hysteresis) IN
    IF clear = {} THEN 1
    ELSE CHOOSE m \in clear : \A k \in clear : k =< m

-----------------------------------------------------------------------------
(***************************************************************************)
(* What a history variable keeps of the changes a rule makes: the          *)
(* direction of the last one and the SNR it was made at.                   *)
(***************************************************************************)
NoChange == [dir |-> "none", at |-> 0]

RecordChange(last, from, to, snr) ==
    CASE to > from -> [dir |-> "up", at |-> snr]
      [] to < from -> [dir |-> "down", at |-> snr]
      [] to = from -> last

=============================================================================
