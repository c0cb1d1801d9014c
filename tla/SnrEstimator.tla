---------------------------- MODULE SnrEstimator ----------------------------
(***************************************************************************)
(* The snr_estimator block, Python (python/dvbs2acm/snr_estimator_py.py)   *)
(* and C++ (lib/snr_estimator_impl.cc): which calls of work make a         *)
(* measurement and which of them publish one.  The two differ in the calls *)
(* they count: the C++ block the measurements, the Python block all calls, *)
(* of which only every ReportPeriod-th may publish.                        *)
(*                                                                         *)
(* The samples of a call are known by their number and by what the         *)
(* estimators make of them; decibels, averages and the Kalman filter are   *)
(* left out.                                                               *)
(***************************************************************************)
EXTENDS Integers

CONSTANTS
    Estimators,    \* the blocks considered: [impl, type, pilots]
    Sizes,         \* numbers of samples of a call
    ReportPeriod,  \* report_period
    MaxSnrBox      \* bound on the measurements that wait for acm_feedback

ASSUME EstimatorAssumption ==
    /\ Estimators \subseteq [impl : {"py", "cpp"}, type : {"hybrid", "pilot_mmse", "blind_m2m4"},
                             pilots : BOOLEAN]
    /\ Sizes \subseteq Nat
    /\ ReportPeriod \in Nat \ {0} /\ MaxSnrBox \in Nat \ {0}

\* Silence; noise without a carrier, for which the pilot estimate is below -30 dB;
\* anything else.
Qualities == {"silent", "low", "good"}

VARIABLES
    block,   \* the block in use
    count,   \* _frame_counter % report_period, d_frame_count
    unsent,  \* history variable: measurements since the last published one, up to
             \* ReportPeriod
    failed,  \* history variable: an estimation has failed since then
    snrBox   \* measurements in the queue of acm_feedback

estVars == <<block, count, unsent, failed, snrBox>>

EstInit ==
    /\ block \in Estimators
    /\ count = 0 /\ unsent = 0 /\ failed = FALSE /\ snrBox = 0

\* _estimate_pilot_mmse serves calls of 64 samples and more always, _estimate_m2m4
\* finds no power in silence.
PyMeasures(q) ==
    \/ block.type = "pilot_mmse" \/ (block.type = "hybrid" /\ block.pilots)
    \/ q # "silent"

\* Silence makes a pilot estimate of -20 dB, commented as invalid, which passes the
\* check for more than -30 dB; estimate_snr_m2m4 always counts.
CppMeasures(n, q) ==
    \/ /\ block.type \in {"hybrid", "pilot_mmse"} /\ block.pilots
       /\ n >= 36 /\ q # "low"
    \/ block.type \in {"hybrid", "blind_m2m4"} /\ n >= 128

Published ==
    /\ snrBox' = snrBox + 1
    /\ unsent' = 0 /\ failed' = FALSE

Unpublished(measured) ==
    /\ unsent' = IF measured /\ unsent < ReportPeriod THEN unsent + 1 ELSE unsent
    /\ failed' = (failed \/ ~measured)
    /\ UNCHANGED snrBox

\* work of the Python block.
PyEstimate(n, q) ==
    /\ block.impl = "py" /\ n >= 64
    /\ count' = (count + 1) % ReportPeriod
    /\ IF PyMeasures(q) /\ count' = 0 THEN Published ELSE Unpublished(PyMeasures(q))
    /\ UNCHANGED block

\* Slip: the measurement after the last of a period is the one published.
CppReportDue_Next == count + 1 > ReportPeriod

CppReportDue == count + 1 >= ReportPeriod

\* work of the C++ block.
CppEstimate(n, q) ==
    /\ block.impl = "cpp" /\ CppMeasures(n, q)
    /\ IF CppReportDue THEN count' = 0 /\ Published
                       ELSE count' = count + 1 /\ Unpublished(TRUE)
    /\ UNCHANGED block

Estimate ==
    /\ snrBox < MaxSnrBox
    /\ \E n \in Sizes, q \in Qualities : PyEstimate(n, q) \/ CppEstimate(n, q)

=============================================================================
