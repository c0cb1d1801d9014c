---------------------------- MODULE AcmFeedback ----------------------------
(***************************************************************************)
(* The reports of the receiver to the controller: the acm_feedback block   *)
(* (python/dvbs2acm/acm_feedback_py.py) with the two blocks that feed it.  *)
(* Its thread handles the messages of the two ports, each in order, the    *)
(* ports in any order; a report goes out when a message is handled and the *)
(* last report is a period old.  Time is counted in ticks.                 *)
(***************************************************************************)
EXTENDS SnrEstimator, FecDecoder

CONSTANT Period  \* report_period_ms

ASSUME PeriodAssumption == Period \in Nat

VARIABLES
    elapsed,   \* time since _last_report, up to Period
    fer,       \* _fer > 0
    reportMc,  \* _modcod_id
    report     \* the last report: whether its fer is above 0 [fer], its modcod_id [mc]

fbVars == <<elapsed, fer, reportMc, report>>
vars == <<estVars, decVars, fbVars>>

Init ==
    /\ EstInit /\ DecInit
    /\ elapsed = 0 /\ fer = FALSE /\ reportMc = FirstModcod
    /\ report = [fer |-> FALSE, mc |-> FirstModcod]

Tick ==
    /\ elapsed < Period
    /\ elapsed' = elapsed + 1
    /\ UNCHANGED <<estVars, decVars, fer, reportMc, report>>

\* Slip: the time is taken before the report is known to be due.
MaybeReport_Restart ==
    /\ elapsed' = 0
    /\ report' = IF elapsed < Period THEN report ELSE [fer |-> fer', mc |-> reportMc']

\* _maybe_report, after the filters have been updated.
MaybeReport ==
    IF elapsed < Period
    THEN UNCHANGED <<elapsed, report>>
    ELSE elapsed' = 0 /\ report' = [fer |-> fer', mc |-> reportMc']

HandleSnr ==
    /\ snrBox > 0
    /\ snrBox' = snrBox - 1
    /\ UNCHANGED <<fer, reportMc>>
    /\ MaybeReport
    /\ UNCHANGED <<block, count, unsent, failed, decVars>>

HandleBer ==
    /\ berBox # <<>>
    /\ berBox' = Tail(berBox)
    /\ fer' = (fer \/ Head(berBox).fer)
    /\ reportMc' = Head(berBox).mc
    /\ MaybeReport
    /\ UNCHANGED <<estVars, modcod, buf, err, newest, crowded>>

Estimating == Estimate /\ UNCHANGED <<decVars, fbVars>>
Decoding == Decode /\ UNCHANGED <<estVars, fbVars>>

Next == Estimating \/ Decoding \/ Tick \/ HandleSnr \/ HandleBer

Spec == Init /\ [][Next]_vars

\* The link goes on, the scheduler goes on calling the decoder and the handlers, and
\* time passes.  Nothing is assumed of the estimator.
FairSpec ==
    /\ Spec
    /\ WF_vars(Decoding) /\ WF_vars(HandleBer) /\ WF_vars(Tick)

-----------------------------------------------------------------------------
\* Type invariant.
TypeOK ==
    /\ block \in Estimators /\ count \in 0 .. ReportPeriod - 1
    /\ unsent \in 0 .. ReportPeriod /\ failed \in BOOLEAN /\ snrBox \in 0 .. MaxSnrBox
    /\ modcod \in Modcods /\ newest \in Modcods /\ {err, crowded} \subseteq BOOLEAN
    /\ buf \in Seq(Unit) /\ Len(buf) =< MaxBacklog + Nldpc
    /\ berBox \in Seq([mc : Modcods, fer : BOOLEAN]) /\ Len(berBox) =< MaxBerBox
    /\ elapsed \in 0 .. Period /\ fer \in BOOLEAN /\ reportMc \in Modcods
    /\ report \in [fer : BOOLEAN, mc : Modcods]

\* By the time a report period of measurements has been made one of them has been
\* published; in the Python block an estimation that failed at the call whose turn it
\* was to publish takes the report with it.
ReportsInTime == unsent < ReportPeriod \/ (block.impl = "py" /\ failed)

\* As long as no call finds more than a codeword, one cut a call is enough: less than
\* a codeword is left.
KeepsUp == ~crowded => Len(buf) < Nldpc

\* The decoder follows the newest LLR it holds, however the calls divide the stream,
\* so a codeword that leaves nothing in the buffer is read with its own MODCOD.
DecoderFollows == modcod = newest

\* A codeword counted as lost is reported to the controller, whatever the messages
\* that come within the report period.
LossIsReported == err ~> report.fer

=============================================================================
