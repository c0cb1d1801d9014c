------------------------- MODULE AcmFeedbackProofs -------------------------
(***************************************************************************)
(* Proofs about AcmFeedback for all kinds of estimator, all MODCODs and    *)
(* all bounds: the type invariant, that the C++ estimator and, but for     *)
(* failures, the Python one report in time, that the decoder keeps up with *)
(* calls of at most a codeword, and that it follows the newest LLR.        *)
(***************************************************************************)
EXTENDS AcmFeedback, SequenceTheorems, WellFoundedInduction, TLAPS

\* The numbers among the parameters.
LEMMA Numbers ==
    /\ ReportPeriod \in Nat /\ ReportPeriod > 0 /\ MaxSnrBox \in Nat /\ MaxSnrBox > 0
    /\ Nldpc \in Nat /\ Nldpc > 0 /\ MaxCall \in Nat /\ MaxBacklog \in Nat
    /\ MaxBerBox \in Nat /\ Period \in Nat
  BY EstimatorAssumption, DecoderAssumption, PeriodAssumption

-----------------------------------------------------------------------------
\* The units of a call.
LEMMA Calls ==
    ASSUME NEW units \in BoundedSeq(Unit, MaxCall), units # <<>>
    PROVE  /\ units \in Seq(Unit)
           /\ Len(units) \in Nat /\ Len(units) > 0
           /\ Last(units) = units[Len(units)]
           /\ Last(units).mc \in Modcods
  <1>1. PICK m \in 0 .. MaxCall : units \in [1 .. m -> Unit]
    BY Numbers DEF BoundedSeq, SeqOf
  <1>2. units \in Seq(Unit) /\ Len(units) = m
    BY <1>1, Numbers
  <1>3. m > 0
    BY <1>1, <1>2
  <1> QED BY <1>1, <1>2, <1>3 DEF Last, Unit

\* A set of naturals has a least element (from the well-foundedness of <).
LEMMA Least ==
    ASSUME NEW T, T \subseteq Nat, T # {}
    PROVE  \E x \in T : \A y \in T : x =< y
  <1> DEFINE R == OpToRel(<, Nat)
  <1>1. \E x \in T : \A y \in T : <<y, x>> \notin R
    <2>1. IsWellFoundedOn(R, Nat)
      BY NatLessThanWellFounded
    <2> HIDE DEF R
    <2> QED BY <2>1, WFMin
  <1>2. \A x, y \in Nat : <<y, x>> \notin R => x =< y
    BY DEF OpToRel
  <1> QED BY <1>1, <1>2

\* The decoder that has followed the units so far follows those of a call: without a
\* tag they all have the MODCOD of the one before them.
LEMMA FollowsCall ==
    ASSUME NEW units \in BoundedSeq(Unit, MaxCall), units # <<>>, modcod = newest
    PROVE  Followed(units) = Last(units).mc
  <1> DEFINE before(i) == IF i = 1 THEN newest ELSE units[i - 1].mc
             Other     == {i \in 1 .. Len(units) : units[i].mc # newest}
  <1>1. CASE \E i \in DOMAIN units : units[i].mc # before(i)
    BY <1>1 DEF Followed
  <1>2. CASE \A i \in DOMAIN units : units[i].mc = before(i)
    <2>1. DOMAIN units = 1 .. Len(units) /\ Len(units) \in Nat /\ Len(units) > 0
      BY Calls
    <2>2. Other = {}
      <3>1. SUFFICES ASSUME Other # {} PROVE FALSE
        OBVIOUS
      <3>2. PICK i \in Other : \A j \in Other : i =< j
        <4>1. Other \subseteq Nat
          BY <2>1
        <4> HIDE DEF Other
        <4> QED BY <3>1, <4>1, Least
      <3>3. i \in 1 .. Len(units) /\ units[i].mc # newest /\ units[i].mc = before(i)
        BY <1>2, <2>1, <3>2
      <3>4. i # 1 /\ i - 1 \in 1 .. Len(units)
        BY <2>1, <3>3
      <3>5. i - 1 \in Other
        BY <3>3, <3>4
      <3> QED BY <2>1, <3>2, <3>4, <3>5
    <2>3. Last(units).mc = newest
      BY <2>1, <2>2, Calls
    <2> QED BY <1>2, <2>3 DEF Followed
  <1> QED BY <1>1, <1>2

-----------------------------------------------------------------------------
\* What Decode does to the buffer and to the reports.
LEMMA DecodeTypes ==
    ASSUME TypeOK, Decode
    PROVE  /\ modcod' \in Modcods /\ newest' \in Modcods
           /\ err' \in BOOLEAN /\ crowded' \in BOOLEAN
           /\ buf' \in Seq(Unit) /\ Len(buf') =< MaxBacklog + Nldpc
           /\ berBox' \in Seq([mc : Modcods, fer : BOOLEAN]) /\ Len(berBox') =< MaxBerBox
  <1>1. PICK units \in BoundedSeq(Unit, MaxCall) :
            /\ units # <<>> /\ Len(buf \o units) =< MaxBacklog + Nldpc
            /\ Collect(units) \/ CutOne(units)
            /\ newest' = Last(units).mc
            /\ crowded' = (crowded \/ Len(units) > Nldpc)
    BY DEF Decode
  <1> DEFINE llrs == buf \o units
  <1>2. /\ units \in Seq(Unit) /\ Last(units).mc \in Modcods
        /\ llrs \in Seq(Unit) /\ Len(llrs) \in Nat
    BY <1>1, Calls DEF TypeOK
  <1>3. Followed(units) \in Modcods
    BY <1>2 DEF Followed, TypeOK
  <1>4. crowded' \in BOOLEAN
    BY <1>1
  <1>5. CASE Collect(units)
    BY <1>1, <1>2, <1>3, <1>4, <1>5 DEF Collect, TypeOK
  <1>6. CASE CutOne(units)
    <2>1. Len(llrs) >= Nldpc /\ Nldpc \in Nat
      BY <1>6, Numbers DEF CutOne, Complete
    <2>2. buf' = SubSeq(llrs, Nldpc + 1, Len(llrs))
      BY <1>6 DEF CutOne
    <2>3. buf' \in Seq(Unit) /\ Len(buf') = Len(llrs) - Nldpc
      <3> HIDE DEF llrs
      <3> QED BY <1>2, <2>1, <2>2, SubSeqProperties
    <2>4. Len(buf') =< MaxBacklog + Nldpc
      BY <1>1, <1>2, <2>1, <2>3, Numbers
    <2>5. err' \in BOOLEAN
      BY <1>6 DEF CutOne
    <2>6. berBox' = Append(berBox, [mc |-> Followed(units), fer |-> err'])
      BY <1>6 DEF CutOne
    <2>7. Len(berBox) < MaxBerBox /\ Len(berBox) \in Nat
      BY DEF Decode, TypeOK
    <2>8. berBox' \in Seq([mc : Modcods, fer : BOOLEAN]) /\ Len(berBox') =< MaxBerBox
      <3>1. berBox \in Seq([mc : Modcods, fer : BOOLEAN])
        BY DEF TypeOK
      <3>2. [mc |-> Followed(units), fer |-> err'] \in [mc : Modcods, fer : BOOLEAN]
        BY <1>3, <2>5
      <3>3. /\ berBox' \in Seq([mc : Modcods, fer : BOOLEAN])
            /\ Len(berBox') = Len(berBox) + 1
        BY <2>6, <3>1, <3>2, AppendProperties
      <3> QED BY <2>7, <3>3, Numbers
    <2> QED BY <1>1, <1>2, <1>3, <1>4, <1>6, <2>3, <2>4, <2>5, <2>8 DEF CutOne
  <1> QED BY <1>1, <1>5, <1>6

\* What an estimation does.
LEMMA EstimateTypes ==
    ASSUME TypeOK, Estimate
    PROVE  /\ block' \in Estimators /\ count' \in 0 .. ReportPeriod - 1
           /\ unsent' \in 0 .. ReportPeriod /\ failed' \in BOOLEAN /\ snrBox' \in 0 .. MaxSnrBox
  <1>1. PICK n \in Sizes, q \in Qualities : PyEstimate(n, q) \/ CppEstimate(n, q)
    BY DEF Estimate
  <1>2. snrBox < MaxSnrBox
    BY DEF Estimate
  <1>3. count' \in 0 .. ReportPeriod - 1 /\ block' \in Estimators
    <2>1. CASE PyEstimate(n, q)
      <3>1. count \in 0 .. ReportPeriod - 1 /\ ReportPeriod \in Nat \ {0}
        BY Numbers DEF TypeOK
      <3>2. (count + 1) % ReportPeriod \in 0 .. ReportPeriod - 1
        BY <3>1
      <3> QED BY <2>1, <3>2 DEF PyEstimate, TypeOK
    <2>2. CASE CppEstimate(n, q)
      <3>1. count \in 0 .. ReportPeriod - 1 /\ ReportPeriod \in Nat \ {0}
        BY Numbers DEF TypeOK
      <3>2. count' = 0 \/ (count' = count + 1 /\ ~(count + 1 >= ReportPeriod))
        BY <2>2 DEF CppEstimate, CppReportDue
      <3>3. block' = block
        BY <2>2 DEF CppEstimate
      <3> QED BY <3>1, <3>2, <3>3 DEF TypeOK
    <2> QED BY <1>1, <2>1, <2>2
  <1>4. Published \/ Unpublished(TRUE) \/ Unpublished(FALSE)
    <2>1. PyMeasures(q) \in BOOLEAN
      BY DEF PyMeasures, TypeOK
    <2>2. CASE PyEstimate(n, q)
      <3>1. CASE PyMeasures(q) /\ count' = 0
        BY <2>2, <3>1 DEF PyEstimate
      <3>2. CASE PyMeasures(q) /\ count' # 0
        <4>1. Unpublished(PyMeasures(q)) /\ PyMeasures(q) = TRUE
          BY <2>1, <2>2, <3>2 DEF PyEstimate
        <4> QED BY <4>1
      <3>3. CASE ~PyMeasures(q)
        <4>1. Unpublished(PyMeasures(q)) /\ PyMeasures(q) = FALSE
          BY <2>1, <2>2, <3>3 DEF PyEstimate
        <4> QED BY <4>1
      <3> QED BY <3>1, <3>2, <3>3
    <2>3. CASE CppEstimate(n, q)
      BY <2>3 DEF CppEstimate
    <2> QED BY <1>1, <2>2, <2>3
  <1>5. /\ unsent \in 0 .. ReportPeriod /\ failed \in BOOLEAN
        /\ snrBox \in 0 .. MaxSnrBox /\ ReportPeriod \in Nat /\ MaxSnrBox \in Nat
    BY Numbers DEF TypeOK
  <1>6. CASE Published
    <2>1. snrBox' = snrBox + 1 /\ unsent' = 0 /\ failed' = FALSE
      BY <1>6 DEF Published
    <2>2. snrBox' \in 0 .. MaxSnrBox /\ unsent' \in 0 .. ReportPeriod
      BY <1>2, <1>5, <2>1
    <2> QED BY <1>3, <2>1, <2>2
  <1>7. ASSUME NEW measured \in BOOLEAN, Unpublished(measured)
        PROVE  unsent' \in 0 .. ReportPeriod /\ failed' \in BOOLEAN /\ snrBox' \in 0 .. MaxSnrBox
    <2>1. unsent' = IF measured /\ unsent < ReportPeriod THEN unsent + 1 ELSE unsent
      BY <1>7 DEF Unpublished
    <2>2. failed' \in BOOLEAN /\ snrBox' = snrBox
      BY <1>7 DEF Unpublished
    <2> QED BY <1>5, <2>1, <2>2
  <1>8. unsent' \in 0 .. ReportPeriod /\ failed' \in BOOLEAN /\ snrBox' \in 0 .. MaxSnrBox
    <2>1. CASE Unpublished(TRUE)
      BY <1>7, <2>1
    <2>2. CASE Unpublished(FALSE)
      BY <1>7, <2>2
    <2> QED BY <1>4, <1>6, <2>1, <2>2
  <1> QED BY <1>3, <1>8

\* A report is made of what has just been filtered.
LEMMA ReportTypes ==
    ASSUME TypeOK, MaybeReport, fer' \in BOOLEAN, reportMc' \in Modcods
    PROVE  elapsed' \in 0 .. Period /\ report' \in [fer : BOOLEAN, mc : Modcods]
  BY Numbers DEF MaybeReport, TypeOK

\* The type invariant holds in every state, for all parameters.
THEOREM TypeCorrect == Spec => []TypeOK
  <1>1. Init => TypeOK
    <2> SUFFICES ASSUME Init PROVE TypeOK
      OBVIOUS
    <2>1. << >> \in Seq(Unit) /\ << >> \in Seq([mc : Modcods, fer : BOOLEAN]) /\ Len(<< >>) = 0
      OBVIOUS
    <2>2. /\ ReportPeriod \in Nat \ {0} /\ Period \in Nat /\ MaxSnrBox \in Nat
          /\ MaxBacklog \in Nat /\ Nldpc \in Nat /\ MaxBerBox \in Nat
      BY Numbers
    <2>3. block \in Estimators /\ count = 0 /\ unsent = 0 /\ failed = FALSE /\ snrBox = 0
      BY DEF Init, EstInit
    <2>4. /\ modcod = FirstModcod /\ newest = FirstModcod /\ err = FALSE /\ crowded = FALSE
          /\ buf = << >> /\ berBox = << >>
      BY DEF Init, DecInit
    <2>5. /\ elapsed = 0 /\ fer = FALSE /\ reportMc = FirstModcod
          /\ report = [fer |-> FALSE, mc |-> FirstModcod]
      BY DEF Init
    <2>6. FirstModcod \in Modcods
      BY DecoderAssumption
    <2>7. count \in 0 .. ReportPeriod - 1 /\ unsent \in 0 .. ReportPeriod /\ snrBox \in 0 .. MaxSnrBox
      BY <2>2, <2>3
    <2>8. buf \in Seq(Unit) /\ Len(buf) =< MaxBacklog + Nldpc
      BY <2>1, <2>2, <2>4
    <2>9. berBox \in Seq([mc : Modcods, fer : BOOLEAN]) /\ Len(berBox) =< MaxBerBox
      BY <2>1, <2>2, <2>4
    <2>10. elapsed \in 0 .. Period /\ report \in [fer : BOOLEAN, mc : Modcods]
      BY <2>2, <2>5, <2>6
    <2>11. /\ {err, crowded} \subseteq BOOLEAN /\ failed \in BOOLEAN /\ fer \in BOOLEAN
           /\ modcod \in Modcods /\ newest \in Modcods /\ reportMc \in Modcods
      BY <2>3, <2>4, <2>5, <2>6
    <2> QED BY <2>3, <2>7, <2>8, <2>9, <2>10, <2>11 DEF TypeOK
  <1>2. TypeOK /\ [Next]_vars => TypeOK'
    <2> SUFFICES ASSUME TypeOK, [Next]_vars PROVE TypeOK'
      OBVIOUS
    <2>1. CASE Estimating
      <3>1. Estimate /\ UNCHANGED <<decVars, fbVars>>
        BY <2>1 DEF Estimating
      <3> QED BY <3>1, EstimateTypes DEF decVars, fbVars, TypeOK
    <2>2. CASE Decoding
      <3>1. Decode /\ UNCHANGED <<estVars, fbVars>>
        BY <2>2 DEF Decoding
      <3> QED BY <3>1, DecodeTypes DEF estVars, fbVars, TypeOK
    <2>3. CASE Tick
      BY <2>3, Numbers DEF Tick, estVars, decVars, TypeOK
    <2>4. CASE HandleSnr
      <3>1. fer' \in BOOLEAN /\ reportMc' \in Modcods
        BY <2>4 DEF HandleSnr, TypeOK
      <3>2. elapsed' \in 0 .. Period /\ report' \in [fer : BOOLEAN, mc : Modcods]
        BY <2>4, <3>1, ReportTypes DEF HandleSnr
      <3>3. snrBox' \in 0 .. MaxSnrBox
        BY <2>4, Numbers DEF HandleSnr, TypeOK
      <3> QED BY <2>4, <3>1, <3>2, <3>3 DEF HandleSnr, decVars, TypeOK
    <2>5. CASE HandleBer
      <3> DEFINE Ber == [mc : Modcods, fer : BOOLEAN]
      <3>1. berBox \in Seq(Ber) /\ berBox # << >>
        BY <2>5 DEF HandleBer, TypeOK
      <3>2. Head(berBox) \in Ber /\ Tail(berBox) \in Seq(Ber) /\ Len(Tail(berBox)) = Len(berBox) - 1
        <4> HIDE DEF Ber
        <4> QED BY <3>1, HeadTailProperties
      <3>3. fer' \in BOOLEAN /\ reportMc' \in Modcods
        BY <2>5, <3>2 DEF HandleBer
      <3>4. elapsed' \in 0 .. Period /\ report' \in [fer : BOOLEAN, mc : Modcods]
        BY <2>5, <3>3, ReportTypes DEF HandleBer
      <3>5. berBox' \in Seq(Ber) /\ Len(berBox') =< MaxBerBox
        <4>1. Len(berBox) \in Nat /\ Len(berBox) =< MaxBerBox /\ berBox' = Tail(berBox)
          BY <2>5 DEF HandleBer, TypeOK
        <4> QED BY <3>2, <4>1, Numbers
      <3> QED BY <2>5, <3>3, <3>4, <3>5 DEF HandleBer, estVars, TypeOK
    <2>6. CASE UNCHANGED vars
      BY <2>6 DEF vars, estVars, decVars, fbVars, TypeOK
    <2> QED BY <2>1, <2>2, <2>3, <2>4, <2>5, <2>6 DEF Next
  <1> QED BY <1>1, <1>2, PTL DEF Spec

-----------------------------------------------------------------------------
\* What ReportsInTime rests on: the counter and the measurements since the last
\* report only part when an estimation fails, which those of the C++ block do not.
Counted ==
    /\ failed \/ unsent = count
    /\ block.impl = "cpp" => ~failed

LEMMA EstimateCounts ==
    ASSUME TypeOK, Counted, Estimate
    PROVE  Counted'
  <1>1. PICK n \in Sizes, q \in Qualities : PyEstimate(n, q) \/ CppEstimate(n, q)
    BY DEF Estimate
  <1>2. count \in 0 .. ReportPeriod - 1 /\ unsent \in 0 .. ReportPeriod /\ ReportPeriod \in Nat \ {0}
    BY Numbers DEF TypeOK
  <1>3. CASE PyEstimate(n, q)
    <2>1. block' = block /\ block.impl = "py" /\ count' = (count + 1) % ReportPeriod
      BY <1>3 DEF PyEstimate
    <2>2. CASE PyMeasures(q) /\ count' = 0
      BY <1>3, <2>1, <2>2 DEF PyEstimate, Published, Counted
    <2>3. CASE PyMeasures(q) /\ count' # 0
      <3>1. Unpublished(PyMeasures(q))
        BY <1>3, <2>3 DEF PyEstimate
      <3>2. count' = count + 1
        BY <1>2, <2>1, <2>3
      <3>4. failed' = failed
        BY <2>3, <3>1 DEF Unpublished, TypeOK
      <3>5. unsent' = IF unsent < ReportPeriod THEN unsent + 1 ELSE unsent
        BY <2>3, <3>1 DEF Unpublished
      <3> QED BY <1>2, <2>1, <3>2, <3>4, <3>5 DEF Counted
    <2>4. CASE ~PyMeasures(q)
      <3>1. failed'
        BY <1>3, <2>4 DEF PyEstimate, Unpublished
      <3> QED BY <2>1, <3>1 DEF Counted
    <2> QED BY <2>2, <2>3, <2>4
  <1>4. CASE CppEstimate(n, q)
    <2>1. block' = block /\ block.impl = "cpp"
      BY <1>4 DEF CppEstimate
    <2>2. CASE CppReportDue
      BY <1>4, <2>1, <2>2 DEF CppEstimate, Published, Counted
    <2>3. CASE ~CppReportDue
      <3>1. count' = count + 1 /\ Unpublished(TRUE)
        BY <1>4, <2>3 DEF CppEstimate
      <3>2. ~failed /\ unsent = count
        BY <2>1 DEF Counted
      <3>3. failed' = FALSE
        BY <3>1, <3>2 DEF Unpublished
      <3>4. unsent' = unsent + 1
        BY <1>2, <3>1, <3>2 DEF Unpublished
      <3> QED BY <2>1, <3>1, <3>2, <3>3, <3>4 DEF Counted
    <2> QED BY <2>2, <2>3
  <1> QED BY <1>1, <1>3, <1>4

\* By the time a report period of measurements has been made one of them has been
\* published, but for failures of the Python block, for every report period.
THEOREM Reports == Spec => []ReportsInTime
  <1>1. Init => Counted
    BY DEF Init, EstInit, Counted
  <1>2. TypeOK /\ Counted /\ [Next]_vars => Counted'
    <2> SUFFICES ASSUME TypeOK, Counted, [Next]_vars PROVE Counted'
      OBVIOUS
    <2>1. CASE Estimating
      BY <2>1, EstimateCounts DEF Estimating
    <2>2. CASE UNCHANGED <<block, count, unsent, failed>>
      BY <2>2 DEF Counted
    <2> QED BY <2>1, <2>2
            DEF Next, Decoding, Tick, HandleSnr, HandleBer, vars, estVars
  <1>3. TypeOK /\ Counted => ReportsInTime
    <2> SUFFICES ASSUME TypeOK, Counted PROVE ReportsInTime
      OBVIOUS
    <2>1. CASE failed
      <3>1. block.impl # "cpp" /\ block \in Estimators
        BY <2>1 DEF Counted, TypeOK
      <3>2. block.impl \in {"py", "cpp"}
        BY <3>1, EstimatorAssumption
      <3> QED BY <2>1, <3>1, <3>2 DEF ReportsInTime
    <2>2. CASE ~failed
      <3>1. unsent = count /\ count \in 0 .. ReportPeriod - 1 /\ ReportPeriod \in Nat
        BY <2>2, Numbers DEF Counted, TypeOK
      <3> QED BY <3>1 DEF ReportsInTime
    <2> QED BY <2>1, <2>2
  <1> QED BY <1>1, <1>2, <1>3, TypeCorrect, PTL DEF Spec

\* As long as no call finds more than a codeword, less than one is left, for every
\* length of the codeword.
THEOREM Keeps == Spec => []KeepsUp
  <1>1. Init => KeepsUp
    <2>1. Init => Len(buf) = 0
      BY DEF Init, DecInit
    <2> QED BY <2>1, Numbers DEF KeepsUp
  <1>2. TypeOK /\ KeepsUp /\ [Next]_vars => KeepsUp'
    <2> SUFFICES ASSUME TypeOK, KeepsUp, [Next]_vars PROVE KeepsUp'
      OBVIOUS
    <2>1. CASE Decoding
      <3>1. PICK units \in BoundedSeq(Unit, MaxCall) :
                /\ units # <<>>
                /\ Collect(units) \/ CutOne(units)
                /\ crowded' = (crowded \/ Len(units) > Nldpc)
        BY <2>1 DEF Decoding, Decode
      <3> DEFINE llrs == buf \o units
      <3>2. /\ llrs \in Seq(Unit) /\ Len(llrs) = Len(buf) + Len(units)
            /\ Len(buf) \in Nat /\ Len(units) \in Nat /\ Nldpc \in Nat
        BY <3>1, Calls, Numbers DEF TypeOK
      <3>3. CASE Collect(units)
        <4>1. ~(Len(llrs) >= Nldpc) /\ buf' = llrs
          BY <3>3 DEF Collect, Complete
        <4>2. Len(buf') < Nldpc
          BY <3>2, <4>1
        <4> QED BY <4>2 DEF KeepsUp
      <3>4. CASE CutOne(units)
        <4>1. Len(llrs) >= Nldpc /\ buf' = SubSeq(llrs, Nldpc + 1, Len(llrs))
          BY <3>4 DEF CutOne, Complete
        <4>2. Len(buf') = Len(llrs) - Nldpc
          <5> HIDE DEF llrs
          <5> QED BY <3>2, <4>1, SubSeqProperties
        <4>3. ~crowded' => Len(buf) < Nldpc /\ ~(Len(units) > Nldpc)
          BY <3>1 DEF KeepsUp
        <4>4. ~crowded' => Len(buf') < Nldpc
          BY <3>2, <4>2, <4>3
        <4> QED BY <4>4 DEF KeepsUp
      <3> QED BY <3>1, <3>3, <3>4
    <2>2. CASE UNCHANGED <<buf, crowded>>
      BY <2>2 DEF KeepsUp
    <2> QED BY <2>1, <2>2
            DEF Next, Estimating, Tick, HandleSnr, HandleBer, vars, decVars
  <1> QED BY <1>1, <1>2, TypeCorrect, PTL DEF Spec

\* The decoder follows the newest LLR it holds, however long the calls are.
THEOREM Follows == Spec => []DecoderFollows
  <1>1. Init => DecoderFollows
    BY DEF Init, DecInit, DecoderFollows
  <1>2. DecoderFollows /\ [Next]_vars => DecoderFollows'
    <2> SUFFICES ASSUME DecoderFollows, [Next]_vars PROVE DecoderFollows'
      OBVIOUS
    <2>1. CASE Decoding
      <3>1. PICK units \in BoundedSeq(Unit, MaxCall) :
                /\ units # <<>>
                /\ Collect(units) \/ CutOne(units)
                /\ newest' = Last(units).mc
        BY <2>1 DEF Decoding, Decode
      <3>2. modcod' = Followed(units)
        BY <3>1 DEF Collect, CutOne
      <3> QED BY <3>1, <3>2, FollowsCall DEF DecoderFollows
    <2>2. CASE UNCHANGED <<modcod, newest>>
      BY <2>2 DEF DecoderFollows
    <2> QED BY <2>1, <2>2
            DEF Next, Estimating, Tick, HandleSnr, HandleBer, vars, decVars
  <1> QED BY <1>1, <1>2, PTL DEF Spec

=============================================================================
