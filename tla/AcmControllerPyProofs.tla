------------------------ MODULE AcmControllerPyProofs ------------------------
(***************************************************************************)
(* What the Python block guarantees for every table, set of SNRs and       *)
(* number of messages, calls and crashes of the engine.                    *)
(***************************************************************************)
EXTENDS AcmControllerPy, SequenceTheorems, TLAPS

\* The abstract controller with what is proved of it.
Abstract == INSTANCE AcmDecisionProofs WITH
                Rules <- {"python"}, rule <- "python", by <- "python",
                Margin <- [r \in {"python"} |-> Margin],
                Hysteresis <- [r \in {"python"} |-> Hysteresis],
                modcod <- Acting, snr <- handler.snr

\* The SNRs satisfy what the abstract controller assumes of its levels.
LEMMA AbstractAssumptions ==
    Abstract!TableAssumption /\ Abstract!MarginAssumption /\ Abstract!LevelsAssumption
BY TableAssumption, MarginAssumption, ControllerAssumption
   DEF Abstract!TableAssumption, Abstract!MarginAssumption, Abstract!LevelsAssumption,
       Abstract!ModcodIds, ModcodIds

\* Its lookup is the one of the block.
LEMMA AbstractLookup ==
    ASSUME NEW s, NEW x
    PROVE  Abstract!select_modcod_for_snr(s, x) = select_modcod_for_snr(s, x)
<1>1. Abstract!Feasible(s, x) = Feasible(s, x)
  BY DEF Abstract!Feasible, Feasible, Abstract!ModcodIds, ModcodIds
<1>2. ASSUME NEW S PROVE Abstract!MostEfficient(S) = MostEfficient(S)
  BY DEF Abstract!MostEfficient, MostEfficient
<1> QED BY <1>1, <1>2 DEF Abstract!select_modcod_for_snr, select_modcod_for_snr

\* Identifiers are integers, and so are the thresholds.
LEMMA IdsAreIntegers ==
    /\ ModcodIds \subseteq Int
    /\ 1 \in ModcodIds
    /\ \A m \in ModcodIds : Threshold[m] \in Int
BY TableAssumption DEF ModcodIds

Changes == [dir : {"none", "up", "down"}, at : Int]
Requests == [sock : 0 .. MaxMessages, id : 0 .. MaxMessages, held : Held]
Answers == [id : 0 .. MaxMessages, modcod : Held]

-----------------------------------------------------------------------------
(***************************************************************************)
(* Types.                                                                  *)
(***************************************************************************)
LEMMA ConstantTypes ==
    /\ UseAi \in BOOLEAN /\ InitialModcod \in ModcodIds
    /\ Levels \subseteq Int /\ ForceTargets \subseteq Held /\ ModcodIds \subseteq Held
    /\ Held \subseteq Int
    /\ MaxMessages \in Nat /\ MaxCalls \in Nat /\ MaxCrashes \in Nat
    /\ ModcodIds \subseteq Int /\ 1 \in ModcodIds
    /\ NoChange \in Changes /\ NoRequest \in Requests
BY ControllerAssumption, IdsAreIntegers DEF NoChange, NoRequest, Changes, Requests, Held

\* An index that Python accepts is that of a row.
LEMMA RowType == ASSUME NEW m, Indexed(m) PROVE Row(m) \in ModcodIds
BY TableAssumption DEF Indexed, Row, ModcodIds

\* The number of the message is one of the bounded ones.
LEMMA MessageType == TypeOK => Message \in 0 .. MaxMessages
BY ConstantTypes DEF TypeOK, Message

LEMMA DesiredType == TypeOK => Desired \in ModcodIds
<1>1. ASSUME NEW s \in Levels PROVE select_modcod_for_snr(s, Margin) \in ModcodIds
  <2>1. s \in Int /\ Margin \in Int
    BY ControllerAssumption, MarginAssumption
  <2>2. Abstract!ModcodIds = ModcodIds
    BY DEF Abstract!ModcodIds, ModcodIds
  <2>3. Abstract!select_modcod_for_snr(s, Margin) \in Abstract!ModcodIds
    BY <2>1, AbstractAssumptions, Abstract!SelectOutcome
  <2> QED BY <2>2, <2>3, AbstractLookup
<1>2. TypeOK => handler.snr \in Levels
  BY DEF TypeOK
<1> QED BY <1>1, <1>2 DEF Desired

LEMMA RecordedType ==
    ASSUME NEW l \in Changes, NEW from \in ModcodIds, NEW to \in ModcodIds, NEW s \in Levels
    PROVE  RecordChange(l, from, to, s) \in Changes
<1>1. from \in Int /\ to \in Int /\ s \in Int
  BY ConstantTypes
<1>2. CASE to > from
  BY <1>1, <1>2 DEF RecordChange, Changes
<1>3. CASE to < from
  BY <1>1, <1>3 DEF RecordChange, Changes
<1>4. CASE to = from
  BY <1>1, <1>4 DEF RecordChange, Changes
<1> QED BY <1>1, <1>2, <1>3, <1>4

LEMMA InitType == Init => TypeOK
<1> SUFFICES ASSUME Init PROVE TypeOK
  OBVIOUS
<1>1. MaxMessages \in 0 .. MaxMessages /\ MaxCalls \in 0 .. MaxCalls
      /\ MaxCrashes \in 0 .. MaxCrashes /\ 0 \in 0 .. MaxMessages
  BY ConstantTypes
<1>2. inbox \in Seq(Requests) /\ replies \in Seq(Answers)
  BY DEF Init
<1>3. engine \in [pc : {"down", "recv", "busy"}, req : Requests]
  BY ConstantTypes DEF Init
<1> QED BY <1>1, <1>2, <1>3, ConstantTypes
        DEF Init, TypeOK, Changes, Requests, Answers, Modes

\* What a sample does to the filter and the handler.
LEMMA AcceptType ==
    ASSUME TypeOK, NEW s \in Levels, NEW src \in {"iq", "leo"}, Accept(s, src)
    PROVE  /\ seeded' \in BOOLEAN /\ smoothed' \in Levels /\ raced' \in BOOLEAN
           /\ \E l \in Levels : handler' = [handler EXCEPT !.pc = "select", !.source = src,
                                                           !.snr = l]
<1>1. (IF seeded THEN Between(smoothed, s) ELSE {s}) \subseteq Levels
  BY DEF Between
<1> QED BY <1>1 DEF Accept

LEMMA NextType == TypeOK /\ [Next]_vars => TypeOK'
<1> SUFFICES ASSUME TypeOK, [Next]_vars PROVE TypeOK'
  OBVIOUS
<1>0. /\ messages > 0 => messages - 1 \in 0 .. MaxMessages
      /\ calls > 0 => calls - 1 \in 0 .. MaxCalls
      /\ crashes > 0 => crashes - 1 \in 0 .. MaxCrashes
      /\ Message \in 0 .. MaxMessages
  BY ConstantTypes, MessageType DEF TypeOK
<1> USE DEF TypeOK
<1>1. CASE UNCHANGED vars
  BY <1>1 DEF vars, link, bounds, ghosts
<1>2. ASSUME NEW s \in Levels, ReceiveFeedback(s) PROVE TypeOK'
  <2>1. CASE suppressed
    BY <1>0, <1>2, <2>1 DEF ReceiveFeedback, Delivered, link
  <2>2. CASE ~suppressed
    <3>1. Accept(s, "iq")
      BY <1>2, <2>2 DEF ReceiveFeedback
    <3> QED BY <1>0, <1>2, <3>1, AcceptType, ZenonT(40) DEF ReceiveFeedback, Delivered, link
  <2> QED BY <2>1, <2>2
<1>3. ASSUME NEW s \in Levels, ReceiveNumber(s) PROVE TypeOK'
  BY <1>0, <1>3, AcceptType, ZenonT(40) DEF ReceiveNumber, Delivered, link
<1>4. ASSUME NEW s \in Levels, NEW el \in Elevations, ReceiveChannelState(s, el) PROVE TypeOK'
  <2>1. CASE el = "below"
    BY <1>0, <1>4, <2>1 DEF ReceiveChannelState, Delivered, link
  <2>2. CASE el # "below"
    <3>1. Accept(s, "leo") /\ suppressed' \in BOOLEAN
      BY <1>4, <2>2 DEF ReceiveChannelState
    <3> QED BY <1>0, <1>4, <3>1, AcceptType DEF ReceiveChannelState, Delivered, link
  <2> QED BY <2>1, <2>2
<1>5. CASE HandlerStep
  <2> USE DEF Unmoved, bounds
  <2>1. CASE SelectCcm \/ RuleKeep
    <3>1. handler' = [handler EXCEPT !.pc = "compare", !.new = modcod] /\ modcod \in Held
      BY <2>1 DEF SelectCcm, RuleKeep, Selected
    <3>2. kind' \in {"ccm", "rule", "ai"}
      BY <2>1 DEF SelectCcm, RuleKeep, Selected
    <3> QED BY <2>1, <3>1, <3>2 DEF SelectCcm, RuleKeep, link
  <2>2. CASE SelectOther
    BY <2>2, ConstantTypes, ZenonT(40) DEF SelectOther, link, ghosts
  <2>3. CASE RuleThresh
    <3>1. CASE Indexed(modcod)
      <4>1. Row(modcod) \in ModcodIds
        BY <3>1, RowType
      <4> QED BY <2>3, <3>1, <4>1 DEF RuleThresh, link, ghosts
    <3>2. CASE ~Indexed(modcod)
      BY <2>3, <3>2 DEF RuleThresh, Raise, link, ghosts
    <3> QED BY <3>1, <3>2
  <2>4. CASE RuleUp
    <3>1. /\ handler' \in [pc : {"compare", "keep", "down"}, source : {"iq", "leo"},
                            snr : Levels, thresh : ModcodIds, new : Held]
          /\ kind' \in {"ccm", "rule", "ai"}
      BY <2>4, DesiredType, ConstantTypes DEF RuleUp, Selected
    <3> QED BY <2>4, <3>1 DEF RuleUp, link
  <2>5. CASE RuleDown
    <3>1. /\ handler' \in [pc : {"compare", "keep"}, source : {"iq", "leo"},
                            snr : Levels, thresh : ModcodIds, new : Held]
          /\ kind' \in {"ccm", "rule", "ai"}
      BY <2>5, DesiredType, ConstantTypes DEF RuleDown, Selected
    <3> QED BY <2>5, <3>1 DEF RuleDown, link
  <2>6. CASE Query
    <3>1. sock' \in 0 .. MaxMessages
      BY <1>0, <2>6 DEF Query
    <3>2. inbox' \in Seq(Requests)
      <4>1. [sock |-> sock', id |-> Message, held |-> modcod] \in Requests
        BY <1>0, <3>1 DEF Requests
      <4> QED BY <2>6, <4>1, AppendProperties DEF Query, Requests
    <3>3. handler' = [handler EXCEPT !.pc = "await"]
      BY <2>6 DEF Query
    <3> QED BY <2>6, <3>1, <3>2, <3>3 DEF Query, ghosts, Requests
  <2>7. CASE TakeReply
    <3>1. Head(replies) \in Answers /\ replies' \in Seq(Answers)
      BY <2>7, HeadTailProperties DEF TakeReply, Answers
    <3>2. Head(replies).modcod \in Held
      BY <3>1 DEF Answers
    <3> QED BY <2>7, <3>1, <3>2 DEF TakeReply, Selected, Answers
  <2>8. CASE TimeOut
    <3>1. sock' \in 0 .. MaxMessages /\ replies' \in Seq(Answers)
      BY <2>8, ConstantTypes DEF TimeOut
    <3> QED BY <2>8, <3>1 DEF TimeOut, ghosts, Answers
  <2>9. CASE Compare
    <3>1. /\ handler' \in [pc : {"stats", "commit", "idle", "dead"}, source : {"iq", "leo"},
                            snr : Levels, thresh : ModcodIds, new : Held]
          /\ handler'.pc \in {"stats", "commit"} => handler'.new \in ModcodIds
      BY <2>9 DEF Compare, Raise
    <3> QED BY <2>9, <3>1 DEF Compare, link, ghosts
  <2>10. CASE Commit
    <3>1. handler.pc = "commit" /\ handler.new \in ModcodIds
      BY <2>10 DEF Commit, InHandler
    <3>4. modcod \in ModcodIds =>
             RecordChange(last, modcod, handler.new, handler.snr) \in Changes
      BY <3>1, RecordedType DEF Changes
    <3>2. last' \in Changes
      BY <2>10, <3>4, ConstantTypes DEF Commit
    <3>3. late' \in Nat
      BY <2>10 DEF Commit
    <3> QED BY <2>10, <3>1, <3>2, <3>3, ConstantTypes DEF Commit, link, Changes
  <2>11. CASE Publish
    BY <2>11 DEF Publish, InHandler, link, ghosts
  <2>12. ASSUME NEW due \in BOOLEAN, Stats(due) PROVE TypeOK'
    BY <2>12, ZenonT(40) DEF Stats, InHandler, link, ghosts
  <2> HIDE DEF TypeOK
  <2> QED BY <1>5, <2>1, <2>2, <2>3, <2>4, <2>5, <2>6, <2>7, <2>8, <2>9, <2>10, <2>11, <2>12
          DEF HandlerStep
<1>6. ASSUME NEW m \in ForceTargets, ForceModcod(m) PROVE TypeOK'
  <2>1. m \in Held /\ NoChange \in Changes
    BY ConstantTypes
  <2> QED BY <1>0, <1>6, <2>1 DEF ForceModcod, link, Changes
<1>7. ASSUME NEW m \in Modes, SetMode(m) PROVE TypeOK'
  BY <1>0, <1>7 DEF SetMode, link
<1>8. CASE EngineStep
  <2> USE DEF Engineless, ghosts
  <2>1. CASE EngineReceive
    <3>1. Head(inbox) \in Requests /\ inbox' \in Seq(Requests)
      BY <2>1, HeadTailProperties DEF EngineReceive, Requests
    <3>2. engine' \in [pc : {"down", "recv", "busy"}, req : Requests]
      BY <2>1, <3>1 DEF EngineReceive
    <3> QED BY <2>1, <3>1, <3>2 DEF EngineReceive, Requests
  <2>2. ASSUME NEW m \in ModcodIds \union {engine.req.held}, EngineReply(m) PROVE TypeOK'
    <3>1. replies' \in Seq(Answers)
      <4>1. m \in Held /\ engine.req.id \in 0 .. MaxMessages
        BY ConstantTypes
      <4>2. [id |-> engine.req.id, modcod |-> m] \in Answers
        BY <4>1 DEF Answers
      <4> QED BY <2>2, <4>2, AppendProperties DEF EngineReply, Answers
    <3>2. engine' \in [pc : {"down", "recv", "busy"}, req : Requests]
      BY <2>2, ConstantTypes DEF EngineReply
    <3> QED BY <2>2, <3>1, <3>2 DEF EngineReply, Answers, Requests
  <2>3. CASE EngineCrash \/ EngineFail
    <3>1. PICK k \in 0 .. Len(inbox) : inbox' = SubSeq(inbox, k + 1, Len(inbox))
      BY <2>3 DEF EngineCrash, EngineFail, EngineGone
    <3>2. inbox' \in Seq(Requests)
      <4>1. inbox \in Seq(Requests)
        BY DEF Requests
      <4> HIDE DEF TypeOK
      <4>2. Len(inbox) \in Nat
        BY <4>1, LenProperties
      <4>3. k + 1 \in Int /\ Len(inbox) \in Int /\ k + 1 .. Len(inbox) \subseteq 1 .. Len(inbox)
        BY <4>2
      <4>4. \A i \in k + 1 .. Len(inbox) : inbox[i] \in Requests
        BY <4>1, <4>3, ElementOfSeq
      <4> QED BY <3>1, <4>3, <4>4, SubSeqProperties
    <3>3. engine' \in [pc : {"down", "recv", "busy"}, req : Requests]
      BY <2>3, ConstantTypes DEF EngineCrash, EngineFail, EngineGone
    <3>4. crashes' \in 0 .. MaxCrashes
      BY <1>0, <2>3 DEF EngineCrash, EngineFail
    <3>5. /\ UNCHANGED <<modcod, mode, prev, seeded, smoothed, suppressed, modcodOut, handler,
                          sock, messages, calls, replies>>
          /\ UNCHANGED ghosts
      BY <2>3 DEF EngineCrash, EngineFail, EngineGone
    <3> QED BY <3>2, <3>3, <3>4, <3>5 DEF Requests
  <2>4. CASE EngineStart
    <3>1. engine' \in [pc : {"down", "recv", "busy"}, req : Requests]
      BY <2>4, ConstantTypes DEF EngineStart
    <3> QED BY <2>4, <3>1 DEF EngineStart, Requests
  <2> HIDE DEF TypeOK
  <2> QED BY <1>8, <2>1, <2>2, <2>3, <2>4 DEF EngineStep
<1> HIDE DEF TypeOK
<1> QED BY <1>1, <1>2, <1>3, <1>4, <1>5, <1>6, <1>7, <1>8 DEF Next

\* Whatever integers the GUI forces, with whatever comes back from the engine for
\* them, the block stores, compares with and publishes MODCODs of the table only.
THEOREM TypeCorrect == Spec => []TypeOK
BY InitType, NextType, PTL DEF Spec

-----------------------------------------------------------------------------
(***************************************************************************)
(* What the block holds and what it published.  _prev_modcod links the two: *)
(* it is what was published last, except between the store and the         *)
(* publication, where it is the value to publish; and the block still      *)
(* holds it unless force_modcod came after the store.                      *)
(***************************************************************************)
Announced ==
    /\ handler.pc # "publish" => modcodOut = prev
    /\ handler.pc \in {"publish", "stats"} => handler.new = prev
    /\ ~touched => modcod = prev

LEMMA NextAnnounced == TypeOK /\ Announced /\ [Next]_vars => Announced'
<1> SUFFICES ASSUME TypeOK, Announced, [Next]_vars PROVE Announced'
  OBVIOUS
<1> USE DEF TypeOK, Announced
<1>1. CASE UNCHANGED vars
  BY <1>1 DEF vars, ghosts
<1>2. CASE \/ \E s \in Levels : ReceiveFeedback(s) \/ ReceiveNumber(s)
           \/ \E s \in Levels, el \in Elevations : ReceiveChannelState(s, el)
  BY <1>2, ZenonT(40) DEF ReceiveFeedback, ReceiveNumber, ReceiveChannelState, Accept, Delivered
<1>3. CASE SelectCcm \/ SelectOther \/ RuleKeep \/ Query \/ TakeReply \/ TimeOut
  BY <1>3 DEF SelectCcm, SelectOther, RuleKeep, Query, TakeReply, TimeOut, Selected,
              InHandler, Unmoved, ghosts
<1>4. CASE RuleThresh \/ RuleUp \/ RuleDown
  BY <1>4 DEF RuleThresh, RuleUp, RuleDown, Selected, Raise, InHandler, Unmoved, ghosts
<1>5. CASE Compare
  BY <1>5 DEF Compare, Raise, InHandler, Unmoved, ghosts
<1>6. CASE Commit \/ Publish \/ \E due \in BOOLEAN : Stats(due)
  BY <1>6 DEF Commit, Publish, Stats, InHandler, ghosts
<1>7. CASE \/ \E m \in ForceTargets : ForceModcod(m)
           \/ \E m \in Modes : SetMode(m)
  BY <1>7 DEF ForceModcod, SetMode
<1>8. CASE EngineStep
  BY <1>8 DEF EngineStep, EngineReceive, EngineReply, EngineFail, EngineCrash, EngineGone,
              EngineStart, Engineless, ghosts
<1> HIDE DEF TypeOK, Announced
<1> QED BY <1>1, <1>2, <1>3, <1>4, <1>5, <1>6, <1>7, <1>8 DEF Next, HandlerStep

\* The block holds what the transmitter was told last, until force_modcod is called.
THEOREM OnlyForcingDrifts == Spec => []DriftOnlyByForce
<1>1. Init => TypeOK /\ Announced
  <2>1. Init => Announced
    BY DEF Init, Announced
  <2> QED BY <2>1, InitType
<1>2. (TypeOK /\ Announced) /\ [Next]_vars => (TypeOK /\ Announced)'
  BY NextType, NextAnnounced
<1>3. TypeOK /\ Announced => DriftOnlyByForce
  BY DEF Announced, DriftOnlyByForce
<1> QED BY <1>1, <1>2, <1>3, PTL DEF Spec

-----------------------------------------------------------------------------
(***************************************************************************)
(* CCM.  At most one selection of the rule or the engine is on its way at  *)
(* a time, and once one has been stored in CCM none is: the next handler   *)
(* tests the mode first.                                                   *)
(***************************************************************************)
Pending ==
    \/ handler.pc \in {"thresh", "up", "down", "keep", "query", "await"}
    \/ handler.pc \in {"compare", "commit"} /\ kind # "ccm"

Stopping == mode = "CCM" => late \in {0, 1} /\ (Pending => late = 0)

LEMMA NextStopping == TypeOK /\ Stopping /\ [Next]_vars => Stopping'
<1> SUFFICES ASSUME TypeOK, Stopping, [Next]_vars PROVE Stopping'
  OBVIOUS
<1> USE DEF TypeOK, Stopping, Pending
<1>1. CASE UNCHANGED vars
  BY <1>1 DEF vars, ghosts
<1>2. CASE \/ \E s \in Levels : ReceiveFeedback(s) \/ ReceiveNumber(s)
           \/ \E s \in Levels, el \in Elevations : ReceiveChannelState(s, el)
  <2>1. /\ mode' = mode /\ late' = late /\ kind' = kind
        /\ handler.pc = "idle" /\ handler'.pc \in {"idle", "select"}
    BY <1>2 DEF ReceiveFeedback, ReceiveNumber, ReceiveChannelState, Accept, Delivered
  <2> QED BY <2>1
<1>3. CASE SelectCcm \/ SelectOther
  BY <1>3 DEF SelectCcm, SelectOther, Selected, InHandler, Unmoved, ghosts
<1>4. CASE RuleThresh \/ RuleKeep \/ Query \/ TakeReply \/ TimeOut
  BY <1>4 DEF RuleThresh, RuleKeep, Query, TakeReply, TimeOut, Selected, Raise, InHandler,
              Unmoved, ghosts
<1>5. CASE RuleUp \/ RuleDown
  BY <1>5 DEF RuleUp, RuleDown, Selected, InHandler, Unmoved, ghosts
<1>6. CASE Compare
  BY <1>6 DEF Compare, Raise, InHandler, Unmoved, ghosts
<1>7. CASE Commit
  <2>1. /\ handler.pc = "commit" /\ handler'.pc = "publish" /\ mode' = mode
        /\ late' = IF kind # "ccm" /\ mode = "CCM" THEN late + 1 ELSE late
    BY <1>7 DEF Commit, InHandler
  <2> QED BY <2>1
<1>8. CASE Publish \/ \E due \in BOOLEAN : Stats(due)
  BY <1>8 DEF Publish, Stats, InHandler, ghosts
<1>9. CASE \/ \E m \in ForceTargets : ForceModcod(m)
           \/ \E m \in Modes : SetMode(m)
  BY <1>9 DEF ForceModcod, SetMode
<1>10. CASE EngineStep
  BY <1>10 DEF EngineStep, EngineReceive, EngineReply, EngineFail, EngineCrash, EngineGone,
               EngineStart, Engineless, ghosts
<1> HIDE DEF TypeOK, Stopping, Pending
<1> QED BY <1>1, <1>2, <1>3, <1>4, <1>5, <1>6, <1>7, <1>8, <1>9, <1>10 DEF Next, HandlerStep

\* set_acm_mode(CCM) stops the adaptation after at most the one selection that
\* was under way, however the engine answers it.
THEOREM CcmStopsAdaptation == Spec => []CcmSticks
<1>1. Init => TypeOK /\ Stopping
  <2>1. Init => Stopping
    BY DEF Init, Stopping, Pending
  <2> QED BY <2>1, InitType
<1>2. (TypeOK /\ Stopping) /\ [Next]_vars => (TypeOK /\ Stopping)'
  BY NextType, NextStopping
<1>3. TypeOK /\ Stopping => CcmSticks
  BY DEF Stopping, CcmSticks
<1> QED BY <1>1, <1>2, <1>3, PTL DEF Spec

-----------------------------------------------------------------------------
(***************************************************************************)
(* The engine's answers.  A request carries the number of the message at   *)
(* which its socket was opened, so a socket opened now is none of those    *)
(* the requests still under way came from; and a handler that waits has    *)
(* exactly its own request under way on the open socket: in the queue, at  *)
(* the engine, or answered.                                                *)
(***************************************************************************)
\* The highest number a socket can have: the message being handled has not
\* opened one yet when it is about to.
Newest == IF handler.pc \in {"select", "query"} THEN Message - 1 ELSE Message

Numbered ==
    /\ sock =< Newest
    /\ \A i \in 1 .. Len(inbox) : inbox[i].sock >= 1 /\ inbox[i].sock =< Newest
    /\ engine.pc = "busy" => engine.req.sock >= 1 /\ engine.req.sock =< Newest

Queued(i) == inbox[i].sock = sock
AtEngine == engine.pc = "busy" /\ engine.req.sock = sock

NothingOpen ==
    /\ replies = <<>>
    /\ \A i \in 1 .. Len(inbox) : ~Queued(i)
    /\ ~AtEngine

OneOpen ==
    /\ \A i \in 1 .. Len(inbox) : Queued(i) =>
          /\ inbox[i].id = Message
          /\ replies = <<>> /\ ~AtEngine
          /\ \A j \in 1 .. Len(inbox) : Queued(j) => j = i
    /\ AtEngine => engine.req.id = Message /\ replies = <<>>
    /\ replies # <<>> => Len(replies) = 1 /\ Head(replies).id = Message

Outstanding ==
    /\ handler.pc # "await" => NothingOpen
    /\ handler.pc = "await" => OneOpen

LinkOK == Numbered /\ Outstanding

LEMMA LinkTypes ==
    TypeOK => /\ sock \in Nat /\ Message \in Nat /\ Newest \in Int
              /\ Len(inbox) \in Nat
              /\ \A i \in 1 .. Len(inbox) : inbox[i] \in Requests /\ inbox[i].sock \in Nat
              /\ engine.req \in Requests /\ engine.req.sock \in Nat
<1> SUFFICES ASSUME TypeOK
             PROVE  /\ sock \in Nat /\ Message \in Nat /\ Newest \in Int
                    /\ Len(inbox) \in Nat
                    /\ \A i \in 1 .. Len(inbox) : inbox[i] \in Requests /\ inbox[i].sock \in Nat
                    /\ engine.req \in Requests /\ engine.req.sock \in Nat
  OBVIOUS
<1>1. 0 .. MaxMessages \subseteq Nat
  BY ConstantTypes
<1>2. sock \in Nat
  BY <1>1 DEF TypeOK
<1>3. Message \in Nat
  BY <1>1, MessageType
<1>4. Newest \in Int
  BY <1>3 DEF Newest
<1>5. inbox \in Seq(Requests) /\ engine.req \in Requests
  BY DEF TypeOK, Requests
<1>6. Len(inbox) \in Nat /\ \A i \in 1 .. Len(inbox) : inbox[i] \in Requests
  BY <1>5, LenProperties, ElementOfSeq
<1>7. \A r \in Requests : r.sock \in Nat
  BY <1>1 DEF Requests
<1> QED BY <1>2, <1>3, <1>4, <1>5, <1>6, <1>7

\* A step that leaves the sockets, the queue and the engine alone, and whose
\* handler neither starts nor ends to wait.
LEMMA LinkUnmoved ==
    ASSUME TypeOK, TypeOK', LinkOK, UNCHANGED link, Newest =< Newest',
           \/ handler.pc # "await" /\ handler'.pc # "await"
           \/ handler.pc = "await" /\ handler'.pc = "await" /\ Message' = Message
    PROVE  LinkOK'
<1>0. UNCHANGED <<sock, inbox, replies, engine>>
  BY DEF link
<1>1. Numbered'
  <2>1. Newest \in Int
    BY LinkTypes
  <2>2. messages' \in 0 .. MaxMessages /\ MaxMessages \in Nat
    BY ConstantTypes DEF TypeOK
  <2>3. Newest' \in Int
    BY <2>2 DEF Newest, Message
  <2>4. \A x \in Nat : x =< Newest => x =< Newest'
    BY <2>1, <2>3
  <2> QED BY <1>0, <2>4, LinkTypes DEF LinkOK, Numbered
<1>2. Outstanding'
  <2>1. CASE handler.pc # "await"
    BY <1>0, <2>1 DEF LinkOK, Outstanding, NothingOpen, Queued, AtEngine
  <2>2. CASE handler.pc = "await"
    BY <1>0, <2>2 DEF LinkOK, Outstanding, OneOpen, Queued, AtEngine
  <2> QED BY <2>1, <2>2
<1> QED BY <1>1, <1>2 DEF LinkOK

LEMMA QueryLink == TypeOK /\ LinkOK /\ Query => LinkOK'
<1> SUFFICES ASSUME TypeOK, LinkOK, Query PROVE LinkOK'
  OBVIOUS
<1> DEFINE r == [sock |-> sock', id |-> Message, held |-> modcod]
<1>1. /\ handler.pc = "query" /\ handler'.pc = "await"
      /\ sock' = IF sock = 0 THEN Message ELSE sock
      /\ inbox' = Append(inbox, r) /\ replies' = replies /\ engine' = engine
      /\ messages' = messages
  BY DEF Query, InHandler, Unmoved, bounds, TypeOK
<1>2. Message' = Message /\ Newest = Message - 1 /\ Newest' = Message
  BY <1>1 DEF Newest, Message
<1>3. /\ sock \in Nat /\ Message \in Nat /\ sock =< Message - 1 /\ Len(inbox) \in Nat
      /\ \A i \in 1 .. Len(inbox) :
            inbox[i].sock \in Nat /\ inbox[i].sock >= 1 /\ inbox[i].sock =< Message - 1
      /\ engine.req.sock \in Nat
      /\ engine.pc = "busy" => engine.req.sock >= 1 /\ engine.req.sock =< Message - 1
  BY <1>2, LinkTypes DEF LinkOK, Numbered
<1>4. sock' \in Nat /\ sock' >= 1 /\ sock' =< Message
  BY <1>1, <1>3
<1>5. NothingOpen
  BY <1>1 DEF LinkOK, Outstanding
\* The sockets of the older requests are not the open one.
<1>6. /\ \A i \in 1 .. Len(inbox) : inbox[i].sock # sock'
      /\ engine.pc = "busy" => engine.req.sock # sock'
  <2>1. CASE sock = 0
    BY <1>1, <1>3, <2>1
  <2>2. CASE sock # 0
    BY <1>1, <1>5, <2>2 DEF NothingOpen, Queued, AtEngine
  <2> QED BY <2>1, <2>2
<1>7. /\ Len(inbox') = Len(inbox) + 1
      /\ \A i \in 1 .. Len(inbox) : inbox'[i] = inbox[i]
      /\ inbox'[Len(inbox) + 1] = r
  <2>1. inbox \in Seq(Requests)
    BY DEF TypeOK, Requests
  <2> HIDE DEF r
  <2> QED BY <1>1, <2>1, AppendProperties
<1>8. \A i \in 1 .. Len(inbox') : i \in 1 .. Len(inbox) \/ i = Len(inbox) + 1
  BY <1>3, <1>7
<1>9. Numbered'
  <2>1. sock' =< Newest'
    BY <1>2, <1>4
  <2>2. ASSUME NEW i \in 1 .. Len(inbox') PROVE inbox'[i].sock >= 1 /\ inbox'[i].sock =< Newest'
    <3>1. CASE i \in 1 .. Len(inbox)
      BY <1>2, <1>3, <1>7, <3>1
    <3>2. CASE i = Len(inbox) + 1
      BY <1>2, <1>4, <1>7, <3>2
    <3> QED BY <1>8, <3>1, <3>2
  <2>3. engine'.pc = "busy" => engine'.req.sock >= 1 /\ engine'.req.sock =< Newest'
    BY <1>1, <1>2, <1>3
  <2> QED BY <2>1, <2>2, <2>3 DEF Numbered
<1>10. Outstanding'
  <2>1. replies' = <<>> /\ ~AtEngine'
    BY <1>1, <1>5, <1>6 DEF NothingOpen, AtEngine
  <2>2. \A i \in 1 .. Len(inbox') : Queued(i)' => i = Len(inbox) + 1
    BY <1>6, <1>7, <1>8 DEF Queued
  <2>3. \A i \in 1 .. Len(inbox') : Queued(i)' => inbox'[i].id = Message'
    BY <1>2, <1>7, <2>2
  <2>4. OneOpen'
    BY <2>1, <2>2, <2>3 DEF OneOpen
  <2> QED BY <1>1, <2>4 DEF Outstanding
<1> QED BY <1>9, <1>10 DEF LinkOK

\* The wait ends with the only reply, or with the socket.
LEMMA WaitEndsLink == TypeOK /\ LinkOK /\ (TakeReply \/ TimeOut) => LinkOK'
<1> SUFFICES ASSUME TypeOK, LinkOK, TakeReply \/ TimeOut PROVE LinkOK'
  OBVIOUS
<1>1. /\ handler.pc = "await" /\ handler'.pc \in {"compare", "thresh"}
      /\ sock' \in {0, sock} /\ inbox' = inbox /\ engine' = engine /\ messages' = messages
  BY DEF TakeReply, TimeOut, Selected, InHandler, Unmoved, bounds, TypeOK
<1>2. Newest' = Newest /\ OneOpen
  BY <1>1 DEF Newest, Message, LinkOK, Outstanding
<1>3. Numbered'
  <2>1. sock' =< Newest'
    BY <1>1, <1>2, LinkTypes DEF LinkOK, Numbered
  <2> QED BY <1>1, <1>2, <2>1 DEF LinkOK, Numbered
<1>4. NothingOpen'
  <2>1. CASE TakeReply
    <3>1. sock' = sock /\ replies # <<>> /\ replies' = Tail(replies)
      BY <2>1 DEF TakeReply
    <3>2. Len(replies) = 1 /\ ~AtEngine /\ \A i \in 1 .. Len(inbox) : ~Queued(i)
      BY <1>2, <3>1 DEF OneOpen
    <3>3. replies' = <<>>
      <4>1. replies \in Seq(Answers)
        BY DEF TypeOK, Answers
      <4>2. replies' \in Seq(Answers) /\ Len(replies') = 0
        BY <3>1, <3>2, <4>1, HeadTailProperties
      <4> QED BY <4>2, EmptySeq
    <3> QED BY <1>1, <3>1, <3>2, <3>3 DEF NothingOpen, Queued, AtEngine
  <2>2. CASE TimeOut
    <3>1. sock' = 0 /\ replies' = <<>>
      BY <2>2 DEF TimeOut
    <3>2. /\ \A i \in 1 .. Len(inbox) : inbox[i].sock # 0
          /\ engine.pc = "busy" => engine.req.sock # 0
      BY LinkTypes DEF LinkOK, Numbered
    <3> QED BY <1>1, <3>1, <3>2 DEF NothingOpen, Queued, AtEngine
  <2> QED BY <2>1, <2>2
<1> QED BY <1>1, <1>3, <1>4 DEF LinkOK, Outstanding

\* The engine drops the first n requests of the queue, and holds one of them or
\* none: what is left of the queue keeps what was known of it.
LEMMA QueueShortened ==
    ASSUME TypeOK, LinkOK, NEW n \in 0 .. Len(inbox),
           UNCHANGED <<sock, replies, handler, messages>>,
           Len(inbox') = Len(inbox) - n,
           \A i \in 1 .. Len(inbox') : i + n \in 1 .. Len(inbox) /\ inbox'[i] = inbox[i + n],
           \/ engine'.pc # "busy"
           \/ engine'.pc = "busy" /\ n = 1 /\ engine'.req = inbox[1] /\ engine.pc # "busy"
    PROVE  LinkOK'
<1>1. Newest' = Newest /\ Message' = Message
  BY DEF Newest, Message
<1>2. n \in Nat /\ Len(inbox) \in Nat /\ (n = 1 => 1 \in 1 .. Len(inbox))
  BY LinkTypes
<1>3. Numbered'
  BY <1>1, <1>2 DEF LinkOK, Numbered
<1>4. \A i \in 1 .. Len(inbox') : Queued(i)' => Queued(i + n)
  BY DEF Queued
<1>5. AtEngine' => n = 1 /\ Queued(1) /\ engine'.req = inbox[1]
  BY DEF AtEngine, Queued
<1>6. CASE handler.pc # "await"
  <2>1. NothingOpen
    BY <1>6 DEF LinkOK, Outstanding
  <2>2. NothingOpen'
    BY <1>2, <1>4, <1>5, <2>1 DEF NothingOpen
  <2> QED BY <1>3, <1>6, <2>2 DEF LinkOK, Outstanding
<1>7. CASE handler.pc = "await"
  <2>1. OneOpen
    BY <1>7 DEF LinkOK, Outstanding
  <2>2. ASSUME NEW i \in 1 .. Len(inbox'), Queued(i)'
        PROVE  /\ inbox'[i].id = Message' /\ replies' = <<>> /\ ~AtEngine'
               /\ \A j \in 1 .. Len(inbox') : Queued(j)' => j = i
    <3>1. i + n \in 1 .. Len(inbox) /\ Queued(i + n) /\ inbox'[i] = inbox[i + n]
      BY <1>4, <2>2
    <3>2. /\ inbox[i + n].id = Message /\ replies = <<>>
          /\ \A j \in 1 .. Len(inbox) : Queued(j) => j = i + n
      BY <2>1, <3>1 DEF OneOpen
    <3>3. ~AtEngine'
      <4>1. SUFFICES ASSUME n = 1, Queued(1) PROVE FALSE
        BY <1>5
      <4>2. 1 = i + 1
        BY <1>2, <3>2, <4>1
      <4> QED BY <4>2
    <3>4. ASSUME NEW j \in 1 .. Len(inbox'), Queued(j)' PROVE j = i
      <4>1. j + n = i + n
        BY <1>4, <3>2, <3>4
      <4> QED BY <1>2, <4>1
    <3> QED BY <1>1, <3>1, <3>2, <3>3, <3>4
  <2>3. AtEngine' => engine'.req.id = Message' /\ replies' = <<>>
    BY <1>1, <1>2, <1>5, <2>1 DEF OneOpen
  <2>4. replies' # <<>> => Len(replies') = 1 /\ Head(replies').id = Message'
    BY <1>1, <2>1 DEF OneOpen
  <2>5. OneOpen'
    BY <2>2, <2>3, <2>4 DEF OneOpen
  <2> QED BY <1>3, <1>7, <2>5 DEF LinkOK, Outstanding
<1> QED BY <1>6, <1>7

LEMMA EngineLink == TypeOK /\ LinkOK /\ EngineStep => LinkOK'
<1> SUFFICES ASSUME TypeOK, LinkOK, EngineStep PROVE LinkOK'
  OBVIOUS
<1>0. /\ UNCHANGED <<sock, handler, messages>>
      /\ Len(inbox) \in Nat /\ inbox \in Seq(Requests)
  BY LinkTypes DEF EngineStep, EngineReceive, EngineReply, EngineFail, EngineCrash, EngineGone,
                   EngineStart, Engineless, TypeOK, Requests
<1>1. CASE EngineReceive
  <2>1. /\ inbox # <<>> /\ inbox' = Tail(inbox) /\ replies' = replies
        /\ engine.pc = "recv" /\ engine'.pc = "busy" /\ engine'.req = Head(inbox)
    BY <1>1 DEF EngineReceive
  <2>2. /\ Len(inbox') = Len(inbox) - 1
        /\ \A i \in 1 .. Len(inbox') : inbox'[i] = inbox[i + 1]
    BY <1>0, <2>1, HeadTailProperties
  <2>3. Head(inbox) = inbox[1] /\ 1 \in 0 .. Len(inbox)
    BY <1>0, <2>1, EmptySeq
  <2>4. \A i \in 1 .. Len(inbox') : i + 1 \in 1 .. Len(inbox)
    BY <1>0, <2>2
  <2> QED BY <1>0, <2>1, <2>2, <2>3, <2>4, QueueShortened
<1>2. ASSUME NEW m \in ModcodIds \union {engine.req.held}, EngineReply(m) PROVE LinkOK'
  <2>1. /\ engine.pc = "busy" /\ engine'.pc = "recv" /\ inbox' = inbox
        /\ replies' = IF engine.req.sock = sock
                      THEN Append(replies, [id |-> engine.req.id, modcod |-> m]) ELSE replies
    BY <1>2 DEF EngineReply
  <2>2. Newest' = Newest /\ Message' = Message
    BY <1>0 DEF Newest, Message
  <2>3. Numbered'
    BY <1>0, <2>1, <2>2 DEF LinkOK, Numbered
  <2>4. CASE ~AtEngine
    BY <1>0, <2>1, <2>2, <2>3, <2>4 DEF AtEngine, Queued, LinkOK, Outstanding, NothingOpen, OneOpen
  <2>5. CASE AtEngine
    <3>1. handler.pc = "await" /\ OneOpen
      BY <2>5 DEF LinkOK, Outstanding, NothingOpen
    <3>2. /\ engine.req.id = Message /\ replies = <<>>
          /\ \A i \in 1 .. Len(inbox) : ~Queued(i)
      BY <2>5, <3>1 DEF OneOpen
    <3>3. replies' = <<[id |-> Message, modcod |-> m]>>
      BY <2>1, <2>5, <3>2 DEF AtEngine
    <3>4. OneOpen'
      BY <1>0, <2>1, <2>2, <3>2, <3>3 DEF OneOpen, Queued, AtEngine
    <3> QED BY <1>0, <2>3, <3>1, <3>4 DEF LinkOK, Outstanding
  <2> QED BY <2>4, <2>5
<1>3. CASE EngineCrash \/ EngineFail
  <2>1. replies' = replies /\ engine'.pc = "down"
    BY <1>3 DEF EngineCrash, EngineFail, EngineGone
  <2>2. PICK k \in 0 .. Len(inbox) : inbox' = SubSeq(inbox, k + 1, Len(inbox))
    BY <1>3 DEF EngineCrash, EngineFail, EngineGone
  <2>3. \A i \in k + 1 .. Len(inbox) : inbox[i] \in Requests
    BY <1>0, ElementOfSeq
  <2>4. /\ Len(inbox') = IF k + 1 =< Len(inbox) THEN Len(inbox) - (k + 1) + 1 ELSE 0
        /\ \A i \in 1 .. Len(inbox) - (k + 1) + 1 : inbox'[i] = inbox[k + 1 + i - 1]
    BY <1>0, <2>2, <2>3, SubSeqProperties
  <2>5. Len(inbox') = Len(inbox) - k
    BY <1>0, <2>4
  <2>6. \A i \in 1 .. Len(inbox') : i + k \in 1 .. Len(inbox) /\ inbox'[i] = inbox[i + k]
    BY <1>0, <2>4, <2>5
  <2> QED BY <1>0, <2>1, <2>5, <2>6, QueueShortened
<1>4. CASE EngineStart
  <2>1. inbox' = inbox /\ replies' = replies /\ engine'.pc = "recv"
    BY <1>4 DEF EngineStart
  <2>2. 0 \in 0 .. Len(inbox) /\ \A i \in 1 .. Len(inbox) : i + 0 = i
    BY <1>0
  <2> QED BY <1>0, <2>1, <2>2, QueueShortened
<1> QED BY <1>1, <1>2, <1>3, <1>4 DEF EngineStep

LEMMA NextLink == TypeOK /\ LinkOK /\ [Next]_vars => LinkOK'
<1> SUFFICES ASSUME TypeOK, LinkOK, [Next]_vars PROVE LinkOK'
  OBVIOUS
<1>0. TypeOK' /\ Message \in Nat /\ messages \in Nat /\ MaxMessages \in Nat
  BY NextType, LinkTypes, ConstantTypes DEF TypeOK
<1>1. CASE UNCHANGED vars
  BY <1>0, <1>1, LinkUnmoved, LinkTypes DEF vars, bounds, Newest, Message
<1>2. CASE \/ \E s \in Levels : ReceiveFeedback(s) \/ ReceiveNumber(s)
           \/ \E s \in Levels, el \in Elevations : ReceiveChannelState(s, el)
  <2>1. /\ UNCHANGED link /\ messages' = messages - 1
        /\ handler.pc = "idle" /\ handler'.pc \in {"idle", "select"}
    BY <1>2 DEF ReceiveFeedback, ReceiveNumber, ReceiveChannelState, Accept, Delivered, TypeOK
  <2>2. Newest =< Newest'
    BY <1>0, <2>1 DEF Newest, Message
  <2> QED BY <1>0, <2>1, <2>2, LinkUnmoved
<1>3. CASE \/ SelectCcm \/ SelectOther \/ RuleThresh \/ RuleUp \/ RuleDown \/ RuleKeep
           \/ Compare \/ Commit \/ Publish \/ \E due \in BOOLEAN : Stats(due)
  <2>1. /\ UNCHANGED link /\ messages' = messages
        /\ handler.pc # "await" /\ handler'.pc # "await" /\ handler.pc # "query"
        /\ handler'.pc # "select"
    BY <1>3 DEF SelectCcm, SelectOther, RuleThresh, RuleUp, RuleDown, RuleKeep, Compare, Commit,
                Publish, Stats, Selected, Raise, InHandler, Unmoved, bounds, TypeOK
  <2>2. handler'.pc = "query" => handler.pc = "select"
    BY <1>3 DEF SelectCcm, SelectOther, RuleThresh, RuleUp, RuleDown, RuleKeep, Compare, Commit,
                Publish, Stats, Selected, Raise, InHandler, TypeOK
  <2>3. Newest =< Newest'
    BY <1>0, <2>1, <2>2 DEF Newest, Message
  <2> QED BY <1>0, <2>1, <2>3, LinkUnmoved
<1>4. CASE \/ \E m \in ForceTargets : ForceModcod(m)
           \/ \E m \in Modes : SetMode(m)
  BY <1>0, <1>4, LinkUnmoved, LinkTypes DEF ForceModcod, SetMode, Newest, Message
<1> QED BY <1>1, <1>2, <1>3, <1>4, QueryLink, WaitEndsLink, EngineLink DEF Next, HandlerStep

\* A handler that takes an answer of the engine takes the answer to its own
\* request, whatever was lost, queued or answered late before.
THEOREM AnswersAreFresh == Spec => []ReplyIsFresh
<1>1. Init => TypeOK /\ LinkOK
  <2>1. ASSUME Init PROVE LinkOK
    <3>1. Newest = 0 /\ sock = 0 /\ inbox = <<>> /\ replies = <<>>
          /\ engine.pc = "recv" /\ handler.pc = "idle"
      BY <2>1, ConstantTypes DEF Init, Newest, Message
    <3> QED BY <3>1 DEF LinkOK, Numbered, Outstanding, NothingOpen, AtEngine
  <2> QED BY <2>1, InitType
<1>2. (TypeOK /\ LinkOK) /\ [Next]_vars => (TypeOK /\ LinkOK)'
  BY NextType, NextLink
<1>3. TypeOK /\ LinkOK => ReplyIsFresh
  BY DEF LinkOK, Outstanding, OneOpen, ReplyIsFresh
<1> QED BY <1>1, <1>2, <1>3, PTL DEF Spec

-----------------------------------------------------------------------------
(***************************************************************************)
(* Refinement.  As long as force_modcod has not come in between, the       *)
(* separate reads of current_modcod in the rule all saw one value, and     *)
(* what is about to be stored is the rule's answer for that value.         *)
(***************************************************************************)
Rule(s, c) == select_modcod(s, c, Margin, Hysteresis)

Computed ==
    ~raced /\ modcod \in ModcodIds =>
        /\ handler.pc \in {"up", "down"} => handler.thresh = modcod
        /\ handler.pc = "down" => ~(Desired > modcod)
        /\ handler.pc = "keep" => Rule(handler.snr, modcod) = modcod
        /\ handler.pc \in {"compare", "commit"} /\ kind = "rule" =>
              handler.new = Rule(handler.snr, modcod)

LEMMA NextComputed == TypeOK /\ Computed /\ [Next]_vars => Computed'
<1> SUFFICES ASSUME TypeOK, Computed, [Next]_vars PROVE Computed'
  OBVIOUS
<1> USE DEF TypeOK, Computed
<1>1. CASE UNCHANGED vars
  BY <1>1 DEF vars, ghosts, Desired
<1>2. CASE \/ \E s \in Levels : ReceiveFeedback(s) \/ ReceiveNumber(s)
           \/ \E s \in Levels, el \in Elevations : ReceiveChannelState(s, el)
  <2>1. handler'.pc \in {"idle", "select"}
    BY <1>2 DEF ReceiveFeedback, ReceiveNumber, ReceiveChannelState, Accept, Delivered
  <2> QED BY <2>1
<1>3. CASE SelectCcm \/ SelectOther \/ Query \/ TakeReply \/ TimeOut
  BY <1>3 DEF SelectCcm, SelectOther, Query, TakeReply, TimeOut, Selected, InHandler
<1>4. CASE RuleThresh
  BY <1>4 DEF RuleThresh, Row, Raise, InHandler, Unmoved
<1>5. CASE RuleUp
  <2>1. /\ handler.pc = "up" /\ modcod' = modcod /\ raced' = raced
        /\ handler'.snr = handler.snr /\ handler'.thresh = handler.thresh
    BY <1>5 DEF RuleUp, Selected, InHandler, Unmoved
  <2>2. CASE Desired > modcod /\ handler.snr >= Threshold[Desired] + Margin + Hysteresis
    <3>1. handler'.pc = "compare" /\ handler'.new = Desired
      BY <1>5, <2>2 DEF RuleUp, Selected
    <3>2. Rule(handler.snr, modcod) = Desired
      BY <2>2 DEF Rule, select_modcod, Desired
    <3> QED BY <2>1, <3>1, <3>2
  <2>3. CASE Desired > modcod /\ ~(handler.snr >= Threshold[Desired] + Margin + Hysteresis)
    <3>1. handler'.pc = "keep"
      BY <1>5, <2>3 DEF RuleUp
    <3>2. Desired \in Int /\ modcod \in Int
      BY DesiredType, ConstantTypes
    <3>3. ~(Desired < modcod)
      BY <2>3, <3>2
    <3>4. Rule(handler.snr, modcod) = modcod
      BY <2>3, <3>3 DEF Rule, select_modcod, Desired
    <3> QED BY <2>1, <3>1, <3>4
  <2>4. CASE ~(Desired > modcod)
    <3>1. handler'.pc = "down"
      BY <1>5, <2>4 DEF RuleUp
    <3> QED BY <2>1, <2>4, <3>1 DEF Desired
  <2> QED BY <2>2, <2>3, <2>4
<1>6. CASE RuleDown
  <2> DEFINE falls == Desired < modcod
                      /\ handler.snr < Threshold[handler.thresh] + Margin - Hysteresis
  <2>1. /\ handler.pc = "down" /\ modcod' = modcod /\ raced' = raced
        /\ handler'.snr = handler.snr
    BY <1>6 DEF RuleDown, Selected, InHandler, Unmoved
  <2>2. CASE falls
    <3>1. handler'.pc = "compare" /\ handler'.new = Desired
      BY <1>6, <2>2 DEF RuleDown, Selected
    <3>2. ~raced /\ modcod \in ModcodIds => Rule(handler.snr, modcod) = Desired
      BY <2>1, <2>2 DEF Rule, select_modcod, Desired
    <3> QED BY <2>1, <3>1, <3>2
  <2>3. CASE ~falls
    <3>1. handler'.pc = "keep"
      BY <1>6, <2>3 DEF RuleDown
    <3>2. ~raced /\ modcod \in ModcodIds => Rule(handler.snr, modcod) = modcod
      BY <2>1, <2>3 DEF Rule, select_modcod, Desired
    <3> QED BY <2>1, <3>1, <3>2
  <2> QED BY <2>2, <2>3
<1>7. CASE RuleKeep
  BY <1>7 DEF RuleKeep, Selected, InHandler, Unmoved
<1>8. CASE Compare
  BY <1>8 DEF Compare, Raise, InHandler, Unmoved, ghosts
<1>9. CASE Commit \/ Publish \/ \E due \in BOOLEAN : Stats(due)
  BY <1>9 DEF Commit, Publish, Stats, InHandler
<1>10. CASE \E m \in ForceTargets : ForceModcod(m)
  BY <1>10 DEF ForceModcod
<1>11. CASE \E m \in Modes : SetMode(m)
  BY <1>11 DEF SetMode, Desired
<1>12. CASE EngineStep
  BY <1>12 DEF EngineStep, EngineReceive, EngineReply, EngineFail, EngineCrash, EngineGone,
               EngineStart, Engineless, ghosts, Desired
<1> HIDE DEF TypeOK, Computed
<1> QED BY <1>1, <1>2, <1>3, <1>4, <1>5, <1>6, <1>7, <1>8, <1>9, <1>10, <1>11, <1>12
        DEF Next, HandlerStep

\* The table and the rule of the abstract controller are those of the block.
LEMMA SameTable ==
    /\ Decision!ModcodIds = ModcodIds
    /\ Decision!NoChange = NoChange
BY DEF Decision!ModcodIds, ModcodIds, Decision!NoChange, NoChange

LEMMA SameRule ==
    ASSUME NEW s, NEW c
    PROVE  Decision!Apply("python", s, c) = Rule(s, c)
<1>1. Decision!ModcodIds = ModcodIds
  BY SameTable
<1>2. ASSUME NEW x PROVE Decision!Feasible(s, x) = Feasible(s, x)
  BY <1>1 DEF Decision!Feasible, Feasible
<1>3. ASSUME NEW S PROVE Decision!MostEfficient(S) = MostEfficient(S)
  BY DEF Decision!MostEfficient, MostEfficient
<1>4. Decision!select_modcod_for_snr(s, Margin) = select_modcod_for_snr(s, Margin)
  BY <1>2, <1>3 DEF Decision!select_modcod_for_snr, select_modcod_for_snr
<1> QED BY <1>4 DEF Decision!Apply, Decision!select_modcod, Rule, select_modcod

\* The kinds of steps of the block, as the abstract controller sees them.
LEMMA AsStutter ==
    ASSUME UNCHANGED <<handler.snr, modcod, prev, last>>
    PROVE  UNCHANGED Decision!vars
BY DEF Decision!vars, Acting

LEMMA AsMeasure ==
    ASSUME handler'.snr \in Levels, UNCHANGED <<modcod, prev, last>>
    PROVE  Decision!Next
<1>1. Acting' = Acting
  BY DEF Acting
<1> QED BY <1>1 DEF Decision!Next, Decision!Measure

LEMMA AsOverride ==
    ASSUME prev' \in ModcodIds, last' = NoChange, UNCHANGED handler.snr
    PROVE  Decision!Next
<1>1. Acting' \in ModcodIds
  BY DEF Acting
<1> QED BY <1>1, SameTable DEF Decision!Next, Decision!Override

LEMMA AsDecide ==
    ASSUME modcod \in ModcodIds, modcod' \in ModcodIds, modcod' = Rule(handler.snr, modcod),
           last' = RecordChange(last, modcod, modcod', handler.snr), UNCHANGED handler.snr
    PROVE  Decision!Next
<1>0. Acting = modcod /\ Acting' = modcod'
  BY DEF Acting
<1>1. Acting' = Decision!Apply("python", handler.snr, Acting)
  BY <1>0, SameRule
<1>2. last' = Decision!RecordChange(last, Acting, Acting', handler.snr)
  BY <1>0 DEF RecordChange, Decision!RecordChange
<1> QED BY <1>1, <1>2 DEF Decision!Next, Decision!Decide

LEMMA NextRefines ==
    TypeOK /\ Computed /\ [Next]_vars => [Decision!Next]_(Decision!vars)
<1> SUFFICES ASSUME TypeOK, Computed, [Next]_vars
             PROVE  Decision!Next \/ UNCHANGED Decision!vars
  OBVIOUS
<1> USE DEF TypeOK
<1>1. CASE UNCHANGED vars
  <2>1. UNCHANGED <<handler.snr, modcod, prev, last>>
    BY <1>1 DEF vars, ghosts
  <2> QED BY <2>1, AsStutter
<1>2. CASE \/ \E s \in Levels : ReceiveFeedback(s) \/ ReceiveNumber(s)
           \/ \E s \in Levels, el \in Elevations : ReceiveChannelState(s, el)
  <2>1. UNCHANGED <<modcod, prev, last>>
    BY <1>2 DEF ReceiveFeedback, ReceiveNumber, ReceiveChannelState
  <2>2. TypeOK'
    BY NextType
  <2>3. handler'.snr \in Levels
    BY <2>2
  <2> QED BY <2>1, <2>3, AsMeasure
<1>3. CASE \/ SelectCcm \/ SelectOther \/ RuleThresh \/ RuleKeep \/ Query \/ TakeReply
           \/ TimeOut \/ Compare \/ Publish \/ \E due \in BOOLEAN : Stats(due)
  <2>1. UNCHANGED <<handler.snr, modcod, prev, last>>
    BY <1>3 DEF SelectCcm, SelectOther, RuleThresh, RuleKeep, Query, TakeReply, TimeOut, Compare,
                Publish, Stats, Selected, Raise, Unmoved, ghosts
  <2> QED BY <2>1, AsStutter
<1>4. CASE RuleUp \/ RuleDown
  <2>1. UNCHANGED <<handler.snr, modcod, prev, last>>
    BY <1>4 DEF RuleUp, RuleDown, Selected, Unmoved
  <2> QED BY <2>1, AsStutter
<1>5. CASE Commit
  <2>1. /\ handler.pc = "commit" /\ UNCHANGED handler.snr
        /\ modcod' = handler.new /\ prev' = handler.new /\ handler.new \in ModcodIds
    BY <1>5 DEF Commit, InHandler
  <2>2. CASE kind = "rule" /\ ~raced /\ modcod \in ModcodIds
    <3>1. last' = RecordChange(last, modcod, handler.new, handler.snr)
      BY <1>5, <2>2 DEF Commit
    <3>2. handler.new = Rule(handler.snr, modcod)
      BY <2>1, <2>2 DEF Computed
    <3> QED BY <2>1, <2>2, <3>1, <3>2, AsDecide
  <2>3. CASE ~(kind = "rule" /\ ~raced /\ modcod \in ModcodIds)
    <3>1. last' = NoChange
      BY <1>5, <2>3 DEF Commit
    <3> QED BY <2>1, <3>1, AsOverride
  <2> QED BY <2>2, <2>3
<1>6. CASE \E m \in ForceTargets : ForceModcod(m)
  <2>1. prev' \in ModcodIds /\ last' = NoChange /\ UNCHANGED handler.snr
    BY <1>6 DEF ForceModcod
  <2> QED BY <2>1, AsOverride
<1>7. CASE (\E m \in Modes : SetMode(m)) \/ EngineStep
  <2>1. UNCHANGED <<handler.snr, modcod, prev, last>>
    BY <1>7 DEF SetMode, EngineStep, EngineReceive, EngineReply, EngineFail, EngineCrash,
                EngineGone, EngineStart, Engineless, ghosts
  <2> QED BY <2>1, AsStutter
<1> HIDE DEF TypeOK
<1> QED BY <1>1, <1>2, <1>3, <1>4, <1>5, <1>6, <1>7 DEF Next, HandlerStep

\* The block, with its threads, its engine and the races between them,
\* implements the abstract controller with the Python rule.
THEOREM Refinement == Spec => ImplementsDecision
<1>1. Init => TypeOK /\ Computed
  <2>1. Init => Computed
    BY DEF Init, Computed
  <2> QED BY <2>1, InitType
<1>2. (TypeOK /\ Computed) /\ [Next]_vars => (TypeOK /\ Computed)'
  BY NextType, NextComputed
<1>3. Init => Decision!Init
  <2>1. ASSUME Init PROVE Decision!Init
    <3>1. handler.snr \in Levels /\ Acting \in ModcodIds /\ last = NoChange
      BY <2>1, ConstantTypes DEF Init, Acting
    <3> QED BY <3>1, SameTable DEF Decision!Init
  <2> QED BY <2>1
<1> QED BY <1>1, <1>2, <1>3, NextRefines, PTL DEF Spec, ImplementsDecision, Decision!Spec

=============================================================================
