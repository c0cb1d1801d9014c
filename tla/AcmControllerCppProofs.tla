----------------------- MODULE AcmControllerCppProofs -----------------------
(***************************************************************************)
(* What the C++ block guarantees for every table, history length, set of   *)
(* samples, mode and number of messages and calls.  The invariants are     *)
(* grouped by what they are about; each has its own step lemma.            *)
(***************************************************************************)
EXTENDS AcmControllerCpp, TLAPS

\* The abstract controller with what is proved of it.
Abstract == INSTANCE AcmDecisionProofs WITH
                Levels <- Averages, Rules <- {"cpp"}, rule <- "cpp", by <- "cpp",
                Margin <- [r \in {"cpp"} |-> Margin],
                Hysteresis <- [r \in {"cpp"} |-> Hysteresis], snr <- DecidedOn

\* The averages satisfy what the abstract controller assumes of its levels.
LEMMA AbstractAssumptions ==
    Abstract!TableAssumption /\ Abstract!MarginAssumption /\ Abstract!LevelsAssumption
BY TableAssumption, MarginAssumption, AveragesAssumption
   DEF Abstract!TableAssumption, Abstract!MarginAssumption, Abstract!LevelsAssumption,
       Abstract!ModcodIds, ModcodIds

\* Its C++ rule is the one of the block.
LEMMA AbstractRule ==
    ASSUME NEW s, NEW c
    PROVE  Abstract!compute_modcod_with_hysteresis(s, c, Margin, Hysteresis) = Decided(s, c)
<1>1. Abstract!ModcodIds = ModcodIds
  BY DEF Abstract!ModcodIds, ModcodIds
<1>2. ASSUME NEW x PROVE Abstract!Feasible(s, x) = Feasible(s, x)
  BY <1>1 DEF Abstract!Feasible, Feasible
<1>3. ASSUME NEW S PROVE Abstract!MostEfficient(S) = MostEfficient(S)
  BY DEF Abstract!MostEfficient, MostEfficient
<1>4. Abstract!select_modcod_for_snr(s, Margin) = select_modcod_for_snr(s, Margin)
  BY <1>2, <1>3 DEF Abstract!select_modcod_for_snr, select_modcod_for_snr
<1>5. Abstract!best_up(s, c, Margin, Hysteresis) = best_up(s, c, Margin, Hysteresis)
  BY <1>2, <1>3 DEF Abstract!best_up, best_up
<1> QED BY <1>4, <1>5 DEF Abstract!compute_modcod_with_hysteresis,
                          compute_modcod_with_hysteresis, Decided

\* Identifiers are integers, and so are the thresholds.
LEMMA IdsAreIntegers ==
    /\ ModcodIds \subseteq Int
    /\ 1 \in ModcodIds
    /\ \A m \in ModcodIds : Threshold[m] \in Int
BY TableAssumption DEF ModcodIds

-----------------------------------------------------------------------------
(***************************************************************************)
(* Types.                                                                  *)
(***************************************************************************)
LEMMA AverageIsALevel == TypeOK => AverageSnr \in Averages
BY DEF TypeOK, AverageSnr, Averages

LEMMA RuleStaysInTable ==
    ASSUME NEW a \in Averages, NEW c \in ModcodIds
    PROVE  Decided(a, c) \in ModcodIds
<1>1. a \in Int
  BY AveragesAssumption
<1>2. Abstract!ModcodIds = ModcodIds
  BY DEF Abstract!ModcodIds, ModcodIds
<1>3. Abstract!compute_modcod_with_hysteresis(a, c, Margin, Hysteresis) \in Abstract!ModcodIds
  BY <1>1, <1>2, MarginAssumption, AbstractAssumptions, Abstract!CppOutcome
<1> QED BY <1>2, <1>3, AbstractRule

LEMMA RecordedType ==
    ASSUME NEW l \in [dir : {"none", "up", "down"}, at : Int],
           NEW from \in ModcodIds, NEW to \in ModcodIds, NEW s \in Averages
    PROVE  RecordChange(l, from, to, s) \in [dir : {"none", "up", "down"}, at : Int]
<1>1. from \in Int /\ to \in Int /\ s \in Int
  BY IdsAreIntegers, AveragesAssumption
<1>2. CASE to > from
  BY <1>1, <1>2 DEF RecordChange
<1>3. CASE to < from
  BY <1>1, <1>3 DEF RecordChange
<1>4. CASE to = from
  BY <1>1, <1>4 DEF RecordChange
<1> QED BY <1>1, <1>2, <1>3, <1>4

\* A store by a thread t keeps the types of what it writes.
LEMMA CommitRuleType ==
    ASSUME TypeOK,
           NEW t, t.avg \in Averages, t.old \in ModcodIds, t.new \in ModcodIds,
           CommitRule(t)
    PROVE  /\ modcod' \in ModcodIds /\ decided' \in ModcodIds
           /\ last' \in [dir : {"none", "up", "down"}, at : Int]
           /\ UNCHANGED <<locked, under>>
<1>1. last \in [dir : {"none", "up", "down"}, at : Int]
  BY DEF TypeOK
<1>2. NoChange \in [dir : {"none", "up", "down"}, at : Int]
  BY DEF NoChange
<1>3. RecordChange(last, t.old, t.new, t.avg) \in [dir : {"none", "up", "down"}, at : Int]
  BY <1>1, RecordedType
<1> QED BY <1>1, <1>2, <1>3 DEF CommitRule

\* The overrides in force are among the three kinds.
LEMMA InForceType == InForce \subseteq {"ccm", "forced", "either"}
BY DEF InForce

\* Whatever a step does to the record of the overrides, it keeps its type.
LEMMA UnderType ==
    ASSUME under \in [{"handler", "ai"} -> SUBSET {"ccm", "forced", "either"}],
           \/ under' = [under EXCEPT !.handler = InForce]
           \/ under' = [under EXCEPT !.ai = InForce]
           \/ KeepInForce
    PROVE  under' \in [{"handler", "ai"} -> SUBSET {"ccm", "forced", "either"}]
<1> DEFINE Kinds == SUBSET {"ccm", "forced", "either"}
<1>1. under \in [{"handler", "ai"} -> Kinds] /\ InForce \in Kinds
  BY InForceType
<1>2. CASE KeepInForce
  <2>1. under' = [t \in {"handler", "ai"} |-> under[t] \intersect InForce']
    BY <1>2 DEF KeepInForce
  <2>2. \A t \in {"handler", "ai"} : under[t] \intersect InForce' \in Kinds
    <3>1. \A t \in {"handler", "ai"} : under[t] \in Kinds
      BY <1>1
    <3> QED BY <3>1
  <2> HIDE DEF Kinds
  <2>3. under' \in [{"handler", "ai"} -> Kinds]
    BY <2>1, <2>2
  <2> QED BY <2>3 DEF Kinds
<1>3. CASE under' = [under EXCEPT !.handler = InForce] \/ under' = [under EXCEPT !.ai = InForce]
  <2> HIDE DEF Kinds
  <2>1. under' \in [{"handler", "ai"} -> Kinds]
    BY <1>1, <1>3
  <2> QED BY <2>1 DEF Kinds
<1> QED BY <1>2, <1>3

LEMMA InitType == Init => TypeOK
<1> SUFFICES ASSUME Init PROVE TypeOK
  OBVIOUS
<1>1. /\ InitialModcod \in ModcodIds /\ Threshold[InitialModcod] \in Averages
      /\ Threshold[InitialModcod] \in Samples /\ MaxMessages \in Nat /\ MaxCalls \in Nat
  BY ControllerAssumption, AveragesAssumption DEF Samples
<1>2. NoChange \in [dir : {"none", "up", "down"}, at : Int]
  BY DEF NoChange
<1>3. ai \in [pc : {"off", "check", "enter", "waiting", "awake", "load", "store", "publish",
                     "done"},
               avg : Averages, old : ModcodIds, new : ModcodIds]
  BY <1>1 DEF Init
<1>4. MaxMessages \in 0 .. MaxMessages /\ MaxCalls \in 0 .. MaxCalls
  BY <1>1
<1>5. history \in [1 .. HistoryLen -> Samples]
  BY <1>1 DEF Init
<1>6. under \in [{"handler", "ai"} -> SUBSET {"ccm", "forced", "either"}]
  <2>1. under = [t \in {"handler", "ai"} |-> {}]
    BY DEF Init
  <2> QED BY <2>1
<1>7. running \in BOOLEAN
  BY DEF Init, UseAi
<1>8. handler \in [pc : {"idle", "fallback", "mode", "forced", "decide", "commit", "publish"},
                   avg : Averages, old : ModcodIds, new : ModcodIds]
  BY <1>1 DEF Init
<1>9. caller \in [pc : {"idle", "store", "clear"}, arg : ModcodIds]
  BY <1>1 DEF Init
<1>10. /\ modcod \in ModcodIds /\ mode \in Modes /\ forced \in BOOLEAN /\ modcodOut \in ModcodIds
       /\ woken \in BOOLEAN /\ dtor \in {"alive", "notify", "join", "gone"}
       /\ messages \in 0 .. MaxMessages /\ calls \in 0 .. MaxCalls
       /\ decided \in ModcodIds /\ locked \in BOOLEAN
       /\ last \in [dir : {"none", "up", "down"}, at : Int]
  BY <1>1, <1>2, <1>4 DEF Init
<1> QED BY <1>3, <1>5, <1>6, <1>7, <1>8, <1>9, <1>10 DEF TypeOK

LEMMA NextType == TypeOK /\ [Next]_vars => TypeOK'
<1> SUFFICES ASSUME TypeOK, [Next]_vars PROVE TypeOK'
  OBVIOUS
<1> USE DEF TypeOK
<1>0. /\ MaxMessages \in Nat /\ (messages > 0 => messages - 1 \in 0 .. MaxMessages)
      /\ MaxCalls \in Nat /\ (calls > 0 => calls - 1 \in 0 .. MaxCalls)
  BY ControllerAssumption
<1>1. CASE UNCHANGED vars
  BY <1>1 DEF vars, shared, threads, ghosts
<1>2. CASE ReceiveUnlocked
  <2>1. under' \in [{"handler", "ai"} -> SUBSET {"ccm", "forced", "either"}]
    BY <1>2, UnderType DEF ReceiveUnlocked
  <2> QED BY <1>0, <1>2, <2>1 DEF ReceiveUnlocked, Delivered, shared, ghosts
<1>3. ASSUME NEW s \in SnrLevels, ReceiveLocked(s) PROVE TypeOK'
  <2>1. history' \in [1 .. HistoryLen -> Samples]
    <3>1. HistoryLen \in Nat \ {0} /\ s \in Samples
      BY ControllerAssumption DEF Samples
    <3>2. \A i \in 1 .. HistoryLen : i # HistoryLen => i + 1 \in 1 .. HistoryLen
      BY <3>1
    <3> QED BY <1>3, <3>1, <3>2 DEF ReceiveLocked
  <2>2. under' \in [{"handler", "ai"} -> SUBSET {"ccm", "forced", "either"}]
    BY <1>3, UnderType DEF ReceiveLocked
  <2> QED BY <1>0, <1>3, <2>1, <2>2 DEF ReceiveLocked, Delivered, ghosts
<1>4. CASE HandlerStep
  <2>1. CASE Fallback
    <3>1. 1 \in ModcodIds /\ NoChange \in [dir : {"none", "up", "down"}, at : Int]
      BY IdsAreIntegers DEF NoChange
    <3> QED BY <2>1, <3>1 DEF Fallback
  <2>2. CASE TestMode
    BY <2>2 DEF TestMode, shared, ghosts
  <2>3. CASE TestForced
    BY <2>3 DEF TestForced, shared, ghosts
  <2>4. CASE NotifyAi
    BY <2>4 DEF NotifyAi, shared, ghosts
  <2>5. CASE Decide
    <3>1. /\ AverageSnr \in Averages
          /\ Decided(AverageSnr, modcod) \in ModcodIds
      BY AverageIsALevel, RuleStaysInTable
    <3> QED BY <2>5, <3>1 DEF Decide, shared, ghosts
  <2>6. CASE Commit
    <3>1. CommitRule(handler)
      BY <2>6 DEF Commit
    <3>2. handler.avg \in Averages /\ handler.old \in ModcodIds /\ handler.new \in ModcodIds
      OBVIOUS
    <3>3. /\ modcod' \in ModcodIds /\ decided' \in ModcodIds
          /\ last' \in [dir : {"none", "up", "down"}, at : Int]
          /\ UNCHANGED <<locked, under>>
      BY <3>1, <3>2, CommitRuleType
    <3> QED BY <2>6, <3>3 DEF Commit
  <2>7. CASE Publish
    BY <2>7 DEF Publish, ghosts
  <2> QED BY <1>4, <2>1, <2>2, <2>3, <2>4, <2>5, <2>6, <2>7 DEF HandlerStep
<1>5. CASE AiStep
  <2>1. CASE AiCheck \/ AiEnterWait
    BY <2>1, ZenonT(40) DEF AiCheck, AiEnterWait, shared, ghosts
  <2>6. CASE AiNotified \/ AiTimeout
    <3>1. under' \in [{"handler", "ai"} -> SUBSET {"ccm", "forced", "either"}]
      BY <2>6, UnderType DEF AiNotified, AiTimeout
    <3> QED BY <2>6, <3>1, ZenonT(40) DEF AiNotified, AiTimeout, shared
  <2>2. CASE AiSample
    <3>1. AverageSnr \in Averages
      BY AverageIsALevel
    <3>2. CASE running
      BY <2>2, <3>1, <3>2, ZenonT(40) DEF AiSample, shared, ghosts
    <3>3. CASE ~running
      BY <2>2, <3>3 DEF AiSample, shared, ghosts
    <3> QED BY <3>2, <3>3
  <2>3. CASE AiLoad
    <3>1. Decided(ai.avg, modcod) \in ModcodIds
      BY RuleStaysInTable
    <3> DEFINE new == Decided(ai.avg, modcod)
    <3>2. \/ ai' = [ai EXCEPT !.pc = "store", !.old = modcod, !.new = new]
          \/ ai' = [ai EXCEPT !.pc = "check", !.old = modcod, !.new = new]
      BY <2>3 DEF AiLoad
    <3> HIDE DEF new
    <3>3. /\ ai'.pc \in {"store", "check"} /\ ai'.avg = ai.avg /\ ai'.old = modcod
          /\ ai' \in [pc : {"store", "check"}, avg : Averages, old : ModcodIds, new : ModcodIds]
      BY <3>1, <3>2 DEF new
    <3> QED BY <2>3, <3>3 DEF AiLoad, shared, ghosts
  <2>4. CASE AiStore
    <3>1. CommitRule(ai)
      BY <2>4 DEF AiStore
    <3>2. ai.avg \in Averages /\ ai.old \in ModcodIds /\ ai.new \in ModcodIds
      OBVIOUS
    <3>3. /\ modcod' \in ModcodIds /\ decided' \in ModcodIds
          /\ last' \in [dir : {"none", "up", "down"}, at : Int]
          /\ UNCHANGED <<locked, under>>
      BY <3>1, <3>2, CommitRuleType
    <3> QED BY <2>4, <3>3 DEF AiStore
  <2>5. CASE AiPublish
    BY <2>5 DEF AiPublish, ghosts
  <2> QED BY <1>5, <2>1, <2>2, <2>3, <2>4, <2>5, <2>6 DEF AiStep
<1>6. ASSUME NEW m \in ForceTargets, ForceModcod(m) PROVE TypeOK'
  BY <1>0, <1>6 DEF ForceModcod, Calls, ghosts
<1>7. ASSUME NEW m \in Modes, SetMode(m) PROVE TypeOK'
  <2>1. under' \in [{"handler", "ai"} -> SUBSET {"ccm", "forced", "either"}]
    BY <1>7, UnderType DEF SetMode
  <2> QED BY <1>0, <1>7, <2>1 DEF SetMode, Calls
<1>8. CASE CallerStep
  <2>1. CASE ForceStore
    <3>1. NoChange \in [dir : {"none", "up", "down"}, at : Int]
      BY DEF NoChange
    <3> QED BY <2>1, <3>1 DEF ForceStore
  <2>2. CASE ClearForced
    <3>1. caller' \in [pc : {"idle", "store", "clear"}, arg : ModcodIds]
      BY <2>2 DEF ClearForced
    <3>2. forced' \in BOOLEAN
      BY <2>2 DEF ClearForced
    <3>3. UNCHANGED <<modcod, mode, history, running, modcodOut, handler, ai, woken, dtor,
                      messages, calls, decided, last, locked>>
      BY <2>2 DEF ClearForced, ghosts
    <3>4. under' \in [{"handler", "ai"} -> SUBSET {"ccm", "forced", "either"}]
      BY <2>2, UnderType DEF ClearForced
    <3> QED BY <3>1, <3>2, <3>3, <3>4
  <2> QED BY <1>8, <2>1, <2>2 DEF CallerStep
<1>9. CASE Destroy \/ DestructorStep
  BY <1>9 DEF Destroy, DestructorStep, DestroyNotify, Join, shared, ghosts
<1> HIDE DEF TypeOK
<1> QED
  BY <1>1, <1>2, <1>3, <1>4, <1>5, <1>6, <1>7, <1>8, <1>9 DEF Next, ReceiveChannelState

\* Type correctness of the block, with and without the AI thread.
THEOREM TypeCorrect == Spec => []TypeOK
BY InitType, NextType, PTL DEF Spec

-----------------------------------------------------------------------------
(***************************************************************************)
(* Which thread does what.  Roles keeps the two deciding threads apart:    *)
(* without use_ai there is no AI thread, with it the message thread stops  *)
(* at the notification.                                                    *)
(***************************************************************************)
\* There is an AI thread from the start, or never.
LEMMA UseAiStays ==
    ASSUME TypeOK, [Next]_vars
    PROVE  UseAi' = UseAi
<1> USE DEF TypeOK, UseAi
<1>1. CASE UNCHANGED ai
  BY <1>1
<1>2. CASE AiStep
  BY <1>2 DEF AiStep, AiCheck, AiEnterWait, AiNotified, AiTimeout, AiSample, AiLoad, AiStore,
              AiPublish
<1>3. CASE ~AiStep
  <2>1. UNCHANGED ai
    BY <1>3 DEF Next, vars, threads, ReceiveUnlocked, ReceiveLocked, ReceiveChannelState,
                HandlerStep, Fallback, TestMode, TestForced, NotifyAi, Decide, Commit, Publish,
                ForceModcod, SetMode, CallerStep, ForceStore, ClearForced, Destroy,
                DestructorStep, DestroyNotify, Join
  <2> QED BY <2>1
<1> QED BY <1>2, <1>3

Roles == UseAi => handler.pc \notin {"commit", "publish"}

LEMMA InitRoles == Init => Roles
BY DEF Init, Roles

LEMMA NextRoles == TypeOK /\ Roles /\ [Next]_vars => Roles'
<1> SUFFICES ASSUME TypeOK, Roles, [Next]_vars PROVE Roles'
  OBVIOUS
<1> USE DEF TypeOK, Roles
<1>0. UseAi' = UseAi
  BY UseAiStays
<1>1. CASE UNCHANGED vars
  BY <1>0, <1>1 DEF vars, threads
<1>2. CASE ReceiveUnlocked \/ \E s \in SnrLevels : ReceiveLocked(s) \/ ReceiveChannelState(s)
  BY <1>0, <1>2 DEF ReceiveUnlocked, ReceiveLocked, ReceiveChannelState
<1>3. CASE Fallback \/ TestMode \/ TestForced \/ NotifyAi \/ Publish
  BY <1>0, <1>3 DEF Fallback, TestMode, TestForced, NotifyAi, Publish
<1>4. CASE Decide \/ Commit
  BY <1>0, <1>4 DEF Decide, Commit
<1>5. CASE AiStep
  BY <1>0, <1>5 DEF AiStep, AiCheck, AiEnterWait, AiNotified, AiTimeout, AiSample, AiLoad,
              AiStore, AiPublish
<1>6. CASE \/ \E m \in ForceTargets : ForceModcod(m)
           \/ \E m \in Modes : SetMode(m)
           \/ CallerStep \/ Destroy \/ DestructorStep
  BY <1>0, <1>6 DEF ForceModcod, SetMode, CallerStep, ForceStore, ClearForced, Destroy, DestructorStep,
              DestroyNotify, Join
<1> HIDE DEF TypeOK, Roles
<1> QED BY <1>1, <1>2, <1>3, <1>4, <1>5, <1>6 DEF Next, HandlerStep

-----------------------------------------------------------------------------
(***************************************************************************)
(* The transmitter is told of every decision.  Between store and           *)
(* publication the value to publish is the last decision, because the      *)
(* other thread never decides.                                             *)
(***************************************************************************)
Published ==
    /\ handler.pc = "publish" => handler.new = decided
    /\ ai.pc = "publish" => ai.new = decided
    /\ PublishedLatest

LEMMA InitPublished == Init => Published
BY DEF Init, Published, PublishedLatest

LEMMA NextPublished == TypeOK /\ Roles /\ Published /\ [Next]_vars => Published'
<1> SUFFICES ASSUME TypeOK, Roles, Published, [Next]_vars PROVE Published'
  OBVIOUS
<1> USE DEF TypeOK, Roles, Published, PublishedLatest
<1>1. CASE UNCHANGED vars
  BY <1>1 DEF vars, shared, threads, ghosts
<1>2. CASE ReceiveUnlocked \/ \E s \in SnrLevels : ReceiveLocked(s) \/ ReceiveChannelState(s)
  BY <1>2 DEF ReceiveUnlocked, ReceiveLocked, ReceiveChannelState, Delivered, shared, ghosts
<1>3. CASE Fallback \/ TestMode \/ TestForced \/ NotifyAi
  BY <1>3 DEF Fallback, TestMode, TestForced, NotifyAi, shared, ghosts
<1>4. CASE Decide
  BY <1>4 DEF Decide, shared, ghosts
<1>5. CASE Commit
  <2>1. ai.pc = "off" /\ handler'.pc = "publish" /\ handler'.new = decided' /\ ai' = ai
    BY <1>5 DEF Commit, CommitRule, UseAi
  <2> QED BY <2>1
<1>6. CASE Publish
  BY <1>6 DEF Publish, ghosts
<1>7. CASE AiCheck \/ AiEnterWait \/ AiNotified \/ AiTimeout \/ AiSample \/ AiLoad
  BY <1>7 DEF AiCheck, AiEnterWait, AiNotified, AiTimeout, AiSample, AiLoad, shared, ghosts
<1>8. CASE AiStore
  <2>1. handler.pc # "publish" /\ ai'.pc = "publish" /\ ai'.new = decided' /\ handler' = handler
    BY <1>8 DEF AiStore, CommitRule, UseAi
  <2> QED BY <2>1
<1>9. CASE AiPublish
  BY <1>9 DEF AiPublish, ghosts
<1>10. CASE \/ \E m \in ForceTargets : ForceModcod(m)
            \/ \E m \in Modes : SetMode(m)
            \/ CallerStep \/ Destroy \/ DestructorStep
  BY <1>10 DEF ForceModcod, SetMode, CallerStep, ForceStore, ClearForced, Destroy, DestructorStep,
               DestroyNotify, Join, shared, ghosts
<1> HIDE DEF TypeOK, Roles, Published, PublishedLatest
<1> QED BY <1>1, <1>2, <1>3, <1>4, <1>5, <1>6, <1>7, <1>8, <1>9, <1>10
        DEF Next, HandlerStep, AiStep

\* With either deciding thread, whatever is forced meanwhile: the last message
\* on PORT_MODCOD_OUT is the last decision, but for the moment in between.
THEOREM DecisionsArePublished == Spec => []PublishedLatest
<1>1. Init => TypeOK /\ Roles /\ Published
  BY InitType, InitRoles, InitPublished
<1>2. (TypeOK /\ Roles /\ Published) /\ [Next]_vars => (TypeOK /\ Roles /\ Published)'
  BY NextType, NextRoles, NextPublished
<1>3. TypeOK /\ Roles /\ Published => PublishedLatest
  BY DEF Published
<1> QED BY <1>1, <1>2, <1>3, PTL DEF Spec

-----------------------------------------------------------------------------
(***************************************************************************)
(* Overrides.  What is recorded as in force since the message came is in   *)
(* force still, so the two tests of line 158 find it: past the first the   *)
(* mode, past the second the flag, was not in force the whole time.        *)
(***************************************************************************)
Overriding ==
    /\ under["handler"] \subseteq InForce
    /\ handler.pc \in {"forced", "decide", "commit"} => "ccm" \notin under["handler"]
    /\ handler.pc \in {"decide", "commit"} => "forced" \notin under["handler"]

LEMMA InForceMembers ==
    /\ "ccm" \in InForce <=> mode = "CCM"
    /\ "forced" \in InForce <=> forced
BY DEF InForce

LEMMA InitOverriding == Init => Overriding
BY DEF Init, Overriding

\* A step that leaves the mode and the flag alone leaves InForce alone.
LEMMA InForceStays ==
    ASSUME UNCHANGED <<mode, forced>>
    PROVE  InForce' = InForce
BY DEF InForce, Overridden

LEMMA NextOverriding == TypeOK /\ Overriding /\ [Next]_vars => Overriding'
<1> SUFFICES ASSUME TypeOK, Overriding, [Next]_vars PROVE Overriding'
  OBVIOUS
<1> USE DEF TypeOK, Overriding
<1>1. CASE UNCHANGED vars
  BY <1>1, InForceStays DEF vars, shared, threads, ghosts
<1>2. CASE ReceiveUnlocked \/ \E s \in SnrLevels : ReceiveLocked(s) \/ ReceiveChannelState(s)
  <2>1. /\ UNCHANGED <<mode, forced>> /\ handler'.pc \in {"idle", "fallback", "mode"}
        /\ under' = [under EXCEPT !.handler = InForce]
    BY <1>2 DEF ReceiveUnlocked, ReceiveLocked, ReceiveChannelState, shared
  <2> QED BY <2>1, InForceStays
<1>3. CASE Fallback \/ NotifyAi \/ Publish \/ Commit
  <2>1. /\ UNCHANGED <<mode, forced, under>> /\ handler'.pc \in {"idle", "publish"}
    BY <1>3 DEF Fallback, NotifyAi, Publish, Commit, CommitRule, shared, ghosts
  <2> QED BY <2>1, InForceStays
<1>4. CASE TestMode
  <2>1. /\ UNCHANGED <<mode, forced, under>>
        /\ handler'.pc = IF mode = "CCM" THEN "idle" ELSE "forced"
    BY <1>4 DEF TestMode, shared, ghosts
  <2> QED BY <2>1, InForceStays, InForceMembers
<1>5. CASE TestForced
  <2>1. /\ UNCHANGED <<mode, forced, under>> /\ handler.pc = "forced"
        /\ handler'.pc = IF forced THEN "idle" ELSE "decide"
    BY <1>5 DEF TestForced, shared, ghosts
  <2> QED BY <2>1, InForceStays, InForceMembers
<1>6. CASE Decide
  <2>1. /\ UNCHANGED <<mode, forced, under>> /\ handler.pc = "decide"
        /\ handler'.pc \in {"idle", "commit"}
    BY <1>6 DEF Decide, shared, ghosts
  <2> QED BY <2>1, InForceStays
<1>7. CASE AiStep
  <2>1. UNCHANGED <<mode, forced, handler>> /\ under'["handler"] = under["handler"]
    BY <1>7 DEF AiStep, AiCheck, AiEnterWait, AiNotified, AiTimeout, AiSample, AiLoad,
                AiStore, AiPublish, CommitRule, shared, ghosts
  <2> QED BY <2>1, InForceStays
<1>8. ASSUME NEW m \in ForceTargets, ForceModcod(m) PROVE Overriding'
  <2>1. UNCHANGED <<mode, handler, under>> /\ forced'
    BY <1>8 DEF ForceModcod, ghosts
  <2>2. InForce \subseteq InForce'
    BY <2>1 DEF InForce, Overridden
  <2> QED BY <2>1, <2>2
<1>9. CASE \/ \E m \in Modes : SetMode(m)
           \/ ClearForced
  <2>1. UNCHANGED handler /\ under' = [t \in {"handler", "ai"} |-> under[t] \intersect InForce']
    BY <1>9 DEF SetMode, ClearForced, KeepInForce
  <2>2. under'["handler"] = under["handler"] \intersect InForce'
    BY <2>1
  <2> QED BY <2>1, <2>2
<1>10. CASE ForceStore \/ Destroy \/ DestructorStep
  <2>1. UNCHANGED <<mode, forced, handler, under>>
    BY <1>10 DEF ForceStore, Destroy, DestructorStep, DestroyNotify, Join, shared, ghosts
  <2> QED BY <2>1, InForceStays
<1> HIDE DEF TypeOK, Overriding
<1> QED BY <1>1, <1>2, <1>3, <1>4, <1>5, <1>6, <1>7, <1>8, <1>9, <1>10
        DEF Next, HandlerStep, CallerStep

\* CCM mode and force_modcod hold against every decision of the handler whose message
\* came after them (run cpp_ai_override shows that they do not hold against the AI
\* thread).
THEOREM HandlerHonoursOverrides == Spec => []OverrideSticks
<1>1. Init => TypeOK /\ Overriding
  BY InitType, InitOverriding
<1>2. (TypeOK /\ Overriding) /\ [Next]_vars => (TypeOK /\ Overriding)'
  BY NextType, NextOverriding
<1>3. TypeOK /\ Overriding => OverrideSticks
  BY DEF Overriding, OverrideSticks
<1> QED BY <1>1, <1>2, <1>3, PTL DEF Spec

-----------------------------------------------------------------------------
(***************************************************************************)
(* Refinement.  A thread about to store carries the rule's answer for the  *)
(* average and the MODCOD it read, so its store is a Decide as long as     *)
(* that MODCOD is still held.                                              *)
(***************************************************************************)
Computed ==
    /\ handler.pc = "commit" =>
          handler.new = Decided(handler.avg, handler.old)
    /\ ai.pc = "store" => ai.new = Decided(ai.avg, ai.old)

LEMMA NextComputed == TypeOK /\ Computed /\ [Next]_vars => Computed'
<1> SUFFICES ASSUME TypeOK, Computed, [Next]_vars PROVE Computed'
  OBVIOUS
<1> USE DEF TypeOK, Computed
<1>1. CASE UNCHANGED vars
  BY <1>1 DEF vars, threads
<1>2. CASE ReceiveUnlocked \/ \E s \in SnrLevels : ReceiveLocked(s) \/ ReceiveChannelState(s)
  BY <1>2 DEF ReceiveUnlocked, ReceiveLocked, ReceiveChannelState
<1>3. CASE Fallback \/ TestMode \/ TestForced \/ NotifyAi \/ Commit \/ Publish
  BY <1>3 DEF Fallback, TestMode, TestForced, NotifyAi, Commit, Publish
<1>4. CASE Decide
  BY <1>4 DEF Decide
<1>5. CASE \/ AiCheck \/ AiEnterWait \/ AiNotified \/ AiTimeout \/ AiSample \/ AiStore
           \/ AiPublish
  BY <1>5 DEF AiCheck, AiEnterWait, AiNotified, AiTimeout, AiSample, AiStore, AiPublish
<1>6. CASE AiLoad
  BY <1>6 DEF AiLoad
<1>7. CASE \/ \E m \in ForceTargets : ForceModcod(m)
           \/ \E m \in Modes : SetMode(m)
           \/ CallerStep \/ Destroy \/ DestructorStep
  BY <1>7 DEF ForceModcod, SetMode, CallerStep, ForceStore, ClearForced, Destroy,
              DestructorStep, DestroyNotify, Join
<1> HIDE DEF TypeOK, Computed
<1> QED BY <1>1, <1>2, <1>3, <1>4, <1>5, <1>6, <1>7 DEF Next, HandlerStep, AiStep

\* The table and the rule of the abstract controller are those of the block.
LEMMA SameTable ==
    /\ Decision!ModcodIds = ModcodIds
    /\ Decision!NoChange = NoChange
BY DEF Decision!ModcodIds, ModcodIds, Decision!NoChange, NoChange

LEMMA SameRule ==
    ASSUME NEW s, NEW c
    PROVE  Decision!Apply("cpp", s, c) = Decided(s, c)
<1>1. Decision!ModcodIds = ModcodIds
  BY SameTable
<1>2. ASSUME NEW x PROVE Decision!Feasible(s, x) = Feasible(s, x)
  BY <1>1 DEF Decision!Feasible, Feasible
<1>3. ASSUME NEW S PROVE Decision!MostEfficient(S) = MostEfficient(S)
  BY DEF Decision!MostEfficient, MostEfficient
<1>4. Decision!select_modcod_for_snr(s, Margin) = select_modcod_for_snr(s, Margin)
  BY <1>2, <1>3 DEF Decision!select_modcod_for_snr, select_modcod_for_snr
<1>5. Decision!best_up(s, c, Margin, Hysteresis) = best_up(s, c, Margin, Hysteresis)
  BY <1>2, <1>3 DEF Decision!best_up, best_up
<1> QED BY <1>4, <1>5 DEF Decision!Apply, Decision!compute_modcod_with_hysteresis,
                          compute_modcod_with_hysteresis, Decided

\* The four kinds of steps of the block, as the abstract controller sees them.
LEMMA AsStutter ==
    ASSUME UNCHANGED <<DecidedOn, modcod, last>>
    PROVE  UNCHANGED Decision!vars
BY DEF Decision!vars

LEMMA AsMeasure ==
    ASSUME DecidedOn' \in Averages, UNCHANGED <<modcod, last>>
    PROVE  Decision!Next
BY DEF Decision!Next, Decision!Measure

LEMMA AsOverride ==
    ASSUME modcod' \in ModcodIds, last' = NoChange, UNCHANGED DecidedOn
    PROVE  Decision!Next
BY SameTable DEF Decision!Next, Decision!Override

LEMMA AsDecide ==
    ASSUME modcod' = Decided(DecidedOn, modcod),
           last' = RecordChange(last, modcod, modcod', DecidedOn), UNCHANGED DecidedOn
    PROVE  Decision!Next
<1>1. modcod' = Decision!Apply("cpp", DecidedOn, modcod)
  BY SameRule
<1>2. last' = Decision!RecordChange(last, modcod, modcod', DecidedOn)
  BY DEF RecordChange, Decision!RecordChange
<1> QED BY <1>1, <1>2 DEF Decision!Next, Decision!Decide

\* A store of the deciding thread is a Decide, or an Override when it is raced.
LEMMA AsStore ==
    ASSUME NEW t, CommitRule(t), t.new \in ModcodIds, DecidedOn = t.avg, UNCHANGED DecidedOn,
           t.new = Decided(t.avg, t.old)
    PROVE  Decision!Next
<1>1. CASE modcod = t.old
  BY <1>1, AsDecide DEF CommitRule
<1>2. CASE modcod # t.old
  BY <1>2, AsOverride DEF CommitRule
<1> QED BY <1>1, <1>2

LEMMA InitRefines == Init => Decision!Init
<1> SUFFICES ASSUME Init PROVE Decision!Init
  OBVIOUS
<1>1. InitialModcod \in ModcodIds /\ Threshold[InitialModcod] \in Averages
  BY ControllerAssumption, AveragesAssumption
<1> QED BY <1>1, SameTable DEF Init, Decision!Init, DecidedOn

LEMMA NextRefines ==
    TypeOK /\ Roles /\ Computed /\ [Next]_vars => [Decision!Next]_(Decision!vars)
<1> SUFFICES ASSUME TypeOK, Roles, Computed, [Next]_vars
             PROVE  Decision!Next \/ UNCHANGED Decision!vars
  OBVIOUS
<1> USE DEF TypeOK
<1>0. UseAi' = UseAi
  BY UseAiStays
<1>1. CASE UNCHANGED vars
  <2>1. UNCHANGED <<DecidedOn, modcod, last>>
    BY <1>0, <1>1 DEF vars, shared, threads, ghosts, DecidedOn
  <2> QED BY <2>1, AsStutter
<1>2. CASE ReceiveUnlocked \/ \E s \in SnrLevels : ReceiveLocked(s) \/ ReceiveChannelState(s)
  <2>1. UNCHANGED <<DecidedOn, modcod, last>>
    BY <1>0, <1>2 DEF ReceiveUnlocked, ReceiveLocked, ReceiveChannelState, shared, ghosts, DecidedOn
  <2> QED BY <2>1, AsStutter
<1>3. CASE Fallback
  <2>1. modcod' \in ModcodIds /\ last' = NoChange /\ UNCHANGED DecidedOn
    BY <1>0, <1>3, IdsAreIntegers DEF Fallback, DecidedOn
  <2> QED BY <2>1, AsOverride
<1>4. CASE TestMode \/ TestForced \/ NotifyAi \/ Publish
  <2>1. UNCHANGED <<DecidedOn, modcod, last>>
    BY <1>0, <1>4 DEF TestMode, TestForced, NotifyAi, Publish, shared, ghosts, DecidedOn
  <2> QED BY <2>1, AsStutter
<1>5. CASE Decide
  <2>1. DecidedOn' \in Averages /\ UNCHANGED <<modcod, last>>
    BY <1>0, <1>5, AverageIsALevel DEF Decide, shared, ghosts, DecidedOn
  <2> QED BY <2>1, AsMeasure
<1>6. CASE Commit
  <2>1. ~UseAi /\ CommitRule(handler) /\ handler.new \in ModcodIds /\ DecidedOn = handler.avg
    BY <1>0, <1>6 DEF Commit, Roles, DecidedOn
  <2>2. UNCHANGED DecidedOn
    BY <1>0, <1>6, <2>1 DEF Commit, DecidedOn
  <2>3. handler.new = Decided(handler.avg, handler.old)
    BY <1>6 DEF Commit, Computed
  <2> QED BY <2>1, <2>2, <2>3, AsStore
<1>7. CASE AiCheck \/ AiEnterWait \/ AiNotified \/ AiTimeout \/ AiLoad \/ AiPublish
  <2>1. UNCHANGED <<DecidedOn, modcod, last>>
    BY <1>0, <1>7 DEF AiCheck, AiEnterWait, AiNotified, AiTimeout, AiLoad, AiPublish, shared, ghosts,
                DecidedOn
  <2> QED BY <2>1, AsStutter
<1>8. CASE AiSample
  <2>1. DecidedOn' \in Averages /\ UNCHANGED <<modcod, last>>
    BY <1>0, <1>8, AverageIsALevel DEF AiSample, shared, ghosts, DecidedOn
  <2> QED BY <2>1, AsMeasure
<1>9. CASE AiStore
  <2>1. UseAi /\ CommitRule(ai) /\ ai.new \in ModcodIds /\ DecidedOn = ai.avg
    BY <1>0, <1>9 DEF AiStore, UseAi, DecidedOn
  <2>2. UNCHANGED DecidedOn
    BY <1>0, <1>9, <2>1 DEF AiStore, DecidedOn
  <2>3. ai.new = Decided(ai.avg, ai.old)
    BY <1>9 DEF AiStore, Computed
  <2> QED BY <2>1, <2>2, <2>3, AsStore
<1>10. CASE ForceStore
  <2>1. modcod' \in ModcodIds /\ last' = NoChange /\ UNCHANGED DecidedOn
    BY <1>0, <1>10 DEF ForceStore, DecidedOn
  <2> QED BY <2>1, AsOverride
<1>11. CASE \/ \E m \in ForceTargets : ForceModcod(m)
            \/ \E m \in Modes : SetMode(m)
            \/ ClearForced \/ Destroy \/ DestructorStep
  <2>1. UNCHANGED <<DecidedOn, modcod, last>>
    BY <1>0, <1>11 DEF ForceModcod, SetMode, ClearForced, Destroy, DestructorStep, DestroyNotify,
                 Join, shared, ghosts, DecidedOn
  <2> QED BY <2>1, AsStutter
<1> HIDE DEF TypeOK
<1> QED BY <1>1, <1>2, <1>3, <1>4, <1>5, <1>6, <1>7, <1>8, <1>9, <1>10, <1>11
        DEF Next, HandlerStep, AiStep, CallerStep

\* The block, its threads and races included, implements the abstract
\* controller with the C++ rule.
THEOREM Refinement == Spec => ImplementsDecision
<1>1. Init => TypeOK /\ Roles /\ Computed
  <2>1. Init => Computed
    BY DEF Init, Computed
  <2> QED BY <2>1, InitType, InitRoles
<1>2. (TypeOK /\ Roles /\ Computed) /\ [Next]_vars => (TypeOK /\ Roles /\ Computed)'
  BY NextType, NextRoles, NextComputed
<1> QED BY <1>1, <1>2, InitRefines, NextRefines, PTL DEF Spec, ImplementsDecision, Decision!Spec

-----------------------------------------------------------------------------
(***************************************************************************)
(* What is proved of the abstract controller holds of the block.           *)
(***************************************************************************)
\* Both instances of the abstract controller define the same things.
LEMMA SameDefinitions ==
    /\ Decision!ModcodIds = Abstract!ModcodIds /\ Decision!NoChange = Abstract!NoChange
    /\ \A s, c : Decision!Apply("cpp", s, c) = Abstract!Apply("cpp", s, c)
    /\ \A l, f, t, s : Decision!RecordChange(l, f, t, s) = Abstract!RecordChange(l, f, t, s)
<1>1. Decision!ModcodIds = Abstract!ModcodIds /\ Decision!NoChange = Abstract!NoChange
  BY DEF Decision!ModcodIds, Abstract!ModcodIds, Decision!NoChange, Abstract!NoChange
<1>2. ASSUME NEW s, NEW c PROVE Decision!Apply("cpp", s, c) = Abstract!Apply("cpp", s, c)
  <2>1. ASSUME NEW x PROVE Decision!Feasible(s, x) = Abstract!Feasible(s, x)
    BY <1>1 DEF Decision!Feasible, Abstract!Feasible
  <2>2. ASSUME NEW S PROVE Decision!MostEfficient(S) = Abstract!MostEfficient(S)
    BY DEF Decision!MostEfficient, Abstract!MostEfficient
  <2>3. Decision!select_modcod_for_snr(s, Margin) = Abstract!select_modcod_for_snr(s, Margin)
    BY <2>1, <2>2 DEF Decision!select_modcod_for_snr, Abstract!select_modcod_for_snr
  <2>4. Decision!best_up(s, c, Margin, Hysteresis) = Abstract!best_up(s, c, Margin, Hysteresis)
    BY <2>1, <2>2 DEF Decision!best_up, Abstract!best_up
  <2> QED BY <2>3, <2>4 DEF Decision!Apply, Decision!compute_modcod_with_hysteresis,
                Abstract!Apply, Abstract!compute_modcod_with_hysteresis
<1>3. ASSUME NEW l, NEW f, NEW t, NEW s
      PROVE  Decision!RecordChange(l, f, t, s) = Abstract!RecordChange(l, f, t, s)
  BY DEF Decision!RecordChange, Abstract!RecordChange
<1> QED BY <1>1, <1>2, <1>3

LEMMA SameSpec ==
    /\ Decision!Init => Abstract!Init
    /\ [Decision!Next]_(Decision!vars) => [Abstract!Next]_(Abstract!vars)
<1>1. Decision!Init => Abstract!Init
  BY SameDefinitions DEF Decision!Init, Abstract!Init
<1>2. Decision!Next => Abstract!Next
  BY SameDefinitions DEF Decision!Next, Abstract!Next, Decision!Measure, Abstract!Measure,
     Decision!Decide, Abstract!Decide, Decision!Override, Abstract!Override,
     Decision!TakeOver, Abstract!TakeOver
<1>3. UNCHANGED Decision!vars => UNCHANGED Abstract!vars
  BY DEF Decision!vars, Abstract!vars
<1> QED BY <1>1, <1>2, <1>3

\* The block takes a change back only after the average it decides on has left
\* the dead band: the abstract controller's theorem, carried over.
THEOREM AverageDoesNotPingPong == Spec => AverageNoPingPong
<1>1. Spec => Decision!Spec
  BY Refinement DEF ImplementsDecision
<1>2. Decision!Spec => Abstract!Spec
  BY SameSpec, PTL DEF Decision!Spec, Abstract!Spec
<1>3. Abstract!Spec => Abstract!NoPingPong
  BY AbstractAssumptions, Abstract!NoPingPongHolds
<1>4. [/\ last.dir = "up" /\ last'.dir = "down"
             => last.at - last'.at > Abstract!Reach("cpp") - Abstract!Leave("cpp"')
       /\ "cpp" # "simulation" /\ last.dir = "down" /\ last'.dir = "up"
             => last'.at - last.at
                  > [r \in {"cpp"} |-> Margin]["cpp"'] + [r \in {"cpp"} |-> Hysteresis]["cpp"']
                      - [r \in {"cpp"} |-> Margin]["cpp"]]_(Abstract!vars)
      => [/\ last.dir = "up" /\ last'.dir = "down"
                => last.at - last'.at > Decision!Reach("cpp") - Decision!Leave("cpp"')
          /\ "cpp" # "simulation" /\ last.dir = "down" /\ last'.dir = "up"
                => last'.at - last.at
                     > [r \in {"cpp"} |-> Margin]["cpp"'] + [r \in {"cpp"} |-> Hysteresis]["cpp"']
                         - [r \in {"cpp"} |-> Margin]["cpp"]]_(Decision!vars)
  <2>1. Abstract!Reach("cpp") = Decision!Reach("cpp")
    BY DEF Abstract!Reach, Decision!Reach
  <2>2. Abstract!Leave("cpp"') = Decision!Leave("cpp"')
    BY DEF Abstract!Leave, Decision!Leave
  <2> QED BY <2>1, <2>2 DEF Decision!vars, Abstract!vars
<1>5. Abstract!NoPingPong => Decision!NoPingPong
  BY <1>4, PTL DEF Abstract!NoPingPong, Decision!NoPingPong
<1> QED BY <1>1, <1>2, <1>3, <1>5 DEF AverageNoPingPong

=============================================================================
