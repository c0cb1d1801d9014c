-------------------------- MODULE AcmControllerCpp --------------------------
(***************************************************************************)
(* The C++ block acm_controller (lib/acm_controller_impl.cc).  Four        *)
(* threads touch it:                                                       *)
(*   - the block's message thread runs handle_snr_msg, one message at a    *)
(*     time (channel_state_in messages are forwarded to the same handler); *)
(*   - with use_ai, the thread ai_communication_thread decides on its own, *)
(*     woken by a condition variable or every 100 ms;                      *)
(*   - a caller (GUI, Python binding) runs force_modcod and set_acm_mode;  *)
(*   - the thread that destroys the block joins the AI thread.             *)
(* A step is what a thread does between two accesses to state it shares:   *)
(* the atomics, the history under d_history_mutex, the plain d_acm_mode.   *)
(*                                                                         *)
(* Left out: the counters total_frames and modcod_switches and the         *)
(* statistics messages that carry them (nothing reads them back), and      *)
(* d_current_snr_db, which only the statistics show.                       *)
(***************************************************************************)
EXTENDS ModcodTable, Functions

CONSTANTS
    InitialModcod,  \* initial_modcod
    HistoryLen,     \* history_len
    Margin,         \* snr_margin_db
    Hysteresis,     \* hysteresis_db
    SnrLevels,      \* the SNRs a message can carry
    ForceTargets,   \* the arguments force_modcod is called with
    MaxMessages,    \* bound on the messages of a behaviour
    MaxCalls        \* bound on the calls of force_modcod and set_acm_mode

Modes == {"CCM", "VCM", "ACM"}

\* The units of SNR are fine enough for every average to be an integer.
Samples == SnrLevels \union {Threshold[InitialModcod]}

ASSUME ControllerAssumption ==
    /\ InitialModcod \in ModcodIds
    /\ HistoryLen \in Nat \ {0}
    /\ SnrLevels \subseteq Int
    /\ \A s \in Samples : s % HistoryLen = 0
    /\ ForceTargets \subseteq Nat
    /\ MaxMessages \in Nat
    /\ MaxCalls \in Nat

ASSUME MarginAssumption == Margin \in Nat /\ Hysteresis \in Nat

VARIABLES
    modcod,         \* d_current_modcod
    mode,           \* d_acm_mode
    forced,         \* d_forced_modcod
    history,        \* d_snr_history
    running,        \* d_ai_running
    modcodOut,      \* the last MODCOD sent on PORT_MODCOD_OUT, or the one the
                    \* transmitter was configured with
    handler,        \* the message thread: [pc, avg, old, new], its program point
                    \* and its locals avg_snr, old_modcod and new_modcod
    ai,             \* the AI thread: [pc, avg, old, new], likewise
    woken,          \* a notification reached the waiting AI thread
    caller,         \* the caller: [pc, arg]
    dtor,           \* the destructor: "alive", "notify", "join", "gone"
    messages, calls,\* what is left of the two bounds
    decided,        \* history variable: the last MODCOD a rule committed
    last,           \* history variable: the last change a rule made, as in AcmDecision
    locked,         \* history variable: the last SNR message was of a locked receiver
    under           \* history variable: the overrides in force ever since the handler
                    \* took up its message, and since the AI thread woke up

shared == <<modcod, mode, forced, history, running, modcodOut>>
threads == <<handler, ai, woken, caller, dtor>>
ghosts == <<decided, last, locked, under>>
vars == <<shared, threads, messages, calls, ghosts>>

Average(w) == SumFunction(w) \div HistoryLen

\* d_use_ai: there is an AI thread.  It is set once, by the constructor.
UseAi == ai.pc # "off"

\* average_snr
AverageSnr == Average(history)

\* The averages a history can have.  They are integers; the provers cannot show
\* that of a fold, so it is assumed (and evaluated in every run).
Averages == {Average(w) : w \in [1 .. HistoryLen -> Samples]}

ASSUME AveragesAssumption ==
    /\ Averages \subseteq Int
    /\ Threshold[InitialModcod] \in Averages

\* What the block's rule answers.
Decided(avg, current) == compute_modcod_with_hysteresis(avg, current, Margin, Hysteresis)

\* A manual override is in force.
Overridden == mode = "CCM" \/ forced

\* The overrides in force: the mode, the flag, and the one or the other.
InForce ==
    {o \in {"ccm", "forced", "either"} :
        CASE o = "ccm"    -> mode = "CCM"
          [] o = "forced" -> forced
          [] o = "either" -> Overridden}

Init ==
    /\ modcod = InitialModcod
    /\ mode \in Modes
    /\ forced = FALSE
    /\ history = [i \in 1 .. HistoryLen |-> Threshold[InitialModcod]]
    /\ modcodOut = InitialModcod
    /\ handler = [pc |-> "idle", avg |-> Threshold[InitialModcod],
                   old |-> InitialModcod, new |-> InitialModcod]
    /\ ai \in [pc : {"off", "check"}, avg : {Threshold[InitialModcod]},
               old : {InitialModcod}, new : {InitialModcod}]
    /\ running = UseAi
    /\ woken = FALSE
    /\ caller = [pc |-> "idle", arg |-> InitialModcod]
    /\ dtor = "alive"
    /\ messages = MaxMessages
    /\ calls = MaxCalls
    /\ decided = InitialModcod
    /\ last = NoChange
    /\ locked = TRUE
    /\ under = [t \in {"handler", "ai"} |-> {}]

\* Thread t stores the MODCOD it decided on.  When another store has come
\* between its read of d_current_modcod and this one, the store counts as an
\* override of that other one, not as a change that the rule made.
CommitRule(t) ==
    /\ modcod' = t.new
    /\ decided' = t.new
    /\ last' = IF modcod = t.old THEN RecordChange(last, t.old, t.new, t.avg) ELSE NoChange
    /\ UNCHANGED <<locked, under>>

-----------------------------------------------------------------------------
(***************************************************************************)
(* The message thread.                                                     *)
(***************************************************************************)
Delivered == handler.pc = "idle" /\ dtor = "alive" /\ messages > 0

\* No lock: the fallback branch, which looks neither at the mode nor at the
\* override.  It returns at once when MODCOD 1 is already held.
ReceiveUnlocked ==
    /\ Delivered
    /\ messages' = messages - 1
    /\ handler' = [handler EXCEPT !.pc = IF modcod # 1 THEN "fallback" ELSE "idle"]
    /\ locked' = FALSE
    /\ under' = [under EXCEPT !.handler = InForce]
    /\ UNCHANGED <<shared, ai, woken, caller, dtor, calls, decided, last>>

\* The fallback sends statistics, and nothing on PORT_MODCOD_OUT.
Fallback ==
    /\ handler.pc = "fallback"
    /\ modcod' = 1
    /\ last' = NoChange
    /\ handler' = [handler EXCEPT !.pc = "idle"]
    /\ UNCHANGED <<mode, forced, history, running, modcodOut, ai, woken, caller, dtor,
                   messages, calls, decided, locked, under>>

\* Locked: the sample enters the history and the oldest one leaves it.
ReceiveLocked(s) ==
    /\ Delivered
    /\ messages' = messages - 1
    /\ history' = [i \in 1 .. HistoryLen |-> IF i = HistoryLen THEN s ELSE history[i + 1]]
    /\ handler' = [handler EXCEPT !.pc = "mode"]
    /\ locked' = TRUE
    /\ under' = [under EXCEPT !.handler = InForce]
    /\ UNCHANGED <<modcod, mode, forced, running, modcodOut, ai, woken, caller, dtor,
                   calls, decided, last>>

\* A channel_state message is forwarded as a locked SNR message.
ReceiveChannelState(s) == ReceiveLocked(s)

\* The test of line 158 reads d_acm_mode, then d_forced_modcod.
TestMode ==
    /\ handler.pc = "mode"
    /\ handler' = [handler EXCEPT !.pc = IF mode = "CCM" THEN "idle" ELSE "forced"]
    /\ UNCHANGED <<shared, ai, woken, caller, dtor, messages, calls, ghosts>>

\* Slip: the override is not looked at.
TestForced_Skipped ==
    /\ handler.pc = "forced"
    /\ handler' = [handler EXCEPT !.pc = "decide"]
    /\ UNCHANGED <<shared, ai, woken, caller, dtor, messages, calls, ghosts>>

TestForced ==
    /\ handler.pc = "forced"
    /\ handler' = [handler EXCEPT !.pc = IF forced THEN "idle" ELSE "decide"]
    /\ UNCHANGED <<shared, ai, woken, caller, dtor, messages, calls, ghosts>>

\* With use_ai the decision is left to the AI thread.
NotifyAi ==
    /\ handler.pc = "decide" /\ UseAi
    /\ woken' = (woken \/ ai.pc = "waiting")
    /\ handler' = [handler EXCEPT !.pc = "idle"]
    /\ UNCHANGED <<shared, ai, caller, dtor, messages, calls, ghosts>>

\* The rule reads the average and the MODCOD; the store comes later.
Decide ==
    /\ handler.pc = "decide" /\ ~UseAi
    /\ LET new == Decided(AverageSnr, modcod)
       IN  handler' = [pc |-> IF new # modcod THEN "commit" ELSE "idle",
                       avg |-> AverageSnr, old |-> modcod, new |-> new]
    /\ UNCHANGED <<shared, ai, woken, caller, dtor, messages, calls, ghosts>>

Commit ==
    /\ handler.pc = "commit"
    /\ CommitRule(handler)
    /\ handler' = [handler EXCEPT !.pc = "publish"]
    /\ UNCHANGED <<mode, forced, history, running, modcodOut, ai, woken, caller, dtor,
                   messages, calls>>

Publish ==
    /\ handler.pc = "publish"
    /\ modcodOut' = handler.new
    /\ handler' = [handler EXCEPT !.pc = "idle"]
    /\ UNCHANGED <<modcod, mode, forced, history, running, ai, woken, caller, dtor,
                   messages, calls, ghosts>>

HandlerStep ==
    Fallback \/ TestMode \/ TestForced \/ NotifyAi \/ Decide \/ Commit \/ Publish

-----------------------------------------------------------------------------
(***************************************************************************)
(* The AI thread.                                                          *)
(***************************************************************************)
\* while (d_ai_running)
AiCheck ==
    /\ ai.pc = "check"
    /\ ai' = [ai EXCEPT !.pc = IF running THEN "enter" ELSE "done"]
    /\ UNCHANGED <<shared, handler, woken, caller, dtor, messages, calls, ghosts>>

\* wait_for releases d_ai_mutex; a notification sent before this is lost.
AiEnterWait ==
    /\ ai.pc = "enter"
    /\ ai' = [ai EXCEPT !.pc = "waiting"]
    /\ UNCHANGED <<shared, handler, woken, caller, dtor, messages, calls, ghosts>>

AiNotified ==
    /\ ai.pc = "waiting" /\ woken
    /\ ai' = [ai EXCEPT !.pc = "awake"]
    /\ woken' = FALSE
    /\ under' = [under EXCEPT !.ai = InForce]
    /\ UNCHANGED <<shared, handler, caller, dtor, messages, calls, decided, last, locked>>

\* Slip: wait instead of wait_for.
AiTimeout_Never == FALSE /\ UNCHANGED vars

\* The 100 ms are over (or the wake-up is a spurious one).
AiTimeout ==
    /\ ai.pc = "waiting"
    /\ ai' = [ai EXCEPT !.pc = "awake"]
    /\ woken' = FALSE
    /\ under' = [under EXCEPT !.ai = InForce]
    /\ UNCHANGED <<shared, handler, caller, dtor, messages, calls, decided, last, locked>>

\* Neither the mode nor the override is looked at.
AiSample ==
    /\ ai.pc = "awake"
    /\ ai' = IF running THEN [ai EXCEPT !.pc = "load", !.avg = AverageSnr]
             ELSE [ai EXCEPT !.pc = "done"]
    /\ UNCHANGED <<shared, handler, woken, caller, dtor, messages, calls, ghosts>>

\* Slip: the table is consulted without the hysteresis.
AiLoad_NoHysteresis ==
    /\ ai.pc = "load"
    /\ LET new == select_modcod_for_snr(ai.avg, Margin)
       IN  ai' = [ai EXCEPT !.pc = IF new # modcod THEN "store" ELSE "check",
                            !.old = modcod, !.new = new]
    /\ UNCHANGED <<shared, handler, woken, caller, dtor, messages, calls, ghosts>>

AiLoad ==
    /\ ai.pc = "load"
    /\ LET new == Decided(ai.avg, modcod)
       IN  ai' = [ai EXCEPT !.pc = IF new # modcod THEN "store" ELSE "check",
                            !.old = modcod, !.new = new]
    /\ UNCHANGED <<shared, handler, woken, caller, dtor, messages, calls, ghosts>>

AiStore ==
    /\ ai.pc = "store"
    /\ CommitRule(ai)
    /\ ai' = [ai EXCEPT !.pc = "publish"]
    /\ UNCHANGED <<mode, forced, history, running, modcodOut, handler, woken, caller, dtor,
                   messages, calls>>

\* Slip: a stale local goes out instead of the recommendation.
AiPublish_Stale ==
    /\ ai.pc = "publish"
    /\ modcodOut' = handler.new
    /\ ai' = [ai EXCEPT !.pc = "check"]
    /\ UNCHANGED <<modcod, mode, forced, history, running, handler, woken, caller, dtor,
                   messages, calls, ghosts>>

AiPublish ==
    /\ ai.pc = "publish"
    /\ modcodOut' = ai.new
    /\ ai' = [ai EXCEPT !.pc = "check"]
    /\ UNCHANGED <<modcod, mode, forced, history, running, handler, woken, caller, dtor,
                   messages, calls, ghosts>>

AiStep ==
    \/ AiCheck \/ AiEnterWait \/ AiNotified \/ AiTimeout
    \/ AiSample \/ AiLoad \/ AiStore \/ AiPublish

-----------------------------------------------------------------------------
(***************************************************************************)
(* The caller of the public functions.                                     *)
(***************************************************************************)
Calls == caller.pc = "idle" /\ dtor = "alive" /\ calls > 0

\* Slip: the range of the argument is not checked.
ForceModcod_Unchecked(m) ==
    /\ Calls
    /\ calls' = calls - 1
    /\ forced' = TRUE
    /\ caller' = [pc |-> "store", arg |-> m]
    /\ UNCHANGED <<modcod, mode, history, running, modcodOut, handler, ai, woken, dtor,
                   messages, ghosts>>

\* force_modcod ignores an identifier outside the table; otherwise it raises
\* the flag, then stores the MODCOD.
ForceModcod(m) ==
    /\ Calls
    /\ m \in ModcodIds
    /\ calls' = calls - 1
    /\ forced' = TRUE
    /\ caller' = [pc |-> "store", arg |-> m]
    /\ UNCHANGED <<modcod, mode, history, running, modcodOut, handler, ai, woken, dtor,
                   messages, ghosts>>

ForceStore ==
    /\ caller.pc = "store"
    /\ modcod' = caller.arg
    /\ last' = NoChange
    /\ caller' = [caller EXCEPT !.pc = "idle"]
    /\ UNCHANGED <<mode, forced, history, running, modcodOut, handler, ai, woken, dtor,
                   messages, calls, decided, locked, under>>

\* What a call leaves in force for the threads that are at work.
KeepInForce == under' = [t \in {"handler", "ai"} |-> under[t] \intersect InForce']

\* set_acm_mode stores the mode; CCM then also ends a manual override.
SetMode(m) ==
    /\ Calls
    /\ calls' = calls - 1
    /\ mode' = m
    /\ caller' = [caller EXCEPT !.pc = IF m = "CCM" THEN "clear" ELSE "idle"]
    /\ UNCHANGED <<modcod, forced, history, running, modcodOut, handler, ai, woken, dtor,
                   messages, decided, last, locked>>
    /\ KeepInForce

ClearForced ==
    /\ caller.pc = "clear"
    /\ forced' = FALSE
    /\ caller' = [caller EXCEPT !.pc = "idle"]
    /\ UNCHANGED <<modcod, mode, history, running, modcodOut, handler, ai, woken, dtor,
                   messages, calls, decided, last, locked>>
    /\ KeepInForce

CallerStep == ForceStore \/ ClearForced

-----------------------------------------------------------------------------
(***************************************************************************)
(* The destructor.  The flowgraph has stopped by then: no handler and no   *)
(* call is under way.                                                      *)
(***************************************************************************)
Destroy ==
    /\ dtor = "alive" /\ handler.pc = "idle" /\ caller.pc = "idle"
    /\ running' = FALSE
    /\ dtor' = IF UseAi /\ running THEN "notify" ELSE "gone"
    /\ UNCHANGED <<modcod, mode, forced, history, modcodOut, handler, ai, woken, caller,
                   messages, calls, ghosts>>

\* notify_all, without d_ai_mutex.
DestroyNotify ==
    /\ dtor = "notify"
    /\ woken' = (woken \/ ai.pc = "waiting")
    /\ dtor' = "join"
    /\ UNCHANGED <<shared, handler, ai, caller, messages, calls, ghosts>>

Join ==
    /\ dtor = "join" /\ ai.pc = "done"
    /\ dtor' = "gone"
    /\ UNCHANGED <<shared, handler, ai, woken, caller, messages, calls, ghosts>>

DestructorStep == DestroyNotify \/ Join

-----------------------------------------------------------------------------
Next ==
    \/ ReceiveUnlocked
    \/ \E s \in SnrLevels : ReceiveLocked(s) \/ ReceiveChannelState(s)
    \/ HandlerStep
    \/ AiStep
    \/ \E m \in ForceTargets : ForceModcod(m)
    \/ \E m \in Modes : SetMode(m)
    \/ CallerStep
    \/ Destroy
    \/ DestructorStep

\* Every thread that has started a piece of work goes on with it: handlers and
\* calls run to their end, the AI thread and the destructor keep running.
Fairness ==
    /\ WF_vars(HandlerStep)
    /\ WF_vars(AiStep)
    /\ WF_vars(CallerStep)
    /\ WF_vars(DestructorStep)

Spec == Init /\ [][Next]_vars
FairSpec == Spec /\ Fairness

-----------------------------------------------------------------------------
\* Type invariant: only MODCODs of the table are held, decided or published,
\* also when force_modcod is called with a number outside it.
TypeOK ==
    /\ modcod \in ModcodIds
    /\ mode \in Modes
    /\ forced \in BOOLEAN
    /\ history \in [1 .. HistoryLen -> Samples]
    /\ running \in BOOLEAN
    /\ modcodOut \in ModcodIds
    /\ handler \in [pc : {"idle", "fallback", "mode", "forced", "decide", "commit", "publish"},
                    avg : Averages, old : ModcodIds, new : ModcodIds]
    /\ ai \in [pc : {"off", "check", "enter", "waiting", "awake", "load", "store", "publish",
                     "done"},
               avg : Averages, old : ModcodIds, new : ModcodIds]
    /\ woken \in BOOLEAN
    /\ caller \in [pc : {"idle", "store", "clear"}, arg : ModcodIds]
    /\ dtor \in {"alive", "notify", "join", "gone"}
    /\ messages \in 0 .. MaxMessages
    /\ calls \in 0 .. MaxCalls
    /\ decided \in ModcodIds
    /\ last \in [dir : {"none", "up", "down"}, at : Int]
    /\ locked \in BOOLEAN
    /\ under \in [{"handler", "ai"} -> SUBSET {"ccm", "forced", "either"}]

\* "In CCM mode, don't change MODCOD", and a manual override holds: the handler is not
\* about to store a decision of the rule when CCM, or the flag of force_modcod, has been
\* in force ever since it took up its message, whatever was called meanwhile.  (An
\* override that begins in the middle of a decision cannot stop it: the test is over.)
OverrideSticks ==
    handler.pc = "commit" => under["handler"] \intersect {"ccm", "forced"} = {}

\* The same of the AI thread, since it woke up.
AiHonoursOverride == ai.pc = "store" => under["ai"] \intersect {"ccm", "forced"} = {}

\* The same of a handler that has been overridden ever since, by the one or by the
\* other: the change from force_modcod to CCM does not let a decision through.
OverrideUnbroken == handler.pc = "commit" => "either" \notin under["handler"]

\* An override holds against the fallback too: a lost lock changes no MODCOD that CCM
\* mode or force_modcod has been holding since before the message came.
FallbackHonoursOverride == handler.pc = "fallback" => under["handler"] = {}

\* The transmitter is told of every decision and in their order: outside the
\* few instructions between store and publication, the last message on
\* PORT_MODCOD_OUT is the last decision.
PublishedLatest ==
    handler.pc # "publish" /\ ai.pc # "publish" => modcodOut = decided

\* The transmitter uses the MODCOD the controller holds whenever no thread is
\* in the middle of an operation.
TransmitterFollows ==
    handler.pc = "idle" /\ caller.pc = "idle" /\ ai.pc \in {"off", "waiting", "done"}
        => modcodOut = modcod

\* The destructor returns, although its notification can be lost.
DestructorReturns == dtor = "notify" ~> dtor = "gone"

\* The AI thread comes to rest: when the messages and calls are over, and neither an
\* override is in force nor the lock lost, the MODCOD held is in the end the rule's
\* answer for the history, whatever wake-ups were lost on the way.
AiSettles ==
    <>[](\/ ~UseAi \/ dtor # "alive" \/ Overridden \/ ~locked
         \/ Decided(AverageSnr, modcod) = modcod)

-----------------------------------------------------------------------------
(***************************************************************************)
(* The block implements AcmDecision with the C++ rule.  The SNR of the     *)
(* abstract controller is the average the deciding thread computed last,   *)
(* so that computing an average is a measurement there; the store of a     *)
(* decision is a Decide, every other store of the MODCOD an Override.      *)
(***************************************************************************)
DecidedOn == IF UseAi THEN ai.avg ELSE handler.avg

Decision == INSTANCE AcmDecision WITH
                Levels <- Averages, Rules <- {"cpp"}, rule <- "cpp", by <- "cpp",
                Margin <- [r \in {"cpp"} |-> Margin],
                Hysteresis <- [r \in {"cpp"} |-> Hysteresis], snr <- DecidedOn

\* Every behaviour of the block is one of the abstract controller: what it holds
\* follows from the averages it looked at and from the overrides alone, however
\* its threads interleave.
ImplementsDecision == Decision!Spec

\* The abstract controller's guarantee, for the block and its averages: a change
\* is taken back only after the average has left the dead band.
AverageNoPingPong == Decision!NoPingPong

=============================================================================
