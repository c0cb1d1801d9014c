--------------------------- MODULE AcmControllerPy ---------------------------
(***************************************************************************)
(* The Python block acm_controller (python/dvbs2acm/acm_controller_py.py), *)
(* the one the flowgraphs run, with the AI engine it asks over ZMQ         *)
(* (AcmAIEngine.run in acm_controller_ai.py).                              *)
(*                                                                         *)
(*   - The block's message thread handles snr_in and channel_state_in      *)
(*     messages one at a time; channel_state_in messages end in a call of  *)
(*     the SNR handler.                                                    *)
(*   - The GUI thread calls force_modcod and set_acm_mode in between.      *)
(*   - With use_ai the handler asks the engine on a REQ socket, waits for  *)
(*     at most 200 ms, and on a timeout drops the socket and applies its   *)
(*     own rule.  The engine is another process: it answers late, dies and *)
(*     is started again.                                                   *)
(*                                                                         *)
(* A step of a thread ends before its next access to current_modcod or     *)
(* acm_mode, which the two threads share.                                  *)
(*                                                                         *)
(* Abstractions: the exponential smoothing moves the smoothed SNR to some  *)
(* level between its value and the sample; the engine may answer with any  *)
(* MODCOD (its policy is learned); the fields that only travel to the      *)
(* engine, the counters and the statistics are left out.                   *)
(***************************************************************************)
EXTENDS ModcodTable, Sequences

CONSTANTS
    UseAi,          \* use_ai
    InitialModcod,  \* initial_modcod
    Margin,         \* snr_margin_db
    Hysteresis,     \* hysteresis_db
    Levels,         \* the SNRs of messages, and of the smoothed SNR
    ForceTargets,   \* the arguments of force_modcod, any integers
    MaxMessages,    \* bound on the messages of a behaviour
    MaxCalls,       \* bound on the calls of force_modcod and set_acm_mode
    MaxCrashes      \* bound on the crashes of the engine

Modes == {"ACM", "VCM", "CCM"}

\* elevation_deg of a channel_state message: not above 0, up to 0.5, above 0.5.
Elevations == {"below", "horizon", "up"}

ASSUME ControllerAssumption ==
    /\ UseAi \in BOOLEAN
    /\ InitialModcod \in ModcodIds
    /\ Levels \subseteq Int /\ Levels # {}
    /\ ForceTargets \subseteq Int
    /\ MaxMessages \in Nat /\ MaxCalls \in Nat /\ MaxCrashes \in Nat

ASSUME MarginAssumption == Margin \in Nat /\ Hysteresis \in Nat

\* What current_modcod can be: force_modcod checks nothing.
Held == ModcodIds \union ForceTargets

\* MODCOD_TABLE[m - 1] in Python: an index below 0 counts from the end of the
\* table, and only one beyond either end raises an IndexError.
Indexed(m) == m \in 1 - N .. N
Row(m) == IF m \in ModcodIds THEN m ELSE m + N

VARIABLES
    modcod,      \* current_modcod
    mode,        \* acm_mode
    prev,        \* _prev_modcod
    seeded,      \* _smoothed_snr_db is not None
    smoothed,    \* _smoothed_snr_db
    suppressed,  \* _ch_elevation_deg > 0.5, which silences the IQ estimates
    modcodOut,   \* the last MODCOD sent on modcod_out, or the configured one
    handler,     \* the message thread: [pc, source, snr, thresh, new], where
                 \* source is what the message came from, snr the smoothed SNR
                 \* it decides on, thresh the row that current_thresh is from;
                 \* pc is "dead" when an exception has ended the thread
    sock,        \* _zmq_sock: 0 is None, else the number of the message at which
                 \* it was opened
    inbox,       \* requests on their way to the engine: sequence of [sock, id, held],
                 \* held being the current_modcod they carry
    replies,     \* replies the open socket has received: sequence of [id, modcod]
    engine,      \* [pc, req]: "down", "recv" or "busy" with req
    messages, calls, crashes,   \* what is left of the three bounds
    last,        \* history variable: the last change the rule made, as in AcmDecision
    kind,        \* history variable: who made the pending selection
    raced,       \* history variable: force_modcod came during the handling
    touched,     \* history variable: it came since the block stored a selection
    late         \* history variable: selections of rule or engine committed
                 \* since set_acm_mode(CCM)

link == <<sock, inbox, replies, engine>>
bounds == <<messages, calls, crashes>>
ghosts == <<last, kind, raced, touched, late>>
vars == <<modcod, mode, prev, seeded, smoothed, suppressed, modcodOut, handler, link, bounds,
          ghosts>>

NoRequest == [sock |-> 0, id |-> 0, held |-> InitialModcod]

\* The number of the message being handled.
Message == MaxMessages - messages

Init ==
    /\ modcod = InitialModcod
    /\ mode \in Modes
    /\ prev = InitialModcod
    /\ seeded = FALSE
    /\ smoothed \in Levels
    /\ suppressed = TRUE
    /\ modcodOut = InitialModcod
    /\ handler = [pc |-> "idle", source |-> "iq", snr |-> smoothed,
                  thresh |-> InitialModcod, new |-> InitialModcod]
    /\ sock = 0
    /\ inbox = <<>>
    /\ replies = <<>>
    /\ engine = [pc |-> "recv", req |-> NoRequest]
    /\ messages = MaxMessages /\ calls = MaxCalls /\ crashes = MaxCrashes
    /\ last = NoChange
    /\ kind = "ccm"
    /\ raced = FALSE
    /\ touched = FALSE
    /\ late = 0

-----------------------------------------------------------------------------
(***************************************************************************)
(* Messages.  A message that cannot be parsed changes nothing.             *)
(***************************************************************************)
Delivered == handler.pc = "idle" /\ messages > 0

\* What the smoothing can make of the smoothed SNR x and a sample s.
Between(x, s) == {l \in Levels : (x =< l /\ l =< s) \/ (s =< l /\ l =< x)}

\* The sample is taken: the first one seeds the filter.
Accept(s, source) ==
    \E l \in (IF seeded THEN Between(smoothed, s) ELSE {s}) :
        /\ seeded' = TRUE
        /\ smoothed' = l
        /\ handler' = [handler EXCEPT !.pc = "select", !.source = source, !.snr = l]
        /\ raced' = FALSE

\* A report of acm_feedback: dropped while the LEO channel is in view.
ReceiveFeedback(s) ==
    /\ Delivered
    /\ messages' = messages - 1
    /\ IF suppressed THEN UNCHANGED <<seeded, smoothed, handler, raced>> ELSE Accept(s, "iq")
    /\ UNCHANGED <<modcod, mode, prev, suppressed, modcodOut, link, calls, crashes, last, kind,
                   touched, late>>

\* A bare number, or a pair with one, is never suppressed.
ReceiveNumber(s) ==
    /\ Delivered
    /\ messages' = messages - 1
    /\ Accept(s, "iq")
    /\ UNCHANGED <<modcod, mode, prev, suppressed, modcodOut, link, calls, crashes, last, kind,
                   touched, late>>

\* A channel_state message of a satellite in view; others are ignored.
ReceiveChannelState(s, el) ==
    /\ Delivered
    /\ messages' = messages - 1
    /\ IF el = "below" THEN UNCHANGED <<suppressed, seeded, smoothed, handler, raced>>
       ELSE suppressed' = (el = "up") /\ Accept(s, "leo")
    /\ UNCHANGED <<modcod, mode, prev, modcodOut, link, calls, crashes, last, kind, touched,
                   late>>

-----------------------------------------------------------------------------
(***************************************************************************)
(* _select_modcod.                                                         *)
(***************************************************************************)
InHandler(pc) == handler.pc = pc

\* The handler goes on to pc, with m selected by k.
Selected(m, k) ==
    /\ handler' = [handler EXCEPT !.pc = "compare", !.new = m]
    /\ kind' = k

\* The handler raises an exception.  _handle_channel_state catches it; the handler
\* of snr_in does not, and the block's thread ends with it.
Raise == handler' = [handler EXCEPT !.pc = IF handler.source = "leo" THEN "idle" ELSE "dead"]

Unmoved == UNCHANGED <<modcod, mode, prev, seeded, smoothed, suppressed, modcodOut, bounds>>

\* In CCM the selection is the MODCOD held.
SelectCcm ==
    /\ InHandler("select") /\ mode = "CCM"
    /\ Selected(modcod, "ccm")
    /\ Unmoved /\ UNCHANGED <<link, last, raced, touched, late>>

\* Slip: the mode is not tested.
SelectOther_AnyMode ==
    /\ InHandler("select")
    /\ handler' = [handler EXCEPT !.pc = IF UseAi THEN "query" ELSE "thresh"]
    /\ Unmoved /\ UNCHANGED <<link, ghosts>>

SelectOther ==
    /\ InHandler("select") /\ mode # "CCM"
    /\ handler' = [handler EXCEPT !.pc = IF UseAi THEN "query" ELSE "thresh"]
    /\ Unmoved /\ UNCHANGED <<link, ghosts>>

\* The rule reads current_modcod up to four times: for the threshold, for each
\* of the two comparisons, and to return it.
RuleThresh ==
    /\ InHandler("thresh")
    /\ IF Indexed(modcod) THEN handler' = [handler EXCEPT !.pc = "up", !.thresh = Row(modcod)]
       ELSE Raise
    /\ Unmoved /\ UNCHANGED <<link, ghosts>>

Desired == select_modcod_for_snr(handler.snr, Margin)

\* Slip: an upgrade without the hysteresis.
RuleUp_NoHysteresis ==
    /\ InHandler("up")
    /\ IF Desired > modcod THEN Selected(Desired, "rule")
       ELSE handler' = [handler EXCEPT !.pc = "down"] /\ UNCHANGED kind
    /\ Unmoved /\ UNCHANGED <<link, last, raced, touched, late>>

RuleUp ==
    /\ InHandler("up")
    /\ IF Desired > modcod
       THEN IF handler.snr >= Threshold[Desired] + Margin + Hysteresis
            THEN Selected(Desired, "rule")
            ELSE handler' = [handler EXCEPT !.pc = "keep"] /\ UNCHANGED kind
       ELSE handler' = [handler EXCEPT !.pc = "down"] /\ UNCHANGED kind
    /\ Unmoved /\ UNCHANGED <<link, last, raced, touched, late>>

RuleDown ==
    /\ InHandler("down")
    /\ IF Desired < modcod /\ handler.snr < Threshold[handler.thresh] + Margin - Hysteresis
       THEN Selected(Desired, "rule")
       ELSE handler' = [handler EXCEPT !.pc = "keep"] /\ UNCHANGED kind
    /\ Unmoved /\ UNCHANGED <<link, last, raced, touched, late>>

RuleKeep ==
    /\ InHandler("keep")
    /\ Selected(modcod, "rule")
    /\ Unmoved /\ UNCHANGED <<link, last, raced, touched, late>>

-----------------------------------------------------------------------------
(***************************************************************************)
(* _query_ai.                                                              *)
(***************************************************************************)
Query ==
    /\ InHandler("query")
    /\ sock' = IF sock = 0 THEN Message ELSE sock
    /\ inbox' = Append(inbox, [sock |-> sock', id |-> Message, held |-> modcod])
    /\ handler' = [handler EXCEPT !.pc = "await"]
    /\ Unmoved /\ UNCHANGED <<replies, engine, ghosts>>

TakeReply ==
    /\ InHandler("await") /\ replies # <<>>
    /\ Selected(Head(replies).modcod, "ai")
    /\ replies' = Tail(replies)
    /\ Unmoved /\ UNCHANGED <<sock, inbox, engine, last, raced, touched, late>>

\* Slip: the socket is kept after a timeout.
TimeOut_KeepSocket ==
    /\ InHandler("await")
    /\ handler' = [handler EXCEPT !.pc = "thresh"]
    /\ Unmoved /\ UNCHANGED <<link, ghosts>>

\* Slip: RCVTIMEO is not set.
TimeOut_Never == FALSE /\ UNCHANGED vars

\* 200 ms without a reply, or a failure of the transport.  The socket goes, and
\* with it every reply to it; its request may still reach the engine.
TimeOut ==
    /\ InHandler("await")
    /\ sock' = 0
    /\ replies' = <<>>
    /\ handler' = [handler EXCEPT !.pc = "thresh"]
    /\ Unmoved /\ UNCHANGED <<inbox, engine, ghosts>>

-----------------------------------------------------------------------------
(***************************************************************************)
(* The rest of _handle_snr.                                                *)
(***************************************************************************)
\* Slip: the selection is stored without being looked up in the table.
Compare_Unchecked ==
    /\ InHandler("compare")
    /\ handler' = [handler EXCEPT !.pc = IF handler.new # prev THEN "commit" ELSE "stats"]
    /\ Unmoved /\ UNCHANGED <<link, ghosts>>

\* The selection is compared with the MODCOD published last; get_modcod raises
\* a ValueError for one outside the table before anything is stored.
Compare ==
    /\ InHandler("compare")
    /\ CASE handler.new = prev -> handler' = [handler EXCEPT !.pc = "stats"]
         [] handler.new # prev /\ handler.new \in ModcodIds ->
                handler' = [handler EXCEPT !.pc = "commit"]
         [] OTHER -> Raise
    /\ Unmoved /\ UNCHANGED <<link, ghosts>>

\* Slip: _prev_modcod is not updated.
Commit_PrevForgotten ==
    /\ InHandler("commit")
    /\ modcod' = handler.new
    /\ last' = IF kind = "rule" /\ ~raced /\ modcod \in ModcodIds
               THEN RecordChange(last, modcod, handler.new, handler.snr) ELSE NoChange
    /\ late' = IF kind # "ccm" /\ mode = "CCM" THEN late + 1 ELSE late
    /\ touched' = FALSE
    /\ handler' = [handler EXCEPT !.pc = "publish"]
    /\ UNCHANGED <<mode, prev, seeded, smoothed, suppressed, modcodOut, link, bounds, kind, raced>>

\* Both under the lock.  The history variable counts the store as a decision of
\* the rule when nobody forced a MODCOD in between and it started from a MODCOD of
\* the table.
Commit ==
    /\ InHandler("commit")
    /\ modcod' = handler.new
    /\ prev' = handler.new
    /\ last' = IF kind = "rule" /\ ~raced /\ modcod \in ModcodIds
               THEN RecordChange(last, modcod, handler.new, handler.snr) ELSE NoChange
    /\ late' = IF kind # "ccm" /\ mode = "CCM" THEN late + 1 ELSE late
    /\ touched' = FALSE
    /\ handler' = [handler EXCEPT !.pc = "publish"]
    /\ UNCHANGED <<mode, seeded, smoothed, suppressed, modcodOut, link, bounds, kind, raced>>

Publish ==
    /\ InHandler("publish")
    /\ modcodOut' = handler.new
    /\ handler' = [handler EXCEPT !.pc = "idle"]
    /\ UNCHANGED <<modcod, mode, prev, seeded, smoothed, suppressed, link, bounds, ghosts>>

\* Without a change the selection is published again with the statistics, that
\* is when those are due (at most once per second).
Stats(due) ==
    /\ InHandler("stats")
    /\ modcodOut' = IF due THEN handler.new ELSE modcodOut
    /\ handler' = [handler EXCEPT !.pc = "idle"]
    /\ UNCHANGED <<modcod, mode, prev, seeded, smoothed, suppressed, link, bounds, ghosts>>

HandlerStep ==
    \/ SelectCcm \/ SelectOther
    \/ RuleThresh \/ RuleUp \/ RuleDown \/ RuleKeep
    \/ Query \/ TakeReply \/ TimeOut
    \/ Compare \/ Commit \/ Publish
    \/ \E due \in BOOLEAN : Stats(due)

-----------------------------------------------------------------------------
(***************************************************************************)
(* The GUI thread.                                                         *)
(***************************************************************************)
\* force_modcod changes current_modcod and nothing else.
ForceModcod(m) ==
    /\ calls > 0
    /\ calls' = calls - 1
    /\ modcod' = m
    /\ raced' = TRUE
    /\ touched' = TRUE
    /\ last' = NoChange
    /\ UNCHANGED <<mode, prev, seeded, smoothed, suppressed, modcodOut, handler, link, messages,
                   crashes, kind, late>>

SetMode(m) ==
    /\ calls > 0
    /\ calls' = calls - 1
    /\ mode' = m
    /\ late' = 0
    /\ UNCHANGED <<modcod, prev, seeded, smoothed, suppressed, modcodOut, handler, link, messages,
                   crashes, last, kind, raced, touched>>

-----------------------------------------------------------------------------
(***************************************************************************)
(* The engine: one request at a time, in the order they arrive.            *)
(***************************************************************************)
Engineless == UNCHANGED <<modcod, mode, prev, seeded, smoothed, suppressed, modcodOut, handler,
                          sock, messages, calls, ghosts>>

EngineReceive ==
    /\ engine.pc = "recv" /\ inbox # <<>>
    /\ engine' = [pc |-> "busy", req |-> Head(inbox)]
    /\ inbox' = Tail(inbox)
    /\ Engineless /\ UNCHANGED <<replies, crashes>>

\* The engine looks the MODCOD of the request up in its own table, with the same
\* indexing, and may answer with it.  A reply to a socket that is gone is discarded.
EngineReply(m) ==
    /\ engine.pc = "busy" /\ Indexed(engine.req.held)
    /\ engine' = [pc |-> "recv", req |-> NoRequest]
    /\ replies' = IF engine.req.sock = sock
                  THEN Append(replies, [id |-> engine.req.id, modcod |-> m]) ELSE replies
    /\ Engineless /\ UNCHANGED <<inbox, crashes>>

\* The requests that had reached the engine are lost with it.
EngineGone ==
    /\ engine' = [pc |-> "down", req |-> NoRequest]
    /\ \E k \in 0 .. Len(inbox) : inbox' = SubSeq(inbox, k + 1, Len(inbox))
    /\ Engineless /\ UNCHANGED replies

\* Nothing catches the IndexError of a request with a MODCOD beyond the table.
EngineFail ==
    /\ engine.pc = "busy" /\ ~Indexed(engine.req.held)
    /\ EngineGone /\ UNCHANGED crashes

EngineCrash ==
    /\ engine.pc # "down" /\ crashes > 0
    /\ crashes' = crashes - 1
    /\ EngineGone

EngineStart ==
    /\ engine.pc = "down"
    /\ engine' = [pc |-> "recv", req |-> NoRequest]
    /\ Engineless /\ UNCHANGED <<inbox, replies, crashes>>

EngineStep ==
    \/ EngineReceive \/ EngineFail \/ EngineCrash \/ EngineStart
    \/ \E m \in ModcodIds \union {engine.req.held} : EngineReply(m)

-----------------------------------------------------------------------------
Next ==
    \/ \E s \in Levels : ReceiveFeedback(s) \/ ReceiveNumber(s)
    \/ \E s \in Levels, el \in Elevations : ReceiveChannelState(s, el)
    \/ HandlerStep
    \/ \E m \in ForceTargets : ForceModcod(m)
    \/ \E m \in Modes : SetMode(m)
    \/ EngineStep

Spec == Init /\ [][Next]_vars

\* A handler that has started runs to its end.  Nothing is assumed of the
\* engine: it may be slow, or down for good.
FairSpec == Spec /\ WF_vars(HandlerStep)

-----------------------------------------------------------------------------
\* Type invariant.  Only MODCODs of the table are published, and compared with what
\* is selected, although current_modcod is whatever the GUI forces, the requests
\* carry it and the engine may answer with it.
TypeOK ==
    /\ modcod \in Held /\ prev \in ModcodIds /\ modcodOut \in ModcodIds
    /\ mode \in Modes
    /\ seeded \in BOOLEAN /\ suppressed \in BOOLEAN
    /\ raced \in BOOLEAN /\ touched \in BOOLEAN
    /\ smoothed \in Levels
    /\ handler \in [pc : {"idle", "select", "thresh", "up", "down", "keep", "query", "await",
                          "compare", "commit", "publish", "stats", "dead"},
                    source : {"iq", "leo"}, snr : Levels, thresh : ModcodIds, new : Held]
    /\ handler.pc \in {"commit", "publish", "stats"} => handler.new \in ModcodIds
    /\ sock \in 0 .. MaxMessages
    /\ inbox \in Seq([sock : 0 .. MaxMessages, id : 0 .. MaxMessages, held : Held])
    /\ replies \in Seq([id : 0 .. MaxMessages, modcod : Held])
    /\ engine \in [pc : {"down", "recv", "busy"},
                   req : [sock : 0 .. MaxMessages, id : 0 .. MaxMessages, held : Held]]
    /\ messages \in 0 .. MaxMessages /\ calls \in 0 .. MaxCalls /\ crashes \in 0 .. MaxCrashes
    /\ last \in [dir : {"none", "up", "down"}, at : Int]
    /\ kind \in {"ccm", "rule", "ai"}
    /\ late \in Nat

\* The transmitter is told of everything but what is forced: as long as force_modcod
\* has not been called since the block stored a selection of its own, the MODCOD it
\* holds is the one it published last, however many selections were compared with
\* _prev_modcod, timed out or were repeated with the statistics meanwhile.
DriftOnlyByForce == handler.pc # "publish" /\ ~touched => modcodOut = modcod

\* The engine's answer that a handler takes is the answer to the request it
\* made, however many earlier requests timed out, are still queued at the engine
\* or are answered late.
ReplyIsFresh == handler.pc = "await" /\ replies # <<>> => Head(replies).id = Message

\* set_acm_mode(CCM) stops the adaptation: the selection that was under way may
\* still be stored, also when the engine answers it after the call, and no more.
CcmSticks == mode = "CCM" => late =< 1

\* As long as the MODCOD held is one of the table, a message is handled to its end,
\* in the time-out if the engine is slow, restarting or gone, so that the messages
\* behind it are not held up.
HandlerReturns ==
    [](modcod \in ModcodIds) => (handler.pc # "idle" ~> handler.pc = "idle")

\* "Always publish immediately on MODCOD change": when a handler finds that it
\* has nothing to publish, the transmitter has the MODCOD the controller holds
\* (but for one forced during the handling).
HeldIsPublished == handler.pc = "stats" /\ ~raced => modcodOut = modcod

\* The docstring of _handle_channel_state: the channel state "Does NOT drive
\* MODCOD selection".
IqDrivesDecisions == handler.pc = "commit" => handler.source = "iq"

-----------------------------------------------------------------------------
(***************************************************************************)
(* The block implements AcmDecision with the Python rule on the smoothed   *)
(* SNR; what the engine decides is an Override there, and so is a store    *)
(* that races with force_modcod.  While the block holds a number outside   *)
(* the table, the abstract controller holds the MODCOD selected last.      *)
(***************************************************************************)
Acting == IF modcod \in ModcodIds THEN modcod ELSE prev

Decision == INSTANCE AcmDecision WITH
                Rules <- {"python"}, rule <- "python", by <- "python",
                Margin <- [r \in {"python"} |-> Margin],
                Hysteresis <- [r \in {"python"} |-> Hysteresis],
                modcod <- Acting, snr <- handler.snr

\* Whatever the threads do, the block holds what the rule made of the smoothed
\* SNR, what the engine answered or what it was forced to.
ImplementsDecision == Decision!Spec

=============================================================================
