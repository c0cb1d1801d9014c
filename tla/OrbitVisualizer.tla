-------------------------- MODULE OrbitVisualizer --------------------------
(***************************************************************************)
(* What the orbit visualizer keeps of the pass it shows                    *)
(* (python/dvbs2acm/orbit_visualizer_py.py), fed by the channel states of  *)
(* LeoChannel and the MODCODs of the controller.  The messages are handled *)
(* one after the other by the thread of the block; the drawing, which only *)
(* reads, is left out.                                                     *)
(***************************************************************************)
EXTENDS LeoChannel

CONSTANTS
    Modcods,      \* the MODCODs of the controller; the first shown is 1
    Early, Late,  \* a state is taken for the first of a pass when less than
                  \* Early / Scale of it is over and, with the last state shown,
                  \* more than Late / Scale of the pass was
    Scale,
    MaxTrail,     \* _MAX_TRAIL
    MaxLog,       \* length of the log of switches
    MaxModcods    \* bound on the messages of the controller

ASSUME VisualizerAssumption ==
    /\ 1 \in Modcods
    /\ Early \in Nat /\ Late \in Nat /\ Scale \in Nat \ {0} /\ Early =< Late /\ Late =< Scale
    /\ MaxTrail \in Nat \ {0} /\ MaxLog \in Nat \ {0} /\ MaxModcods \in Nat

VARIABLES
    current,   \* _current_mc_id of the block
    shown,     \* _mc_id of the window
    startMc,   \* _pass_start_mc
    log,       \* _switch_log
    trail,     \* _trail, the fraction of the pass of its elements
    passHistory,  \* _pass_history, as a set: it is plotted over pass_fraction; as a
                  \* bound, it is kept only as long as updates are Steady
    switches,  \* messages of the controller so far
    dropped    \* history variable: a switch of this pass has left the log

viewVars == <<current, shown, startMc, log, trail, passHistory, switches, dropped>>
vars == <<channelVars, viewVars>>

Init ==
    /\ LeoInit
    /\ current = 1 /\ shown = 1 /\ startMc = 1
    /\ log = <<>> /\ trail = <<>> /\ passHistory = {}
    /\ switches = 0 /\ dropped = FALSE

\* The longest time between two updates, given the calls so far.
Wait == Period - 1 + gap

\* Updates come often enough for one to fall into the first and into the last part
\* of each pass, and the model is not exchanged.
Steady ==
    /\ calls = 0
    /\ Wait * Scale < Early * 2 * half
    /\ (2 * half - Wait) * Scale > Late * 2 * half

HandleModcod(m) ==
    /\ switches < MaxModcods /\ m # current
    /\ switches' = switches + 1
    /\ current' = m
    /\ UNCHANGED <<channelVars, shown, startMc, log, trail, passHistory, dropped>>

\* seq with e added, and its oldest element dropped if it is longer than max then.
Pushed(seq, e, max) ==
    IF Len(seq) < max THEN Append(seq, e) ELSE Append(Tail(seq), e)

\* The state is early in its pass, and the last one shown was late in its own.
NewPass(s) ==
    LET last == trail[Len(trail)] IN
    /\ trail # <<>>
    /\ s.at * Scale < Early * s.of
    /\ last.at * Scale > Late * last.of

\* Slip: a switch is logged with the MODCOD left.
Logged_Left == shown

Logged == current

\* _handle_channel_state and push_state, for a state that is in view, as all
\* published ones are.
Show ==
    /\ inbox # <<>>
    /\ LET s     == Head(inbox)
           new   == NewPass(s)
           entry == [at |-> s.at, of |-> s.of, pass |-> s.pass, mc |-> current]
           olds(seq) == IF new THEN <<>> ELSE seq
       IN  /\ trail' = Pushed(olds(trail), [at |-> s.at, of |-> s.of], MaxTrail)
           /\ passHistory' = IF ~Steady THEN {} ELSE {entry} \cup IF new THEN {} ELSE passHistory
           /\ startMc' = IF new THEN current ELSE startMc
           /\ log' = IF current = shown THEN olds(log)
                     ELSE Pushed(olds(log), [at |-> s.at, of |-> s.of, mc |-> Logged], MaxLog)
           /\ dropped' = /\ ~new
                         /\ dropped \/ (current # shown /\ Len(log) = MaxLog)
    /\ shown' = current
    /\ inbox' = Tail(inbox)
    /\ UNCHANGED <<half, t, since, started, work, caller, calls, pass, gap, current, switches>>

Next ==
    \/ WorkStep /\ UNCHANGED viewVars
    \/ CallerStep /\ UNCHANGED viewVars
    \/ \E m \in Modcods : HandleModcod(m)
    \/ Show

Spec == Init /\ [][Next]_vars

\* The scheduler goes on calling work and the handlers of messages.
FairSpec == Spec /\ WF_vars(WorkStep /\ UNCHANGED viewVars) /\ WF_vars(Show)

-----------------------------------------------------------------------------
State == [at : Int, of : Nat, pass : {0, 1}]
Entry == [at : Int, of : Nat, pass : {0, 1}, mc : Modcods]

\* Type invariant; the buffers of the window keep their bounds.
TypeOK ==
    /\ half \in Nat \ {0} /\ t \in Int /\ since \in Nat /\ started \in BOOLEAN
    /\ work \in [pc : {"idle", "advance", "check", "publish", "end", "restart", "store"},
                 gap : Nat, t : Int]
    /\ caller \in [pc : {"idle", "model", "reset"}, half : Nat \ {0}]
    /\ calls \in 0 .. MaxCalls /\ switches \in 0 .. MaxModcods
    /\ inbox \in Seq(State) /\ Len(inbox) =< MaxInbox
    /\ pass \in {0, 1} /\ gap \in Nat
    /\ current \in Modcods /\ shown \in Modcods /\ startMc \in Modcods
    /\ log \in Seq([at : Int, of : Nat, mc : Modcods]) /\ Len(log) =< MaxLog
    /\ trail \in Seq([at : Int, of : Nat]) /\ Len(trail) =< MaxTrail
    /\ passHistory \subseteq Entry /\ dropped \in BOOLEAN

\* Between two calls, of work and of setters, the clock is before the end of the
\* pass of the model in use, whatever reset was lost or model exchanged in the
\* middle of a call; and within the pass as long as no setter was called.
ClockInPass ==
    work.pc = "idle" /\ caller.pc = "idle" => t < half /\ (calls = 0 => -half =< t)

\* The MODCOD the bar of the pass shows at a state s: that of the last switch in
\* the log by then, startMc if there is none.
OnBar(s) ==
    LET before == {i \in DOMAIN log : log[i].at =< s.at}
    IN  IF before = {} THEN startMc
        ELSE log[CHOOSE i \in before : \A j \in before : j =< i].mc

\* As long as updates come often enough every new pass is noticed: the history that
\* is plotted is of one pass, and the bar drawn from the log of switches agrees with
\* it, unless the log has overflown.
BarMatchesHistory ==
    Steady => \A e \in passHistory :
        /\ \A f \in passHistory : e.pass = f.pass
        /\ ~dropped => OnBar(e) = e.mc

\* Channel states keep coming, pass after pass, whatever the setters do.
StatesKeepComing == []<>(work.pc = "publish")

=============================================================================
