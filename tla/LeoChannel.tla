----------------------------- MODULE LeoChannel -----------------------------
(***************************************************************************)
(* The clock of a satellite pass (python/dvbs2acm/leo_channel_gr_py.py).   *)
(* Two threads:                                                            *)
(*                                                                         *)
(*   work     called by the scheduler at any distance in time: advances    *)
(*            _t_sim by the wall clock, publishes a channel state when the *)
(*            last one is a period old and the satellite is in view, and   *)
(*            starts the next pass at the end of this one;                 *)
(*   caller   the runtime setters, which exchange the model and set the    *)
(*            clock back, without a lock.                                  *)
(*                                                                         *)
(* Time is counted in units of simulated time from the culmination, and a  *)
(* model is known by half the length of its pass.  Elevation, slant range, *)
(* Doppler, losses and fading are functions of these and of random numbers *)
(* and are left out, but for the elevation being too low outside the pass. *)
(***************************************************************************)
EXTENDS Integers, Sequences

CONSTANTS
    InitialHalf,  \* half_pass_s of the first model
    Halves,       \* half_pass_s of the models the setters make
    Period,       \* update_period_ms
    Gaps,         \* times between two calls of work
    MaxInbox,     \* bound on the published states that are not yet shown
    MaxCalls      \* bound on the calls of setters

ASSUME LeoAssumption ==
    /\ InitialHalf \in Nat \ {0} /\ Halves \subseteq Nat \ {0}
    /\ Period \in Nat \ {0} /\ Gaps \subseteq Nat \ {0}
    /\ MaxInbox \in Nat \ {0} /\ MaxCalls \in Nat

VARIABLES
    half,     \* half_pass_s of _model
    t,        \* _t_sim
    since,    \* time since _last_update_t
    started,  \* whether _last_wall_t is set
    work,     \* [pc, gap, t]: where the thread is, the time since the call before
              \* and the _t_sim it has loaded
    caller,   \* [pc, half]
    calls,    \* calls of setters so far
    inbox,    \* the states published and not yet shown: time since the start of
              \* the pass [at], length of the pass [of], and, as history, the pass
    pass,     \* history variable: changes with every pass
    gap       \* history variable: the longest time between two calls

channelVars == <<half, t, since, started, work, caller, calls, inbox, pass, gap>>

Largest(a, b) == IF a >= b THEN a ELSE b

LeoInit ==
    /\ half = InitialHalf /\ t = -InitialHalf
    /\ since = 0 /\ started = FALSE
    /\ work = [pc |-> "idle", gap |-> 0, t |-> 0]
    /\ caller = [pc |-> "idle", half |-> InitialHalf]
    /\ calls = 0 /\ inbox = <<>>
    /\ pass = 0 /\ gap = 0

Goto(pc) == work' = [work EXCEPT !.pc = pc]

-----------------------------------------------------------------------------
(***************************************************************************)
(* The scheduler's thread.                                                 *)
(***************************************************************************)
\* The first call only starts the clock.
ClockStart ==
    /\ work.pc = "idle" /\ ~started
    /\ started' = TRUE
    /\ Goto("check")
    /\ UNCHANGED <<half, t, since, caller, calls, inbox, pass, gap>>

Clock(d) ==
    /\ work.pc = "idle" /\ started /\ Len(inbox) < MaxInbox
    /\ since' = since + d
    /\ gap' = Largest(gap, d)
    /\ work' = [pc |-> "advance", gap |-> d, t |-> t]
    /\ UNCHANGED <<half, t, started, caller, calls, inbox, pass>>

Advance ==
    /\ work.pc = "advance"
    /\ t' = work.t + work.gap
    /\ Goto("check")
    /\ UNCHANGED <<half, since, started, caller, calls, inbox, pass, gap>>

\* elevation_at is zero from the lowest elevation on that is published.
InView == -half < t /\ t < half

\* Slip: every call counts as an update.
Check_Always ==
    /\ work.pc = "check"
    /\ since' = 0
    /\ Goto(IF since >= Period /\ InView THEN "publish" ELSE "end")
    /\ UNCHANGED <<half, t, started, caller, calls, inbox, pass, gap>>

\* The time of the update is set in view or not.
Check ==
    /\ work.pc = "check"
    /\ since' = IF since >= Period THEN 0 ELSE since
    /\ Goto(IF since >= Period /\ InView THEN "publish" ELSE "end")
    /\ UNCHANGED <<half, t, started, caller, calls, inbox, pass, gap>>

\* pass_fraction is computed from the model in use by now.
Publish ==
    /\ work.pc = "publish"
    /\ inbox' = Append(inbox, [at |-> t + half, of |-> 2 * half, pass |-> pass])
    /\ Goto("end")
    /\ UNCHANGED <<half, t, since, started, caller, calls, pass, gap>>

\* Slip: the end of the pass still belongs to it.
PassContinues_Over ==
    /\ work.pc = "end" /\ t =< half
    /\ Goto("idle")
    /\ UNCHANGED <<half, t, since, started, caller, calls, inbox, pass, gap>>

PassContinues ==
    /\ work.pc = "end" /\ t < half
    /\ Goto("idle")
    /\ UNCHANGED <<half, t, since, started, caller, calls, inbox, pass, gap>>

PassEnds ==
    /\ work.pc = "end" /\ t >= half
    /\ Goto("restart")
    /\ UNCHANGED <<half, t, since, started, caller, calls, inbox, pass, gap>>

RestartLoad ==
    /\ work.pc = "restart"
    /\ work' = [work EXCEPT !.pc = "store", !.t = -half]
    /\ UNCHANGED <<half, t, since, started, caller, calls, inbox, pass, gap>>

\* The comment says "force next work() to update state"; the assignment makes the
\* next update wait for a whole period.
RestartStore ==
    /\ work.pc = "store"
    /\ t' = work.t /\ since' = 0 /\ pass' = 1 - pass
    /\ Goto("idle")
    /\ UNCHANGED <<half, started, caller, calls, inbox, gap>>

WorkStep ==
    \/ ClockStart \/ \E d \in Gaps : Clock(d)
    \/ Advance \/ Check \/ Publish \/ PassContinues \/ PassEnds
    \/ RestartLoad \/ RestartStore

-----------------------------------------------------------------------------
(***************************************************************************)
(* The setters.  _rebuild_model ends in an exception, after the last of    *)
(* these assignments.                                                      *)
(***************************************************************************)
Call(h) ==
    /\ caller.pc = "idle" /\ calls < MaxCalls
    /\ calls' = calls + 1
    /\ caller' = [pc |-> "model", half |-> h]
    /\ UNCHANGED <<half, t, since, started, work, inbox, pass, gap>>

RebuildModel ==
    /\ caller.pc = "model"
    /\ half' = caller.half
    /\ caller' = [caller EXCEPT !.pc = "reset"]
    /\ UNCHANGED <<t, since, started, work, calls, inbox, pass, gap>>

ResetTime ==
    /\ caller.pc = "reset"
    /\ t' = -half /\ pass' = 1 - pass
    /\ caller' = [caller EXCEPT !.pc = "idle"]
    /\ UNCHANGED <<half, since, started, work, calls, inbox, gap>>

CallerStep == (\E h \in Halves : Call(h)) \/ RebuildModel \/ ResetTime

=============================================================================
