----------------------- MODULE OrbitVisualizerProofs -----------------------
(***************************************************************************)
(* Proofs about the pass clock and the visualizer for all passes, periods  *)
(* and calls of setters: the type invariant with the bounds of the         *)
(* window's buffers, and that the clock stays in the pass although setters *)
(* exchange the model and lose resets in the middle of a call of work.     *)
(* And, as long as no setter is called and updates come often enough: each *)
(* new pass is noticed, and history and bar are of the same pass.          *)
(***************************************************************************)
EXTENDS OrbitVisualizer, SequenceTheorems, WellFoundedInduction, TLAPS

-----------------------------------------------------------------------------
\* The types of the clock.
ClockTypes ==
    /\ half \in Nat \ {0} /\ t \in Int /\ since \in Nat /\ started \in BOOLEAN
    /\ work \in [pc : {"idle", "advance", "check", "publish", "end", "restart", "store"},
                 gap : Nat, t : Int]
    /\ caller \in [pc : {"idle", "model", "reset"}, half : Nat \ {0}]
    /\ calls \in 0 .. MaxCalls
    /\ pass \in {0, 1} /\ gap \in Nat

\* Beside ClockInPass: it holds too while a setter has not exchanged the model yet;
\* a restart puts the clock before any pass's end; and without calls the time that
\* a thread has loaded is in the pass as well.
ClockInv ==
    /\ ClockTypes
    /\ work.pc = "idle" /\ caller.pc # "reset" => t < half
    /\ work.pc = "store" => work.t < 0
    /\ calls = 0 => /\ caller.pc = "idle" /\ -half =< t
                    /\ work.pc = "advance" => -half =< work.t
                    /\ work.pc = "store" => -half =< work.t

LEMMA ClockStarts == ASSUME LeoInit PROVE ClockInv
  <1>1. InitialHalf \in Nat /\ InitialHalf > 0 /\ MaxCalls \in Nat
    BY LeoAssumption
  <1>2. half = InitialHalf /\ t = -InitialHalf /\ work.pc = "idle" /\ caller.pc = "idle"
    BY DEF LeoInit
  <1>3. ClockTypes
    <2>1. t \in Int
      BY <1>1, <1>2
    <2>2. 0 \in 0 .. MaxCalls /\ half \in Nat \ {0} /\ 0 \in Int /\ 0 \in Nat
      BY <1>1, <1>2
    <2>3. /\ since = 0 /\ started = FALSE /\ calls = 0 /\ pass = 0 /\ gap = 0
          /\ work = [pc |-> "idle", gap |-> 0, t |-> 0]
          /\ caller = [pc |-> "idle", half |-> half]
      BY DEF LeoInit
    <2>4. work \in [pc : {"idle", "advance", "check", "publish", "end", "restart", "store"},
                    gap : Nat, t : Int]
      BY <2>3
    <2>5. caller \in [pc : {"idle", "model", "reset"}, half : Nat \ {0}]
      BY <2>2, <2>3
    <2>6. since \in Nat /\ gap \in Nat /\ pass \in {0, 1} /\ started \in BOOLEAN
      BY <2>3
    <2> QED BY <2>1, <2>2, <2>3, <2>4, <2>5, <2>6 DEF ClockTypes
  <1>4. t < half /\ -half =< t
    BY <1>1, <1>2
  <1> QED BY <1>2, <1>3, <1>4 DEF ClockInv

\* The scheduler's thread.
LEMMA WorkKeepsClock ==
    ASSUME ClockInv, WorkStep PROVE ClockInv'
  <1> USE DEF Goto, ClockInv, ClockTypes
  <1>1. CASE ClockStart
    BY <1>1 DEF ClockStart
  <1>2. ASSUME NEW d \in Gaps, Clock(d) PROVE ClockInv'
    <2>1. d \in Nat /\ d > 0 /\ since + d \in Nat
      BY LeoAssumption
    <2> QED BY <1>2, <2>1 DEF Clock, Largest
  <1>3. CASE Advance
    <2>1. t' = work.t + work.gap /\ work'.pc = "check" /\ work.pc = "advance"
      BY <1>3 DEF Advance
    <2> QED BY <1>3, <2>1 DEF Advance
  <1>4. CASE Check
    BY <1>4 DEF Check
  <1>5. CASE Publish
    BY <1>5 DEF Publish
  <1>6. CASE PassContinues
    BY <1>6 DEF PassContinues
  <1>7. CASE PassEnds
    BY <1>7 DEF PassEnds
  <1>8. CASE RestartLoad
    <2>1. half \in Nat /\ half > 0 /\ -half \in Int /\ -half < 0 /\ -half =< -half
      OBVIOUS
    <2>2. work' = [work EXCEPT !.pc = "store", !.t = -half]
      BY <1>8 DEF RestartLoad
    <2>3. work'.pc = "store" /\ work'.t = -half /\ work'.gap = work.gap
      BY <2>2
    <2>4. work' \in [pc : {"idle", "advance", "check", "publish", "end", "restart", "store"},
                     gap : Nat, t : Int]
      BY <2>1, <2>2
    <2> QED BY <1>8, <2>1, <2>3, <2>4 DEF RestartLoad
  <1>9. CASE RestartStore
    BY <1>9 DEF RestartStore
  <1> QED BY <1>1, <1>2, <1>3, <1>4, <1>5, <1>6, <1>7, <1>8, <1>9 DEF WorkStep

\* The setters.
LEMMA CallerKeepsClock ==
    ASSUME ClockInv, CallerStep PROVE ClockInv'
  <1> USE DEF ClockInv, ClockTypes
  <1>1. ASSUME NEW h \in Halves, Call(h) PROVE ClockInv'
    <2>1. h \in Nat \ {0} /\ calls + 1 \in 0 .. MaxCalls /\ calls + 1 # 0
      BY <1>1, LeoAssumption DEF Call
    <2> QED BY <1>1, <2>1 DEF Call
  <1>2. CASE RebuildModel
    BY <1>2 DEF RebuildModel
  <1>3. CASE ResetTime
    BY <1>3 DEF ResetTime
  <1> QED BY <1>1, <1>2, <1>3 DEF CallerStep

-----------------------------------------------------------------------------
\* A state is published by the call that found room for it.
ViewInv ==
    /\ inbox \in Seq(State) /\ Len(inbox) =< MaxInbox
    /\ work.pc \in {"advance", "check", "publish"} => Len(inbox) < MaxInbox
    /\ started = TRUE \/ (inbox = <<>> /\ work.pc = "idle")
    /\ switches \in 0 .. MaxModcods
    /\ current \in Modcods /\ shown \in Modcods /\ startMc \in Modcods
    /\ log \in Seq([at : Int, of : Nat, mc : Modcods]) /\ Len(log) =< MaxLog
    /\ trail \in Seq([at : Int, of : Nat]) /\ Len(trail) =< MaxTrail
    /\ passHistory \subseteq Entry /\ dropped \in BOOLEAN

IInv == ClockInv /\ ViewInv

\* A bounded buffer with one more element.
LEMMA PushedBounded ==
    ASSUME NEW S, NEW seq \in Seq(S), NEW e \in S, NEW max \in Nat \ {0}, Len(seq) =< max
    PROVE  Pushed(seq, e, max) \in Seq(S) /\ Len(Pushed(seq, e, max)) =< max
  <1>1. CASE Len(seq) < max
    <2>1. Append(seq, e) \in Seq(S) /\ Len(Append(seq, e)) = Len(seq) + 1 /\ Len(seq) \in Nat
      BY AppendProperties
    <2> QED BY <1>1, <2>1 DEF Pushed
  <1>2. CASE ~(Len(seq) < max)
    <2>1. Len(seq) = max /\ seq # <<>>
      BY <1>2
    <2>2. Tail(seq) \in Seq(S) /\ Len(Tail(seq)) = Len(seq) - 1
      BY <2>1, HeadTailProperties
    <2>3. Append(Tail(seq), e) \in Seq(S) /\ Len(Append(Tail(seq), e)) = Len(Tail(seq)) + 1
      BY <2>2, AppendProperties
    <2> QED BY <1>2, <2>1, <2>2, <2>3 DEF Pushed
  <1> QED BY <1>1, <1>2

LEMMA WorkKeepsView ==
    ASSUME IInv, WorkStep, UNCHANGED viewVars PROVE ViewInv'
  <1>1. /\ current' = current /\ shown' = shown /\ startMc' = startMc /\ log' = log
        /\ trail' = trail /\ passHistory' = passHistory /\ switches' = switches
        /\ dropped' = dropped
    BY DEF viewVars
  <1>2. CASE Publish
    <2> DEFINE s == [at |-> t + half, of |-> 2 * half, pass |-> pass]
    <2>1. s \in State
      <3>1. t + half \in Int /\ 2 * half \in Nat /\ pass \in {0, 1}
        BY DEF IInv, ClockInv, ClockTypes
      <3> QED BY <3>1 DEF State
    <2>2. inbox' = Append(inbox, s) /\ work.pc = "publish" /\ work'.pc = "end" /\ started' = started
      BY <1>2 DEF Publish, Goto, IInv, ClockInv, ClockTypes
    <2>3. inbox \in Seq(State) /\ Len(inbox) \in Nat /\ Len(inbox) < MaxInbox /\ MaxInbox \in Nat
      BY <2>2, LeoAssumption DEF IInv, ViewInv
    <2>4. inbox' \in Seq(State) /\ Len(inbox') = Len(inbox) + 1
      <3> HIDE DEF s
      <3> QED BY <2>1, <2>2, <2>3, AppendProperties
    <2>5. started = TRUE
      BY <2>2 DEF IInv, ViewInv
    <2> QED BY <1>1, <2>2, <2>3, <2>4, <2>5 DEF IInv, ViewInv
  <1>3. CASE ClockStart
    <2>1. inbox' = inbox /\ inbox = <<>> /\ started' = TRUE /\ Len(inbox) = 0
      BY <1>3 DEF ClockStart, IInv, ViewInv, ClockInv, ClockTypes
    <2>2. MaxInbox \in Nat /\ MaxInbox > 0
      BY LeoAssumption
    <2>3. Len(inbox') < MaxInbox
      BY <2>1, <2>2
    <2> QED BY <1>1, <2>1, <2>3 DEF IInv, ViewInv
  <1>4. ASSUME NEW d \in Gaps, Clock(d) PROVE ViewInv'
    BY <1>1, <1>4 DEF Clock, IInv, ViewInv
  <1>5. CASE Advance \/ Check \/ PassContinues \/ PassEnds \/ RestartLoad \/ RestartStore
    <2>1. /\ inbox' = inbox /\ started' = started /\ work.pc # "idle"
          /\ work'.pc \in {"advance", "check", "publish"}
                 => work.pc \in {"advance", "check", "publish"}
      BY <1>5 DEF Advance, Check, PassContinues, PassEnds, RestartLoad, RestartStore, Goto,
                  IInv, ClockInv, ClockTypes
    <2> QED BY <1>1, <2>1 DEF IInv, ViewInv
  <1> QED BY <1>2, <1>3, <1>4, <1>5 DEF WorkStep

LEMMA CallerKeepsView ==
    ASSUME IInv, CallerStep, UNCHANGED viewVars PROVE ViewInv'
  <1>1. inbox' = inbox /\ work' = work /\ started' = started
    BY DEF CallerStep, Call, RebuildModel, ResetTime
  <1> QED BY <1>1 DEF viewVars, IInv, ViewInv

LEMMA ShowKeepsView ==
    ASSUME IInv, Show PROVE ViewInv'
  <1> DEFINE s     == Head(inbox)
             new   == NewPass(s)
             entry == [at |-> s.at, of |-> s.of, pass |-> s.pass, mc |-> current]
             olds(seq) == IF new THEN <<>> ELSE seq
             switch == [at |-> s.at, of |-> s.of, mc |-> Logged]
             point == [at |-> s.at, of |-> s.of]
  <1>1. /\ inbox # <<>> /\ inbox \in Seq(State) /\ Len(inbox) \in Nat
        /\ current \in Modcods
        /\ MaxTrail \in Nat \ {0} /\ MaxLog \in Nat \ {0} /\ MaxInbox \in Nat
    BY VisualizerAssumption, LeoAssumption DEF Show, IInv, ViewInv
  <1>2. s \in State /\ Tail(inbox) \in Seq(State) /\ Len(Tail(inbox)) = Len(inbox) - 1
    BY <1>1, HeadTailProperties
  <1>3. /\ entry \in Entry /\ point \in [at : Int, of : Nat]
        /\ switch \in [at : Int, of : Nat, mc : Modcods]
    <2> HIDE DEF s
    <2> QED BY <1>1, <1>2 DEF State, Entry, Logged
  <1>4. /\ olds(trail) \in Seq([at : Int, of : Nat]) /\ Len(olds(trail)) =< MaxTrail
        /\ olds(log) \in Seq([at : Int, of : Nat, mc : Modcods]) /\ Len(olds(log)) =< MaxLog
    <2>1. CASE new
      BY <1>1, <2>1
    <2>2. CASE ~new
      <3> HIDE DEF new
      <3> QED BY <2>2 DEF IInv, ViewInv
    <2> QED BY <2>1, <2>2
  <1>5. /\ trail' = Pushed(olds(trail), point, MaxTrail)
        /\ passHistory' = IF ~Steady THEN {} ELSE {entry} \cup IF new THEN {} ELSE passHistory
        /\ startMc' = IF new THEN current ELSE startMc
        /\ log' = IF current = shown THEN olds(log) ELSE Pushed(olds(log), switch, MaxLog)
        /\ dropped' \in BOOLEAN /\ shown' = current /\ inbox' = Tail(inbox)
        /\ current' = current /\ switches' = switches /\ work' = work /\ started' = started
    BY DEF Show
  <1>6. inbox' \in Seq(State) /\ Len(inbox') =< MaxInbox /\ Len(inbox') < MaxInbox
    <2>1. Len(inbox) =< MaxInbox
      BY DEF IInv, ViewInv
    <2>2. Len(inbox') = Len(inbox) - 1 /\ inbox' \in Seq(State)
      BY <1>2, <1>5
    <2> QED BY ONLY <1>1, <2>1, <2>2
  <1>7. started' = TRUE
    BY <1>1, <1>5 DEF IInv, ViewInv
  <1>8. trail' \in Seq([at : Int, of : Nat]) /\ Len(trail') =< MaxTrail
    <2> HIDE DEF olds, point
    <2> QED BY <1>1, <1>3, <1>4, <1>5, PushedBounded
  <1>9. log' \in Seq([at : Int, of : Nat, mc : Modcods]) /\ Len(log') =< MaxLog
    <2> HIDE DEF olds, switch
    <2>1. /\ Pushed(olds(log), switch, MaxLog) \in Seq([at : Int, of : Nat, mc : Modcods])
          /\ Len(Pushed(olds(log), switch, MaxLog)) =< MaxLog
      BY <1>1, <1>3, <1>4, PushedBounded
    <2> QED BY <1>4, <1>5, <2>1
  <1>10. passHistory' \subseteq Entry
    <2> HIDE DEF entry, new
    <2> QED BY <1>3, <1>5 DEF IInv, ViewInv
  <1>11. startMc' \in Modcods
    <2> HIDE DEF new
    <2> QED BY <1>1, <1>5 DEF IInv, ViewInv
  <1> HIDE DEF new, entry, olds, switch, point
  <1> QED BY <1>1, <1>5, <1>6, <1>7, <1>8, <1>9, <1>10, <1>11 DEF IInv, ViewInv

-----------------------------------------------------------------------------
LEMMA Starts == Init => IInv
  <1> SUFFICES ASSUME Init PROVE IInv
    OBVIOUS
  <1>1. ClockInv
    BY ClockStarts DEF Init
  <1>2. ViewInv
    <2>1. /\ MaxInbox \in Nat /\ MaxInbox > 0 /\ MaxTrail \in Nat /\ MaxLog \in Nat
          /\ 1 \in Modcods /\ 0 \in 0 .. MaxModcods
      BY LeoAssumption, VisualizerAssumption
    <2>2. /\ inbox = <<>> /\ log = <<>> /\ trail = <<>> /\ passHistory = {}
          /\ work.pc = "idle" /\ switches = 0 /\ dropped = FALSE
          /\ current = 1 /\ shown = 1 /\ startMc = 1
      BY DEF Init, LeoInit
    <2> HIDE DEF Init
    <2>3. Len(inbox) = 0 /\ Len(log) = 0 /\ Len(trail) = 0
      BY <2>2
    <2>4. /\ inbox \in Seq(State) /\ trail \in Seq([at : Int, of : Nat])
          /\ log \in Seq([at : Int, of : Nat, mc : Modcods])
      BY <2>2
    <2>5. Len(inbox) < MaxInbox /\ Len(inbox) =< MaxInbox /\ Len(log) =< MaxLog /\ Len(trail) =< MaxTrail
      BY <2>1, <2>3
    <2>6. passHistory \subseteq Entry /\ dropped \in BOOLEAN /\ switches \in 0 .. MaxModcods
      BY <2>1, <2>2
    <2>7. current \in Modcods /\ shown \in Modcods /\ startMc \in Modcods
      BY <2>1, <2>2
    <2> QED BY <2>2, <2>4, <2>5, <2>6, <2>7 DEF ViewInv
  <1> QED BY <1>1, <1>2 DEF IInv

LEMMA StepKeeps == ASSUME IInv, [Next]_vars PROVE IInv'
  <1>1. CASE WorkStep /\ UNCHANGED viewVars
    BY <1>1, WorkKeepsClock, WorkKeepsView DEF IInv
  <1>2. CASE CallerStep /\ UNCHANGED viewVars
    BY <1>2, CallerKeepsClock, CallerKeepsView DEF IInv
  <1>3. ASSUME NEW m \in Modcods, HandleModcod(m) PROVE IInv'
    <2>1. UNCHANGED channelVars /\ switches + 1 \in 0 .. MaxModcods
      BY <1>3, VisualizerAssumption DEF HandleModcod, IInv, ViewInv
    <2>2. ClockInv'
      BY <2>1 DEF channelVars, IInv, ClockInv, ClockTypes
    <2>3. ViewInv'
      BY <1>3, <2>1 DEF HandleModcod, channelVars, IInv, ViewInv
    <2> QED BY <2>2, <2>3 DEF IInv
  <1>4. CASE Show
    <2>1. ClockInv'
      BY <1>4 DEF Show, IInv, ClockInv, ClockTypes
    <2> QED BY <1>4, <2>1, ShowKeepsView DEF IInv
  <1>5. CASE UNCHANGED vars
    BY <1>5 DEF vars, channelVars, viewVars, IInv, ClockInv, ClockTypes, ViewInv
  <1> QED BY <1>1, <1>2, <1>3, <1>4, <1>5 DEF Next

LEMMA Invariance == Spec => []IInv
  <1>1. Init => IInv
    BY Starts
  <1>2. IInv /\ [Next]_vars => IInv'
    BY StepKeeps
  <1> QED BY <1>1, <1>2, PTL DEF Spec

\* The types, and the bounds of what the window of the visualizer keeps, whatever
\* its length.
THEOREM TypeCorrect == Spec => []TypeOK
  <1>1. IInv => TypeOK
    BY DEF IInv, ClockInv, ClockTypes, ViewInv, TypeOK
  <1> QED BY <1>1, Invariance, PTL

\* Between calls the clock of the channel is in the pass, for passes of any length and
\* any number of calls of setters, each between any two steps of work.
THEOREM ClockStaysInPass == Spec => []ClockInPass
  <1>1. IInv => ClockInPass
    BY DEF IInv, ClockInv, ClockInPass
  <1> QED BY <1>1, Invariance, PTL

-----------------------------------------------------------------------------
(***************************************************************************)
(* The bar and the history.  While updates are Steady every pass is shown: *)
(* the first update of a pass is published early in it, the last one late. *)
(***************************************************************************)
H == 2 * half

\* A time since the start of a pass that NewPass takes for the first of it, and one
\* that it takes for the last.
First(x) == x * Scale < Early * H
Last(x) == x * Scale > Late * H

\* State b is published next after state a: later in the same pass, or as the first
\* of the next one.
Follows(a, b) ==
    \/ b.pass = a.pass /\ a.at < b.at
    \/ b.pass # a.pass /\ Last(a.at) /\ First(b.at)

\* The last state shown, p being its pass, and the last one published, with the start
\* of the pass for it when there is none.
LastShown(p) == [at |-> trail[Len(trail)].at, pass |-> p]

Latest(p) ==
    IF inbox # <<>> THEN [at |-> inbox[Len(inbox)].at, pass |-> inbox[Len(inbox)].pass]
    ELSE IF trail # <<>> THEN LastShown(p)
    ELSE [at |-> 0, pass |-> pass]

\* When the last update in this pass was, or the start of the pass.
Base(p) == IF Latest(p).pass = pass THEN Latest(p).at ELSE 0

\* The clock of the pass and the time since the last update run together, and the
\* latter never exceeds Wait.
Timing(p) ==
    /\ 0 =< Base(p)
    /\ Latest(p).pass # pass => Last(Latest(p).at)
    /\ work.pc = "idle" => t + half = Base(p) + since /\ since < Period
    /\ work.pc = "advance" => /\ work.t + half + work.gap = Base(p) + since
                              /\ since =< Wait
    /\ work.pc = "check" => t + half = Base(p) + since /\ since =< Wait
    /\ work.pc = "publish" => /\ since = 0 /\ t < half
                              /\ Base(p) < t + half /\ t + half =< Base(p) + Wait
    /\ work.pc = "end" => IF t < half THEN t + half = Base(p) + since /\ since < Period
                          ELSE t + half =< Base(p) + Wait
    /\ work.pc \in {"restart", "store"} => half =< t /\ t + half =< Base(p) + Wait
    /\ work.pc = "store" => work.t = -half

\* The states that wait to be shown.
Waiting(p) ==
    /\ \A i \in 1 .. Len(inbox) : inbox[i].of = H
    /\ trail # <<>> => trail[Len(trail)].of = H
    /\ \A i \in 1 .. Len(inbox) : i # 1 => Follows(inbox[i - 1], inbox[i])
    /\ trail # <<>> /\ inbox # <<>> => Follows(LastShown(p), inbox[1])

\* What is shown is of one pass, nothing of it is later than the last state shown, and
\* the bar agrees with the history.
Shown(p) ==
    /\ trail = <<>> => passHistory = {} /\ log = <<>>
    /\ \A e \in passHistory : e.pass = p /\ e.at =< trail[Len(trail)].at
    /\ \A i \in 1 .. Len(log) : log[i].at =< trail[Len(trail)].at
    /\ ~dropped => \A e \in passHistory : OnBar(e) = e.mc

\* The MODCOD shown is that at the end of the bar.
EndOfBar == shown = IF log = <<>> THEN startMc ELSE log[Len(log)].mc

PassInv ==
    /\ EndOfBar
    /\ Steady => \E p \in {0, 1} : Timing(p) /\ Waiting(p) /\ Shown(p)

LEMMA TimesGrow ==
    ASSUME NEW a \in Int, NEW b \in Int, NEW c \in Nat, a =< b
    PROVE  a * c =< b * c
<1>1. (b - a) * c >= 0
  OBVIOUS
<1>2. (b - a) * c = b * c - a * c /\ a * c \in Int /\ b * c \in Int
  OBVIOUS
<1> QED BY <1>1, <1>2

\* What Steady says: an update comes soon enough to be the first of a pass, and so
\* soon before the end as to be the last; and the two cannot be confused.
LEMMA SteadyMeans ==
    ASSUME IInv, Steady
    PROVE  /\ H \in Nat /\ Wait \in Nat /\ Wait < H /\ Period - 1 =< Wait
           /\ calls = 0 /\ caller.pc = "idle"
           /\ \A x \in Int : x =< Wait => First(x)
           /\ \A x \in Int : H =< x + Wait => Last(x)
           /\ \A x, y \in Int : First(x) /\ Last(y) => x < y
<1>1. /\ half \in Nat \ {0} /\ gap \in Nat /\ Period \in Nat \ {0}
      /\ Early \in Nat /\ Late \in Nat /\ Scale \in Nat \ {0} /\ Early =< Late /\ Late =< Scale
  BY LeoAssumption, VisualizerAssumption DEF IInv, ClockInv, ClockTypes
<1>2. H \in Nat /\ Wait \in Nat /\ Period - 1 =< Wait
  BY <1>1 DEF H, Wait
<1>3. calls = 0 /\ Wait * Scale < Early * H /\ (H - Wait) * Scale > Late * H
  BY <1>1, <1>2 DEF Steady, H
<1>4. caller.pc = "idle"
  BY <1>3 DEF IInv, ClockInv
<1> HIDE DEF H, Wait
<1>5. Early * H \in Nat /\ Late * H \in Nat /\ Scale * H \in Nat
  BY <1>1, <1>2
<1>6. Early * H =< Late * H /\ Late * H =< Scale * H
  BY <1>1, <1>2, TimesGrow
<1>7. Wait < H
  <2>1. SUFFICES ASSUME H =< Wait PROVE FALSE
    BY <1>2
  <2>2. H * Scale =< Wait * Scale
    BY <1>1, <1>2, <2>1, TimesGrow
  <2> QED BY <1>1, <1>2, <1>3, <1>5, <1>6, <2>2
<1>8. ASSUME NEW x \in Int, x =< Wait PROVE First(x)
  <2>1. x * Scale =< Wait * Scale
    BY <1>1, <1>2, <1>8, TimesGrow
  <2>2. x * Scale \in Int /\ Wait * Scale \in Int
    BY <1>1, <1>2
  <2> QED BY <1>3, <1>5, <2>1, <2>2 DEF First
<1>9. ASSUME NEW x \in Int, H =< x + Wait PROVE Last(x)
  <2>1. H - Wait \in Int /\ H - Wait =< x
    BY <1>2, <1>9
  <2>2. (H - Wait) * Scale =< x * Scale
    BY <1>1, <2>1, TimesGrow
  <2>3. x * Scale \in Int /\ (H - Wait) * Scale \in Int
    BY <1>1, <2>1
  <2> QED BY <1>3, <1>5, <2>2, <2>3 DEF Last
<1>10. ASSUME NEW x \in Int, NEW y \in Int, First(x), Last(y) PROVE x < y
  <2>1. SUFFICES ASSUME y =< x PROVE FALSE
    OBVIOUS
  <2>2. y * Scale =< x * Scale
    BY <1>1, <2>1, TimesGrow
  <2>3. y * Scale \in Int /\ x * Scale \in Int
    BY <1>1
  <2> QED BY <1>5, <1>6, <1>10, <2>2, <2>3 DEF First, Last
<1> QED BY <1>2, <1>3, <1>4, <1>7, <1>8, <1>9, <1>10

LEMMA BaseType ==
    ASSUME IInv, NEW p \in {0, 1}
    PROVE  /\ Latest(p).at \in Int /\ Latest(p).pass \in {0, 1} /\ Base(p) \in Int
           /\ Base(p) = IF Latest(p).pass = pass THEN Latest(p).at ELSE 0
           /\ trail # <<>> => trail[Len(trail)].at \in Int
<1>1. inbox # <<>> => inbox[Len(inbox)] \in State
  <2>1. inbox \in Seq(State)
    BY DEF IInv, ViewInv
  <2>2. inbox # <<>> => Len(inbox) \in 1 .. Len(inbox)
    BY <2>1
  <2> QED BY <2>1, <2>2, ElementOfSeq
<1>2. trail # <<>> => trail[Len(trail)] \in [at : Int, of : Nat]
  <2> DEFINE P == [at : Int, of : Nat]
  <2>1. trail \in Seq(P)
    BY DEF IInv, ViewInv
  <2> HIDE DEF P
  <2>2. trail # <<>> => Len(trail) \in 1 .. Len(trail)
    BY <2>1
  <2>3. trail # <<>> => trail[Len(trail)] \in P
    BY <2>1, <2>2, ElementOfSeq
  <2> QED BY <2>3 DEF P
<1>3. pass \in {0, 1}
  BY DEF IInv, ClockInv, ClockTypes
<1>4. Latest(p).at \in Int /\ Latest(p).pass \in {0, 1}
  <2>1. CASE inbox # <<>>
    BY <1>1, <2>1 DEF Latest, State
  <2>2. CASE inbox = <<>> /\ trail # <<>>
    BY <1>2, <2>2 DEF Latest, LastShown
  <2>3. CASE inbox = <<>> /\ trail = <<>>
    BY <1>3, <2>3 DEF Latest
  <2> QED BY <2>1, <2>2, <2>3
<1>5. Base(p) \in Int
  BY <1>4 DEF Base
<1> QED BY <1>2, <1>4, <1>5 DEF Base

-----------------------------------------------------------------------------
(***************************************************************************)
(* The bar.                                                                *)
(***************************************************************************)
\* OnBar as a function of the log.
BarOf(lg, first, x) ==
    LET before == {i \in DOMAIN lg : lg[i].at =< x}
    IN  IF before = {} THEN first
        ELSE lg[CHOOSE i \in before : \A j \in before : j =< i].mc

LEMMA OnBarIsBarOf ==
    ASSUME NEW s
    PROVE  OnBar(s) = BarOf(log, startMc, s.at) /\ OnBar(s)' = BarOf(log', startMc', s.at)
BY DEF OnBar, BarOf

\* A set of naturals with a bound has a greatest element.
LEMMA GreatestIndex ==
    ASSUME NEW n \in Nat, NEW S, S \subseteq 1 .. n, S # {}
    PROVE  \E m \in S : \A k \in S : k =< m
<1> DEFINE R == {ss \in Nat \X Nat : ss[1] < ss[2]}
           T == {k \in Nat : n - k \in S}
<1>1. IsWellFoundedOn(R, Nat)
  BY NatLessThanWellFounded DEF OpToRel
<1>2. \A m \in S : n - m \in T
  <2> TAKE m \in S
  <2>1. m \in 1 .. n
    OBVIOUS
  <2>2. n - m \in Nat /\ n - (n - m) = m
    BY <2>1
  <2> QED BY <2>2
<1>3. T \subseteq Nat /\ T # {}
  BY <1>2
<1>4. PICK x \in T : \A y \in T : <<y, x>> \notin R
  <2> HIDE DEF R, T
  <2> QED BY <1>1, <1>3, WFMin
<1>5. n - x \in S /\ x \in Nat
  OBVIOUS
<1>6. ASSUME NEW k \in S PROVE k =< n - x
  <2>1. n - k \in T /\ k \in 1 .. n
    BY <1>2
  <2>2. <<n - k, x>> \notin R
    <3> HIDE DEF R, T
    <3> QED BY <1>4, <2>1
  <2>3. n - k \in Nat /\ ~(n - k < x)
    BY <1>5, <2>1, <2>2
  <2> QED BY <1>5, <2>1, <2>3
<1> QED BY <1>5, <1>6

LEMMA LastBeforeIsOnBar ==
    ASSUME NEW lg, DOMAIN lg \subseteq Int, NEW first, NEW x, NEW i \in DOMAIN lg,
           lg[i].at =< x, \A j \in DOMAIN lg : lg[j].at =< x => j =< i
    PROVE  BarOf(lg, first, x) = lg[i].mc
<1> DEFINE before == {k \in DOMAIN lg : lg[k].at =< x}
           c == CHOOSE k \in before : \A j \in before : j =< k
<1>1. i \in before /\ \A j \in before : j =< i
  OBVIOUS
<1>2. c \in before /\ \A j \in before : j =< c
  BY <1>1
<1>3. \A k \in before : k \in Int
  OBVIOUS
<1>4. before # {} /\ BarOf(lg, first, x) = lg[c].mc
  BY <1>1 DEF BarOf
<1>5. c =< i /\ i =< c
  <2> HIDE DEF before, c
  <2> QED BY <1>1, <1>2
<1>6. c \in Int /\ i \in Int
  <2> HIDE DEF c
  <2> QED BY <1>2, <1>3
<1>7. c = i
  <2> HIDE DEF before, c
  <2> QED BY <1>5, <1>6
<1> QED BY <1>4, <1>7

\* A log that ends by x.
LEMMA LastIsOnBar ==
    ASSUME NEW lg, NEW n \in Nat \ {0}, DOMAIN lg = 1 .. n, NEW first, NEW x, lg[n].at =< x
    PROVE  BarOf(lg, first, x) = lg[n].mc
<1>1. DOMAIN lg \subseteq Int /\ n \in DOMAIN lg
  OBVIOUS
<1>2. \A j \in DOMAIN lg : lg[j].at =< x => j =< n
  OBVIOUS
<1>3. lg[n].at =< x
  OBVIOUS
<1> QED BY ONLY <1>1, <1>2, <1>3, LastBeforeIsOnBar

LEMMA NothingBeforeOnBar ==
    ASSUME NEW lg, NEW first, NEW x, \A j \in DOMAIN lg : ~(lg[j].at =< x)
    PROVE  BarOf(lg, first, x) = first
BY DEF BarOf

\* A later switch does not change the bar before it.
LEMMA LaterSwitch ==
    ASSUME NEW S, NEW lg \in Seq(S), NEW e \in S, NEW first, NEW x, ~(e.at =< x)
    PROVE  BarOf(Append(lg, e), first, x) = BarOf(lg, first, x)
<1> DEFINE n == Len(lg)
           l2 == Append(lg, e)
           before == {k \in 1 .. n : lg[k].at =< x}
<1>1. n \in Nat /\ DOMAIN lg = 1 .. n /\ DOMAIN l2 = 1 .. n + 1
  OBVIOUS
<1>2. l2[n + 1] = e /\ \A k \in 1 .. n : l2[k] = lg[k]
  OBVIOUS
<1>3. \A k \in 1 .. n + 1 : k \in 1 .. n \/ k = n + 1
  BY <1>1
<1>4. \A k \in 1 .. n : k \in 1 .. n + 1
  BY <1>1
<1> HIDE DEF n, l2
<1>5. CASE before = {}
  <2>1. \A k \in 1 .. n : ~(lg[k].at =< x)
    BY <1>5
  <2>2. \A k \in 1 .. n + 1 : ~(l2[k].at =< x)
    BY <1>2, <1>3, <2>1
  <2>3. BarOf(lg, first, x) = first
    BY <1>1, <2>1, NothingBeforeOnBar
  <2>4. BarOf(l2, first, x) = first
    <3>1. \A j \in DOMAIN l2 : ~(l2[j].at =< x)
      BY <1>1, <2>2
    <3> QED BY ONLY <3>1, NothingBeforeOnBar
  <2> QED BY <2>3, <2>4 DEF l2
<1>6. CASE before # {}
  <2>1. PICK i \in before : \A j \in before : j =< i
    BY <1>1, <1>6, GreatestIndex
  <2>2. i \in 1 .. n /\ lg[i].at =< x /\ \A j \in 1 .. n : lg[j].at =< x => j =< i
    BY <2>1
  <2>3. n + 1 \in Nat /\ i \in 1 .. n + 1 /\ l2[i] = lg[i]
    BY <1>1, <1>2, <1>4, <2>2
  <2>4. \A j \in 1 .. n + 1 : l2[j].at =< x => j =< i
    BY <1>2, <1>3, <2>2
  <2>5. BarOf(lg, first, x) = lg[i].mc
    <3>1. DOMAIN lg \subseteq Int /\ i \in DOMAIN lg
      BY <1>1, <2>2
    <3>2. lg[i].at =< x
      BY <2>2
    <3>3. \A j \in DOMAIN lg : lg[j].at =< x => j =< i
      BY <1>1, <2>2
    <3> QED BY ONLY <3>1, <3>2, <3>3, LastBeforeIsOnBar
  <2>6. BarOf(l2, first, x) = l2[i].mc
    <3>1. DOMAIN l2 \subseteq Int /\ i \in DOMAIN l2
      BY <1>1, <2>3
    <3>2. l2[i].at =< x
      BY <2>2, <2>3
    <3>3. \A j \in DOMAIN l2 : l2[j].at =< x => j =< i
      BY <1>1, <2>4
    <3> QED BY ONLY <3>1, <3>2, <3>3, LastBeforeIsOnBar
  <2> QED BY <2>3, <2>5, <2>6 DEF l2
<1> QED BY <1>5, <1>6

-----------------------------------------------------------------------------
\* A step that publishes and shows nothing.
LEMMA NothingPublished ==
    ASSUME NEW p \in {0, 1}, UNCHANGED viewVars, UNCHANGED <<inbox, half>>,
           Waiting(p), Shown(p)
    PROVE  /\ Waiting(p)' /\ Shown(p)'
           /\ pass' = pass => Latest(p)' = Latest(p) /\ Base(p)' = Base(p)
<1>1. /\ inbox' = inbox /\ half' = half /\ trail' = trail /\ log' = log /\ startMc' = startMc
      /\ passHistory' = passHistory /\ dropped' = dropped
  BY DEF viewVars
<1>2. Waiting(p)'
  BY <1>1 DEF Waiting, Follows, First, Last, H, LastShown
<1>3. Shown(p)'
  <2>1. \A s : OnBar(s)' = OnBar(s)
    BY <1>1, OnBarIsBarOf
  <2> QED BY <1>1, <2>1 DEF Shown
<1>4. pass' = pass => Latest(p)' = Latest(p) /\ Base(p)' = Base(p)
  BY <1>1 DEF Latest, Base, LastShown
<1> QED BY <1>2, <1>3, <1>4

-----------------------------------------------------------------------------
(***************************************************************************)
(* The steps of the clock.                                                 *)
(***************************************************************************)
\* Once updates are not Steady they never are again.
LEMMA SteadyBefore ==
    ASSUME IInv, WorkStep, Steady'
    PROVE  Steady /\ Wait \in Nat /\ Wait =< Wait' /\ half' = half
<1>1. /\ calls' = calls /\ half' = half /\ half \in Nat /\ gap \in Nat /\ gap' \in Nat
      /\ gap =< gap'
  <2>1. \A d \in Gaps : d \in Nat
    BY LeoAssumption
  <2> QED BY <2>1 DEF WorkStep, ClockStart, Clock, Advance, Check, Publish, PassContinues, PassEnds,
                      RestartLoad, RestartStore, Largest, IInv, ClockInv, ClockTypes
<1>2. Wait \in Nat /\ Wait' \in Nat /\ Wait =< Wait'
  <2>1. \A q \in Nat \ {0}, a, b \in Nat :
           a =< b => q - 1 + a \in Nat /\ q - 1 + b \in Nat /\ q - 1 + a =< q - 1 + b
    OBVIOUS
  <2>2. Period \in Nat \ {0}
    BY LeoAssumption
  <2>3. Wait = Period - 1 + gap /\ Wait' = Period - 1 + gap'
    BY DEF Wait
  <2> QED BY ONLY <1>1, <2>1, <2>2, <2>3
<1>3. Scale \in Nat /\ 2 * half \in Nat /\ Early * 2 * half \in Nat /\ Late * 2 * half \in Nat
  BY <1>1, VisualizerAssumption
<1>4. /\ Wait * Scale =< Wait' * Scale
      /\ (2 * half - Wait') * Scale =< (2 * half - Wait) * Scale
  <2> HIDE DEF Wait
  <2>1. 2 * half - Wait' \in Int /\ 2 * half - Wait \in Int /\ 2 * half - Wait' =< 2 * half - Wait
    BY <1>2, <1>3
  <2>2. Wait \in Int /\ Wait' \in Int
    BY <1>2
  <2>3. Wait * Scale =< Wait' * Scale
    BY <1>2, <1>3, <2>2, TimesGrow
  <2> QED BY <1>3, <2>1, <2>3, TimesGrow
<1>5. /\ Wait * Scale \in Int /\ Wait' * Scale \in Int
      /\ (2 * half - Wait') * Scale \in Int /\ (2 * half - Wait) * Scale \in Int
  BY <1>2, <1>3
<1>6. calls = 0 /\ Wait' * Scale < Early * 2 * half /\ (2 * half - Wait') * Scale > Late * 2 * half
  BY <1>1 DEF Steady
<1>7. Steady
  <2> HIDE DEF Wait
  <2> QED BY <1>3, <1>4, <1>5, <1>6 DEF Steady
<1> QED BY <1>1, <1>2, <1>7

\* A step of work that publishes nothing and does not restart.
LEMMA QuietStep ==
    ASSUME IInv, WorkStep, UNCHANGED viewVars, UNCHANGED <<inbox, pass>>, Steady',
           NEW p \in {0, 1}, Timing(p), Waiting(p), Shown(p),
           NEW b \in Int, b = Base(p),
           /\ work'.pc = "idle" => t' + half = b + since' /\ since' < Period
           /\ work'.pc = "advance" => work'.t + half + work'.gap = b + since' /\ since' =< Wait'
           /\ work'.pc = "check" => t' + half = b + since' /\ since' =< Wait'
           /\ work'.pc = "publish" => /\ since' = 0 /\ t' < half
                                      /\ b < t' + half /\ t' + half =< b + Wait'
           /\ work'.pc = "end" => IF t' < half THEN t' + half = b + since' /\ since' < Period
                                  ELSE t' + half =< b + Wait'
           /\ work'.pc \in {"restart", "store"} => half =< t' /\ t' + half =< b + Wait'
           /\ work'.pc = "store" => work'.t = -half
    PROVE  Timing(p)' /\ Waiting(p)' /\ Shown(p)'
<1>1. half' = half
  BY SteadyBefore
<1>2. Waiting(p)' /\ Shown(p)' /\ Latest(p)' = Latest(p) /\ Base(p)' = b
  BY <1>1, NothingPublished
<1>3. Last(Latest(p).at)' = Last(Latest(p).at)
  BY <1>1, <1>2 DEF Last, H
<1>4. Latest(p)'.pass # pass' => Last(Latest(p).at)'
  BY <1>2, <1>3 DEF Timing
<1>5. Timing(p)'
  BY <1>1, <1>2, <1>4 DEF Timing
<1> QED BY <1>2, <1>5

LEMMA QuietStepsKeep ==
    ASSUME IInv, WorkStep, ~Publish, ~RestartStore, UNCHANGED viewVars, Steady',
           NEW p \in {0, 1}, Timing(p), Waiting(p), Shown(p)
    PROVE  Timing(p)' /\ Waiting(p)' /\ Shown(p)'
<1> DEFINE b == Base(p)
<1>1. b \in Int
  BY BaseType
<1>2. /\ Steady /\ Wait \in Nat /\ Wait =< Wait' /\ Wait' \in Nat
      /\ half' = half /\ Period \in Nat /\ Period - 1 =< Wait
  <2>1. Steady /\ Wait \in Nat /\ Wait =< Wait' /\ half' = half
    BY SteadyBefore
  <2>2. gap' \in Nat
    BY LeoAssumption DEF WorkStep, ClockStart, Clock, Advance, Check, Publish, PassContinues,
                         PassEnds, RestartLoad, RestartStore, Largest, IInv, ClockInv, ClockTypes
  <2>3. \A q \in Nat \ {0}, a \in Nat : q - 1 + a \in Nat
    OBVIOUS
  <2>4. Wait' \in Nat
    BY <2>2, <2>3, LeoAssumption DEF Wait
  <2> QED BY <2>1, <2>4, SteadyMeans, LeoAssumption
<1>3. /\ half \in Nat \ {0} /\ t \in Int /\ since \in Nat /\ gap \in Nat
      /\ work \in [pc : {"idle", "advance", "check", "publish", "end", "restart", "store"},
                   gap : Nat, t : Int]
  BY DEF IInv, ClockInv, ClockTypes
<1> HIDE DEF b
<1>4. /\ 0 =< b
      /\ work.pc = "idle" => t + half = b + since /\ since < Period
      /\ work.pc = "advance" => work.t + half + work.gap = b + since /\ since =< Wait
      /\ work.pc = "check" => t + half = b + since /\ since =< Wait
      /\ work.pc = "end" => IF t < half THEN t + half = b + since /\ since < Period
                            ELSE t + half =< b + Wait
      /\ work.pc \in {"restart", "store"} => half =< t /\ t + half =< b + Wait
  BY DEF Timing, b
<1> DEFINE New ==
      /\ work'.pc = "idle" => t' + half = b + since' /\ since' < Period
      /\ work'.pc = "advance" => work'.t + half + work'.gap = b + since' /\ since' =< Wait'
      /\ work'.pc = "check" => t' + half = b + since' /\ since' =< Wait'
      /\ work'.pc = "publish" => /\ since' = 0 /\ t' < half
                                 /\ b < t' + half /\ t' + half =< b + Wait'
      /\ work'.pc = "end" => IF t' < half THEN t' + half = b + since' /\ since' < Period
                             ELSE t' + half =< b + Wait'
      /\ work'.pc \in {"restart", "store"} => half =< t' /\ t' + half =< b + Wait'
      /\ work'.pc = "store" => work'.t = -half
<1>5. New /\ UNCHANGED <<inbox, pass>>
  <2> HIDE DEF Wait
  <2>1. CASE ClockStart
    <3>1. work.pc = "idle" /\ work'.pc = "check" /\ UNCHANGED <<t, since, inbox, pass>>
      BY <1>3, <2>1 DEF ClockStart, Goto
    <3> QED BY <1>1, <1>2, <1>3, <1>4, <3>1
  <2>2. ASSUME NEW d \in Gaps, Clock(d) PROVE New /\ UNCHANGED <<inbox, pass>>
    <3>1. /\ work.pc = "idle" /\ UNCHANGED <<t, inbox, pass>> /\ since' = since + d
          /\ work'.pc = "advance" /\ work'.t = t /\ work'.gap = d /\ gap' = Largest(gap, d)
      BY <2>2 DEF Clock
    <3>2. d \in Nat
      BY LeoAssumption
    <3>3. since' =< Wait'
      <4>1. \A q \in Nat \ {0}, s, a \in Nat : s < q /\ d =< a => s + d =< q - 1 + a
        BY <3>2
      <4>2. d =< gap' /\ gap' \in Nat
        BY <1>3, <3>1, <3>2 DEF Largest
      <4>3. Wait' = Period - 1 + gap' /\ since < Period
        BY <1>4, <3>1 DEF Wait
      <4> QED BY <1>3, <3>1, <4>1, <4>2, <4>3, LeoAssumption
    <3> QED BY <1>1, <1>2, <1>3, <1>4, <3>1, <3>2, <3>3
  <2>3. CASE Advance
    <3>1. /\ work.pc = "advance" /\ UNCHANGED <<since, inbox, pass, gap>>
          /\ t' = work.t + work.gap /\ work'.pc = "check"
      BY <1>3, <2>3 DEF Advance, Goto
    <3>2. work.t \in Int /\ work.gap \in Nat
      BY <1>3
    <3> QED BY <1>1, <1>2, <1>3, <1>4, <3>1, <3>2
  <2>4. CASE Check
    <3>1. /\ work.pc = "check" /\ UNCHANGED <<t, inbox, pass, gap>>
          /\ since' = IF since >= Period THEN 0 ELSE since
          /\ work'.pc = IF since >= Period /\ InView THEN "publish" ELSE "end"
      BY <1>3, <2>4 DEF Check, Goto
    <3>2. t + half = b + since /\ since =< Wait /\ 0 =< since
      BY <1>3, <1>4, <3>1
    <3>3. -half =< t
      BY <1>2, SteadyMeans DEF IInv, ClockInv
    <3>4. Period > 0 /\ Period \in Nat
      BY LeoAssumption
    <3>5. t + half \in Int /\ since \in Nat
      BY <1>3
    <3>6. t + half =< b + Wait'
      BY ONLY <1>1, <1>2, <3>2, <3>5
    <3>7. CASE since >= Period /\ InView
      <4>1. work'.pc = "publish" /\ since' = 0 /\ t < half
        BY <3>1, <3>7 DEF InView
      <4>2. b < t + half /\ t + half =< b + Wait'
        BY ONLY <1>1, <3>2, <3>4, <3>7, <3>5, <3>6
      <4> QED BY <3>1, <4>1, <4>2
    <3>8. CASE since < Period
      <4>1. work'.pc = "end" /\ since' = since
        BY <1>3, <3>1, <3>4, <3>8
      <4>2. t + half =< b + Wait'
        BY <3>6
      <4> QED BY <3>1, <3>2, <3>8, <4>1, <4>2
    <3>9. CASE since >= Period /\ ~InView
      <4>1. work'.pc = "end"
        BY <3>1, <3>9
      <4>2. t + half =< b + Wait'
        BY <3>6
      <4>3. ~(t < half)
        BY <1>1, <1>3, <1>4, <3>2, <3>3, <3>4, <3>9 DEF InView
      <4> QED BY <3>1, <4>1, <4>2, <4>3
    <3> QED BY <1>3, <3>4, <3>7, <3>8, <3>9
  <2>5. CASE PassContinues
    <3>1. /\ work.pc = "end" /\ t < half /\ UNCHANGED <<t, since, inbox, pass>>
          /\ work'.pc = "idle"
      BY <1>3, <2>5 DEF PassContinues, Goto
    <3> QED BY <1>4, <3>1
  <2>6. CASE PassEnds
    <3>1. /\ work.pc = "end" /\ t >= half /\ UNCHANGED <<t, since, inbox, pass>>
          /\ work'.pc = "restart"
      BY <1>3, <2>6 DEF PassEnds, Goto
    <3>2. half =< t /\ t + half =< b + Wait /\ t + half \in Int
      BY <1>3, <1>4, <3>1
    <3>3. t + half =< b + Wait'
      BY ONLY <1>1, <1>2, <3>2
    <3> QED BY <3>1, <3>2, <3>3
  <2>7. CASE RestartLoad
    <3>1. /\ work.pc = "restart" /\ UNCHANGED <<t, since, inbox, pass>>
          /\ work'.pc = "store" /\ work'.t = -half
      BY <1>3, <2>7 DEF RestartLoad
    <3>2. half =< t /\ t + half =< b + Wait /\ t + half \in Int
      BY <1>3, <1>4, <3>1
    <3>3. t + half =< b + Wait'
      BY ONLY <1>1, <1>2, <3>2
    <3> QED BY <3>1, <3>2, <3>3
  <2> QED BY <2>1, <2>2, <2>3, <2>4, <2>5, <2>6, <2>7 DEF WorkStep
<1>6. New
  BY <1>5
<1> QED BY <1>1, <1>5, <1>6, QuietStep DEF b

\* What is published follows what was published before it.
LEMMA PublishKeeps ==
    ASSUME IInv, Publish, UNCHANGED viewVars, Steady',
           NEW p \in {0, 1}, Timing(p), Waiting(p), Shown(p)
    PROVE  Timing(p)' /\ Waiting(p)' /\ Shown(p)'
<1> DEFINE n == Len(inbox)
           s == [at |-> t + half, of |-> H, pass |-> pass]
<1>1. /\ work.pc = "publish" /\ work'.pc = "end" /\ inbox' = Append(inbox, s)
      /\ UNCHANGED <<half, t, since, pass, gap, calls>>
  BY DEF Publish, Goto, H, IInv, ClockInv, ClockTypes
<1>2. /\ Steady /\ Wait' = Wait /\ H' = H
      /\ trail' = trail /\ log' = log /\ startMc' = startMc
      /\ passHistory' = passHistory /\ dropped' = dropped
  BY <1>1 DEF WorkStep, viewVars, H, Wait, Steady
<1>3. half \in Nat \ {0} /\ t \in Int /\ pass \in {0, 1} /\ H \in Nat /\ s \in State
  BY DEF IInv, ClockInv, ClockTypes, H, State
<1>4. /\ Base(p) \in Int /\ 0 =< Base(p) /\ since = 0 /\ t < half
      /\ Base(p) < t + half /\ t + half =< Base(p) + Wait
      /\ Latest(p).pass # pass => Last(Latest(p).at)
  BY <1>1, BaseType DEF Timing
<1>5. inbox \in Seq(State) /\ n \in Nat
  BY DEF IInv, ViewInv
<1> HIDE DEF s
<1>6. /\ Len(inbox') = n + 1 /\ inbox'[n + 1] = s /\ \A i \in 1 .. n : inbox'[i] = inbox[i]
      /\ inbox' # <<>> /\ n + 1 \in Nat
  BY <1>1, <1>3, <1>5
<1>7. s.at = t + half /\ s.of = H /\ s.pass = pass /\ t + half \in Int
  BY <1>3 DEF s
<1>8. Latest(p)' = [at |-> t + half, pass |-> pass] /\ Base(p)' = t + half
  BY <1>1, <1>6, <1>7 DEF Latest, Base
<1>9. Follows(Latest(p), s)
  <2>1. CASE Latest(p).pass = pass
    BY <1>4, <1>7, <2>1, BaseType DEF Follows
  <2>2. CASE Latest(p).pass # pass
    <3>1. Base(p) = 0
      BY <2>2 DEF Base
    <3>2. t + half =< Wait
      BY <1>2, <1>4, <1>7, <3>1, SteadyMeans
    <3>3. First(t + half)
      BY <1>2, <1>7, <3>2, SteadyMeans
    <3> QED BY <1>4, <1>7, <2>2, <3>3 DEF Follows
  <2> QED BY <2>1, <2>2
<1>10. Timing(p)'
  <2>1. 0 =< t + half /\ 0 < Period
    <3>1. Period > 0
      BY LeoAssumption
    <3> QED BY <1>4, <1>7, <3>1
  <2>2. t + half = t + half + 0
    BY <1>7
  <2>3. since' = 0 /\ t' = t /\ half' = half /\ pass' = pass
    BY <1>1, <1>4
  <2> QED BY <1>1, <1>4, <1>8, <2>1, <2>2, <2>3 DEF Timing
<1>11. Waiting(p)'
  <2> DEFINE q == inbox'
  <2>1. \A x, y : Follows(x, y)' = Follows(x, y)
    BY <1>2 DEF Follows, First, Last
  <2>2. \A i \in 1 .. n + 1 : q[i].of = H
    <3>1. \A i \in 1 .. n : inbox[i].of = H
      BY DEF Waiting
    <3> QED BY <1>5, <1>6, <1>7, <3>1
  <2>3. trail' # <<>> => trail'[Len(trail')].of = H
    BY <1>2 DEF Waiting
  <2>4. ASSUME NEW i \in 1 .. n + 1, i # 1 PROVE Follows(q[i - 1], q[i])
    <3>1. CASE i = n + 1
      <4>1. i - 1 = n /\ n \in 1 .. n /\ q[i - 1] = inbox[n] /\ q[i] = s /\ inbox # <<>>
        BY <1>5, <1>6, <2>4, <3>1
      <4>2. Latest(p).at = inbox[n].at /\ Latest(p).pass = inbox[n].pass
        BY <4>1 DEF Latest
      <4> QED BY <1>9, <4>1, <4>2 DEF Follows
    <3>2. CASE i # n + 1
      <4>1. i \in 1 .. n /\ i - 1 \in 1 .. n /\ q[i - 1] = inbox[i - 1] /\ q[i] = inbox[i]
        BY <1>5, <1>6, <2>4, <3>2
      <4> QED BY <2>4, <4>1 DEF Waiting
    <3> QED BY <3>1, <3>2
  <2>5. ASSUME trail # <<>> PROVE Follows(LastShown(p), q[1])
    <3>1. CASE inbox = <<>>
      <4>1. n = 0 /\ q[1] = s
        BY <1>5, <1>6, <3>1
      <4>2. Latest(p) = LastShown(p)
        BY <2>5, <3>1 DEF Latest
      <4> QED BY <1>9, <4>1, <4>2
    <3>2. CASE inbox # <<>>
      <4>1. 1 \in 1 .. n /\ q[1] = inbox[1]
        BY <1>5, <1>6, <3>2
      <4> QED BY <2>5, <3>2, <4>1 DEF Waiting
    <3> QED BY <3>1, <3>2
  <2>6. LastShown(p)' = LastShown(p)
    BY <1>2 DEF LastShown
  <2> HIDE DEF n
  <2> QED BY <1>2, <1>6, <2>1, <2>2, <2>3, <2>4, <2>5, <2>6 DEF Waiting
<1>12. Shown(p)'
  <2>1. \A e : OnBar(e)' = OnBar(e)
    BY <1>2, OnBarIsBarOf
  <2> QED BY <1>2, <2>1 DEF Shown
<1> QED BY <1>10, <1>11, <1>12

\* A pass that is over has had its last update.
LEMMA RestartKeeps ==
    ASSUME IInv, RestartStore, UNCHANGED viewVars, Steady',
           NEW p \in {0, 1}, Timing(p), Waiting(p), Shown(p)
    PROVE  Timing(p)' /\ Waiting(p)' /\ Shown(p)'
<1>1. /\ work.pc = "store" /\ work'.pc = "idle" /\ t' = work.t /\ since' = 0 /\ pass' = 1 - pass
      /\ UNCHANGED <<half, inbox, gap, calls>>
  BY DEF RestartStore, Goto, IInv, ClockInv, ClockTypes
<1>2. Steady /\ Wait' = Wait /\ H' = H
  BY <1>1 DEF H, Wait, Steady
<1>3. half \in Nat \ {0} /\ t \in Int /\ pass \in {0, 1} /\ H = half + half
  BY DEF IInv, ClockInv, ClockTypes, H
<1>4. Base(p) \in Int /\ half =< t /\ t + half =< Base(p) + Wait /\ t' = -half
  BY <1>1, BaseType DEF Timing
<1>5. H =< Base(p) + Wait /\ Wait \in Nat /\ Wait < H /\ H \in Nat
  BY <1>2, <1>3, <1>4, SteadyMeans
<1>6. Base(p) # 0
  BY <1>5
<1>7. Latest(p).pass = pass /\ Latest(p).at = Base(p) /\ Latest(p).at # 0
  BY <1>6 DEF Base
<1>8. inbox # <<>> \/ trail # <<>>
  BY <1>7 DEF Latest
<1>9. trail' = trail
  BY DEF viewVars
<1>10. Latest(p)' = Latest(p)
  BY <1>1, <1>8, <1>9 DEF Latest, LastShown
<1>11. Last(Latest(p).at)
  BY <1>2, <1>4, <1>5, <1>7, SteadyMeans
<1>12. Latest(p)'.pass # pass' /\ Base(p)' = 0
  BY <1>1, <1>3, <1>7, <1>10 DEF Base
<1>13. Last(Latest(p).at)'
  BY <1>2, <1>10, <1>11 DEF Last
<1>14. t' + half' = 0 + since' /\ since' < Period /\ 0 =< 0
  <2>1. Period > 0 /\ half' = half
    BY <1>1, LeoAssumption
  <2>2. t' + half' = 0
    BY <1>3, <1>4, <2>1
  <2> QED BY <1>1, <2>1, <2>2
<1>15. Timing(p)'
  BY <1>1, <1>12, <1>13, <1>14 DEF Timing
<1> QED BY <1>1, <1>15, NothingPublished

\* Nothing else of the pass depends on the MODCOD of the controller.
LEMMA SamePass ==
    ASSUME UNCHANGED <<channelVars, trail, log, startMc, passHistory, dropped>>,
           NEW p \in {0, 1}, Timing(p), Waiting(p), Shown(p)
    PROVE  Timing(p)' /\ Waiting(p)' /\ Shown(p)'
<1>1. H' = H /\ Wait' = Wait /\ LastShown(p)' = LastShown(p)
  BY DEF channelVars, H, Wait, LastShown
<1>2. Latest(p)' = Latest(p) /\ Base(p)' = Base(p)
  BY <1>1 DEF channelVars, Latest, Base
<1>3. Last(Latest(p).at)' = Last(Latest(p).at)
  BY <1>1, <1>2 DEF Last
<1>4. Timing(p)'
  BY <1>1, <1>2, <1>3 DEF channelVars, Timing
<1>5. Waiting(p)'
  BY <1>1 DEF channelVars, Waiting, Follows, First, Last
<1>6. Shown(p)'
  <2>1. \A e : OnBar(e)' = OnBar(e)
    BY OnBarIsBarOf
  <2> QED BY <2>1 DEF Shown
<1> QED BY <1>4, <1>5, <1>6

\* A call of a setter ends it.
LEMMA CallerEndsSteady == ASSUME IInv, CallerStep PROVE ~Steady'
<1>1. calls \in Nat
  BY LeoAssumption DEF IInv, ClockInv, ClockTypes
<1> QED BY <1>1 DEF CallerStep, Call, RebuildModel, ResetTime, Steady, IInv, ClockInv

-----------------------------------------------------------------------------
(***************************************************************************)
(* Showing a state.                                                        *)
(***************************************************************************)
LEMMA PushedElements ==
    ASSUME NEW S, NEW seq \in Seq(S), NEW e \in S, NEW max \in Nat \ {0}, Len(seq) =< max,
           NEW q, q = Pushed(seq, e, max)
    PROVE  /\ q \in Seq(S) /\ q # <<>> /\ q[Len(q)] = e
           /\ \A i \in 1 .. Len(q) : q[i] = e \/ \E j \in 1 .. Len(seq) : q[i] = seq[j]
           /\ Len(seq) < max => q = Append(seq, e)
<1>1. ASSUME NEW l \in Seq(S), NEW k \in Nat, k = Len(l)
      PROVE  /\ Append(l, e) \in Seq(S) /\ Append(l, e) # <<>> /\ Len(Append(l, e)) = k + 1
             /\ Append(l, e)[k + 1] = e /\ \A i \in 1 .. k : Append(l, e)[i] = l[i]
             /\ \A i \in 1 .. k + 1 : i \in 1 .. k \/ i = k + 1
  BY <1>1
<1>2. CASE Len(seq) < max
  <2>1. q = Append(seq, e) /\ Len(seq) \in Nat
    BY <1>2 DEF Pushed
  <2> QED BY <1>1, <2>1
<1>3. CASE ~(Len(seq) < max)
  <2> DEFINE l == Tail(seq)
             k == Len(l)
  <2>1. seq # <<>> /\ q = Append(l, e)
    BY <1>3 DEF Pushed
  <2>2. l \in Seq(S) /\ k \in Nat /\ \A i \in 1 .. k : l[i] = seq[i + 1] /\ i + 1 \in 1 .. Len(seq)
    BY <2>1
  <2> HIDE DEF l, k
  <2>3. /\ q \in Seq(S) /\ q # <<>> /\ Len(q) = k + 1 /\ q[k + 1] = e
        /\ \A i \in 1 .. k : q[i] = l[i]
        /\ \A i \in 1 .. k + 1 : i \in 1 .. k \/ i = k + 1
    <3>1. k = Len(l)
      BY DEF k
    <3> QED BY ONLY <1>1, <2>1, <2>2, <3>1
  <2>4. ASSUME NEW i \in 1 .. Len(q) PROVE q[i] = e \/ \E j \in 1 .. Len(seq) : q[i] = seq[j]
    <3>1. i \in 1 .. k \/ i = k + 1
      BY <2>3
    <3> QED BY <2>2, <2>3, <3>1
  <2> QED BY <1>3, <2>3, <2>4
<1> QED BY <1>2, <1>3

\* The MODCOD shown stays that at the end of the bar.
LEMMA ShowKeepsEnd == ASSUME IInv, EndOfBar, Show PROVE EndOfBar'
<1> DEFINE s     == Head(inbox)
           new   == NewPass(s)
           old   == IF new THEN <<>> ELSE log
           entry == [at |-> s.at, of |-> s.of, mc |-> Logged]
           P     == [at : Int, of : Nat, mc : Modcods]
<1>1. /\ log' = IF current = shown THEN old ELSE Pushed(old, entry, MaxLog)
      /\ startMc' = IF new THEN current ELSE startMc
      /\ shown' = current
  BY DEF Show
<1>2. CASE current # shown
  <2>1. entry.mc = current
    BY DEF Logged
  <2>2. s \in State /\ current \in Modcods /\ log \in Seq(P) /\ Len(log) =< MaxLog
        /\ MaxLog \in Nat \ {0}
    BY HeadTailProperties, VisualizerAssumption DEF Show, IInv, ViewInv
  <2>3. entry \in P
    <3> HIDE DEF s
    <3> QED BY <2>2 DEF State, Logged
  <2>4. old \in Seq(P) /\ Len(old) =< MaxLog
    <3> HIDE DEF new, P
    <3> QED BY <2>2
  <2>5. log' # <<>> /\ log'[Len(log')] = entry
    <3> HIDE DEF new, P, old, entry
    <3> QED BY <1>1, <1>2, <2>2, <2>3, <2>4, PushedElements
  <2> HIDE DEF entry
  <2> QED BY <1>1, <2>1, <2>5 DEF EndOfBar
<1>3. CASE current = shown
  <2> HIDE DEF new
  <2> QED BY <1>1, <1>3 DEF EndOfBar
<1> QED BY <1>2, <1>3

\* The new pass is noticed, and nothing else is taken for one; what is kept of the pass
\* is earlier than the state shown.
LEMMA NewPassIsNoticed ==
    ASSUME IInv, Steady, inbox # <<>>, NEW p \in {0, 1}, Waiting(p), Shown(p)
    PROVE  LET s == Head(inbox)
           IN  /\ s = inbox[1] /\ s \in State /\ s.of = H
               /\ ~NewPass(s) => /\ \A e \in passHistory : e.pass = s.pass /\ e.at < s.at
                                 /\ \A i \in 1 .. Len(log) : log[i].at < s.at
<1> DEFINE s == Head(inbox)
           last == trail[Len(trail)]
           P == [at : Int, of : Nat, mc : Modcods]
<1>1. s = inbox[1] /\ s \in State /\ 1 \in 1 .. Len(inbox)
  BY HeadTailProperties DEF IInv, ViewInv
<1>2. s.of = H /\ s.at \in Int
  BY <1>1 DEF Waiting, State
<1> HIDE DEF s
<1>3. ASSUME ~NewPass(s)
      PROVE  /\ \A e \in passHistory : e.pass = s.pass /\ e.at < s.at
             /\ \A i \in 1 .. Len(log) : log[i].at < s.at
  <2>1. CASE trail = <<>>
    <3>1. passHistory = {} /\ log = <<>>
      BY <2>1 DEF Shown
    <3> QED BY <3>1
  <2>2. CASE trail # <<>>
    <3>1. last.of = H /\ last.at \in Int /\ Follows(LastShown(p), s)
      BY <1>1, <2>2, BaseType DEF Waiting
    <3>2. LastShown(p).at = last.at /\ LastShown(p).pass = p
      BY DEF LastShown
    <3>3. ~(First(s.at) /\ Last(last.at))
      BY <1>2, <1>3, <2>2, <3>1 DEF NewPass, First, Last
    <3>4. s.pass = p /\ last.at < s.at
      BY <3>1, <3>2, <3>3 DEF Follows
    <3>5. \A e \in passHistory : e.pass = p /\ e.at =< last.at /\ e.at \in Int
      BY DEF Shown, IInv, ViewInv, Entry
    <3>6. \A i \in 1 .. Len(log) : log[i].at =< last.at /\ log[i].at \in Int
      <4>1. log \in Seq(P)
        BY DEF IInv, ViewInv
      <4>2. \A i \in 1 .. Len(log) : log[i] \in P
        BY <4>1, ElementOfSeq
      <4> QED BY <4>2 DEF Shown
    <3> HIDE DEF last
    <3> QED BY <1>2, <3>1, <3>4, <3>5, <3>6
  <2> QED BY <2>1, <2>2
<1> QED BY <1>1, <1>2, <1>3 DEF s

LEMMA ShowKeepsBar ==
    ASSUME IInv, EndOfBar, Show, Steady, NEW p \in {0, 1}, Waiting(p), Shown(p),
           NEW q \in {0, 1}, q = inbox[1].pass
    PROVE  /\ Shown(q)'
           /\ trail' # <<>> /\ trail'[Len(trail')] = [at |-> inbox[1].at, of |-> H]
<1> DEFINE s     == Head(inbox)
           new   == NewPass(s)
           entry == [at |-> s.at, of |-> s.of, pass |-> s.pass, mc |-> current]
           olds(seq) == IF new THEN <<>> ELSE seq
           switch == [at |-> s.at, of |-> s.of, mc |-> Logged]
           point == [at |-> s.at, of |-> s.of]
           oldTrail == olds(trail)
           oldLog == olds(log)
           oldHistory == IF new THEN {} ELSE passHistory
           P == [at : Int, of : Nat, mc : Modcods]
           T == [at : Int, of : Nat]
<1>1. /\ inbox # <<>>
      /\ trail' = Pushed(oldTrail, point, MaxTrail)
      /\ passHistory' = {entry} \cup oldHistory
      /\ startMc' = IF new THEN current ELSE startMc
      /\ log' = IF current = shown THEN oldLog ELSE Pushed(oldLog, switch, MaxLog)
      /\ dropped' = /\ ~new
                    /\ dropped \/ (current # shown /\ Len(log) = MaxLog)
  BY DEF Show
<1>2. /\ s = inbox[1] /\ s \in State /\ s.of = H
      /\ ~new => /\ \A e \in passHistory : e.pass = s.pass /\ e.at < s.at
                 /\ \A i \in 1 .. Len(log) : log[i].at < s.at
  BY <1>1, NewPassIsNoticed
<1>3. /\ current \in Modcods /\ log \in Seq(P) /\ Len(log) =< MaxLog /\ MaxLog \in Nat \ {0}
      /\ trail \in Seq(T) /\ Len(trail) =< MaxTrail /\ MaxTrail \in Nat \ {0}
      /\ \A e \in passHistory : e.at \in Int
  BY VisualizerAssumption DEF IInv, ViewInv, Entry
<1> HIDE DEF s, new
<1>4. s.at \in Int /\ s.of \in Nat /\ H \in Nat
  BY <1>2 DEF State, IInv, ClockInv, ClockTypes
<1>5. /\ entry.at = s.at /\ entry.pass = s.pass /\ entry.mc = current
      /\ switch \in P /\ switch.at = s.at /\ switch.mc = current
      /\ point \in T /\ point = [at |-> s.at, of |-> H]
  BY <1>2, <1>3, <1>4 DEF Logged
<1>6. /\ oldLog \in Seq(P) /\ Len(oldLog) \in Nat /\ Len(oldLog) =< MaxLog
      /\ \A i \in 1 .. Len(oldLog) : oldLog[i].at < s.at /\ oldLog[i].at \in Int
      /\ new => oldLog = <<>> /\ Len(oldLog) = 0
      /\ ~new => oldLog = log
  <2>1. \A i \in 1 .. Len(log) : log[i].at \in Int
    <3>1. \A i \in 1 .. Len(log) : log[i] \in P
      BY <1>3, ElementOfSeq
    <3> QED BY <3>1
  <2>2. CASE new
    BY <1>3, <2>2
  <2>3. CASE ~new
    BY <1>2, <1>3, <2>1, <2>3
  <2> QED BY <2>2, <2>3
<1>7. oldTrail \in Seq(T) /\ Len(oldTrail) =< MaxTrail
  <2>1. CASE new
    BY <1>3, <2>1
  <2>2. CASE ~new
    BY <1>3, <2>2
  <2> QED BY <2>1, <2>2
<1>8. \A e \in oldHistory : e.pass = s.pass /\ e.at < s.at /\ e.at \in Int /\ e \in passHistory /\ ~new
  BY <1>2, <1>3
<1> HIDE DEF entry, switch, point, oldTrail, oldLog, oldHistory, P, T
<1>9. trail' # <<>> /\ trail'[Len(trail')] = [at |-> s.at, of |-> H]
  BY <1>1, <1>3, <1>5, <1>7, PushedElements
<1>10. \A e \in passHistory' : e.pass = s.pass /\ e.at =< s.at
  BY <1>1, <1>4, <1>5, <1>8
<1>11. /\ log' \in Seq(P)
       /\ \A i \in 1 .. Len(log') : log'[i].at =< s.at
  <2>1. CASE current = shown
    BY <1>1, <1>4, <1>6, <2>1
  <2>2. CASE current # shown
    <3>1. log' = Pushed(oldLog, switch, MaxLog)
      BY <1>1, <2>2
    <3>2. /\ log' \in Seq(P)
          /\ \A i \in 1 .. Len(log') :
                log'[i] = switch \/ \E j \in 1 .. Len(oldLog) : log'[i] = oldLog[j]
      BY <1>3, <1>5, <1>6, <3>1, PushedElements
    <3>3. ASSUME NEW i \in 1 .. Len(log') PROVE log'[i].at =< s.at
      <4>1. CASE log'[i] = switch
        BY <1>4, <1>5, <4>1
      <4>2. ASSUME NEW j \in 1 .. Len(oldLog), log'[i] = oldLog[j] PROVE log'[i].at =< s.at
        <5>1. oldLog[j].at < s.at /\ oldLog[j].at \in Int
          BY <1>6
        <5> QED BY <1>4, <4>2, <5>1
      <4> QED BY <3>2, <4>1, <4>2
    <3> QED BY <3>2, <3>3
  <2> QED BY <2>1, <2>2
<1>12. ASSUME ~dropped' PROVE \A e \in passHistory' : BarOf(log', startMc', e.at) = e.mc
  <2>1. CASE current = shown
    <3>1. log' = oldLog
      BY <1>1, <2>1
    <3>2. BarOf(log', startMc', s.at) = current
      <4>1. DOMAIN oldLog = 1 .. Len(oldLog)
        BY <1>6
      <4>2. CASE oldLog = <<>>
        <5>1. startMc' = current
          BY <1>1, <1>6, <2>1, <4>2 DEF EndOfBar
        <5>2. Len(oldLog) = 0
          BY <4>2
        <5>3. \A j \in DOMAIN oldLog : ~(oldLog[j].at =< s.at)
          BY <4>1, <5>2
        <5>4. BarOf(oldLog, startMc', s.at) = startMc'
          BY ONLY <5>3, NothingBeforeOnBar
        <5> QED BY <3>1, <5>1, <5>4
      <4>3. CASE oldLog # <<>>
        <5> DEFINE n == Len(oldLog)
        <5>1. n \in Nat \ {0} /\ n \in 1 .. n /\ oldLog[n].mc = current
          BY <1>6, <2>1, <4>3 DEF EndOfBar
        <5>2. oldLog[n].at =< s.at /\ DOMAIN oldLog = 1 .. n
          BY <1>4, <1>6, <4>1, <5>1
        <5> HIDE DEF n
        <5>3. BarOf(oldLog, startMc', s.at) = oldLog[n].mc
          BY ONLY <5>1, <5>2, LastIsOnBar
        <5> QED BY <3>1, <5>1, <5>3
      <4> QED BY <4>2, <4>3
    <3>3. ASSUME NEW e \in oldHistory PROVE BarOf(log', startMc', e.at) = e.mc
      <4>1. ~new /\ e \in passHistory
        BY <1>8
      <4>2. ~dropped /\ startMc' = startMc /\ log' = log
        BY <1>1, <1>6, <1>12, <3>1, <4>1
      <4> QED BY <4>1, <4>2, OnBarIsBarOf DEF Shown
    <3> QED BY <1>1, <1>5, <3>2, <3>3
  <2>2. CASE current # shown
    <3>1. Len(oldLog) < MaxLog
      <4>1. CASE new
        BY <1>3, <1>6, <4>1
      <4>2. CASE ~new
        <5>1. Len(log) # MaxLog
          BY <1>1, <1>12, <2>2, <4>2
        <5> QED BY <1>3, <1>6, <4>2, <5>1
      <4> QED BY <4>1, <4>2
    <3>2. log' = Append(oldLog, switch)
      BY <1>1, <2>2, <3>1 DEF Pushed
    <3>3. BarOf(log', startMc', s.at) = current
      <4> DEFINE n == Len(oldLog) + 1
      <4>1. n \in Nat \ {0} /\ DOMAIN log' = 1 .. n /\ log'[n] = switch
        BY <1>5, <1>6, <3>2
      <4>2. log'[n].at =< s.at /\ log'[n].mc = current
        BY <1>4, <1>5, <4>1
      <4> HIDE DEF n
      <4>3. BarOf(log', startMc', s.at) = log'[n].mc
        BY ONLY <4>1, <4>2, LastIsOnBar
      <4> QED BY <4>2, <4>3
    <3>4. ASSUME NEW e \in oldHistory PROVE BarOf(log', startMc', e.at) = e.mc
      <4>1. ~new /\ e \in passHistory /\ ~(s.at =< e.at)
        BY <1>4, <1>8
      <4>2. ~dropped /\ startMc' = startMc /\ oldLog = log
        BY <1>1, <1>6, <1>12, <4>1
      <4>3. BarOf(log', startMc', e.at) = BarOf(log, startMc, e.at)
        BY <1>5, <1>6, <3>2, <4>1, <4>2, LaterSwitch
      <4> QED BY <4>1, <4>2, <4>3, OnBarIsBarOf DEF Shown
    <3> QED BY <1>1, <1>5, <3>3, <3>4
  <2> QED BY <2>1, <2>2
<1>13. Shown(q)'
  <2>1. \A e : OnBar(e)' = BarOf(log', startMc', e.at)
    BY OnBarIsBarOf
  <2>2. trail'[Len(trail')].at = s.at /\ s.pass = q
    BY <1>2, <1>9
  <2> QED BY <1>9, <1>10, <1>11, <1>12, <2>1, <2>2 DEF Shown
<1> QED BY <1>2, <1>9, <1>13

LEMMA ShowKeepsPass ==
    ASSUME IInv, EndOfBar, Show, Steady, NEW p \in {0, 1}, Timing(p), Waiting(p), Shown(p)
    PROVE  \E q \in {0, 1} : Timing(q)' /\ Waiting(q)' /\ Shown(q)'
<1> DEFINE n == Len(inbox)
<1>1. /\ inbox # <<>> /\ inbox' = Tail(inbox)
      /\ UNCHANGED <<half, t, since, work, calls, pass, gap>>
  BY DEF Show
<1>2. inbox \in Seq(State) /\ n \in Nat \ {0} /\ 1 \in 1 .. n /\ inbox[1] \in State
  BY <1>1, ElementOfSeq DEF IInv, ViewInv
<1>3. /\ Len(inbox') = n - 1 /\ \A i \in 1 .. n - 1 : inbox'[i] = inbox[i + 1] /\ i + 1 \in 1 .. n
      /\ (inbox' = <<>>) <=> (n = 1)
  <2>1. /\ Tail(inbox) \in Seq(State) /\ Len(Tail(inbox)) = n - 1
        /\ \A i \in 1 .. n - 1 : Tail(inbox)[i] = inbox[i + 1]
    BY <1>1, <1>2
  <2>2. (Tail(inbox) = <<>>) <=> (n - 1 = 0)
    <3> DEFINE l == Tail(inbox)
    <3>1. l \in Seq(State) /\ Len(l) = n - 1
      BY <2>1
    <3> HIDE DEF l, n
    <3>2. (l = <<>>) <=> (Len(l) = 0)
      BY <3>1, EmptySeq
    <3> QED BY <3>1, <3>2 DEF l
  <2>3. \A i \in 1 .. n - 1 : i + 1 \in 1 .. n
    BY <1>2
  <2> HIDE DEF n
  <2> QED BY <1>1, <1>2, <2>1, <2>2, <2>3
<1>4. PICK q \in {0, 1} : q = inbox[1].pass
  BY <1>2 DEF State
<1>5. Shown(q)' /\ trail' # <<>> /\ trail'[Len(trail')] = [at |-> inbox[1].at, of |-> H]
  BY <1>4, ShowKeepsBar
<1>6. H' = H /\ Wait' = Wait
  BY <1>1 DEF H, Wait
<1>7. LastShown(q)' = [at |-> inbox[1].at, pass |-> inbox[1].pass]
  BY <1>4, <1>5 DEF LastShown
<1> HIDE DEF n
<1>8. Latest(q)' = Latest(p)
  <2>1. Latest(p) = [at |-> inbox[n].at, pass |-> inbox[n].pass]
    BY <1>1 DEF Latest, n
  <2>2. CASE n = 1
    BY <1>3, <1>5, <1>7, <2>1, <2>2 DEF Latest
  <2>3. CASE n # 1
    <3>1. inbox' # <<>> /\ Len(inbox') = n - 1 /\ n - 1 \in 1 .. n - 1 /\ inbox'[n - 1] = inbox[n]
      BY <1>2, <1>3, <2>3
    <3> QED BY <2>1, <3>1 DEF Latest
  <2> QED BY <2>2, <2>3
<1>9. Base(q)' = Base(p)
  BY <1>1, <1>8 DEF Base
<1>10. Timing(q)'
  <2>1. Last(Latest(q).at)' = Last(Latest(p).at)
    BY <1>6, <1>8 DEF Last
  <2> QED BY <1>1, <1>6, <1>8, <1>9, <2>1 DEF Timing
<1>11. Waiting(q)'
  <2>1. \A x, y : Follows(x, y)' = Follows(x, y)
    BY <1>6 DEF Follows, First, Last
  <2>2. /\ \A i \in 1 .. n : inbox[i].of = H
        /\ \A i \in 1 .. n : i # 1 => Follows(inbox[i - 1], inbox[i])
    BY DEF Waiting, n
  <2>3. \A i \in 1 .. n - 1 : inbox'[i].of = H
    BY <1>3, <2>2
  <2>4. ASSUME NEW i \in 1 .. n - 1, i # 1 PROVE Follows(inbox'[i - 1], inbox'[i])
    <3>1. /\ i - 1 \in 1 .. n - 1 /\ inbox'[i - 1] = inbox[i] /\ inbox'[i] = inbox[i + 1]
          /\ i + 1 \in 1 .. n /\ i + 1 # 1 /\ (i + 1) - 1 = i
      BY <1>2, <1>3, <2>4
    <3> QED BY <2>2, <3>1
  <2>5. ASSUME inbox' # <<>> PROVE Follows(LastShown(q)', inbox'[1])
    <3>1. n # 1 /\ 1 \in 1 .. n - 1 /\ inbox'[1] = inbox[2] /\ 2 \in 1 .. n /\ 2 - 1 = 1
      BY <1>2, <1>3, <2>5
    <3>2. Follows(inbox[1], inbox[2])
      BY <2>2, <3>1
    <3> QED BY <1>7, <3>1, <3>2 DEF Follows
  <2>6. trail'[Len(trail')].of = H'
    BY <1>5, <1>6
  <2> QED BY <1>3, <1>6, <2>1, <2>3, <2>4, <2>5, <2>6 DEF Waiting
<1> QED BY <1>4, <1>5, <1>10, <1>11

-----------------------------------------------------------------------------
LEMMA PassStarts == Init => PassInv
<1> SUFFICES ASSUME Init PROVE PassInv
  OBVIOUS
<1>1. IInv
  BY Starts
<1>2. /\ half = InitialHalf /\ t = -InitialHalf /\ since = 0 /\ pass = 0 /\ inbox = <<>>
      /\ trail = <<>> /\ log = <<>> /\ passHistory = {} /\ work.pc = "idle"
      /\ shown = 1 /\ startMc = 1
  BY DEF Init, LeoInit
<1>3. EndOfBar
  BY <1>2 DEF EndOfBar
<1>4. Latest(0) = [at |-> 0, pass |-> 0] /\ Base(0) = 0
  BY <1>2 DEF Latest, Base
<1>5. Timing(0)
  <2>1. t + half = 0 + since /\ since < Period /\ 0 =< 0
    <3>1. InitialHalf \in Nat /\ Period > 0
      BY LeoAssumption
    <3> QED BY <1>2, <3>1
  <2> QED BY <1>2, <1>4, <2>1 DEF Timing
<1>6. Waiting(0) /\ Shown(0)
  <2>1. 1 .. Len(inbox) = {} /\ 1 .. Len(log) = {}
    BY <1>2
  <2> QED BY <1>2, <2>1 DEF Waiting, Shown
<1> QED BY <1>3, <1>5, <1>6 DEF PassInv

LEMMA StepKeepsPass == ASSUME IInv, PassInv, [Next]_vars PROVE PassInv'
<1>1. EndOfBar'
  <2>1. CASE Show
    BY <2>1, ShowKeepsEnd DEF PassInv
  <2>2. CASE ~Show
    <3>1. UNCHANGED <<shown, log, startMc>>
      BY <2>2 DEF Next, HandleModcod, vars, viewVars
    <3> QED BY <3>1 DEF EndOfBar, PassInv
  <2> QED BY <2>1, <2>2
<1>2. ASSUME Steady' PROVE \E q \in {0, 1} : Timing(q)' /\ Waiting(q)' /\ Shown(q)'
  <2>1. CASE WorkStep /\ UNCHANGED viewVars
    <3>1. Steady
      BY <1>2, <2>1, SteadyBefore
    <3>2. PICK p \in {0, 1} : Timing(p) /\ Waiting(p) /\ Shown(p)
      BY <3>1 DEF PassInv
    <3>3. Timing(p)' /\ Waiting(p)' /\ Shown(p)'
      <4>1. CASE Publish
        BY <1>2, <2>1, <3>2, <4>1, PublishKeeps
      <4>2. CASE RestartStore
        BY <1>2, <2>1, <3>2, <4>2, RestartKeeps
      <4>3. CASE ~Publish /\ ~RestartStore
        BY <1>2, <2>1, <3>2, <4>3, QuietStepsKeep
      <4> QED BY <4>1, <4>2, <4>3
    <3> QED BY <3>3
  <2>2. CASE CallerStep
    BY <1>2, <2>2, CallerEndsSteady
  <2>3. CASE (\E m \in Modcods : HandleModcod(m)) \/ UNCHANGED vars
    <3>1. UNCHANGED <<channelVars, trail, log, startMc, passHistory, dropped>>
      BY <2>3 DEF HandleModcod, vars, viewVars
    <3>2. Steady
      BY <1>2, <3>1 DEF channelVars, Steady, Wait
    <3>3. PICK p \in {0, 1} : Timing(p) /\ Waiting(p) /\ Shown(p)
      BY <3>2 DEF PassInv
    <3> QED BY <3>1, <3>3, SamePass
  <2>4. CASE Show
    <3>1. Steady
      BY <1>2, <2>4 DEF Show, Steady, Wait
    <3>2. PICK p \in {0, 1} : Timing(p) /\ Waiting(p) /\ Shown(p)
      BY <3>1 DEF PassInv
    <3> QED BY <2>4, <3>1, <3>2, ShowKeepsPass DEF PassInv
  <2> QED BY <2>1, <2>2, <2>3, <2>4 DEF Next
<1> QED BY <1>1, <1>2 DEF PassInv

\* As long as updates come often enough no two passes are mixed in the history that is
\* plotted, and the bar of switches agrees with it until its log overflows.
THEOREM BarAgrees == Spec => []BarMatchesHistory
<1>1. Init => IInv /\ PassInv
  BY Starts, PassStarts
<1>2. IInv /\ PassInv /\ [Next]_vars => (IInv /\ PassInv)'
  BY StepKeeps, StepKeepsPass
<1>3. IInv /\ PassInv => BarMatchesHistory
  BY DEF PassInv, Shown, BarMatchesHistory
<1> QED BY <1>1, <1>2, <1>3, PTL DEF Spec

=============================================================================
