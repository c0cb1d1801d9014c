---------------------------- MODULE AcmDecision ----------------------------
(***************************************************************************)
(* What an ACM controller promises, without its threads and messages: the  *)
(* link has an SNR as the controller knows it, the controller holds one    *)
(* MODCOD, and it changes that MODCOD only by applying its rule to that    *)
(* SNR or because it is overridden (manual override, loss of lock).        *)
(*                                                                         *)
(* The Python block has two rules: the engine's, when the engine answers   *)
(* without a model, and its own, when the query times out.  Each runs with *)
(* its own margin and hysteresis, and the engine is not told the block's.  *)
(*                                                                         *)
(* last remembers the last change a rule made, its direction and the SNR   *)
(* it was made at, and by the rule that made it.  They are history         *)
(* variables, for the properties about a change that is taken back.        *)
(***************************************************************************)
EXTENDS ModcodTable

CONSTANTS
    Levels,        \* the SNRs the link can show
    Rules,         \* which rules are considered
    Margin,        \* Margin[r]: the SNR margin of rule r
    Hysteresis     \* Hysteresis[r]: its hysteresis

ASSUME LevelsAssumption ==
    /\ Levels \subseteq Int
    /\ Rules \subseteq {"cpp", "engine", "python", "simulation"}

ASSUME MarginAssumption ==
    /\ Margin \in [Rules -> Nat]
    /\ Hysteresis \in [Rules -> Nat]

VARIABLES
    rule,          \* the rule that decides next
    snr,           \* the SNR of the last measurement
    modcod,        \* the MODCOD held
    last,          \* the last change a rule made
    by             \* the rule that made it

vars == <<rule, snr, modcod, last, by>>

Apply(r, s, m) ==
    CASE r = "cpp"        -> compute_modcod_with_hysteresis(s, m, Margin[r], Hysteresis[r])
      [] r = "engine"     -> rule_based_modcod(s, m, Margin[r], Hysteresis[r])
      [] r = "python"     -> select_modcod(s, m, Margin[r], Hysteresis[r])
      [] r = "simulation" -> modcod_for_snr_rule(s, m, Margin[r], Hysteresis[r])

Init ==
    /\ rule \in Rules
    /\ snr \in Levels
    /\ modcod \in ModcodIds
    /\ last = NoChange
    /\ by = rule

\* A measurement arrives.
Measure(s) ==
    /\ snr' = s
    /\ UNCHANGED <<rule, modcod, last, by>>

\* The controller applies its rule.
Decide ==
    /\ modcod' = Apply(rule, snr, modcod)
    /\ last' = RecordChange(last, modcod, modcod', snr)
    /\ by' = IF modcod' = modcod THEN by ELSE rule
    /\ UNCHANGED <<rule, snr>>

\* The engine stops answering in time, or answers again: the Python block's next
\* decision is made by the other of its two rules.
TakeOver ==
    /\ rule \in {"engine", "python"}
    /\ rule' \in {"engine", "python"} \intersect Rules
    /\ UNCHANGED <<snr, modcod, last, by>>

\* force_modcod, or the fallback on loss of lock.
Override(m) ==
    /\ modcod' = m
    /\ last' = NoChange
    /\ by' = rule
    /\ UNCHANGED <<rule, snr>>

Next ==
    \/ \E s \in Levels : Measure(s)
    \/ Decide
    \/ TakeOver
    \/ \E m \in ModcodIds : Override(m)

Spec == Init /\ [][Next]_vars

-----------------------------------------------------------------------------
\* The rule stays inside the table, and last names a direction and a level.
TypeOK ==
    /\ rule \in Rules
    /\ snr \in Levels
    /\ modcod \in ModcodIds
    /\ last \in [dir : {"none", "up", "down"}, at : Int]
    /\ by \in Rules

\* The SNR above its threshold that an upgrade by rule r asks of a MODCOD at least.
\* (The emergency branch of the C++ rule and the engine's, which can move up where
\* thresholds are out of order, asks for the margin alone.)
Reach(r) ==
    IF r \in {"python", "simulation"} THEN Margin[r] + Hysteresis[r] ELSE Margin[r]

\* The SNR above its threshold below which rule r leaves a MODCOD for a lower one.
Leave(r) ==
    CASE r = "python"     -> Margin[r] - Hysteresis[r]
      [] r = "simulation" -> Margin[r]
      [] OTHER            -> -Hysteresis[r]

\* No ping-pong: an upgrade is reversed only after the SNR has fallen by more than
\* the dead band between the rule that made it and the rule that reverses it, and a
\* downgrade only after it has risen by more than the hysteresis, and by the
\* difference of the margins when another rule takes it back, whatever was measured
\* and decided in between.  The simulation does not promise the second half: leaving
\* QPSK 9/10 (id 11) at 7.49 dB it passes over 8PSK 3/5 (id 12), which needs less
\* but counts as an upgrade, and takes it 0.01 dB later.
NoPingPong ==
    [][/\ last.dir = "up" /\ last'.dir = "down"
             => last.at - last'.at > Reach(by) - Leave(by')
       /\ rule # "simulation" /\ last.dir = "down" /\ last'.dir = "up"
             => last'.at - last.at > Margin[by'] + Hysteresis[by'] - Margin[by]]_vars

\* The block leaves a MODCOD no closer to its threshold than the engine takes it at
\* least: 0.5 dB both with the defaults, with nothing to spare.  (A block with a
\* greater margin does not tell the engine, and the two undo each other's decisions.)
SettingsFit ==
    {"engine", "python"} \subseteq Rules =>
        Margin["python"] - Hysteresis["python"] =< Margin["engine"]

\* The engine's rule and the block's own do not fight over the MODCOD: what one has
\* just raised the other never lowers again before the SNR has fallen, however often
\* the engine stops answering in between.  So at one SNR the decisions come to rest,
\* whichever rule makes each.  It takes settings that fit.
TakeoverKeepsUpgrades ==
    [][last.dir = "up" /\ last'.dir = "down" => last'.at < last.at]_vars

\* A decision is final for its SNR: deciding again without a new measurement
\* changes nothing.  (The threads that run the rule rely on it: the AI thread
\* of the C++ block decides again every 100 ms.)
DecisionSettles ==
    LET m == Apply(rule, snr, modcod) IN Apply(rule, snr, m) = m

\* m needs at least as much SNR as a MODCOD that carries more.
Dominated(m) ==
    \E k \in ModcodIds : SpectralEff[k] > SpectralEff[m] /\ Threshold[k] =< Threshold[m]

\* What a decision leaves the link with: MODCOD 1, or one whose threshold the
\* SNR reaches up to the tolerance of the rule.  The Python rule keeps a
\* MODCOD below that line in one case: its target is a better MODCOD with a
\* LOWER threshold that is not yet clear of the upgrade hysteresis, so it
\* neither upgrades nor downgrades.  That MODCOD is then a dominated one.
KeepsLinkClosed ==
    LET m == Apply(rule, snr, modcod) IN
    \/ m = 1
    \/ rule \in {"cpp", "engine"} /\ snr >= Threshold[m] - Hysteresis[rule]
    \/ rule = "simulation" /\ snr >= Threshold[m] + Margin[rule]
    \/ /\ rule = "python"
       /\ snr >= Threshold[m] + Margin[rule] - Hysteresis[rule] \/ Dominated(m)

\* No controller ever moves to a MODCOD that another one beats on both counts, so
\* a dominated MODCOD is held only when it was forced or configured.  (The
\* simulation can on a table where the other one, above the MODCOD it leaves, lies
\* less than the hysteresis below.)
NeverDominated ==
    rule # "simulation" /\ last.dir # "none" /\ modcod # 1 => ~Dominated(modcod)

\* The C++ rule, the engine's and the simulation's leave no upgrade on the table
\* that is clear by margin and hysteresis.  (The Python rule does: see select_modcod.)
TakesClearUpgrade ==
    rule # "python" =>
        LET m == Apply(rule, snr, modcod) IN
        \A k \in Feasible(snr, Margin[rule] + Hysteresis[rule]) : k =< m

=============================================================================
