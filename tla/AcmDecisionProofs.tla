-------------------------- MODULE AcmDecisionProofs --------------------------
(***************************************************************************)
(* The properties of AcmDecision hold for every table, margin, hysteresis  *)
(* and set of levels.  The state properties follow from TypeOK by what the *)
(* rules return (first part).  NoPingPong needs an inductive invariant:    *)
(* what the SNR of the last change says about the MODCOD held.             *)
(***************************************************************************)
EXTENDS AcmDecision, TLAPS, WellFoundedInduction

-----------------------------------------------------------------------------
(***************************************************************************)
(* What the selection rules return, for every table that satisfies         *)
(* TableAssumption, every SNR and every current MODCOD.                    *)
(***************************************************************************)
\* A set of naturals has a least element (from the well-foundedness of <).
LEMMA NatMin ==
    ASSUME NEW T, T \subseteq Nat, T # {}
    PROVE  \E x \in T : \A y \in T : x =< y
<1> DEFINE R == {ss \in Nat \X Nat : ss[1] < ss[2]}
<1>1. IsWellFoundedOn(R, Nat)
  BY NatLessThanWellFounded DEF OpToRel
<1>2. \E x \in T : \A y \in T : <<y, x>> \notin R
  <2> HIDE DEF R
  <2> QED BY <1>1, WFMin
<1>3. \A x, y \in Nat : <<y, x>> \notin R => x =< y
  OBVIOUS
<1> QED BY <1>2, <1>3

\* A set of MODCODs has a greatest element.
LEMMA GreatestId ==
    ASSUME NEW S, S \subseteq ModcodIds, S # {}
    PROVE  \E m \in S : \A k \in S : k =< m
<1> DEFINE T == {n \in Nat : N - n \in S}
<1>0. N \in Nat /\ S \subseteq 1 .. N
  BY TableAssumption DEF ModcodIds
<1>1. \A m \in S : N - m \in T
  <2> TAKE m \in S
  <2>1. m \in 1 .. N
    BY <1>0
  <2>2. N - m \in Nat /\ N - (N - m) = m
    BY <1>0, <2>1
  <2> QED BY <2>2
<1>2. PICK t \in T : \A y \in T : t =< y
  <2>1. T \subseteq Nat /\ T # {}
    BY <1>1
  <2> HIDE DEF T
  <2> QED BY <2>1, NatMin
<1>3. \A k \in S : k =< N - t
  <2> TAKE k \in S
  <2>1. t =< N - k
    BY <1>1, <1>2
  <2>2. k \in 1 .. N /\ t \in Nat
    BY <1>0
  <2> QED BY <1>0, <2>1, <2>2
<1> QED BY <1>3

\* Identifiers are integers, and the efficiency orders them.
LEMMA IdsAreOrdered ==
    /\ ModcodIds \subseteq Int
    /\ 1 \in ModcodIds
    /\ \A m \in ModcodIds : m >= 1
    /\ \A m \in ModcodIds : Threshold[m] \in Int /\ SpectralEff[m] \in Int
    /\ \A m, k \in ModcodIds : SpectralEff[k] =< SpectralEff[m] <=> k =< m
<1>1. N \in Nat \ {0} /\ ModcodIds = 1 .. N
  BY TableAssumption DEF ModcodIds
<1>2. \A m \in ModcodIds : Threshold[m] \in Int /\ SpectralEff[m] \in Int
  BY TableAssumption
<1>3. \A m, k \in ModcodIds : m < k => SpectralEff[m] < SpectralEff[k]
  BY TableAssumption
<1>4. ASSUME NEW m \in ModcodIds, NEW k \in ModcodIds
      PROVE  SpectralEff[k] =< SpectralEff[m] <=> k =< m
  <2>1. CASE m < k
    BY <2>1, <1>1, <1>2, <1>3
  <2>2. CASE k < m
    BY <2>2, <1>1, <1>2, <1>3
  <2>3. CASE m = k
    BY <2>3, <1>1, <1>2
  <2> QED BY <2>1, <2>2, <2>3, <1>1
<1> QED BY <1>1, <1>2, <1>4

\* The loops that keep the most efficient row keep the greatest identifier.
LEMMA MostEfficientIsGreatest ==
    ASSUME NEW S, S \subseteq ModcodIds, S # {}
    PROVE  /\ MostEfficient(S) \in S
           /\ \A k \in S : k =< MostEfficient(S)
<1>1. PICK g \in S : \A k \in S : k =< g
  BY GreatestId
<1>2. \A k \in S : SpectralEff[k] =< SpectralEff[g]
  BY <1>1, IdsAreOrdered
<1>3. /\ MostEfficient(S) \in S
      /\ \A k \in S : SpectralEff[k] =< SpectralEff[MostEfficient(S)]
  BY <1>2 DEF MostEfficient
<1> QED BY <1>3, IdsAreOrdered

\* select_modcod_for_snr returns a MODCOD of the table, feasible unless it is
\* MODCOD 1, and no feasible MODCOD has a greater identifier.
LEMMA SelectOutcome ==
    ASSUME NEW s \in Int, NEW slack \in Int
    PROVE  LET m == select_modcod_for_snr(s, slack) IN
           /\ m \in ModcodIds
           /\ m = 1 \/ s >= Threshold[m] + slack
           /\ \A k \in ModcodIds : s >= Threshold[k] + slack => k =< m
<1> DEFINE F == Feasible(s, slack)
<1>1. /\ F \subseteq ModcodIds
      /\ \A k \in ModcodIds : k \in F <=> s >= Threshold[k] + slack
  BY DEF Feasible
<1>2. CASE F = {}
  <2>1. select_modcod_for_snr(s, slack) = 1
    BY <1>2 DEF select_modcod_for_snr
  <2> HIDE DEF F
  <2> QED BY <1>1, <1>2, <2>1, IdsAreOrdered
<1>3. CASE F # {}
  <2>1. select_modcod_for_snr(s, slack) = MostEfficient(F)
    BY <1>3 DEF select_modcod_for_snr
  <2> HIDE DEF F
  <2>2. MostEfficient(F) \in F /\ \A k \in F : k =< MostEfficient(F)
    BY <1>1, <1>3, MostEfficientIsGreatest
  <2> QED BY <1>1, <2>1, <2>2
<1> QED BY <1>2, <1>3

\* best_up never goes below the current MODCOD, moves only to one that is
\* clear by margin and hysteresis, and to the greatest such.
LEMMA BestUpOutcome ==
    ASSUME NEW s \in Int, NEW c \in ModcodIds, NEW M \in Nat, NEW H \in Nat
    PROVE  LET m == best_up(s, c, M, H) IN
           /\ m \in ModcodIds
           /\ m >= c
           /\ m = c \/ s >= Threshold[m] + M + H
           /\ \A k \in ModcodIds : s >= Threshold[k] + M + H => k =< m
<1> DEFINE S == {c} \union {m \in Feasible(s, M + H) : m > c}
<1>1. /\ S \subseteq ModcodIds
      /\ c \in S
      /\ \A k \in ModcodIds :
            k \in S <=> k = c \/ (k > c /\ s >= Threshold[k] + (M + H))
  BY DEF Feasible
<1>2. best_up(s, c, M, H) = MostEfficient(S)
  BY DEF best_up
<1> HIDE DEF S
<1>3. MostEfficient(S) \in S /\ \A k \in S : k =< MostEfficient(S)
  BY <1>1, MostEfficientIsGreatest
<1>4. \A k \in ModcodIds :
         Threshold[k] + (M + H) = Threshold[k] + M + H
  BY IdsAreOrdered
<1>5. PICK m \in S : m = best_up(s, c, M, H) /\ \A k \in S : k =< m
  BY <1>2, <1>3
<1>6. m \in ModcodIds /\ m >= c /\ (m = c \/ s >= Threshold[m] + M + H)
  BY <1>1, <1>4, <1>5, IdsAreOrdered
<1>7. ASSUME NEW k \in ModcodIds, s >= Threshold[k] + M + H
      PROVE  k =< m
  <2>1. k \in S \/ k =< c
    BY <1>1, <1>4, <1>7, IdsAreOrdered
  <2> QED BY <2>1, <1>5, <1>6, IdsAreOrdered
<1> QED BY <1>5, <1>6, <1>7

\* The two ways a decision of the C++ rule can go.
LEMMA CppOutcome ==
    ASSUME NEW s \in Int, NEW c \in ModcodIds, NEW M \in Nat, NEW H \in Nat
    PROVE  LET m == compute_modcod_with_hysteresis(s, c, M, H) IN
           /\ m \in ModcodIds
           /\ \/ /\ s < Threshold[c] - H
                 /\ m = 1 \/ s >= Threshold[m] + M
                 /\ \A k \in ModcodIds : s >= Threshold[k] + M => k =< m
              \/ /\ s >= Threshold[c] - H
                 /\ m >= c
                 /\ m = c \/ s >= Threshold[m] + M + H
                 /\ \A k \in ModcodIds : s >= Threshold[k] + M + H => k =< m
<1>1. CASE s < Threshold[c] - H
  BY <1>1, SelectOutcome DEF compute_modcod_with_hysteresis
<1>2. CASE ~(s < Threshold[c] - H)
  <2>1. s >= Threshold[c] - H
    BY <1>2, IdsAreOrdered
  <2> QED BY <1>2, <2>1, BestUpOutcome DEF compute_modcod_with_hysteresis
<1> QED BY <1>1, <1>2

\* The ways a decision of the Python rule can go, d being its target.
LEMMA PythonOutcome ==
    ASSUME NEW s \in Int, NEW c \in ModcodIds, NEW M \in Nat, NEW H \in Nat
    PROVE  LET m == select_modcod(s, c, M, H)
               d == select_modcod_for_snr(s, M) IN
           /\ m \in ModcodIds
           /\ \/ m = d /\ d > c /\ s >= Threshold[d] + M + H
              \/ m = d /\ d < c /\ s < Threshold[c] + M - H
              \/ /\ m = c
                 /\ d > c => s < Threshold[d] + M + H
                 /\ d < c => s >= Threshold[c] + M - H
<1> DEFINE d == select_modcod_for_snr(s, M)
<1>1. d \in ModcodIds
  BY SelectOutcome
<1>2. Threshold[d] \in Int /\ Threshold[c] \in Int
  BY <1>1, IdsAreOrdered
<1> QED BY <1>1, <1>2, IdsAreOrdered DEF select_modcod

\* The engine's emergency loop, which keeps the last feasible row, returns
\* what the loop over efficiencies returns.
LEMMA LastFeasibleIsSelect ==
    ASSUME NEW s \in Int, NEW M \in Nat
    PROVE  last_feasible(s, M) = select_modcod_for_snr(s, M)
<1> DEFINE F == Feasible(s, M)
<1>1. F \subseteq ModcodIds
  BY DEF Feasible
<1>2. CASE F = {}
  BY <1>2 DEF last_feasible, select_modcod_for_snr
<1>3. CASE F # {}
  <2> DEFINE l == CHOOSE m \in F : \A k \in F : k =< m
  <2>1. last_feasible(s, M) = l /\ select_modcod_for_snr(s, M) = MostEfficient(F)
    BY <1>3 DEF last_feasible, select_modcod_for_snr
  <2> HIDE DEF F
  <2>2. l \in F /\ \A k \in F : k =< l
    BY <1>1, <1>3, GreatestId
  <2>3. MostEfficient(F) \in F /\ \A k \in F : k =< MostEfficient(F)
    BY <1>1, <1>3, MostEfficientIsGreatest
  <2> HIDE DEF l
  <2>4. l =< MostEfficient(F) /\ MostEfficient(F) =< l
    BY <2>2, <2>3
  <2>5. l \in Int /\ MostEfficient(F) \in Int
    BY <1>1, <2>2, <2>3, IdsAreOrdered
  <2>6. l = MostEfficient(F)
    BY <2>4, <2>5
  <2> QED BY <2>1, <2>6
<1> QED BY <1>2, <1>3

\* The simulation's loop over the rows returns a MODCOD that is clear, unless it
\* is MODCOD 1, and the last such row.
LEMMA SimulationOutcome ==
    ASSUME NEW s \in Int, NEW c \in ModcodIds, NEW M \in Nat, NEW H \in Nat
    PROVE  LET m == modcod_for_snr_rule(s, c, M, H) IN
           /\ m \in ModcodIds
           /\ m = 1 \/ s >= Threshold[m] + M
           /\ m > c => s >= Threshold[m] + M + H
           /\ \A k \in ModcodIds :
                 (s >= Threshold[k] + M /\ (k > c => s >= Threshold[k] + M + H))
                    => k =< m
<1> DEFINE F == clear_for_simulation(s, c, M, H)
           l == CHOOSE m \in F : \A k \in F : k =< m
<1>1. /\ F \subseteq ModcodIds
      /\ \A k \in ModcodIds :
            k \in F <=> s >= Threshold[k] + M
                        /\ (k > c => s >= Threshold[k] + M + H)
  BY DEF clear_for_simulation, Feasible
<1>2. modcod_for_snr_rule(s, c, M, H) = IF F = {} THEN 1 ELSE l
  BY DEF modcod_for_snr_rule
<1> HIDE DEF F
<1>3. CASE F = {}
  <2>1. modcod_for_snr_rule(s, c, M, H) = 1 /\ 1 \in ModcodIds /\ ~(1 > c)
    BY <1>2, <1>3, IdsAreOrdered
  <2> QED BY <1>1, <1>3, <2>1
<1>4. CASE F # {}
  <2>1. l \in F /\ \A k \in F : k =< l
    BY <1>1, <1>4, GreatestId
  <2>2. modcod_for_snr_rule(s, c, M, H) = l
    BY <1>2, <1>4
  <2> HIDE DEF l
  <2> QED BY <1>1, <2>1, <2>2
<1> QED BY <1>3, <1>4

(***************************************************************************)
(* rule_based_modcod of the AI engine and compute_modcod_with_hysteresis   *)
(* of the C++ block are written differently, and are one function of the   *)
(* SNR, the current MODCOD, the margin and the hysteresis.  (They run with *)
(* different margins.)                                                     *)
(***************************************************************************)
LEMMA EngineRuleIsCppRule ==
    ASSUME NEW s \in Int, NEW c \in ModcodIds, NEW M \in Nat, NEW H \in Nat
    PROVE  rule_based_modcod(s, c, M, H) = compute_modcod_with_hysteresis(s, c, M, H)
<1>1. CASE s < Threshold[c] - H
  BY <1>1, LastFeasibleIsSelect DEF rule_based_modcod, compute_modcod_with_hysteresis
<1>2. CASE ~(s < Threshold[c] - H)
  <2> DEFINE F == Feasible(s, M + H)
             E == {c} \union F
             U == {c} \union {m \in F : m > c}
  <2>1. F \subseteq ModcodIds
    BY DEF Feasible
  <2>2. rule_based_modcod(s, c, M, H) = MostEfficient(E)
    BY <1>2 DEF rule_based_modcod
  <2>3. compute_modcod_with_hysteresis(s, c, M, H) = MostEfficient(U)
    BY <1>2 DEF compute_modcod_with_hysteresis, best_up
  <2> HIDE DEF F
  <2>4. E \subseteq ModcodIds /\ U \subseteq E /\ c \in U
    BY <2>1
  <2>5. \A k \in E : k \in U \/ k =< c
    BY <2>1, IdsAreOrdered
  <2> HIDE DEF E, U
  <2>6. MostEfficient(E) \in E /\ \A k \in E : k =< MostEfficient(E)
    BY <2>4, MostEfficientIsGreatest
  <2>7. MostEfficient(U) \in U /\ \A k \in U : k =< MostEfficient(U)
    BY <2>4, MostEfficientIsGreatest
  <2>8. MostEfficient(E) = MostEfficient(U)
    <3>1. MostEfficient(U) =< MostEfficient(E)
      BY <2>4, <2>6, <2>7
    <3>2. MostEfficient(E) \in Int /\ MostEfficient(U) \in Int /\ c \in Int
      BY <2>4, <2>6, <2>7, IdsAreOrdered
    <3>3. MostEfficient(E) \in U => MostEfficient(E) =< MostEfficient(U)
      BY <2>7
    <3>4. MostEfficient(E) =< c => MostEfficient(E) =< MostEfficient(U)
      BY <2>4, <2>7, <3>2
    <3>5. MostEfficient(E) =< MostEfficient(U)
      BY <2>5, <2>6, <3>3, <3>4
    <3> QED BY <3>1, <3>2, <3>5
  <2> QED BY <2>2, <2>3, <2>8
<1> QED BY <1>1, <1>2

-----------------------------------------------------------------------------
(***************************************************************************)
(* The controller.                                                         *)
(***************************************************************************)
\* What an upgrade made at last.at leaves behind.
UpInv == last.dir = "up" => last.at >= Threshold[modcod] + Reach(by)

\* What a downgrade made at last.at leaves behind: nothing above the MODCOD
\* held was feasible for the rule that made it, and the MODCOD itself was, or
\* nothing was.
DownInv ==
    by # "simulation" /\ last.dir = "down" =>
        /\ \A k \in ModcodIds : last.at >= Threshold[k] + Margin[by] => k =< modcod
        /\ modcod = 1 \/ last.at >= Threshold[modcod] + Margin[by]

\* Only the Python block's two rules change places.
SameController ==
    /\ by = "simulation" <=> rule = "simulation"
    /\ by = "cpp" <=> rule = "cpp"

IInv == TypeOK /\ UpInv /\ DownInv /\ SameController /\ NeverDominated

\* The rules, their margins and their hystereses.
LEMMA RuleSettings ==
    ASSUME NEW r \in Rules
    PROVE  /\ r \in {"cpp", "engine", "python", "simulation"}
           /\ Margin[r] \in Nat /\ Hysteresis[r] \in Nat
BY LevelsAssumption, MarginAssumption

\* The engine decides as the C++ rule would with the engine's settings.
LEMMA ApplyCpp ==
    ASSUME NEW r \in Rules, r \in {"cpp", "engine"},
           NEW s \in Int, NEW m \in ModcodIds
    PROVE  Apply(r, s, m) = compute_modcod_with_hysteresis(s, m, Margin[r], Hysteresis[r])
<1>1. CASE r = "cpp"
  BY <1>1 DEF Apply
<1>2. CASE r = "engine"
  BY <1>2, RuleSettings, EngineRuleIsCppRule DEF Apply
<1> QED BY <1>1, <1>2

\* Every rule stays inside the table.
LEMMA ApplyType ==
    ASSUME NEW r \in Rules, NEW s \in Int, NEW m \in ModcodIds
    PROVE  Apply(r, s, m) \in ModcodIds
<1>0. Margin[r] \in Nat /\ Hysteresis[r] \in Nat
  BY RuleSettings
<1>1. CASE r \in {"cpp", "engine"}
  <2>1. Apply(r, s, m) = compute_modcod_with_hysteresis(s, m, Margin[r], Hysteresis[r])
    BY <1>1, ApplyCpp
  <2>2. compute_modcod_with_hysteresis(s, m, Margin[r], Hysteresis[r]) \in ModcodIds
    BY <1>0, CppOutcome
  <2> QED BY <2>1, <2>2
<1>3. CASE r = "python"
  BY <1>0, <1>3, PythonOutcome DEF Apply
<1>4. CASE r = "simulation"
  BY <1>0, <1>4, SimulationOutcome DEF Apply
<1> QED BY <1>1, <1>3, <1>4, RuleSettings

\* A choice that no feasible MODCOD exceeds is not dominated: a MODCOD that
\* dominated it would be feasible too.
LEMMA BestIsNotDominated ==
    ASSUME NEW s \in Int, NEW slack \in Int, NEW m \in ModcodIds,
           s >= Threshold[m] + slack,
           \A k \in ModcodIds : s >= Threshold[k] + slack => k =< m
    PROVE  ~Dominated(m)
<1> SUFFICES ASSUME NEW k \in ModcodIds,
                    SpectralEff[k] > SpectralEff[m], Threshold[k] =< Threshold[m]
             PROVE  FALSE
  BY DEF Dominated
<1>1. Threshold[k] \in Int /\ Threshold[m] \in Int
  BY IdsAreOrdered
<1>2. s >= Threshold[k] + slack
  BY <1>1
<1>3. k =< m
  BY <1>2
<1>4. SpectralEff[k] =< SpectralEff[m] /\ SpectralEff[k] \in Int /\ SpectralEff[m] \in Int
  BY <1>3, IdsAreOrdered
<1> QED BY <1>4

\* What a decision of a controller that changes the MODCOD establishes.
LEMMA ChangeOutcome ==
    ASSUME NEW r \in Rules, r # "simulation", NEW s \in Int, NEW c \in ModcodIds,
           NEW m \in ModcodIds, m = Apply(r, s, c), m # c
    PROVE  /\ m = 1 \/ ~Dominated(m)
           /\ m > c => /\ s >= Threshold[m] + Margin[r]
                       /\ r = "python" => s >= Threshold[m] + Margin[r] + Hysteresis[r]
                       /\ r # "python" => \/ s >= Threshold[m] + Margin[r] + Hysteresis[r]
                                          \/ s < Threshold[c] - Hysteresis[r]
           /\ m < c => /\ \A k \in ModcodIds : s >= Threshold[k] + Margin[r] => k =< m
                       /\ m = 1 \/ s >= Threshold[m] + Margin[r]
                       /\ r = "python" => s < Threshold[c] + Margin[r] - Hysteresis[r]
                       /\ r # "python" => s < Threshold[c] - Hysteresis[r]
<1>s. PICK M \in Nat, H \in Nat : M = Margin[r] /\ H = Hysteresis[r]
  BY RuleSettings
<1>0. /\ m \in Int /\ c \in Int /\ m >= 1 /\ c >= 1
      /\ Threshold[m] \in Int /\ Threshold[c] \in Int
  BY IdsAreOrdered
<1>1. CASE r \in {"cpp", "engine"}
  <2>1. m = compute_modcod_with_hysteresis(s, c, M, H)
    BY <1>s, <1>1, ApplyCpp
  <2>2. CASE /\ s < Threshold[c] - H
             /\ m = 1 \/ s >= Threshold[m] + M
             /\ \A k \in ModcodIds : s >= Threshold[k] + M => k =< m
    <3>1. m = 1 \/ ~Dominated(m)
      BY <2>2, <1>0, BestIsNotDominated
    <3>2. m > c => s >= Threshold[m] + M
      BY <2>2, <1>0
    <3> QED BY <1>s, <1>1, <2>2, <3>1, <3>2
  <2>3. CASE /\ m >= c
             /\ m = c \/ s >= Threshold[m] + M + H
             /\ \A k \in ModcodIds : s >= Threshold[k] + M + H => k =< m
    <3>1. \A k \in ModcodIds : Threshold[k] + (M + H)
                                   = Threshold[k] + M + H
      BY <1>0, IdsAreOrdered
    <3>2. ~Dominated(m)
      <4> DEFINE slack == M + H
      <4>1. slack \in Int /\ s >= Threshold[m] + slack
        BY <2>3, <3>1, <1>0
      <4>2. \A k \in ModcodIds : s >= Threshold[k] + slack => k =< m
        BY <2>3, <3>1
      <4> HIDE DEF slack
      <4> QED BY <4>1, <4>2, BestIsNotDominated
    <3>3. s >= Threshold[m] + M + H
      BY <2>3
    <3>4. s >= Threshold[m] + M
      BY <3>3, <1>0
    <3>5. ~(m < c)
      BY <2>3, <1>0
    <3> QED BY <1>s, <1>1, <3>2, <3>3, <3>4, <3>5
  <2> QED BY <1>0, <2>1, <2>2, <2>3, CppOutcome
<1>2. CASE r = "python"
  <2> DEFINE d == select_modcod_for_snr(s, M)
  <2>1. /\ d = 1 \/ s >= Threshold[d] + M
        /\ \A k \in ModcodIds : s >= Threshold[k] + M => k =< d
    BY <1>0, SelectOutcome
  <2>2. /\ m = d
        /\ \/ d > c /\ s >= Threshold[d] + M + H
           \/ d < c /\ s < Threshold[c] + M - H
    BY <1>s, <1>2, PythonOutcome DEF Apply
  <2> HIDE DEF d
  <2>3. m = 1 \/ ~Dominated(m)
    BY <2>1, <2>2, <1>0, BestIsNotDominated
  <2>4. m > c => s >= Threshold[m] + M + H /\ s >= Threshold[m] + M
    BY <2>2, <1>0
  <2>5. m < c => s < Threshold[c] + M - H
    BY <2>2, <1>0
  <2> QED BY <1>s, <1>2, <2>1, <2>2, <2>3, <2>4, <2>5
<1> QED BY <1>1, <1>2, RuleSettings

-----------------------------------------------------------------------------
LEMMA RecordedChange ==
  ASSUME NEW l, NEW from \in Int, NEW to \in Int, NEW s
  PROVE  RecordChange(l, from, to, s) =
            IF to > from THEN [dir |-> "up", at |-> s]
            ELSE IF to < from THEN [dir |-> "down", at |-> s] ELSE l
BY DEF RecordChange

LEMMA InitIInv == Init => IInv
<1> SUFFICES ASSUME Init PROVE IInv
  OBVIOUS
<1>1. last.dir = "none" /\ last \in [dir : {"none", "up", "down"}, at : Int]
  BY DEF Init, NoChange
<1> QED BY <1>1 DEF Init, IInv, TypeOK, UpInv, DownInv, SameController, NeverDominated

\* The same for the simulation.
LEMMA SimulationChange ==
    ASSUME NEW r \in Rules, r = "simulation", NEW s \in Int, NEW c \in ModcodIds,
           NEW m \in ModcodIds, m = Apply(r, s, c)
    PROVE  /\ m > c => s >= Threshold[m] + Margin[r] + Hysteresis[r]
           /\ m < c => s < Threshold[c] + Margin[r]
<1>1. /\ m \in Int /\ c \in Int /\ m >= 1 /\ c >= 1
      /\ Threshold[m] \in Int /\ Threshold[c] \in Int
      /\ Margin[r] \in Nat /\ Hysteresis[r] \in Nat
  BY IdsAreOrdered, RuleSettings
<1>2. m = modcod_for_snr_rule(s, c, Margin[r], Hysteresis[r])
  BY DEF Apply
<1>3. /\ m > c => s >= Threshold[m] + Margin[r] + Hysteresis[r]
      /\ (s >= Threshold[c] + Margin[r]
             /\ (c > c => s >= Threshold[c] + Margin[r] + Hysteresis[r]))
            => c =< m
  BY <1>1, <1>2, SimulationOutcome
<1> QED BY <1>1, <1>3

\* What a change upwards and a change downwards say of the SNR, for every rule.
LEMMA ReachAndLeave ==
    ASSUME NEW r \in Rules, NEW s \in Int, NEW c \in ModcodIds,
           NEW m \in ModcodIds, m = Apply(r, s, c)
    PROVE  /\ Reach(r) \in Nat /\ Leave(r) \in Int
           /\ m > c => s >= Threshold[m] + Reach(r)
           /\ m < c => s < Threshold[c] + Leave(r)
<1>1. /\ m \in Int /\ c \in Int
      /\ Threshold[m] \in Int /\ Threshold[c] \in Int
      /\ Margin[r] \in Nat /\ Hysteresis[r] \in Nat
      /\ r \in {"cpp", "engine", "python", "simulation"}
  BY IdsAreOrdered, RuleSettings
<1>2. CASE r = "simulation"
  <2>1. Reach(r) = Margin[r] + Hysteresis[r] /\ Leave(r) = Margin[r]
    BY <1>2 DEF Reach, Leave
  <2> QED BY <1>1, <1>2, <2>1, SimulationChange
<1>3. CASE r = "python"
  <2>1. Reach(r) = Margin[r] + Hysteresis[r] /\ Leave(r) = Margin[r] - Hysteresis[r]
    BY <1>3 DEF Reach, Leave
  <2>2. /\ m > c => s >= Threshold[m] + Margin[r] + Hysteresis[r]
        /\ m < c => s < Threshold[c] + Margin[r] - Hysteresis[r]
    <3>1. CASE m = c
      BY <1>1, <3>1
    <3>2. CASE m # c
      BY <1>3, <3>2, ChangeOutcome
    <3> QED BY <3>1, <3>2
  <2> QED BY <1>1, <2>1, <2>2
<1>4. CASE r \in {"cpp", "engine"}
  <2>1. Reach(r) = Margin[r] /\ Leave(r) = -Hysteresis[r]
    BY <1>4 DEF Reach, Leave
  <2>2. /\ m > c => s >= Threshold[m] + Margin[r]
        /\ m < c => s < Threshold[c] - Hysteresis[r]
    <3>1. CASE m = c
      BY <1>1, <3>1
    <3>2. CASE m # c
      <4>1. r # "simulation" /\ r # "python"
        BY <1>4
      <4> QED BY <3>2, <4>1, ChangeOutcome
    <3> QED BY <3>1, <3>2
  <2> QED BY <1>1, <2>1, <2>2
<1> QED BY <1>1, <1>2, <1>3, <1>4

LEMMA NextIInv == IInv /\ [Next]_vars => IInv'
<1> SUFFICES ASSUME IInv, [Next]_vars PROVE IInv'
  OBVIOUS
<1>0. rule \in Rules /\ snr \in Int /\ modcod \in ModcodIds
  BY LevelsAssumption DEF IInv, TypeOK
<1> USE DEF SameController
<1>1. CASE UNCHANGED vars
  BY <1>1 DEF IInv, TypeOK, UpInv, Reach, DownInv, NeverDominated, Dominated, vars
<1>2. ASSUME NEW s \in Levels, Measure(s) PROVE IInv'
  BY <1>2 DEF IInv, TypeOK, UpInv, Reach, DownInv, NeverDominated, Dominated, Measure
<1>3. ASSUME NEW m \in ModcodIds, Override(m) PROVE IInv'
  <2>1. last'.dir = "none" /\ last' \in [dir : {"none", "up", "down"}, at : Int]
    BY <1>3 DEF Override, NoChange
  <2> QED BY <1>3, <2>1
          DEF IInv, TypeOK, UpInv, DownInv, NeverDominated, Override
<1>4. ASSUME TakeOver PROVE IInv'
  <2>1. rule' \in Rules /\ rule # "simulation" /\ rule' # "simulation"
    BY <1>4 DEF TakeOver
  <2> QED BY <1>4, <2>1
          DEF IInv, TypeOK, UpInv, Reach, DownInv, NeverDominated, Dominated, TakeOver
<1>5. ASSUME Decide PROVE IInv'
  <2> DEFINE m == Apply(rule, snr, modcod)
  <2>1. m \in ModcodIds /\ modcod' = m /\ rule' = rule /\ snr' = snr
    BY <1>5, <1>0, ApplyType DEF Decide
  <2>2. m \in Int /\ modcod \in Int
    BY <2>1, <1>0, IdsAreOrdered
  <2>3. last' = IF m > modcod THEN [dir |-> "up", at |-> snr]
                ELSE IF m < modcod THEN [dir |-> "down", at |-> snr] ELSE last
    BY <1>5, <2>1, <2>2, RecordedChange DEF Decide
  <2>4. by' = IF m = modcod THEN by ELSE rule
    BY <1>5, <2>1 DEF Decide
  <2>5. CASE m = modcod
    <3>1. last' = last /\ by' = by
      BY <2>2, <2>3, <2>4, <2>5
    <3> QED BY <2>1, <2>5, <3>1
            DEF IInv, TypeOK, UpInv, Reach, DownInv, NeverDominated, Dominated
  <2>6. CASE m > modcod
    <3>1. last' = [dir |-> "up", at |-> snr] /\ by' = rule
      BY <2>2, <2>3, <2>4, <2>6
    <3> HIDE DEF m
    <3>2. rule # "simulation" => m = 1 \/ ~Dominated(m)
      BY <1>0, <2>1, <2>2, <2>6, ChangeOutcome DEF m
    <3>3. snr >= Threshold[m] + Reach(rule)
      BY <1>0, <2>1, <2>6, ReachAndLeave DEF m
    <3>4. TypeOK' /\ SameController'
      BY <2>1, <3>1, <1>0 DEF IInv, TypeOK
    <3>5. UpInv'
      BY <2>1, <3>1, <3>3 DEF UpInv, Reach
    <3>6. DownInv'
      BY <3>1 DEF DownInv
    <3>7. NeverDominated'
      BY <2>1, <3>2 DEF NeverDominated, Dominated
    <3> QED BY <3>4, <3>5, <3>6, <3>7 DEF IInv
  <2>7. CASE m < modcod
    <3>1. last' = [dir |-> "down", at |-> snr] /\ by' = rule
      BY <2>2, <2>3, <2>4, <2>7
    <3> HIDE DEF m
    <3>2. rule # "simulation" =>
             /\ m = 1 \/ ~Dominated(m)
             /\ \A k \in ModcodIds : snr >= Threshold[k] + Margin[rule] => k =< m
             /\ m = 1 \/ snr >= Threshold[m] + Margin[rule]
      BY <1>0, <2>1, <2>2, <2>7, ChangeOutcome DEF m
    <3>3. TypeOK' /\ SameController'
      BY <2>1, <3>1, <1>0 DEF IInv, TypeOK
    <3>4. UpInv'
      BY <3>1 DEF UpInv
    <3>5. DownInv'
      BY <2>1, <3>1, <3>2 DEF DownInv
    <3>6. NeverDominated'
      BY <2>1, <3>2 DEF NeverDominated, Dominated
    <3> QED BY <3>3, <3>4, <3>5, <3>6 DEF IInv
  <2> HIDE DEF m
  <2> QED BY <2>2, <2>5, <2>6, <2>7
<1> QED BY <1>1, <1>2, <1>3, <1>4, <1>5 DEF Next

LEMMA Invariance == Spec => []IInv
BY InitIInv, NextIInv, PTL DEF Spec

-----------------------------------------------------------------------------
\* Type correctness: no rule, override or measurement leaves the table.
THEOREM TypeCorrect == Spec => []TypeOK
<1>1. IInv => TypeOK
  BY DEF IInv
<1> QED BY <1>1, Invariance, PTL

\* No rule ever moves to a dominated MODCOD.
THEOREM DominatedOnlyByOverride == Spec => []NeverDominated
<1>1. IInv => NeverDominated
  BY DEF IInv
<1> QED BY <1>1, Invariance, PTL

(***************************************************************************)
(* No ping-pong.  Only Decide changes last between two directions.  After  *)
(* an upgrade at SNR a, UpInv bounds the threshold of the MODCOD held by   *)
(* a, and a downgrade needs an SNR below that threshold by the tolerance   *)
(* of the rule that makes it.  After a downgrade at a, DownInv says        *)
(* nothing better was feasible at a for the rule that made it, and an      *)
(* upgrade needs it feasible with the hysteresis of its own rule on top.   *)
(***************************************************************************)
LEMMA StepDoesNotPingPong ==
    IInv /\ [Next]_vars =>
        [/\ last.dir = "up" /\ last'.dir = "down"
               => last.at - last'.at > Reach(by) - Leave(by')
         /\ rule # "simulation" /\ last.dir = "down" /\ last'.dir = "up"
               => last'.at - last.at > Margin[by'] + Hysteresis[by'] - Margin[by]]_vars
<1> DEFINE Calm ==
       /\ last.dir = "up" /\ last'.dir = "down"
             => last.at - last'.at > Reach(by) - Leave(by')
       /\ rule # "simulation" /\ last.dir = "down" /\ last'.dir = "up"
             => last'.at - last.at > Margin[by'] + Hysteresis[by'] - Margin[by]
<1> SUFFICES ASSUME IInv, Next PROVE Calm
  OBVIOUS
<1>0. /\ rule \in Rules /\ by \in Rules /\ snr \in Int /\ modcod \in ModcodIds
      /\ last.at \in Int
      /\ Margin[rule] \in Nat /\ Hysteresis[rule] \in Nat /\ Margin[by] \in Nat
  BY LevelsAssumption, RuleSettings DEF IInv, TypeOK
<1>1. ASSUME NEW s \in Levels, Measure(s) PROVE Calm
  BY <1>1 DEF Measure
<1>2. ASSUME NEW m \in ModcodIds, Override(m) PROVE Calm
  BY <1>2 DEF Override, NoChange
<1>3. ASSUME TakeOver PROVE Calm
  BY <1>3 DEF TakeOver
<1>4. ASSUME Decide PROVE Calm
  <2> DEFINE m == Apply(rule, snr, modcod)
  <2>1. m \in ModcodIds /\ modcod' = m
    BY <1>4, <1>0, ApplyType DEF Decide
  <2>2. /\ m \in Int /\ modcod \in Int /\ m >= 1
        /\ Threshold[m] \in Int /\ Threshold[modcod] \in Int /\ Threshold[1] =< Threshold[m]
    BY <2>1, <1>0, IdsAreOrdered, TableAssumption
  <2>3. last' = IF m > modcod THEN [dir |-> "up", at |-> snr]
                ELSE IF m < modcod THEN [dir |-> "down", at |-> snr] ELSE last
    BY <1>4, <2>1, <2>2, RecordedChange DEF Decide
  <2>4. m # modcod => by' = rule
    BY <1>4, <2>1 DEF Decide
  <2> HIDE DEF m
  <2>5. ASSUME last.dir = "up", last'.dir = "down"
        PROVE  last.at - last'.at > Reach(by) - Leave(by')
    <3>1. m < modcod /\ last'.at = snr /\ by' = rule
      BY <2>2, <2>3, <2>4, <2>5
    <3>2. Leave(rule) \in Int /\ snr < Threshold[modcod] + Leave(rule)
      BY <1>0, <2>1, <3>1, ReachAndLeave DEF m
    <3>3. last.at >= Threshold[modcod] + Reach(by)
      BY <2>5 DEF IInv, UpInv
    <3>4. Reach(by) \in Nat
      BY <1>0, ApplyType, ReachAndLeave
    <3>5. last.at - snr > Reach(by) - Leave(rule)
      BY <1>0, <2>2, <3>2, <3>3, <3>4
    <3> QED BY <3>1, <3>5 DEF Leave
  <2>6. ASSUME rule # "simulation", last.dir = "down", last'.dir = "up"
        PROVE  last'.at - last.at > Margin[by'] + Hysteresis[by'] - Margin[by]
    <3>1. m > modcod /\ last'.at = snr /\ by' = rule
      BY <2>2, <2>3, <2>4, <2>6
    <3>2. /\ snr >= Threshold[m] + Margin[rule]
          /\ \/ snr >= Threshold[m] + Margin[rule] + Hysteresis[rule]
             \/ snr < Threshold[modcod] - Hysteresis[rule]
      BY <1>0, <2>1, <2>2, <2>6, <3>1, ChangeOutcome DEF m
    <3>3. /\ last.at < Threshold[m] + Margin[by]
          /\ modcod = 1 \/ last.at >= Threshold[modcod] + Margin[by]
      <4>1. ~(m =< modcod)
        BY <2>2, <3>1
      <4>2. by # "simulation"
        BY <2>6 DEF IInv, SameController
      <4>3. ~(last.at >= Threshold[m] + Margin[by])
        BY <2>1, <2>6, <4>1, <4>2 DEF IInv, DownInv
      <4> QED BY <1>0, <2>2, <2>6, <4>2, <4>3 DEF IInv, DownInv
    <3>4. ~(snr < Threshold[modcod] - Hysteresis[rule])
      BY <1>0, <2>2, <3>2, <3>3
    <3>5. snr - last.at > Margin[rule] + Hysteresis[rule] - Margin[by]
      BY <1>0, <2>2, <3>2, <3>3, <3>4
    <3> QED BY <3>1, <3>5
  <2> QED BY <2>5, <2>6
<1> QED BY <1>1, <1>2, <1>3, <1>4 DEF Next

\* No ping-pong, for every table and every run of measurements, overrides and
\* changes of rule.
THEOREM NoPingPongHolds == Spec => NoPingPong
BY Invariance, StepDoesNotPingPong, PTL DEF Spec, NoPingPong

\* The rules do not fight: an upgrade outlives a change of rule until the SNR falls,
\* for every table and all settings that fit.
THEOREM UpgradesSurviveTakeover == SettingsFit /\ Spec => TakeoverKeepsUpgrades
<1> SUFFICES ASSUME SettingsFit PROVE Spec => TakeoverKeepsUpgrades
  OBVIOUS
<1>1. ASSUME IInv, [Next]_vars
      PROVE  [last.dir = "up" /\ last'.dir = "down" => last'.at < last.at]_vars
  <2> SUFFICES ASSUME Next, ~UNCHANGED vars, last.dir = "up", last'.dir = "down"
               PROVE  last'.at < last.at
    BY <1>1
  <2>1. last.at - last'.at > Reach(by) - Leave(by')
    BY <1>1, StepDoesNotPingPong
  <2>2. by \in Rules /\ by' \in Rules /\ last.at \in Int /\ last'.at \in Int
    BY <1>1, NextIInv DEF IInv, TypeOK
  <2>3. by' = by \/ {by, by'} \subseteq {"engine", "python"}
    BY <1>1, <2>2, NextIInv, RuleSettings DEF IInv, SameController, Next, Measure, Decide, TakeOver, Override
  <2>4. Reach(by) - Leave(by') >= 0
    BY <2>2, <2>3, RuleSettings DEF Reach, Leave, SettingsFit
  <2>5. Reach(by) - Leave(by') \in Int
    BY <2>2, RuleSettings DEF Reach, Leave
  <2> QED BY <2>1, <2>2, <2>4, <2>5
<1> QED BY <1>1, Invariance, PTL DEF Spec, TakeoverKeepsUpgrades

-----------------------------------------------------------------------------
\* A decision repeated at the same SNR changes nothing.
THEOREM DecisionsSettle == Spec => []DecisionSettles
<1>1. TypeOK => DecisionSettles
  <2> SUFFICES ASSUME TypeOK PROVE DecisionSettles
    OBVIOUS
  <2> DEFINE m == Apply(rule, snr, modcod)
             n == Apply(rule, snr, m)
  <2>s. PICK M \in Nat, H \in Nat : M = Margin[rule] /\ H = Hysteresis[rule]
    BY RuleSettings DEF TypeOK
  <2>0. /\ rule \in Rules /\ rule \in {"cpp", "engine", "python", "simulation"} /\ snr \in Int /\ modcod \in ModcodIds
    BY LevelsAssumption, RuleSettings DEF TypeOK
  <2>1. m \in ModcodIds /\ n \in ModcodIds
    BY <2>0, ApplyType
  <2>2. /\ m \in Int /\ n \in Int /\ modcod \in Int /\ m >= 1 /\ n >= 1
        /\ Threshold[m] \in Int /\ Threshold[modcod] \in Int /\ Threshold[n] \in Int
        /\ Threshold[1] =< Threshold[n] /\ Threshold[1] \in Int
    BY <2>0, <2>1, IdsAreOrdered, TableAssumption
  <2>3. CASE rule \in {"cpp", "engine"}
    <3>1. m = compute_modcod_with_hysteresis(snr, modcod, M, H)
          /\ n = compute_modcod_with_hysteresis(snr, m, M, H)
      BY <2>0, <2>1, <2>3, <2>s, ApplyCpp
    <3> HIDE DEF m, n
    <3>2. \/ /\ m = 1 \/ snr >= Threshold[m] + M
             /\ \A k \in ModcodIds : snr >= Threshold[k] + M => k =< m
          \/ /\ snr >= Threshold[modcod] - H
             /\ m = modcod \/ snr >= Threshold[m] + M + H
             /\ \A k \in ModcodIds : snr >= Threshold[k] + M + H => k =< m
      BY <2>0, <3>1, CppOutcome
    <3>3. \/ /\ snr < Threshold[m] - H
             /\ n = 1 \/ snr >= Threshold[n] + M
             /\ \A k \in ModcodIds : snr >= Threshold[k] + M => k =< n
          \/ /\ snr >= Threshold[m] - H
             /\ n >= m
             /\ n = m \/ snr >= Threshold[n] + M + H
      BY <2>0, <2>1, <3>1, CppOutcome
    <3>4. CASE snr < Threshold[m] - H
      <4>1. m = 1
        BY <2>0, <2>2, <3>2, <3>4
      <4>2. n = 1 \/ snr >= Threshold[n] + M
        BY <2>0, <2>2, <3>3, <3>4
      <4>3. n = 1
        BY <2>0, <2>2, <3>4, <4>1, <4>2
      <4> QED BY <4>1, <4>3 DEF DecisionSettles, m, n
    <3>5. CASE ~(snr < Threshold[m] - H)
      <4>1. n >= m /\ (n = m \/ snr >= Threshold[n] + M + H)
        BY <3>3, <3>5
      <4>2. snr >= Threshold[n] + M + H => n =< m
        BY <2>0, <2>1, <2>2, <3>2
      <4>3. n = m
        BY <2>2, <4>1, <4>2
      <4> QED BY <4>3 DEF DecisionSettles, m, n
    <3> QED BY <3>4, <3>5
  <2>4. CASE rule = "python"
    <3> DEFINE d == select_modcod_for_snr(snr, M)
    <3>1. m = select_modcod(snr, modcod, M, H) /\ n = select_modcod(snr, m, M, H)
      BY <2>s, <2>4 DEF Apply
    <3> HIDE DEF m, n
    <3>3. CASE m = modcod
      BY <3>1, <3>3 DEF DecisionSettles, m, n
    <3>4. CASE m # modcod
      <4>1. m = d
        BY <2>0, <3>1, <3>4, PythonOutcome
      <4>2. n = d \/ n = m
        BY <2>0, <2>1, <3>1, PythonOutcome
      <4> QED BY <4>1, <4>2 DEF DecisionSettles, m, n
    <3> QED BY <3>3, <3>4
  <2>5. CASE rule = "simulation"
    <3>1. m = modcod_for_snr_rule(snr, modcod, M, H) /\ n = modcod_for_snr_rule(snr, m, M, H)
      BY <2>s, <2>5 DEF Apply
    <3> HIDE DEF m, n
    <3>2. /\ m = 1 \/ snr >= Threshold[m] + M
          /\ m > modcod => snr >= Threshold[m] + M + H
          /\ (/\ snr >= Threshold[n] + M
              /\ n > modcod => snr >= Threshold[n] + M + H) => n =< m
      BY <2>0, <2>1, <3>1, SimulationOutcome
    <3>3. /\ n = 1 \/ snr >= Threshold[n] + M
          /\ n > m => snr >= Threshold[n] + M + H
          /\ (/\ snr >= Threshold[m] + M
              /\ m > m => snr >= Threshold[m] + M + H) => m =< n
      BY <2>0, <2>1, <3>1, SimulationOutcome
    <3>4. n =< m
      BY <2>0, <2>2, <3>2, <3>3
    <3>5. m =< n
      BY <2>0, <2>2, <3>2, <3>3
    <3>6. n = m
      BY <2>2, <3>4, <3>5
    <3> QED BY <3>6 DEF DecisionSettles, m, n
  <2> QED BY <2>0, <2>3, <2>4, <2>5
<1> QED BY <1>1, TypeCorrect, PTL

\* A decision leaves the link closed up to the tolerance of its rule, and the
\* Python rule's one exception is a dominated MODCOD.
THEOREM LinkStaysClosed == Spec => []KeepsLinkClosed
<1>1. TypeOK => KeepsLinkClosed
  <2> SUFFICES ASSUME TypeOK PROVE KeepsLinkClosed
    OBVIOUS
  <2> DEFINE m == Apply(rule, snr, modcod)
  <2>s. PICK M \in Nat, H \in Nat : M = Margin[rule] /\ H = Hysteresis[rule]
    BY RuleSettings DEF TypeOK
  <2>0. /\ rule \in Rules /\ rule \in {"cpp", "engine", "python", "simulation"}
        /\ snr \in Int /\ modcod \in ModcodIds
    BY LevelsAssumption, RuleSettings DEF TypeOK
  <2>1. m \in ModcodIds /\ m \in Int /\ modcod \in Int /\ Threshold[m] \in Int
    BY <2>0, ApplyType, IdsAreOrdered
  <2>2. CASE rule \in {"cpp", "engine"}
    <3>1. m = compute_modcod_with_hysteresis(snr, modcod, M, H)
      BY <2>0, <2>2, <2>s, ApplyCpp
    <3> HIDE DEF m
    <3>2. \/ m = 1
          \/ snr >= Threshold[m] + M
          \/ m = modcod /\ snr >= Threshold[modcod] - H
          \/ snr >= Threshold[m] + M + H
      BY <2>0, <3>1, CppOutcome
    <3>3. m = 1 \/ snr >= Threshold[m] - H
      BY <2>0, <2>1, <3>2
    <3> QED BY <2>s, <2>2, <3>3 DEF KeepsLinkClosed, m
  <2>3. CASE rule = "python"
    <3> DEFINE d == select_modcod_for_snr(snr, M)
    <3>1. m = select_modcod(snr, modcod, M, H)
      BY <2>s, <2>3 DEF Apply
    <3>2. /\ d \in ModcodIds
          /\ d = 1 \/ snr >= Threshold[d] + M
          /\ \A k \in ModcodIds : snr >= Threshold[k] + M => k =< d
      BY <2>0, SelectOutcome
    <3>3. \/ m = d
          \/ m = modcod /\ (d < modcod => snr >= Threshold[modcod] + M - H)
      BY <2>0, <3>1, PythonOutcome
    <3>4. d \in Int /\ Threshold[d] \in Int /\ d >= 1 /\ m >= 1
      BY <2>1, <3>2, IdsAreOrdered
    <3> HIDE DEF m, d
    <3>5. CASE m = d
      <4>1. m = 1 \/ snr >= Threshold[m] + M - H
        BY <2>0, <2>1, <3>2, <3>5
      <4> QED BY <2>s, <2>3, <4>1 DEF KeepsLinkClosed, m
    <3>6. CASE m # d /\ m > d
      <4>1. snr >= Threshold[m] + M - H
        BY <3>3, <3>6
      <4> QED BY <2>s, <2>3, <4>1 DEF KeepsLinkClosed, m
    <3>7. CASE m # d /\ d > m /\ ~(snr >= Threshold[m] + M - H)
      <4>1. Threshold[d] =< Threshold[m]
        BY <2>0, <2>1, <3>2, <3>4, <3>7
      <4>2. SpectralEff[d] > SpectralEff[m]
        <5>1. ~(SpectralEff[d] =< SpectralEff[m])
          BY <2>1, <3>2, <3>4, <3>7, IdsAreOrdered
        <5> QED BY <5>1, <2>1, <3>2, IdsAreOrdered
      <4>3. Dominated(m)
        BY <3>2, <4>1, <4>2 DEF Dominated
      <4> QED BY <2>s, <2>3, <4>3 DEF KeepsLinkClosed, m
    <3> QED BY <2>s, <2>1, <2>3, <3>4, <3>5, <3>6, <3>7 DEF KeepsLinkClosed, m
  <2>4. CASE rule = "simulation"
    <3>1. m = modcod_for_snr_rule(snr, modcod, M, H)
      BY <2>s, <2>4 DEF Apply
    <3> HIDE DEF m
    <3>2. m = 1 \/ snr >= Threshold[m] + M
      BY <2>0, <3>1, SimulationOutcome
    <3> QED BY <2>s, <2>4, <3>2 DEF KeepsLinkClosed, m
  <2> QED BY <2>0, <2>2, <2>3, <2>4
<1> QED BY <1>1, TypeCorrect, PTL

\* The C++ rule, the engine's and the simulation's never leave a clear upgrade
\* untaken.
THEOREM ClearUpgradesAreTaken == Spec => []TakesClearUpgrade
<1>1. TypeOK => TakesClearUpgrade
  <2> SUFFICES ASSUME TypeOK, rule # "python",
                      NEW k \in Feasible(snr, Margin[rule] + Hysteresis[rule])
               PROVE  k =< Apply(rule, snr, modcod)
    BY DEF TakesClearUpgrade
  <2> DEFINE m == Apply(rule, snr, modcod)
  <2>s. PICK M \in Nat, H \in Nat : M = Margin[rule] /\ H = Hysteresis[rule]
    BY RuleSettings DEF TypeOK
  <2>0. /\ rule \in Rules /\ rule \in {"cpp", "engine", "simulation"} /\ snr \in Int /\ modcod \in ModcodIds
    BY LevelsAssumption, RuleSettings DEF TypeOK
  <2>2. k \in ModcodIds /\ Threshold[k] \in Int /\ snr >= Threshold[k] + (M + H)
    BY <2>s, IdsAreOrdered DEF Feasible
  <2>3. snr >= Threshold[k] + M + H /\ snr >= Threshold[k] + M
    BY <2>0, <2>2
  <2>4. CASE rule \in {"cpp", "engine"}
    <3>1. m = compute_modcod_with_hysteresis(snr, modcod, M, H)
      BY <2>0, <2>4, <2>s, ApplyCpp
    <3> HIDE DEF m
    <3>2. k =< m
      BY <2>0, <2>2, <2>3, <3>1, CppOutcome
    <3> QED BY <3>2 DEF m
  <2>5. CASE rule = "simulation"
    <3>1. m = modcod_for_snr_rule(snr, modcod, M, H)
      BY <2>s, <2>5 DEF Apply
    <3> HIDE DEF m
    <3>2. k =< m
      BY <2>0, <2>2, <2>3, <3>1, SimulationOutcome
    <3> QED BY <3>2 DEF m
  <2> QED BY <2>0, <2>4, <2>5
<1> QED BY <1>1, TypeCorrect, PTL

=============================================================================
