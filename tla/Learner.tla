------------------------------ MODULE Learner ------------------------------
(***************************************************************************)
(* DQNAgent and AcmAIEngine (python/dvbs2acm/acm_controller_ai.py): where  *)
(* experience comes from, how it becomes n-step transitions, when the      *)
(* agent trains and what survives a crash.  The program runs in one of     *)
(* three ways:                                                             *)
(*   "offline"   run_simulation (examples/acm_loopback_sim.py) steps an    *)
(*               agent through scenarios and trains after every step;      *)
(*   "inference" the engine with --inference-only: warm-start training on  *)
(*               simulated passes, then decisions only;                    *)
(*   "online"    the engine as it starts by default: after the warm start  *)
(*               a training thread runs beside the request loop.           *)
(* A step of a pass or a scenario, and a request, count one step each.     *)
(*                                                                         *)
(* Left out: the networks (the greedy choice is any MODCOD), the reward's  *)
(* numbers (only which action it values, and whether a change of MODCOD    *)
(* was charged), the exploration rate, and logs.                           *)
(***************************************************************************)
EXTENDS ReplayBuffer, FiniteSets

CONSTANTS
    Modcods,        \* the MODCODs the policy chooses from
    InitialModcod,  \* 4, QPSK 1/2
    NStep,          \* n_step
    Passes,         \* passes of a warm start, scenarios of an offline run
    PassSteps,      \* steps of a pass or scenario
    TrainIters,     \* train_iters
    SaveEvery,      \* target_update_freq
    SeqLen, PredSteps, TrainEvery,  \* of the SNR predictor
    MaxRequests,    \* bound on the requests of a behaviour
    MaxTrainSteps,  \* bound on the train steps
    MaxKills        \* bound on the crashes

ASSUME LearnerAssumption ==
    /\ InitialModcod \in Modcods
    /\ {NStep, SaveEvery, PassSteps, SeqLen, PredSteps, TrainEvery} \subseteq Nat \ {0}
    /\ {Passes, TrainIters, MaxRequests, MaxTrainSteps, MaxKills} \subseteq Nat

Modes == {"offline", "inference", "online"}
NoStep == [at |-> 0, action |-> InitialModcod, before |-> InitialModcod]
NoFile == -1        \* there is no checkpoint
Torn == -2          \* torch.save was interrupted

VARIABLES
    mode,       \* how the program was started
    phase,      \* "pretrain", "fit", "simulate", "serve", "done", "failed"
    pc,         \* the thread that gathers experience: "ready", "push", "select",
                \* "train"
    at, pass,   \* the steps gathered so far, and the pass of the last one
    held,       \* current_modcod, current_id or last_modcod
    prev,       \* prev_state, prev_action and, offline, prev_id
    nstep,      \* _nstep_buf
    stored,     \* history variable: what was pushed, by number
    iters,      \* train_iters still to run in the warm start
    trainSteps, \* train_steps
    file,       \* the checkpoint: the train steps it holds, NoFile or Torn
    predictor,  \* the SNR predictor: the length of its history, the samples since
                \* it was trained, whether it ever was, and whether its file is
    requests, kills     \* what is left of the bounds

agentVars == <<mode, phase, pc, at, pass, held, prev, nstep, stored, iters,
               trainSteps, file, predictor, requests, kills>>
vars == <<bufferVars, agentVars>>

\* __init__ of agent and engine: a checkpoint on disk is loaded.  Everything
\* else starts afresh, and an engine warms up before it serves.
StartPhase == IF mode = "offline" THEN "simulate" ELSE "pretrain"

AgentInit ==
    /\ pc = "ready"
    /\ at = 0 /\ pass = 1
    /\ held = InitialModcod
    /\ prev = NoStep
    /\ nstep = <<>>
    /\ stored = <<>>
    /\ iters = TrainIters

Init ==
    /\ BufferInit
    /\ AgentInit
    /\ mode \in Modes
    /\ phase = StartPhase
    /\ trainSteps = 0
    /\ file = NoFile
    /\ predictor = [len |-> 0, since |-> 0, trained |-> FALSE, saved |-> FALSE]
    /\ requests = MaxRequests
    /\ kills = MaxKills

-----------------------------------------------------------------------------
\* One transition before it enters the n-step buffer.  values is the step whose
\* action the reward is computed for.  compute_reward charges a change when the
\* action differs from the MODCOD it is given as the previous one.
Experience(values, action, previous) ==
    [from |-> prev.at, to |-> at + 1, pass |-> pass, values |-> values,
     changed |-> prev.action # prev.before, charged |-> action # previous]

\* push_experience: a full buffer loses its oldest entry; once it is full,
\* every transition pushes the n steps it ends.
Window(e) == IF Len(nstep) = NStep THEN Append(Tail(nstep), e) ELSE Append(nstep, e)

\* Slip: the return leads to the first next state.
Returns_FirstNext(w) ==
    [from |-> w[1].from, to |-> w[1].to, passes |-> {w[i].pass : i \in DOMAIN w}]

Returns(w) == [from |-> w[1].from, to |-> w[Len(w)].to,
               passes |-> {w[i].pass : i \in DOMAIN w}]

PushExperience(e) ==
    LET w == Window(e) IN
    /\ nstep' = w
    /\ \/ /\ Len(w) < NStep
          /\ UNCHANGED <<bufferVars, stored>>
       \/ /\ Len(w) >= NStep
          /\ Push
          /\ stored' = Append(stored, Returns(w))

\* The action is chosen; it is the previous one of the next step.
Take(action) ==
    /\ at' = at + 1
    /\ held' = action
    /\ prev' = [at |-> at + 1, action |-> action, before |-> held]

Gather(e) ==
    \/ /\ prev = NoStep
       /\ UNCHANGED <<bufferVars, nstep, stored>>
    \/ /\ prev # NoStep
       /\ PushExperience(e)

\* pretrain, one step of a pass: the oracle's action is chosen first, and the
\* reward is that of the new action.
PretrainStep(action) ==
    /\ phase = "pretrain" /\ pc = "ready"
    /\ at < pass * PassSteps
    /\ Gather(Experience(at + 1, action, action))
    /\ Take(action)
    /\ pc' = "push"
    /\ UNCHANGED <<mode, phase, pass, iters, trainSteps, file, predictor, requests, kills>>

\* run_simulation, one step of a scenario: select_action, the reward of the
\* previous action against the MODCOD before it, and train_step.
SimulateStep(action) ==
    /\ phase = "simulate" /\ pc = "ready"
    /\ at < pass * PassSteps
    /\ Gather(Experience(prev.at, prev.action, prev.before))
    /\ Take(action)
    /\ pc' = IF prev = NoStep THEN "push" ELSE "train"
    /\ UNCHANGED <<mode, phase, pass, iters, trainSteps, file, predictor, requests, kills>>

\* SNRPredictor.update: the history is a rolling window, and training that is due
\* but finds no complete pair of windows is put off by TrainEvery samples.
Observe ==
    LET longer == predictor.len + 1
        len == IF longer > 4 * SeqLen THEN 4 * SeqLen ELSE longer
        due == len >= SeqLen + PredSteps /\ predictor.since + 1 >= TrainEvery IN
    predictor' = [predictor EXCEPT
        !.len = len,
        !.since = IF due THEN 0 ELSE predictor.since + 1,
        !.trained = predictor.trained \/ (due /\ len - SeqLen - PredSteps >= 1)]

\* process_request up to the experience: the reward is that of the previous
\* action against last_modcod, which is that action's MODCOD.
Request ==
    /\ phase = "serve" /\ pc = "ready"
    /\ requests > 0
    /\ requests' = requests - 1
    /\ Observe
    /\ Gather(Experience(prev.at, prev.action, held))
    /\ pc' = "select"
    /\ UNCHANGED <<mode, phase, at, pass, held, prev, iters, trainSteps, file, kills>>

\* The rest of it: select_action, and the reply is sent.
Select(action) ==
    /\ pc = "select" /\ ~Updating("engine")
    /\ Take(action)
    /\ pc' = "ready"
    /\ UNCHANGED <<bufferVars, mode, phase, pass, nstep, stored, iters, trainSteps, file,
                   predictor, requests, kills>>

\* add returns to the warm start's loop.
Pushed ==
    /\ pc = "push" /\ ~Updating("engine")
    /\ pc' = "ready"
    /\ UNCHANGED <<bufferVars, mode, phase, at, pass, held, prev, nstep, stored, iters,
                   trainSteps, file, predictor, requests, kills>>

\* The next pass or scenario starts without a previous step; the n-step buffer
\* keeps what it has.  After the last pass of a warm start the agent is fitted.
NextPass ==
    /\ phase \in {"pretrain", "simulate"} /\ pc = "ready"
    /\ at = pass * PassSteps
    /\ held' = InitialModcod
    /\ prev' = NoStep
    /\ \/ /\ pass < Passes
          /\ pass' = pass + 1
          /\ UNCHANGED phase
       \/ /\ pass = Passes
          /\ pass' = pass + 1
          /\ phase' = IF phase = "pretrain" THEN "fit" ELSE "done"
    /\ UNCHANGED <<bufferVars, mode, pc, at, nstep, stored, iters, trainSteps, file,
                   predictor, requests, kills>>

\* The end of the warm start: run() binds the socket and starts the thread.
Serve ==
    /\ phase = "fit" /\ iters = 0 /\ trainer.pc = "idle"
    /\ phase' = "serve"
    /\ UNCHANGED <<bufferVars, mode, pc, at, pass, held, prev, nstep, stored, iters,
                   trainSteps, file, predictor, requests, kills>>

-----------------------------------------------------------------------------
\* Who calls train_step: the simulation once a step, the warm start train_iters
\* times, the training thread ten times a second.
TrainCall ==
    \/ phase = "simulate" /\ pc = "train" /\ ~Updating("engine")
    \/ phase = "fit" /\ iters > 0
    \/ phase = "serve" /\ mode = "online"

\* With fewer entries than a batch train_step returns at once.
Untrained ==
    /\ TrainCall
    /\ trainer.pc = "idle" /\ size < BatchSize
    /\ trainer' = [trainer EXCEPT !.pc = "return"]
    /\ UNCHANGED <<treeVars, data, write, size, maxPriority, pushes, agentVars>>

Train ==
    /\ TrainCall
    /\ phase = "serve" => trainSteps < MaxTrainSteps
    /\ TrainStart
    /\ UNCHANGED <<mode, phase, pc, at, pass, held, prev, nstep, stored, iters, trainSteps,
                   file, predictor, requests, kills>>

\* Slip: the period of the checkpoints is one step longer.
Count_Later ==
    /\ trainer.pc = "count"
    /\ trainSteps' = trainSteps + 1
    /\ trainer' = [trainer EXCEPT !.pc = IF (trainSteps + 1) % (SaveEvery + 1) = 0
                                        THEN "save" ELSE "return"]
    /\ UNCHANGED <<treeVars, data, write, size, maxPriority, pushes, mode, phase, pc, at,
                   pass, held, prev, nstep, stored, iters, file, predictor, requests,
                   kills>>

\* The rest of train_step: the count, and every SaveEvery steps the target
\* network and a checkpoint, which torch.save writes in place.
Count ==
    /\ trainer.pc = "count"
    /\ trainSteps' = trainSteps + 1
    /\ \/ /\ (trainSteps + 1) % SaveEvery # 0
          /\ trainer' = [trainer EXCEPT !.pc = "return"]
       \/ /\ (trainSteps + 1) % SaveEvery = 0
          /\ trainer' = [trainer EXCEPT !.pc = "save"]
    /\ UNCHANGED <<treeVars, data, write, size, maxPriority, pushes, mode, phase, pc, at,
                   pass, held, prev, nstep, stored, iters, file, predictor, requests, kills>>

SaveStart ==
    /\ trainer.pc = "save"
    /\ trainer' = [trainer EXCEPT !.pc = "saving"]
    /\ file' = Torn
    /\ UNCHANGED <<treeVars, data, write, size, maxPriority, pushes, mode, phase, pc, at,
                   pass, held, prev, nstep, stored, iters, trainSteps, predictor, requests,
                   kills>>

SaveEnd ==
    /\ trainer.pc = "saving"
    /\ trainer' = [trainer EXCEPT !.pc = "return"]
    /\ file' = trainSteps
    /\ UNCHANGED <<treeVars, data, write, size, maxPriority, pushes, mode, phase, pc, at,
                   pass, held, prev, nstep, stored, iters, trainSteps, predictor, requests,
                   kills>>

\* train_step returns to whoever called it.
TrainReturn ==
    /\ trainer.pc = "return"
    /\ trainer' = [trainer EXCEPT !.pc = "idle"]
    /\ iters' = IF phase = "fit" THEN iters - 1 ELSE iters
    /\ pc' = IF phase = "simulate" THEN "ready" ELSE pc
    /\ UNCHANGED <<treeVars, data, write, size, maxPriority, pushes, mode, phase, at, pass,
                   held, prev, nstep, stored, trainSteps, file, predictor, requests, kills>>

-----------------------------------------------------------------------------
\* The process ends and is started again: a checkpoint is loaded, and one that
\* cannot be read ends the constructor.
Restart ==
    /\ kills > 0 /\ phase # "failed"
    /\ kills' = kills - 1
    /\ data' = [i \in Slots |-> None]
    /\ tree' = [n \in Nodes |-> 0]
    /\ upd' = [t \in Threads |-> IdleUpdate]
    /\ write' = 0 /\ size' = 0 /\ pushes' = 0
    /\ maxPriority' = One
    /\ trainer' = IdleTrainer
    /\ pc' = "ready"
    /\ at' = 0 /\ pass' = 1
    /\ held' = InitialModcod
    /\ prev' = NoStep
    /\ nstep' = <<>> /\ stored' = <<>>
    /\ iters' = TrainIters
    /\ phase' = IF file = Torn THEN "failed" ELSE StartPhase
    /\ trainSteps' = IF file \in Nat THEN file ELSE 0
    /\ UNCHANGED <<mode, file, requests>>

Restarted(saved) ==
    [len |-> 0, since |-> 0, trained |-> saved, saved |-> saved]

\* It is killed at any moment, or interrupted at the keyboard while it serves:
\* then the predictor is saved, and the daemon thread ends wherever it is.
Kill == Restart /\ predictor' = Restarted(predictor.saved)

Interrupt ==
    /\ phase = "serve"
    /\ Restart
    /\ predictor' = Restarted(predictor.saved \/ predictor.trained)

EngineWork ==
    \/ \E a \in Modcods : PretrainStep(a) \/ SimulateStep(a) \/ Select(a)
    \/ Propagate("engine") /\ UNCHANGED agentVars
    \/ PushEnd /\ UNCHANGED agentVars
    \/ Pushed
    \/ NextPass
    \/ Serve

TrainStep ==
    \/ Untrained
    \/ Train
    \/ TrainerStep /\ UNCHANGED agentVars
    \/ Count
    \/ SaveStart
    \/ SaveEnd
    \/ TrainReturn

Next == Request \/ EngineWork \/ TrainStep \/ Kill \/ Interrupt

Spec == Init /\ [][Next]_vars

-----------------------------------------------------------------------------
\* One thread does everything, or the training thread has not been started.
OneThread == mode # "online" \/ phase # "serve"

\* The variables keep their types; one point of the program at a time.
TypeOK ==
    /\ tree \in [Nodes -> Int]
    /\ data \in [Slots -> 0 .. MaxPushes]
    /\ write \in Slots
    /\ size \in 0 .. Capacity
    /\ maxPriority \in Priorities \union {One}
    /\ pushes \in 0 .. MaxPushes
    /\ trainer.pc \in {"idle", "draw", "descend", "priority", "count", "save", "saving",
                      "return", "dead"}
    /\ trainer.cur.node \in Nodes
    /\ mode \in Modes
    /\ phase \in {"pretrain", "fit", "simulate", "serve", "done", "failed"}
    /\ pc \in {"ready", "push", "train", "select"}
    /\ held \in Modcods
    /\ Len(nstep) <= NStep
    /\ file \in {NoFile, Torn} \union Nat

\* While one thread pushes and trains, every inner node of the sum tree is the
\* sum of its children up to the update in progress, and so exactly that between
\* two updates (_SumTree, lines 307-308).
SumsMatch == OneThread => Summed

\* While one thread pushes and trains, a positive draw ends at a stored
\* transition of positive priority, so that its weight can be computed
\* (_retrieve and sample).
DrawsFindEntries ==
    OneThread /\ trainer.pc = "descend" /\ trainer.cur.s > 0 =>
        /\ trainer.cur.s <= tree[trainer.cur.node]
        /\ trainer.cur.node \in Leaves =>
               tree[trainer.cur.node] > 0 /\ data[Slot(trainer.cur.node)] # None

\* The training thread does not die of an exception (train_loop catches none).
TrainerSurvives == trainer.pc # "dead"

\* Between two updates, of the draws 1 .. total exactly as many end at a leaf as
\* its priority says: transitions are sampled with probability proportional to
\* their priority (PrioritizedReplayBuffer), whatever the shape of the tree.
SampledInProportion ==
    LET leafOf[n \in Nodes] == [s \in Int |->
            IF n \in Leaves THEN n
            ELSE IF s <= tree[Left(n)] THEN leafOf[Left(n)][s]
            ELSE leafOf[Right(n)][s - tree[Left(n)]]]
    IN OneThread /\ (\A t \in Threads : ~Updating(t)) =>
           \A leaf \in Leaves :
               Cardinality({s \in 1 .. tree[0] : leafOf[0][s] = leaf}) = tree[leaf]

\* A TD error becomes the priority of the transition it was computed for, when no
\* other thread pushes in between (sample, update_priorities).
ErrorsGoHome ==
    OneThread /\ Updating("trainer") =>
        data[Slot(upd["trainer"].leaf)] = trainer.batch[trainer.k]

\* A transition that stays in one pass covers NStep consecutive steps, and each of
\* the rewards it sums is that of a step it covers or of the step it leads to
\* (push_experience, lines 655-674).
NStepIsConsecutive ==
    /\ \A k \in 1 .. Len(stored) :
          Cardinality(stored[k].passes) = 1 => stored[k].to - stored[k].from = NStep
    /\ \A k \in 1 .. Len(nstep) :
          /\ nstep[k].from < nstep[k].to
          /\ nstep[k].values \in {nstep[k].from, nstep[k].to}

\* The switching penalty is charged for every change of MODCOD (lines 429, 590).
SwitchIsCharged == \A k \in 1 .. Len(nstep) : nstep[k].changed => nstep[k].charged

\* What a crash costs: the checkpoint on disk is less than SaveEvery train
\* steps behind, unless the crash comes while it is being written.
CheckpointLag ==
    file # Torn /\ trainer.pc # "save" =>
        trainSteps < SaveEvery + (IF file = NoFile THEN 0 ELSE file)

=============================================================================
