# TLA+ models and proofs for gr-dvbs2acm

This directory holds a formal model of the ACM (adaptive coding and modulation)
control of gr-dvbs2acm, the configurations that model-check it with TLC, and
proofs of its main properties with TLAPS. Paths below are relative to the root
of the repository.

## 1. The system

gr-dvbs2acm adapts the MODCOD (one of 28 pairs of modulation and code rate) of a
DVB-S2 link to the SNR the receiver sees. There are two control planes:

* the **Python blocks** (`python/dvbs2acm/*_py.py`), which the flowgraphs in
  `examples/` run, and
* the **C++ blocks** (`lib/`), which implement the controller, the SNR estimator
  and the BB framer for a native build.

An **AI engine** (`acm_controller_ai.py`) is a separate process that the Python
controller asks over ZMQ. In a flowgraph (`examples/acm_loopback.py:389-413`):

```
 leo_channel --channel_state--> acm_controller --modcod_out--> bb_framer
 snr_estimator --snr_out--> acm_feedback --feedback_out--> acm_controller (snr_in)
 fec_decoder --ber_out--> acm_feedback
 GUI --force_modcod / set_acm_mode--> acm_controller --REQ/REP--> AI engine
 source -> bb_framer -> fec_encoder -> modulator -> pl_framer -> leo_channel
        -> pl_sync -> demodulator -> fec_decoder
```

GNU Radio runs each block on a thread of its own; the message handlers of one
block never overlap. What does overlap is the GUI thread (which calls setters
directly), the AI thread of the C++ controller, the training thread of the
engine, and the processes on the two sides of the ZMQ socket.

### Components, their state and what makes them correct

| Component | State | Operations | Hard part | Correct when |
|---|---|---|---|---|
| MODCOD table and rules (`modcod_config.h`, `modcod_table.py`, rules in `acm_controller_ai.py` and `acm_loopback_sim.py`) | none | lookup, selection, rule with hysteresis (four versions, three tables) | thresholds are not monotone in the identifier | no ping-pong, idempotent, link closed, no dominated MODCOD, rules that take turns do not undo each other |
| C++ `acm_controller` | MODCOD, mode, override flag, SNR history, AI thread | SNR and channel-state handlers, AI loop, `force_modcod`, `set_acm_mode`, destructor | four threads, mostly atomics, a condition variable without predicate | overrides hold, decisions reach the transmitter in order, destructor returns, the held MODCOD follows from the averages |
| Python `acm_controller` | MODCOD, mode, last published MODCOD, smoothed SNR, ZMQ socket | the same handlers, AI query with timeout, setters | GUI thread between any two reads; slow or dead engine | answers are fresh, handlers return, CCM holds, what is held is what was published or forced |
| AI engine, service loop | last request | receive, decide, reply | may die anywhere | see the Python controller |
| AI engine, learner | sum tree, n-step buffer, networks, checkpoint | warm start, push, sample, update priorities, train, save, restart | training thread and request loop without lock; a crash while saving | sums match the leaves, sampling is proportional, errors go to their transitions, n steps are consecutive, a crash costs less than one period |
| `acm_feedback` | filtered SNR and FER, time of the last report | two handlers, rate-limited report | reports that are held back | the controller hears of a lost frame |
| transmit chain (Python) | a buffer and a MODCOD per block | cut a frame, read tags, forward tags | a tag is applied to bits that lie before it; the scheduler copies tags to where they do not belong | a frame is encoded, mapped and framed with one MODCOD, and never with one from before its bits |
| receive chain (Python) | search buffer, lock, cached pilot positions, MODCODs, buffers | acquire, decode header, cut frames | chunks do not begin with frames; positions are those of the header before | no frame start is lost, pilots are pilots, the demodulator follows the headers |
| C++ `bb_framer_acm` | frame parameters under a mutex | `set_modcod`, `general_work` | `general_work` reads without the mutex | header, payload and padding belong together |
| `snr_estimator` (Python, C++) | history, counters | estimate, average, report | choice of method, failed estimations | a report per period of measurements |
| `leo_channel` | pass clock, update time, model | advance, update, restart, setters | restart and setters while running, without lock | the clock stays in the pass, states keep coming |
| `orbit_visualizer` | trail, switch log, history of the pass | two handlers | new passes must be recognised from two states | the bar shows the history of one pass |
| `leo_channel_model`, flowgraph, examples, slides | - | - | - | see section 8 |

The hazards of this code, each at its line with the properties that cover it,
are listed in `PROJECT.json`.

## 2. Modules

| Module | What it is |
|---|---|
| `ModcodTable` | The table as parameters with the assumptions the 28 rows satisfy, and the selection rules as operators |
| `Dvbs2Table` | The 28 rows, with the copies the engine and the simulation keep |
| `AcmDecision` | The abstract controller: measure, decide by rule, be overridden; the properties of the rules |
| `AcmControllerCpp` | The C++ block with its threads; implements `AcmDecision` |
| `AcmControllerPy` | The Python block, its GUI thread and the AI engine; implements `AcmDecision` |
| `TagStream` | A stream with its tags, as the scheduler keeps it |
| `TxChain` | The four Python transmit blocks and the streams between them |
| `PlFrame` | The layout of a PL frame for framer and receiver, and the PLSCODE with its vote |
| `RxChain` | Synchronisation, header decoding, carrier loop positions, demodulator |
| `SnrEstimator`, `FecDecoder` | Which calls of the two blocks measure, cut and report |
| `AcmFeedback` | The reports of the receiver: composes `SnrEstimator`, `FecDecoder` and the feedback block |
| `SumTree` | The sum tree, one read or write of a node per step |
| `ReplayBuffer` | Prioritized replay and a training step on top of it |
| `Learner` | The three programs that gather experience and train, checkpoints and restarts |
| `LeoChannel` | The clock of a pass, with the scheduler's thread and the runtime setters |
| `OrbitVisualizer` | What the visualizer keeps of a pass, fed by `LeoChannel` |
| `MC...` | Tables, levels and sizes for TLC, one module per instance |
| `AcmDecisionProofs`, `AcmControllerCppProofs`, `AcmControllerPyProofs`, `AcmFeedbackProofs`, `TxChainProofs`, `RxChainProofs`, `LearnerProofs`, `OrbitVisualizerProofs` | Lemmas and theorems |

Definitions named `X_Something` that stand just before `X` and whose comment begins with
"Slip" are wrong variants of `X`. No specification uses them: they are there to
show that each property notices a plausible mistake in the code.

### ModcodTable and AcmDecision

SNRs and thresholds are integers (hundredths of a dB with the real table), which is
exact for the table and for the comparisons. `compute_modcod_with_hysteresis`,
`rule_based_modcod` and `select_modcod` are the rules of the C++ controller, the
engine and the Python controller; the loops that keep the best entry become a
`CHOOSE` of the most efficient feasible entry, the loop of the engine that keeps
the last feasible one a `CHOOSE` of the greatest. `modcod_for_snr_rule` is the rule of
`examples/acm_loopback_sim.py`; with its constants, 1.0 and 1.5 dB, it needs the margin up to the current
MODCOD and margin + hysteresis above it. Nothing assumes that thresholds
grow with the identifier, because they do not (rows 11/12, 16/18, 23/24).

The rows are written down three more times in the code. `TablesAgree` says that the engine's copy is that of
`modcod_config.h`, `SimulationIsStricter` that the simulation's is not: from 16APSK on its thresholds are 2 to 4 dB higher.
TLC evaluates both. The runs give all rules one table; the theorems hold for each table by itself (the simulation's rule does
not look at efficiencies, so that the order of its own does not matter).

`AcmDecision` has the variables `rule`, `snr`, `modcod` and the history variables
`last` (direction of the last change a rule made, and at which SNR) and `by` (which rule made it). Its actions
are `Measure`, `Decide`, `Override` and `TakeOver`.

Each rule has its own margin and hysteresis, because each caller has: 1.0 and 0.3 dB in the C++ block
(`acm_controller.h:61-62`), 1.0 and 0.5 dB in the Python block (`acm_controller_py.py:19`), 1.0 and 1.5 dB (the sum) in the
simulation, and 0.5 and 0.3 dB in the engine, whose calls pass none (`acm_controller_ai.py:611`, 808, 1129), whatever the
settings of the block that asks. `TakeOver` is what makes that matter: the Python block decides by the engine's rule
when the engine answers without a model and by its own when the query times out.

### AcmControllerCpp

Each thread has a program counter and the locals that survive a step; a step
ends before the thread's next access to state that another thread can touch.

| Code (`lib/acm_controller_impl.cc`) | Actions |
|---|---|
| `handle_snr_msg`, lock lost (134-144) | `ReceiveUnlocked`, `Fallback` |
| `handle_snr_msg`, locked (146-201) | `ReceiveLocked`, `TestMode`, `TestForced`, `NotifyAi`, `Decide`, `Commit`, `Publish` |
| `handle_channel_state_msg` | `ReceiveChannelState` |
| `ai_communication_thread` | `AiCheck`, `AiEnterWait`, `AiNotified`, `AiTimeout`, `AiSample`, `AiLoad`, `AiStore`, `AiPublish` |
| `force_modcod` | `ForceModcod`, `ForceStore` |
| `set_acm_mode` | `SetMode`, `ClearForced` |
| destructor | `Destroy`, `DestroyNotify`, `Join` |

`d_acm_mode` is a plain byte that two threads access. Its reads and writes are
single loads and stores in any build, made in separate calls, so that the only
outcomes are the old and the new value: the interleavings of `TestMode` and `SetMode`.

The refinement mapping to `AcmDecision` takes the last average computed by the
thread that decides for the SNR. Computing an average is then a `Measure`, the
store of a decision a `Decide`; a store that finds another MODCOD than the one it
decided on, the fallback and `force_modcod` are `Override`s.

The history variable `under` holds, for the handler and the AI thread, which overrides (CCM mode, the flag, the one or the
other) have been in force at every moment since the thread took up its work; `locked` is the lock status of the last message.

`UseAi` (whether there is an AI thread) is chosen in the initial states and never changes, so that every run has blocks of both
kinds. Without the AI thread the handler decides; with it the handler stops at `NotifyAi`.

### AcmControllerPy

| Code (`python/dvbs2acm/acm_controller_py.py`) | Actions |
|---|---|
| `_handle_snr` to line 162 | `ReceiveFeedback` (dictionary), `ReceiveNumber` (number or pair) |
| `_handle_channel_state` | `ReceiveChannelState` |
| an exception in it | `Raise` (from `RuleThresh` and `Compare`) |
| `_select_modcod` | `SelectCcm`, `SelectOther`, `RuleThresh`, `RuleUp`, `RuleDown`, `RuleKeep` |
| `_query_ai` | `Query`, `TakeReply`, `TimeOut` |
| `_handle_snr` from line 165 | `Compare`, `Commit`, `Publish`, `Stats` |
| `force_modcod`, `set_acm_mode` | `ForceModcod`, `SetMode` |
| engine: `run`, `process_request` | `EngineReceive`, `EngineReply`, `EngineFail`, `EngineCrash`, `EngineStart` |

The rule reads `current_modcod` without the lock once per comparison, hence four
steps. The exponential smoothing is a move to some level between the smoothed
value and the sample, which contains what the code computes. The engine's policy is
learned, so it may answer with any MODCOD. A REQ socket that times out is dropped
by the code; ZMQ then discards replies to it while its request may still be served:
`sock` and the socket number in a request say which is which. A crash of the engine
loses the requests that have reached it and keeps those still with the sender.

`force_modcod` checks nothing, so the MODCOD held is any integer of `ForceTargets`. Python takes an index below 0 from the end
of the table (`Indexed`, `Row`); a number beyond either end raises an `IndexError` in the rule, and in the engine, whose
loop ends with it (`EngineFail`); a selection outside the table raises a `ValueError` before it is stored (`Compare`).
`_handle_channel_state` catches everything; an exception in the handler of `snr_in` ends the block's thread (`handler.pc = "dead"`).

In the refinement what the engine answers is an `Override`, because the abstract
controller promises nothing about a learned policy; so is a selection that raced
with `force_modcod`. While a number outside the table is held, the abstract controller holds the MODCOD selected last.

### TxChain

| Code (`python/dvbs2acm/`) | Actions |
|---|---|
| `bb_framer_acm_py.py`: `_handle_modcod`, `general_work` | `ModcodIn`, `BbFramerWork` |
| `fec_encoder_acm_py.py`: `general_work` | `FecEncoderWork` |
| `modulator_acm_py.py`: `general_work` | `ModulatorWork` |
| `pl_framer_acm_py.py`: `general_work` | `PlFramerWork` |

Every way the scheduler may cut a stream into windows is a behaviour, as far as it calls the blocks at all: `encoder`,
`modulator` and `pl_framer` set an output multiple of a largest frame and define no `forecast`, so that by that of
`gr.basic_block` they are called only when as many items wait to be read (`Nldpc`, `MaxSymbols`, `MaxPlFrame`). Items are counted, not
represented: a stream is how many items have been written and read, with
the tags that are still to be read, and a frame is the offset of its first item. A
MODCOD stands for the request that made it current, which tells a stale one from a new
one. The history variables `framed`, `codewords`, `mapped` and `frames` say what was done with which items.

What the scheduler does with the tags a block has read is external: the blocks set no
propagation policy, and its default copies them to the same offsets of the output (`Copied`), in every behaviour of the
model. Copied tags arrive where they do not belong, because the streams have different numbers of items.

### PlFrame and RxChain

| Code (`python/dvbs2acm/`) | Operators and actions |
|---|---|
| `pl_framer_acm_py.py`: frame layout; `pl_sync_acm_py.py`: `_pilot_positions`, header vote | `PilotsSent`, `PilotsExpected`, `FrameSize`, `Majority`, `DecodedModcod` |
| `pl_sync_acm_py.py`: `general_work`, not locked | `SyncSearch` (`Lock`, `SearchInVain`) |
| the same, locked | `SyncLocked` |
| `demodulator_acm_py.py`: `general_work` | `Demodulate` |

A sample is its offset on the channel. `pl_sync` is called with chunks of any length, which need not begin where a
frame does. The descrambler starts anew with each chunk, so that a header can be read in
a chunk that begins with one and anything in the others. A header is the number of wrong copies
of its bits. Noise, phases and LLRs are out; a correlation peak elsewhere is a `Decoy`.

### SnrEstimator, FecDecoder and AcmFeedback

`PyEstimate` and `CppEstimate` are the two `work` functions: which calls measure, which count and which
publish. `Collect` and `CutOne` are `general_work` of the decoder: without, and with, a complete codeword in
the buffer. `HandleSnr`, `HandleBer` and `MaybeReport` are the handlers of `acm_feedback` and its rate limit; `Tick` is
the clock they read. The frame error rate is an average over all frames so far and an exponential filter
of that, so that it is known by whether it is above zero.

### SumTree, ReplayBuffer and Learner

| Code (`python/dvbs2acm/acm_controller_ai.py`, `examples/acm_loopback_sim.py`) | Actions |
|---|---|
| `_SumTree.update`, `_propagate`, `_retrieve` | `UpdateStart`, `Load`, `Store`, `SetLeaf`; `DescentStep` |
| `PrioritizedReplayBuffer.push`, `add` | `Push`, `PushEnd` |
| `sample`, `update_priorities` | `TrainStart`, `Draw`, `Descend`, `Get`, `Sampled`; `Reprioritise`, `ReprioritiseEnd`, `BatchDone` |
| `train_step` | `Untrained`, `Train`, `Count`, `SaveStart`, `SaveEnd`, `TrainReturn` |
| `pretrain` | `PretrainStep`, `Pushed`, `NextPass`, `Serve` |
| `run_simulation` | `SimulateStep`, `NextPass` |
| `process_request`, `push_experience`, `select_action` | `Request`, `Select` |
| `SNRPredictor.update` | `Observe` |
| `__init__`, `load`, the exit handlers of `run` | `Restart` in `Kill` and `Interrupt` |

Python runs one thread at a time and may switch between any two bytecodes: `tree[i] += delta` is a read
and a write. The module has three modes. Offline and with `--inference-only` one thread pushes and
trains (`OneThread`); online a training thread runs beside the request loop once the engine
serves. Priorities are positive integers and draws are rounded up, which decides every comparison as
the real draw would. Which float comes out of a sum of floats is left out: the sums here are exact.

### LeoChannel and OrbitVisualizer

| Code (`python/dvbs2acm/`) | Actions |
|---|---|
| `leo_channel_gr_py.py`: `work`, `_publish_state` | `ClockStart`, `Clock`, `Advance`, `Check`, `Publish`, `PassContinues`, `PassEnds`, `RestartLoad`, `RestartStore` |
| the same: `set_altitude` and the other setters, `_rebuild_model` | `Call`, `RebuildModel`, `ResetTime` |
| `orbit_visualizer_py.py`: `_handle_modcod`; `_handle_channel_state`, `push_state` | `HandleModcod`; `Show` |
| the same: drawing of the pass bar | `OnBar` |

Time is in units of simulated time, and work is called at any distance in a set of gaps. The elevation
is known by whether it is positive, which is so strictly inside the pass.

## 3. Runs

| Run | Question | Outcome |
|---|---|---|
| `acm_decision` | Do the rules behave on the real table? | All hold |
| `cpp_controller` | C++ block, with and without its AI thread: do CCM and a forced MODCOD hold against the handler's decisions, are decisions published, does the block implement `AcmDecision`, shut down and come to rest? | All hold |
| `cpp_ai_override` | "In CCM mode, don't change MODCOD" for the AI thread | Violated |
| `cpp_fallback` | Does the transmitter follow the fallback? | Violated |
| `py_controller` | Python block with engine and GUI | All hold |
| `tx_chain` | What changes of MODCOD do to the frames of the Python transmit chain | All hold |
| `tx_switch` | Is a codeword mapped with the constellation it was encoded for? | Violated |
| `rx_chain` | What the receiver makes of a stream in chunks that do not begin with frames | All hold |
| `feedback` | Do estimator, decoder and feedback block report in time, and all that was lost? | All hold |
| `learner` | Replay buffer, training, warm start, checkpoints and restarts, in three modes | All hold |
| `learner_thread` | "Training: online from live link metrics, background thread at 10 Hz" | Violated |
| `orbit` | Clock of the pass with setters, new passes, and the bar of the visualizer | All hold |

What they show:

* **`NoPingPong`**: an upgrade is taken back only when the SNR has fallen by more than the dead band, `Reach` of the rule that
  made it less `Leave` of the rule that takes it back (for one rule margin + hysteresis, 2 * hysteresis for the Python rule);
  a downgrade only when the SNR has risen by more than the hysteresis, plus the difference of the margins of two rules,
  over any sequence of measurements and take-overs in between. The simulation's rule keeps the first half only, with the hysteresis alone
  as its dead band: a MODCOD above the one it left counts as an upgrade even if it needs less SNR (rows 11 and 12),
  and may be taken 0.01 dB after a downgrade.
* **`DecisionSettles`**: rules are idempotent, which the AI thread needs.
* **`KeepsLinkClosed`, `NeverDominated`, `TakesClearUpgrade`**: the loops work on
  the unsorted table. `KeepsLinkClosed` names the one exception: the Python rule, with a target
  that has a lower threshold than the MODCOD held and is not yet clear of the
  hysteresis, neither upgrades nor downgrades.
* **`TakeoverKeepsUpgrades`**: the engine's rule and the Python block's do not undo each other at one SNR. With the defaults
  that is so without anything to spare: the engine goes up at 0.5 dB above a threshold at least, the block goes down below 0.5 dB
  above it (`SettingsFit`, which TLC evaluates for the defaults). A block with another margin does not tell the engine,
  and the property fails for it; the theorem has `SettingsFit` as its hypothesis. That the two decide alike is not claimed, and would be false.
* **`OverrideSticks`**: the handler is about to store a decision of the rule only if neither CCM nor the flag was in
  force throughout since it took up its message. It says nothing of the fallback and of the AI thread, which test neither:
  `AiHonoursOverride` states the same of the AI thread and is violated, and so are `FallbackHonoursOverride` and, for the
  change from `force_modcod` to CCM, `OverrideUnbroken` (section 9).
* **`PublishedLatest`**: outside of the few instructions between store and publication, the transmitter has been told of the last decision.
  (With an AI thread it alone decides, without one the handler does, so that the order of two is not at stake.)
* **`DestructorReturns`, `AiSettles`**: notifications are
  sent without the mutex and can be lost; the timeout of `wait_for` makes up for it. `AiSettles` asks for the rule's answer only
  while no override is in force and the last message was of a locked receiver.
* **`DriftOnlyByForce`**: as long as nothing has been forced since the last selection was stored, the MODCOD held by the Python block is
  the one published last. What forcing does is in section 9 (`HeldIsPublished`): with 1 published, 2 forced and 1
  selected, nothing is stored or published, and the block goes on holding 2.
* **`ReplyIsFresh`**: an answer is never taken for another request, because the
  socket is replaced after a timeout.
* **`HandlerReturns`, `CcmSticks`**: while a MODCOD of the table is held, a dead engine delays a measurement, no more (a forced
  number beyond the table ends the thread); a
  selection that is waiting for the engine may be stored after `set_acm_mode(CCM)`
  returned, and no other.
* **`ImplementsDecision`, `AverageNoPingPong`**: the blocks inherit what is shown of `AcmDecision`.

* **`FramesAreCodewords`**: while the constellation stays the same every PL frame is
  one codeword, with any changes of code rate, windows and copied tags. A change of constellation can
  break this for good: nothing brings framer and modulator back in step.
* **`NeverEncodedEarlier`**: bits can lie in the encoder's buffer for several calls and are then encoded with the code of a
  later request (173), never with that of an earlier one, and no bit is left out or encoded twice.
* **`MappedAsEncoded`** is violated: the modulator applies the last tag of the window, one the encoder set for a later codeword or
  one the scheduler copied from the encoder's input, to the oldest codeword of its buffer.

* **`NoSofLost`**: what a search in vain drops has been searched, so that a start of frame which straddles two
  chunks is found later, unless the search buffer was longer than the span that is searched
  (512 samples): what lies behind it is dropped unsearched.
* **`AveragesPilots`**: the positions in use are those of the header before, of a frame that may have
  another MODCOD and, with the receiver's rule, one block too many. Within a chunk that
  begins with a recognised frame and is no longer than it this does no harm, for the blocks are at the same
  distance in all MODCODs and the surplus one is beyond the end of the frame.
* **`HeaderSurvives`**: the vote of eight copies stands three wrong ones.
* **`DemodFollowsHeader`**: no chunk, batch or copied tag leaves the demodulator on an old MODCOD once it
  has seen the header's tag, as long as no chunk in the middle of a frame was read as a header.
* **`ReportsInTime`**: the estimator that counts measurements publishes one per period; the one that counts calls loses
  the report when the estimation fails in the call whose turn it is, and in no other case.
* **`KeepsUp`**: one codeword per call is enough as long as no call finds more than one.
* **`DecoderFollows`**: reading only the last tag of a call is right for the newest LLR.
* **`LossIsReported`**: the rate limit delays the news of a lost codeword, it does not lose it.
* **`SumsMatch`, `DrawsFindEntries`, `SampledInProportion`**: with one thread, and between two
  updates, the sums are right, a draw never ends at an empty leaf, and each leaf gets exactly as many of the
  possible draws as its priority says, also on a tree whose leaves are on two levels.
* **`TrainerSurvives`** is violated: with the training thread beside the request loop a draw meets a
  transition whose leaf has not been written, and the weight of a zero priority raises an exception that ends the thread.
* **`ErrorsGoHome`**: a slot is not reused between drawing it and writing its priority, with one thread.
* **`NStepIsConsecutive`**: in spite of early starts and restarts a return within one pass sums exactly n steps. (A window that
  spans two passes is not excluded by the code, nor by the property.)
* **`CheckpointLag`**: a crash loses less than one period of train steps, unless it comes during a save.
* **`ClockInPass`**: whatever the setters overwrite, the clock is before the end of the pass when `work` returns.
* **`StatesKeepComing`**: setting the update time at the end of a pass postpones the next state and does not prevent it.
* **`BarMatchesHistory`**: with updates often enough for the first and the last part of a pass, the
  switch log is cut exactly where the history is.

The violated properties are findings; `PROJECT.json` quotes the lines they contradict.

### Bounds, and why they are enough

* `acm_decision` uses the 28 rows and 69 SNR levels: steps of 0.4 dB over the
  table and both sides of the comparisons at the places where the thresholds are out of order. The state space
  is complete for those levels: there is no bound on the number of steps.
* The blocks use small tables in which MODCOD 3 needs less SNR than MODCOD 2, and
  SNRs that make every branch of the rules reachable (for the C++ block two, with six averages
  between them; for the Python block three); margin and hysteresis
  are one unit each. `HistoryLen = 2` is the smallest history in which the average
  differs from the last sample.
* `py_controller` forces a MODCOD of the table, 0, which Python takes for its last row, and one beyond its end.
* `MaxMessages`, `MaxCalls`, `MaxCrashes` bound messages, GUI calls and engine
  deaths. Three messages let a request time out, its successor wait and a late
  answer arrive in between; two calls let an override follow a mode change within one
  handler. The theorems of section 5 need no such bound.
* `MCTxChain` has three MODCODs, two of which share a constellation, BB frames that are sometimes longer than
  information blocks, and codewords of 6 items, 3 or 2 symbols. The output multiples
  are the largest frames, as in the code. Three
  requests and 14 BB frames allow a change back to the first MODCOD with frames of all three
  in the buffers at once, and three PL frames.
* `rx_chain`: frames of 12 and 9 symbols (headers of 6, slots of one symbol, a pilot block every two slots) in
  chunks of 5, 10 and 14: shorter than a header, cutting frames anywhere, longer than a frame. One MODCOD
  has a number of slots that the pilot period divides. Three frames let the search lose one and
  lock to the next, with one more behind it for the positions of the wrong MODCOD.
* `feedback`: codewords of two units and calls of up to three, so that calls can find less, exactly and more than one; a
  report period of two ticks and measurements, and four estimators, two of each implementation.
* `learner`: three slots are the smallest tree with leaves on two levels; five pushes overwrite two of them. `NStep = 2`
  over passes of two steps puts the border of a pass inside a window. One crash, checkpoints every
  second train step. With more slots or pushes only the number of paths grows; the theorems on sums, draws and errors
  have no bounds.
* `orbit`: passes of 6 and, after a setter, of 8 units, an update period of 2, gaps of 1 and 3 between calls: with the
  former updates fall into all parts of a pass, with the latter they miss some.
* `CHECK_DEADLOCK FALSE` in the runs of the blocks: they stop when the bounded
  messages, calls and frames are used up.

## 4. Fairness

`AcmControllerCpp!FairSpec`: weak fairness of the steps of each thread. A handler or a call that has started
runs to its end, since it blocks on nothing but short critical sections; the AI
thread waits with a timeout, so that it always has a next step; the destructor
waits in `join` only. Nothing forces a message, a call or the destruction to happen.

`AcmControllerPy!FairSpec`: weak fairness of the steps of the handler only. `RCVTIMEO` makes the wait for an answer end.
Nothing is assumed of the engine.

`AcmFeedback!FairSpec`: weak fairness of the decoder, of the handler of its reports and of the clock. The link goes on
delivering codewords: with a silent link the last loss would not be reported, since no message comes to report it.
Nothing is assumed of the estimator.

`OrbitVisualizer!FairSpec`: weak fairness of `work`, which the scheduler calls as long as the flowgraph runs, and of the
message handler. Nothing is assumed of setters or of the controller.

`TxChain`, `RxChain` and `Learner` have safety properties only: how the scheduler cuts a stream is left
open (in `TxChain` as far as the output multiples leave it open), and the blocks promise nothing that must happen in the end.

## 5. Proofs

All theorems hold for every table that satisfies `TableAssumption` (the
spectral efficiency grows with the identifier, MODCOD 1 has the lowest threshold), every
non-negative margin and hysteresis, and any number of messages and calls. TLC
evaluates the assumptions on the real rows.

* `AcmDecisionProofs`, the rules: the `CHOOSE`s over the table exist and are the greatest
  identifier of the set (through a least-element argument on the naturals);
  outcome lemmas say what each of the four rules returns. With one margin and hysteresis the engine's rule would be the C++ rule
  (`EngineRuleIsCppRule`), so that what is shown of the one for all settings holds of the other.
* `AcmDecisionProofs`, the controller: `TypeCorrect`, `NoPingPongHolds`, `DominatedOnlyByOverride`,
  `UpgradesSurviveTakeover` (`TakeoverKeepsUpgrades`, for settings that fit), `DecisionsSettle`, `LinkStaysClosed`,
  `ClearUpgradesAreTaken`. `NoPingPong`
  compares a change with one made long ago, so it needs the inductive invariant
  `IInv`: the last change's level says, with the MODCOD held now, that its threshold was
  cleared (or missed) at that level by as much as the rule that made the change asks, and the MODCOD has not changed since.
* `AcmControllerCppProofs`:
  - `TypeCorrect`, by one step per action. The average is a fold over the
    history, about which the provers can show nothing; that averages are integers is
    `AveragesAssumption`, which every run of the module evaluates.
  - `DecisionsArePublished` needs `Roles` (with `UseAi` only the AI thread
    commits, without it only the handler) and `Published` (a thread about to publish carries the last
    decision).
  - `HandlerHonoursOverrides` (`OverrideSticks`) needs
    `Overriding`: what has been in force for the handler ever since is in force now, so that a handler past the test of the
    mode, or of the flag, cannot have had it in force throughout.
  - `Refinement`: every step of the block is a `Measure`, `Decide`, `Override` or stutter of
    `AcmDecision`; `Computed` (a thread about to store holds the rule's
    answer for its own average and old MODCOD) makes a store a `Decide`.
  - `AverageDoesNotPingPong` instantiates the abstract theorem along the refinement.
* `AcmControllerPyProofs`:
  - `TypeCorrect` (`TypeOK`), with the sequences of requests and answers and for any integers forced: that only MODCODs of the table
    are published rests on the look-up in `Compare` and on how Python indexes, not on the range of what is forced.
  - `OnlyForcingDrifts` (`DriftOnlyByForce`): between store and publication the
    selection to publish is `_prev_modcod` already, and what is held is `_prev_modcod` until it is forced (`Announced`).
  - `CcmStopsAdaptation` (`CcmSticks`): at most one selection is under way, and once
    one has been stored in CCM none is (`Stopping`).
  - `AnswersAreFresh` (`ReplyIsFresh`): a request carries the number of its socket. `Numbered`
    says that no request is from a socket newer than the newest, so a socket opened now
    is none of theirs; `OneOpen` says that a waiting handler has one request under way on the open
    socket, in the queue, at the engine or answered, and that it is its own; `NothingOpen` that a handler that
    does not wait has none. `OneOpen` cannot be had without `NothingOpen`: a
    request left over on an open socket would be answered in the next wait.
  - `Refinement`: unless `force_modcod` came in between, the four reads of
    `current_modcod` saw one value (`Computed`), so the store is a `Decide`.

* `LearnerProofs`, the tree: what an update in progress still owes to each node (`Due`) makes `Summed` inductive: the start of
  an update adds the same to both sides at the leaf's parent, a store moves what is owed one level up, the
  write of the leaf settles it. Needed beside it (`Sums`): that the value loaded is still there at the
  store, which is what a second thread breaks. `DescentStays`: what is left of a draw fits below the node it is at.
* `LearnerProofs`, the learner: `SumsAgree`, `DrawsEndWell`, `ErrorsAreFiled`, `CrashesCostLittle` (`CheckpointLag`) and
  `StepsAreConsecutive` (`NStepIsConsecutive`). For the first three the inductive
  invariant `IInv` has three parts: `BufferInv` holds whatever the threads do (types, a leaf for each transition of the batch, an
  empty slot has priority 0); `Turns` says why one thread is one thread (a train step runs only while the thread
  that pushes waits for it), and with `OneThread` it gives `Solo`, the part that a push during a train step
  would break (sums, segments cut from the root as it is, the draw within its node).
  The other two hold with any threads and have invariants of their own. `Checkpointed` pairs the counter with the
  file at each stage of a save. `Gathered` needs no induction over the n-step buffer, because `Chained` speaks of any two
  entries of a pass: they are as many steps apart as their places, so the first and the last give the n steps.
* `LearnerProofs`, the draws: `DrawsInProportion` (`SampledInProportion`) counts, for each leaf, the draw values that end
  there. The recursion that says where a value ends goes from a node to later ones, so that the function exists
  by least counterexample from the last node on (`LeafOfExists`); what it computes is then known one node at a time. `DrawsOfLeaf`
  follows the way from the root to the leaf (`Way`): at each node the values that go on to the leaf are consecutive and
  as many as its priority, at the root they are part of `1 .. tree[0]` because the sums match (`Sums`).
* `AcmFeedbackProofs`: `TypeCorrect`, `Reports`, `Keeps`, `Follows`. The last rests on an induction over the units of a call
  by least counterexample: without a tag they all have the MODCOD of the unit before them.
* `TxChainProofs`: `TypeCorrect`, `FramesStayWhole` (`FramesAreCodewords`), `NeverBehind`
  (`NeverEncodedEarlier`), from the one invariant `IInv`. `Grid`: codewords have one length, so what the modulator has read is
  its outputs and its buffer, whatever the tags say. `Alike` says the same of the PL framer as long as there is one
  constellation. For `NeverBehind`: requests grow along the stream of BB frames and their tags (`InOrder`), every BB frame that is still
  to be read has its tag (`Heard`), and the encoder knows no earlier request than those of the frames it has taken (`Taken`).
  The frame sizes are any that divide a codeword into symbols.
* `RxChainProofs`: `TypeCorrect`, `SearchLosesNothing` (`NoSofLost`), `PilotsAreAveraged` (`AveragesPilots`), `HeaderIsRead`
  (`HeaderSurvives`), `DemodFollows` (`DemodFollowsHeader`), for every layout of a frame and every way to cut the stream. The first lemmas are
  about the layout: a frame is whole slots (`WholeSlots`), and a block the receiver expects that lies within a frame
  is one the framer has sent, whichever MODCOD the receiver takes it for (`FittingBlockIsSent`). `MajorityIsSent` and
  `BitsOfModcod` give the header: five of eight copies are a majority, and the five bits name the MODCOD. `Contiguous` says that the
  frames fill the stream, hence that at most one begins at an offset and none begins inside another. `DemodFollows` needs what the stream still
  has in store (`Tags`: the tag of every header that was read is there until it is read, and no tag is wrong) and, for the headers already
  behind the reader, that the demodulator follows them (`Followed`).
  `DecodingAssumption` (a header is read as a MODCOD in use) is true of any header if all 28 are in use; TLC evaluates it on
  the small set. `PilotsAreAveraged` is about a framer that inserts pilots, as in the flowgraph. Without them it would be false: a chunk that begins inside
  a frame may be read as a header that announces pilots.
* `OrbitVisualizerProofs`: `TypeCorrect` and `ClockStaysInPass`. The invariant follows the clock through both threads:
  a reset that is lost leaves a time which the end of the pass, tested after it, catches.
  `BarAgrees` (`BarMatchesHistory`) adds `PassInv`. `Timing` ties the clock to the last state published: at each point of `work`
  their difference is the time since the last update, below `Wait`; so the first state of a pass comes early enough in it, and the
  last late enough, to be told apart. `Waiting` says that the states in the queue follow one another and the last one shown,
  within a pass or as last and first of two, and `Shown` that history and bar are of the pass of the last state shown.
  `NewPassIsNoticed` is the heart: the test on two fractions is true exactly when the second state is of another pass.

Every safety invariant and action property of the passing runs is stated by a theorem.
Only model-checked: liveness (`DestructorReturns`, `AiSettles`, `HandlerReturns`, `LossIsReported`,
`StatesKeepComing`), because the prover cannot reason about fairness and ENABLED. On the 28
rows the runs add to the theorems that the rows satisfy the assumptions.

## 6. Running

```
tlc -workers 2 -config acm_decision.cfg MCAcmDecision
tlapm AcmControllerCppProofs.tla
```

The other runs are the pairs of module and configuration in `PROJECT.json`.

## 7. Plan

Done: the table and its rules, both controllers and the refinement, the transmit and the receive
chain, estimator, decoder and feedback, the learner, the channel's clock and the visualizer, each with the
runs of section 3 and with theorems for what the runs check but liveness.

What is left, in the order of importance:

1. What liveness rests on, as safety theorems: that a waiting handler, a pending loss or a begun train step always has
   a next step and a measure that decreases, so that only fairness is left to TLC.
2. The closed loop: `AcmControllerPy` with `AcmFeedback` and `TxChain`, where the delay of a report meets the delay of
   the buffers.
3. `BbFramerCpp`, with `set_modcod` between the reads of `general_work`.
4. The engine inside `AcmControllerPy`'s `EngineReply`: its fallback rule and its history of forecasts.

## 8. Not modelled

* Signal processing (estimators, LLRs, LDPC and BCH decoding, scrambling, carrier loop) and `leo_channel_model.py`, but
  for when the satellite is in view: real arithmetic, out of TLC's reach.
* The neural networks, gradient steps, numbers of the reward, importance weights and exploration rate of the engine.
* The C++ `bb_framer_acm`: in no flowgraph of the repository; the hazards list its races.
* The drawing of `orbit_visualizer_py.py`, `build_pptx.py`, plots, `.grc` and `.yml` files, scenarios and evaluation scripts:
  drawing, generated or declarative code, and offline runs.
* Statistics messages and log output: nothing reads them back.

## 9. Disagreements without a run

Some modules define a property that a line of the repository states and the code does not keep. As `INVARIANT` of the module's
passing configuration each of them is violated (`SwitchIsCharged` with `Modcods = {4, 5}` there: it needs two MODCODs):

| Property | Stated at | What the code does |
|---|---|---|
| `AcmControllerCpp!OverrideUnbroken` | `acm_controller_impl.cc:157` "In CCM mode, don't change MODCOD" | The test (158) reads the mode, then the flag; `set_acm_mode(CCM)` stores the mode, then clears the flag. A handler between the two passes, although a forced MODCOD or CCM was in force throughout |
| `AcmControllerCpp!FallbackHonoursOverride` | the same, and `acm_controller.h:87` "Manual override (useful for testing or emergency CCM fallback)" | Lines 134-144 stand before the test and store MODCOD 1 in CCM mode and under a manual override. Nothing restores it when the lock comes back |
| `AcmControllerPy!HeldIsPublished` | `acm_controller_py.py:197` "Always publish immediately on MODCOD change" | A change is one against `_prev_modcod` (166), which `force_modcod` leaves alone |
| `TxChain!HeaderNamesMapping` | `pl_framer_acm.h:13` "per-frame PLHEADER updated via stream tag \"modcod\"" | The framer takes the last tag of the window (`pl_framer_acm_py.py:80`), which can be one copied through the modulator from before the switch: the header names a MODCOD that no symbol behind it was mapped with, and since the modulator tags changes only, nothing corrects it |
| `AcmControllerPy!IqDrivesDecisions` | `acm_controller_py.py:240-243` channel state "Does NOT drive MODCOD selection" | It silences the IQ estimates and decides itself (279) |
| `RxChain!OnlyDataDecoded` | `fec_decoder_acm_py.py:127` "64800 LLRs per frame" | Headers, pilots and what was read before the lock are demodulated and decoded too |
| `Learner!SwitchIsCharged` | `acm_controller_ai.py:429`, 590: a penalty for switching | The request loop (1111-1112) and the warm start (811-812) pass the action's own MODCOD as the previous one, so that the penalty is 0 |

Others were met while reading and are in the models as the code has them:

* `acm_controller_ai.py`: a checkpoint is announced every 500 train steps (432) and written every 200; it is written in place, and
  one that a crash has torn ends the next start with an exception; `pretrain` values the action it has just chosen, not the one
  that led to the state; an n-step window may span two passes; evaluation and training mode of the networks are switched by two threads (621, 689).
* `pl_sync_acm_py.py`: the start of frame found at acquisition is counted from the start of the search buffer and
  used as if from the start of the chunk; lock is never given up.
* `leo_channel_gr_py.py:250`: "force next work() to update state" sets the time that makes it wait;
  `_rebuild_model` ends in an `AttributeError` (264), after its last assignment that matters.
* `lib/snr_estimator_impl.cc`: the pilot estimate's value for "invalid", -20 dB, passes the test for more than -30 dB.
* `fec_decoder_acm_py.py`: the BCH counter always equals the LDPC counter; the error rates are of all frames since the start.
