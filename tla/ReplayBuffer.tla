---------------------------- MODULE ReplayBuffer ----------------------------
(***************************************************************************)
(* PrioritizedReplayBuffer and the two threads that use it: push runs in   *)
(* the thread that gathers experience (the engine's request loop or a      *)
(* simulation), train_step in the training thread of an online engine and  *)
(* otherwise in the thread that pushes.  Transitions are numbered in the   *)
(* order they are pushed.                                                  *)
(*                                                                         *)
(* Left out: beta and the importance weights, except that a draw of        *)
(* priority 0 (or a total that is not positive) cannot be weighed:         *)
(* 0.0 ** -beta raises, and nothing in the training thread catches it.     *)
(* _max_priority ** alpha, the priority of a new transition, is an         *)
(* arbitrary function Alpha.  The network and the gradient step are out.   *)
(***************************************************************************)
EXTENDS SumTree, Sequences

CONSTANTS
    BatchSize,      \* batch_size
    Priorities,     \* the priorities (|error| + 1e-6) ** alpha can have
    One,            \* 1.0, the first _max_priority
    Alpha,          \* _max_priority ** alpha
    MaxPushes       \* bound on the pushes of a run of the program

ASSUME BufferAssumption ==
    /\ BatchSize \in Nat \ {0}
    /\ Priorities \subseteq Nat \ {0}
    /\ One \in Nat \ {0}
    /\ Alpha \in [Priorities \union {One} -> Nat \ {0}]
    /\ MaxPushes \in Nat

Slots == 0 .. Capacity - 1
None == 0
Slot(leaf) == leaf - Capacity + 1

VARIABLES
    data,           \* data: a transition or None for every slot
    write,          \* _write
    size,           \* n_entries
    maxPriority,    \* _max_priority
    pushes,         \* the pushes so far
    trainer         \* train_step: program point, the total the segments were cut
                    \* from, the descent [node, s], the batch and its leaves, the
                    \* number of the draw or of the priority to be written

bufferVars == <<treeVars, data, write, size, maxPriority, pushes, trainer>>

Root == [node |-> 0, s |-> 0]

IdleTrainer == [pc |-> "idle", total |-> 0, cur |-> Root,
                batch |-> <<>>, idxs |-> <<>>, k |-> 1]

BufferInit ==
    /\ TreeInit
    /\ data = [i \in Slots |-> None]
    /\ write = 0
    /\ size = 0
    /\ maxPriority = One
    /\ pushes = 0
    /\ trainer = IdleTrainer

-----------------------------------------------------------------------------

\* push and add: the datum is in its slot before the priority is in the tree.
Push ==
    /\ ~Updating("engine")
    /\ pushes < MaxPushes
    /\ pushes' = pushes + 1
    /\ data' = [data EXCEPT ![write] = pushes + 1]
    /\ UpdateStart("engine", write + Capacity - 1, Alpha[maxPriority])
    /\ UNCHANGED <<write, size, maxPriority, trainer>>

\* The end of add.  Nothing but the weights reads n_entries in between.
PushEnd ==
    /\ SetLeaf("engine")
    /\ write' = (write + 1) % Capacity
    /\ size' = IF size < Capacity THEN size + 1 ELSE Capacity
    /\ UNCHANGED <<data, maxPriority, pushes, trainer>>

Propagate(t) ==
    /\ Load(t) \/ Store(t)
    /\ UNCHANGED <<data, write, size, maxPriority, pushes, trainer>>

-----------------------------------------------------------------------------
\* train_step and sample: the total is read once and cut into segments.
TrainStart ==
    /\ trainer.pc = "idle"
    /\ size >= BatchSize
    /\ trainer' = [IdleTrainer EXCEPT !.pc = "draw", !.total = tree[0]]
    /\ UNCHANGED <<treeVars, data, write, size, maxPriority, pushes>>

\* The draws of segment k, rounded up to integers.
Segment(k) ==
    LET bound(i) == trainer.total * i IN
    IF trainer.total <= 0 THEN {0}
    ELSE IF k = 1 THEN 0 .. (bound(1) + BatchSize - 1) \div BatchSize
    ELSE bound(k - 1) \div BatchSize + 1 .. (bound(k) + BatchSize - 1) \div BatchSize

Draw(s) ==
    /\ trainer.pc = "draw"
    /\ trainer.k <= BatchSize
    /\ trainer' = [trainer EXCEPT !.pc = "descend", !.cur = [node |-> 0, s |-> s]]
    /\ UNCHANGED <<treeVars, data, write, size, maxPriority, pushes>>

\* _retrieve, one level.
Descend ==
    /\ trainer.pc = "descend"
    /\ trainer.cur.node \in Inner
    /\ trainer' = [trainer EXCEPT !.cur = DescentStep(trainer.cur)]
    /\ UNCHANGED <<treeVars, data, write, size, maxPriority, pushes>>

\* The end of get and its use in sample.
Get ==
    /\ trainer.pc = "descend"
    /\ trainer.cur.node \in Leaves
    /\ LET leaf == trainer.cur.node
           datum == data[Slot(leaf)] IN
       \/ /\ datum = None
          /\ trainer' = [trainer EXCEPT !.pc = "draw", !.cur = Root, !.k = trainer.k + 1]
       \/ /\ datum # None
          /\ tree[leaf] > 0 /\ tree[0] > 0
          /\ trainer' = [trainer EXCEPT !.pc = "draw", !.cur = Root, !.k = trainer.k + 1,
                            !.batch = Append(trainer.batch, datum),
                            !.idxs = Append(trainer.idxs, leaf)]
       \/ /\ datum # None
          /\ tree[leaf] <= 0 \/ tree[0] <= 0
          /\ trainer' = [IdleTrainer EXCEPT !.pc = "dead"]
    /\ UNCHANGED <<treeVars, data, write, size, maxPriority, pushes>>

\* Too many empty draws end the step; otherwise the gradient step follows.
Sampled ==
    /\ trainer.pc = "draw"
    /\ trainer.k > BatchSize
    /\ \/ /\ Len(trainer.batch) < BatchSize \div 2
          /\ trainer' = [IdleTrainer EXCEPT !.pc = "return"]
       \/ /\ Len(trainer.batch) >= BatchSize \div 2
          /\ trainer' = [trainer EXCEPT !.pc = "priority", !.total = 0, !.k = 1]
    /\ UNCHANGED <<treeVars, data, write, size, maxPriority, pushes>>

\* Slip: errors and leaves are paired in opposite orders.
Reprioritise_Reversed(p) ==
    /\ trainer.pc = "priority"
    /\ trainer.k <= Len(trainer.batch)
    /\ ~Updating("trainer")
    /\ maxPriority' = IF p > maxPriority THEN p ELSE maxPriority
    /\ UpdateStart("trainer", trainer.idxs[Len(trainer.idxs) + 1 - trainer.k], p)
    /\ UNCHANGED <<data, write, size, pushes, trainer>>

\* update_priorities, transition k of the batch.
Reprioritise(p) ==
    /\ trainer.pc = "priority"
    /\ trainer.k <= Len(trainer.batch)
    /\ ~Updating("trainer")
    /\ maxPriority' = IF p > maxPriority THEN p ELSE maxPriority
    /\ UpdateStart("trainer", trainer.idxs[trainer.k], p)
    /\ UNCHANGED <<data, write, size, pushes, trainer>>

ReprioritiseEnd ==
    /\ SetLeaf("trainer")
    /\ trainer' = [trainer EXCEPT !.k = trainer.k + 1]
    /\ UNCHANGED <<data, write, size, maxPriority, pushes>>

\* The priorities are written: back in train_step.
BatchDone ==
    /\ trainer.pc = "priority"
    /\ trainer.k > Len(trainer.batch)
    /\ ~Updating("trainer")
    /\ trainer' = [IdleTrainer EXCEPT !.pc = "count"]
    /\ UNCHANGED <<treeVars, data, write, size, maxPriority, pushes>>

\* The steps of train_step that touch nothing but the buffer.
TrainerStep ==
    \/ Propagate("trainer")
    \/ \E s \in Segment(trainer.k) : Draw(s)
    \/ Descend
    \/ Get
    \/ Sampled
    \/ \E p \in Priorities : Reprioritise(p)
    \/ ReprioritiseEnd
    \/ BatchDone
=============================================================================
