------------------------------ MODULE SumTree ------------------------------
(***************************************************************************)
(* _SumTree of the AI engine (python/dvbs2acm/acm_controller_ai.py): a     *)
(* binary tree in an array, priorities in the leaves, sums above them.     *)
(* An update adds its delta to every ancestor, from the leaf's parent to   *)
(* the root, and writes the leaf last.  Nothing locks the tree: a thread   *)
(* may be stopped between reading tree[parent] and writing it back.        *)
(* A draw descends from the root, one comparison a level.                  *)
(* Priorities and draws are integers; a real draw x with k < x <= k + 1    *)
(* takes the same way as k + 1.                                            *)
(***************************************************************************)
EXTENDS Integers

CONSTANT Capacity   \* capacity (50000)

ASSUME CapacityAssumption == Capacity \in Nat /\ Capacity > 1

Threads == {"engine", "trainer"}

Inner == 0 .. Capacity - 2
Leaves == Capacity - 1 .. 2 * Capacity - 2
Nodes == 0 .. 2 * Capacity - 2

Parent(n) == (n - 1) \div 2
Left(n) == 2 * n + 1
Right(n) == 2 * n + 2

VARIABLES
    tree,   \* tree: a number for every node
    upd     \* per thread, its update in progress: program point, leaf, the new
            \* priority, delta, the node to change next and the value read there

treeVars == <<tree, upd>>

Updating(t) == upd[t].pc # "idle"

IdleUpdate == [pc |-> "idle", leaf |-> Capacity - 1, prio |-> 0, delta |-> 0,
               node |-> 0, seen |-> 0]

TreeInit ==
    /\ tree = [n \in Nodes |-> 0]
    /\ upd = [t \in Threads |-> IdleUpdate]

\* Slip: the whole priority is added, not what it differs from the old one by.
UpdateStart_Whole(t, leaf, prio) ==
    /\ upd' = [upd EXCEPT ![t] = [pc |-> "load", leaf |-> leaf, prio |-> prio,
                                  delta |-> prio, node |-> Parent(leaf), seen |-> 0]]
    /\ UNCHANGED tree

\* update: the difference is taken from the leaf once, at the start.
UpdateStart(t, leaf, prio) ==
    /\ upd' = [upd EXCEPT ![t] = [pc |-> "load", leaf |-> leaf, prio |-> prio,
                                  delta |-> prio - tree[leaf],
                                  node |-> Parent(leaf), seen |-> 0]]
    /\ UNCHANGED tree

\* _propagate: tree[parent] += delta reads and writes in two steps.
Load(t) ==
    /\ upd[t].pc = "load"
    /\ upd' = [upd EXCEPT ![t].pc = "store", ![t].seen = tree[upd[t].node]]
    /\ UNCHANGED tree

\* The recursion goes on to the next ancestor and ends at the root.
Store(t) ==
    /\ upd[t].pc = "store"
    /\ tree' = [tree EXCEPT ![upd[t].node] = upd[t].seen + upd[t].delta]
    /\ \/ /\ upd[t].node # 0
          /\ upd' = [upd EXCEPT ![t].pc = "load", ![t].node = Parent(upd[t].node)]
       \/ /\ upd[t].node = 0
          /\ upd' = [upd EXCEPT ![t].pc = "leaf"]

\* Slip: the leaf is not updated, only its ancestors.
SetLeaf_Kept(t) ==
    /\ upd[t].pc = "leaf"
    /\ upd' = [upd EXCEPT ![t] = IdleUpdate]
    /\ UNCHANGED tree

\* The end of update.
SetLeaf(t) ==
    /\ upd[t].pc = "leaf"
    /\ tree' = [tree EXCEPT ![upd[t].leaf] = upd[t].prio]
    /\ upd' = [upd EXCEPT ![t] = IdleUpdate]

\* Slip: the right subtree is searched with the whole draw.
DescentStep_WholeDraw(c) ==
    [node |-> IF c.s <= tree[Left(c.node)] THEN Left(c.node) ELSE Right(c.node), s |-> c.s]

\* One call of _retrieve below the leaves: where the descent goes next.
DescentStep(c) ==
    IF c.s <= tree[Left(c.node)]
    THEN [node |-> Left(c.node), s |-> c.s]
    ELSE [node |-> Right(c.node), s |-> c.s - tree[Left(c.node)]]

-----------------------------------------------------------------------------
\* How much an update in progress leaves node n above the sum of its children:
\* the leaf is written last, and one ancestor is the next to be changed.
Due(t, n) ==
    IF ~Updating(t) THEN 0
    ELSE (IF n = Parent(upd[t].leaf) THEN upd[t].delta ELSE 0)
         - (IF upd[t].pc # "leaf" /\ n = upd[t].node THEN upd[t].delta ELSE 0)

\* Every inner node is the sum of its children, up to what the updates in
\* progress still owe it.
Summed == \A n \in Inner :
    tree[n] = tree[Left(n)] + tree[Right(n)] + Due("engine", n) + Due("trainer", n)
=============================================================================
