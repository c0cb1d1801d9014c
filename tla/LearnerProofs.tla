--------------------------- MODULE LearnerProofs ---------------------------
(***************************************************************************)
(* The replay buffer in the hands of one thread, for every capacity, batch *)
(* size and set of priorities: the sums of the tree match, a draw ends at  *)
(* a stored transition, each transition is drawn in proportion to its      *)
(* priority, and an error becomes the priority of the transition it was    *)
(* computed for.  "One thread" is OneThread: a program   *)
(* that was not started online, or is still in its warm start.  And for    *)
(* any threads: what a crash costs, and the steps a transition covers.     *)
(***************************************************************************)
EXTENDS Learner, SequenceTheorems, FiniteSetTheorems, WellFoundedInduction, TLAPS

-----------------------------------------------------------------------------
(***************************************************************************)
(* The sum tree: what an update in progress owes to the sums, that no node *)
(* is ever negative, and that a draw stays within the node it has          *)
(* descended to.                                                           *)
(***************************************************************************)
\* The shape of the tree.
LEMMA Shape ==
    /\ Capacity \in Nat /\ Capacity > 1
    /\ Inner \subseteq Nodes /\ Leaves \subseteq Nodes /\ Nodes \subseteq Nat
    /\ \A n \in Nodes : n \in Inner <=> n \notin Leaves
    /\ 0 \in Inner
  BY CapacityAssumption DEF Inner, Leaves, Nodes

\* A parent is an inner node before its child.
LEMMA ParentIsInner ==
    ASSUME NEW m \in Nodes, m # 0
    PROVE  /\ Parent(m) \in Inner /\ Parent(m) < m
           /\ m = Left(Parent(m)) \/ m = Right(Parent(m))
  <1>1. m \in Nat /\ m > 0 /\ m =< 2 * Capacity - 2 /\ Capacity \in Nat
    BY CapacityAssumption DEF Nodes
  <1>2. PICK q \in Nat : m - 1 = 2 * q \/ m - 1 = 2 * q + 1
    <2>1. (m - 1) \div 2 \in Nat /\ m - 1 = (2 * ((m - 1) \div 2)) + ((m - 1) % 2)
          /\ (m - 1) % 2 \in 0 .. 1
      BY <1>1
    <2> QED BY <2>1
  <1>3. Parent(m) = q
    BY <1>1, <1>2 DEF Parent
  <1> QED BY <1>1, <1>2, <1>3 DEF Inner, Left, Right

\* The children of an inner node are two nodes after it, and it is their only parent.
LEMMA Children ==
    ASSUME NEW n \in Inner
    PROVE  /\ Left(n) \in Nodes /\ Right(n) \in Nodes
           /\ Left(n) # Right(n) /\ Left(n) > n /\ Right(n) > n
           /\ Parent(Left(n)) = n /\ Parent(Right(n)) = n
           /\ Left(n) # 0 /\ Right(n) # 0
  <1>1. n \in Nat /\ n =< Capacity - 2 /\ Capacity \in Nat
    BY CapacityAssumption DEF Inner
  <1>2. (2 * n) \div 2 = n /\ (2 * n + 1) \div 2 = n
    BY <1>1
  <1>3. Parent(Left(n)) = n /\ Parent(Right(n)) = n
    BY <1>1, <1>2 DEF Parent, Left, Right
  <1> QED BY <1>1, <1>3 DEF Nodes, Left, Right

-----------------------------------------------------------------------------
\* The types of the tree and of the updates; priorities are not negative.
TreeTypes ==
    /\ tree \in [Nodes -> Int]
    /\ upd \in [Threads -> [pc : {"idle", "load", "store", "leaf"}, leaf : Leaves,
                            prio : Nat, delta : Int, node : Inner, seen : Int]]

\* What keeps the sums right, beside Summed: the value read is still there when it is
\* written back, delta is still what the leaf will change by, and a node that is to
\* be changed, which is on the way up from the leaf, will not be negative.
Sums ==
    /\ Summed
    /\ \A n \in Nodes : tree[n] >= 0
    /\ \A t \in Threads :
          /\ upd[t].pc = "store" => upd[t].seen = tree[upd[t].node]
          /\ Updating(t) => upd[t].delta = upd[t].prio - tree[upd[t].leaf]
          /\ upd[t].pc \in {"load", "store"} =>
                 /\ upd[t].node =< Parent(upd[t].leaf)
                 /\ tree[upd[t].node] + upd[t].delta >= 0

\* No other thread is in an update.
Alone(t) == \A o \in Threads \ {t} : ~Updating(o)

\* The new priority less the old one, at the parent of the leaf, until the leaf has it.
AtLeaf(t, n) == IF n = Parent(upd[t].leaf) THEN upd[t].delta ELSE 0

\* What is owed is then owed by the one update.
LEMMA OneOwes ==
    ASSUME TreeTypes, NEW t \in Threads, Alone(t), NEW n \in Inner
    PROVE  /\ Due(t, n) \in Int
           /\ Due("engine", n) + Due("trainer", n) = Due(t, n)
  <1>1. \A o \in Threads : upd[o].delta \in Int
    BY DEF TreeTypes
  <1>2. \A o \in Threads \ {t} : Due(o, n) = 0
    BY DEF Alone, Due
  <1>3. Due(t, n) \in Int
    BY <1>1 DEF Due
  <1> QED BY <1>2, <1>3 DEF Threads

\* Summed, said of the one update.
OneSummed(t) ==
    \A n \in Inner : tree[n] = tree[Left(n)] + tree[Right(n)] + Due(t, n)

LEMMA SummedOfOne ==
    TreeTypes => \A t \in Threads : Alone(t) => (Summed <=> OneSummed(t))
  <1> SUFFICES ASSUME TreeTypes, NEW t \in Threads, Alone(t)
               PROVE  Summed <=> OneSummed(t)
    OBVIOUS
  <1>1. ASSUME NEW n \in Inner
        PROVE  tree[Left(n)] + tree[Right(n)] + Due("engine", n) + Due("trainer", n)
               = tree[Left(n)] + tree[Right(n)] + Due(t, n)
    <2>1. tree[Left(n)] \in Int /\ tree[Right(n)] \in Int
      BY Children DEF TreeTypes
    <2>2. Due("engine", n) \in Int /\ Due("trainer", n) \in Int
      <3>1. \A o \in Threads : upd[o].delta \in Int
        BY DEF TreeTypes
      <3> QED BY <3>1 DEF Due, Threads
    <2> QED BY <2>1, <2>2, OneOwes
  <1> QED BY <1>1 DEF Summed, OneSummed

\* The same after a step.
LEMMA SummedNext ==
    (TreeTypes => \A t \in Threads : Alone(t) => (Summed <=> OneSummed(t)))'
  BY SummedOfOne, PTL

\* The tree starts with zeros.
LEMMA TreeStarts ==
    ASSUME TreeInit
    PROVE  TreeTypes /\ Sums /\ \A t \in Threads : ~Updating(t)
  <1>1. Capacity - 1 \in Leaves /\ 0 \in Inner
    BY CapacityAssumption DEF Leaves, Inner
  <1>2. TreeTypes
    BY <1>1 DEF TreeInit, TreeTypes, IdleUpdate
  <1>3. \A t \in Threads : ~Updating(t) /\ upd[t].pc = "idle"
    BY DEF TreeInit, Updating, IdleUpdate
  <1>4. \A n \in Nodes : tree[n] = 0
    BY DEF TreeInit
  <1>5. Summed
    <2>1. \A n \in Inner : Due("engine", n) = 0 /\ Due("trainer", n) = 0
      BY <1>3 DEF Due, Threads
    <2>2. \A n \in Inner : n \in Nodes /\ Left(n) \in Nodes /\ Right(n) \in Nodes
      BY Children, Shape
    <2> QED BY <1>4, <2>1, <2>2 DEF Summed
  <1> QED BY <1>2, <1>3, <1>4, <1>5 DEF Sums

\* The start of an update: nothing is owed yet, or what is owed at the leaf's parent
\* is both what the leaf and what the parent will change by.
LEMMA StartKeeps ==
    ASSUME TreeTypes, NEW t \in Threads,
           NEW leaf \in Leaves, NEW prio \in Nat, UpdateStart(t, leaf, prio)
    PROVE  /\ TreeTypes'
           /\ (\A o \in Threads : ~Updating(o)) /\ Sums => Sums'
  <1>1. leaf \in Nodes /\ leaf # 0 /\ Parent(leaf) \in Inner
    BY CapacityAssumption, Shape, ParentIsInner DEF Leaves
  <1>2. /\ tree' = tree
        /\ upd' = [upd EXCEPT ![t] = [pc |-> "load", leaf |-> leaf, prio |-> prio,
                                      delta |-> prio - tree[leaf],
                                      node |-> Parent(leaf), seen |-> 0]]
    BY DEF UpdateStart
  <1>3. tree[leaf] \in Int /\ prio - tree[leaf] \in Int
    BY <1>1 DEF TreeTypes
  <1>4. TreeTypes'
    BY <1>1, <1>2, <1>3 DEF TreeTypes
  <1>5. /\ upd'[t] = [pc |-> "load", leaf |-> leaf, prio |-> prio,
                      delta |-> prio - tree[leaf], node |-> Parent(leaf), seen |-> 0]
        /\ \A o \in Threads \ {t} : upd'[o] = upd[o]
    BY <1>2 DEF TreeTypes
  <1>6. ASSUME \A o \in Threads : ~Updating(o), Sums PROVE Sums'
    <2>1. Alone(t) /\ Alone(t)'
      BY <1>5, <1>6 DEF Alone, Updating
    <2>2. \A n \in Inner : Due(t, n) = 0 /\ Due(t, n)' = 0
      BY <1>3, <1>5, <1>6 DEF Due, Updating
    <2>3. \A n \in Inner : tree[n] = tree[Left(n)] + tree[Right(n)]
      <3>1. \A n \in Inner : tree[n] = tree[Left(n)] + tree[Right(n)] + Due(t, n)
        BY <1>6, <2>1, SummedOfOne DEF Sums, OneSummed
      <3>2. \A n \in Inner : tree[Left(n)] \in Int /\ tree[Right(n)] \in Int
        BY Children DEF TreeTypes
      <3> QED BY <2>2, <3>1, <3>2
    <2>4. Summed'
      <3>1. \A n \in Inner : tree'[n] = tree'[Left(n)] + tree'[Right(n)] + Due(t, n)'
        <4>1. \A n \in Inner : tree[Left(n)] \in Int /\ tree[Right(n)] \in Int
          BY Children DEF TreeTypes
        <4> QED BY <1>2, <2>2, <2>3, <4>1
      <3> QED BY <1>4, <2>1, <3>1, SummedNext DEF OneSummed
    <2>5. tree[Parent(leaf)] + (prio - tree[leaf]) >= 0
      <3>1. leaf = Left(Parent(leaf)) \/ leaf = Right(Parent(leaf))
        BY <1>1, ParentIsInner
      <3>2. /\ tree[Left(Parent(leaf))] >= 0 /\ tree[Right(Parent(leaf))] >= 0
            /\ tree[Left(Parent(leaf))] \in Int /\ tree[Right(Parent(leaf))] \in Int
        BY <1>1, <1>6, Children DEF Sums, TreeTypes
      <3>3. tree[Parent(leaf)] = tree[Left(Parent(leaf))] + tree[Right(Parent(leaf))]
        BY <1>1, <2>3
      <3> QED BY <1>3, <3>1, <3>2, <3>3
    <2>6. \A n \in Nodes : tree'[n] >= 0
      BY <1>2, <1>6 DEF Sums
    <2>7. Parent(leaf) \in Int /\ Parent(leaf) =< Parent(leaf)
      <3>1. \A n \in Inner : n \in Int /\ n =< n
        BY CapacityAssumption DEF Inner
      <3> QED BY <1>1, <3>1
    <2>8. \A o \in Threads \ {t} : upd'[o].pc = "idle"
      BY <1>5, <1>6 DEF Updating
    <2> QED BY <1>2, <1>5, <2>4, <2>5, <2>6, <2>7, <2>8 DEF Sums, Updating
  <1> QED BY <1>4, <1>6

\* The first half of tree[parent] += delta.
LEMMA LoadKeeps ==
    ASSUME TreeTypes, NEW t \in Threads, Load(t)
    PROVE  TreeTypes' /\ (Sums => Sums')
  <1>1. /\ tree' = tree /\ upd[t].pc = "load"
        /\ upd' = [upd EXCEPT ![t].pc = "store", ![t].seen = tree[upd[t].node]]
    BY DEF Load
  <1>2. upd[t].node \in Inner /\ tree[upd[t].node] \in Int
    BY Shape DEF TreeTypes
  <1>3. TreeTypes'
    BY <1>1, <1>2 DEF TreeTypes
  <1>4. /\ upd'[t] = [upd[t] EXCEPT !.pc = "store", !.seen = tree[upd[t].node]]
        /\ \A o \in Threads \ {t} : upd'[o] = upd[o]
    BY <1>1 DEF TreeTypes
  <1>5. /\ upd'[t].pc = "store" /\ upd'[t].seen = tree[upd[t].node]
        /\ upd'[t].leaf = upd[t].leaf /\ upd'[t].prio = upd[t].prio
        /\ upd'[t].delta = upd[t].delta /\ upd'[t].node = upd[t].node
    BY <1>4 DEF TreeTypes
  <1>6. \A o \in Threads, n \in Inner : Due(o, n)' = Due(o, n)
    <2> TAKE o \in Threads, n \in Inner
    <2>1. CASE o = t
      BY <1>1, <1>5, <2>1 DEF Due, Updating
    <2>2. CASE o # t
      BY <1>4, <2>2 DEF Due, Updating
    <2> QED BY <2>1, <2>2
  <1>7. ASSUME Sums PROVE Sums'
    <2>1. Summed'
      BY <1>1, <1>6, <1>7 DEF Sums, Summed, Threads
    <2>2. ASSUME NEW o \in Threads
          PROVE  /\ upd'[o].pc = "store" => upd'[o].seen = tree'[upd'[o].node]
                 /\ Updating(o)' => upd'[o].delta = upd'[o].prio - tree'[upd'[o].leaf]
                 /\ upd'[o].pc \in {"load", "store"} =>
                        /\ upd'[o].node =< Parent(upd'[o].leaf)
                        /\ tree'[upd'[o].node] + upd'[o].delta >= 0
      <3>1. CASE o = t
        BY <1>1, <1>5, <1>7, <3>1 DEF Sums, Updating
      <3>2. CASE o # t
        BY <1>1, <1>4, <1>7, <3>2 DEF Sums, Updating
      <3> QED BY <3>1, <3>2
    <2> QED BY <1>1, <1>7, <2>1, <2>2 DEF Sums
  <1> QED BY <1>3, <1>7

\* The types after the second half, and what it changes.
LEMMA StoreChanges ==
    ASSUME TreeTypes, NEW t \in Threads, Store(t)
    PROVE  /\ TreeTypes'
           /\ tree' = [tree EXCEPT ![upd[t].node] = upd[t].seen + upd[t].delta]
           /\ \A o \in Threads \ {t} : upd'[o] = upd[o]
           /\ upd'[t].leaf = upd[t].leaf /\ upd'[t].prio = upd[t].prio
           /\ upd'[t].delta = upd[t].delta
           /\ \/ /\ upd[t].node # 0
                 /\ upd'[t].pc = "load" /\ upd'[t].node = Parent(upd[t].node)
              \/ /\ upd[t].node = 0
                 /\ upd'[t].pc = "leaf" /\ upd'[t].node = upd[t].node
  <1>1. /\ upd[t].node \in Inner /\ upd[t].node \in Nodes
        /\ upd[t].seen + upd[t].delta \in Int
    <2>1. upd[t].node \in Inner /\ upd[t].seen \in Int /\ upd[t].delta \in Int
      BY DEF TreeTypes
    <2>2. upd[t].node \in Nodes
      BY <2>1, Shape
    <2>3. upd[t].seen + upd[t].delta \in Int
      BY <2>1
    <2> QED BY <2>1, <2>2, <2>3
  <1>2. tree' = [tree EXCEPT ![upd[t].node] = upd[t].seen + upd[t].delta]
    BY DEF Store
  <1>3. CASE upd[t].node # 0
    <2>1. upd' = [upd EXCEPT ![t].pc = "load", ![t].node = Parent(upd[t].node)]
      BY <1>3 DEF Store
    <2>2. Parent(upd[t].node) \in Inner
      BY <1>1, <1>3, ParentIsInner
    <2> QED BY <1>1, <1>2, <1>3, <2>1, <2>2 DEF TreeTypes
  <1>4. CASE upd[t].node = 0
    <2>1. upd' = [upd EXCEPT ![t].pc = "leaf"]
      BY <1>4 DEF Store
    <2> QED BY <1>1, <1>2, <1>4, <2>1 DEF TreeTypes
  <1> QED BY <1>3, <1>4

\* The second half of tree[parent] += delta: the node now owes nothing, its parent
\* owes delta.
LEMMA StoreKeeps ==
    ASSUME TreeTypes, NEW t \in Threads, Alone(t), Store(t), Sums
    PROVE  Sums'
  <1> DEFINE m == upd[t].node
             d == upd[t].delta
             l == upd[t].leaf
  <1>1. /\ m \in Inner /\ m \in Nodes /\ m \in Nat /\ d \in Int /\ l \in Leaves /\ l \in Nodes
        /\ l # 0 /\ Parent(l) \in Inner /\ Parent(l) \in Nat
    BY Shape, ParentIsInner, CapacityAssumption DEF TreeTypes, Leaves
  <1>2. /\ upd[t].pc = "store" /\ upd[t].seen = tree[m] /\ tree[m] \in Int
        /\ m =< Parent(l) /\ tree[m] + d >= 0 /\ d = upd[t].prio - tree[l]
    BY <1>1 DEF Store, Sums, Updating, TreeTypes
  <1>3. tree'[m] = tree[m] + d /\ \A n \in Nodes \ {m} : tree'[n] = tree[n]
    BY <1>1, <1>2, StoreChanges DEF TreeTypes
  <1>4. /\ \A o \in Threads \ {t} : upd'[o] = upd[o]
        /\ upd'[t].leaf = l /\ upd'[t].prio = upd[t].prio /\ upd'[t].delta = d
        /\ \/ m # 0 /\ upd'[t].pc = "load" /\ upd'[t].node = Parent(m)
           \/ m = 0 /\ upd'[t].pc = "leaf"
    BY StoreChanges
  <1>5. Alone(t)'
    BY <1>4 DEF Alone, Updating
  <1>6. \A n \in Inner : tree[n] = tree[Left(n)] + tree[Right(n)] + Due(t, n)
    BY SummedOfOne DEF Sums, OneSummed
  <1>7. \A n \in Inner : tree'[n] = tree'[Left(n)] + tree'[Right(n)] + Due(t, n)'
    <2> TAKE n \in Inner
    <2>1. /\ Left(n) \in Nodes /\ Right(n) \in Nodes /\ Left(n) # Right(n) /\ n \in Nodes
          /\ Left(n) # n /\ Right(n) # n /\ Left(n) # 0 /\ Right(n) # 0
          /\ Parent(Left(n)) = n /\ Parent(Right(n)) = n
      <3>1. Left(n) > n /\ Right(n) > n /\ n \in Nat
        BY Children, Shape
      <3>2. Left(n) # n /\ Right(n) # n
        BY <3>1
      <3> QED BY <3>2, Children, Shape
    <2>2. tree[n] \in Int /\ tree[Left(n)] \in Int /\ tree[Right(n)] \in Int
      BY <2>1 DEF TreeTypes
    <2> DEFINE a == IF n = Parent(l) THEN d ELSE 0
    <2>3. a \in Int
      BY <1>1
    <2>4. Due(t, n) = a - (IF n = m THEN d ELSE 0)
      BY <1>1, <1>2 DEF Due, Updating
    <2>5. CASE n = m
      <3>1. Due(t, n)' = a - 0
        <4>1. CASE m # 0
          <5>1. Parent(m) # m
            BY <1>1, <4>1, ParentIsInner
          <5> QED BY <1>4, <2>5, <4>1, <5>1 DEF Due, Updating
        <4>2. CASE m = 0
          BY <1>4, <4>2 DEF Due, Updating
        <4> QED BY <4>1, <4>2
      <3>2. tree'[Left(n)] = tree[Left(n)] /\ tree'[Right(n)] = tree[Right(n)]
        BY <1>3, <2>1, <2>5
      <3>3. tree'[n] = tree[n] + d
        BY <1>3, <2>5
      <3>4. tree[n] = tree[Left(n)] + tree[Right(n)] + (a - d)
        BY <1>6, <2>4, <2>5
      <3> HIDE DEF a
      <3> QED BY <1>1, <2>2, <2>3, <3>1, <3>2, <3>3, <3>4
    <2>6. CASE n # m /\ m # 0 /\ n = Parent(m)
      <3>1. Due(t, n)' = a - d
        BY <1>4, <2>6 DEF Due, Updating
      <3>2. tree'[n] = tree[n]
        BY <1>3, <2>1, <2>6
      <3>3. tree[n] = tree[Left(n)] + tree[Right(n)] + a
        <4>1. Due(t, n) = a - 0
          BY <2>4, <2>6
        <4> HIDE DEF a
        <4> QED BY <1>6, <2>3, <4>1
      <3>4. \/ tree'[Left(n)] = tree[Left(n)] + d /\ tree'[Right(n)] = tree[Right(n)]
            \/ tree'[Left(n)] = tree[Left(n)] /\ tree'[Right(n)] = tree[Right(n)] + d
        <4>1. m = Left(n) \/ m = Right(n)
          BY <1>1, <2>6, ParentIsInner
        <4> QED BY <1>3, <2>1, <4>1
      <3> HIDE DEF a
      <3> QED BY <1>1, <2>2, <2>3, <3>1, <3>2, <3>3, <3>4
    <2>7. CASE n # m /\ ~(m # 0 /\ n = Parent(m))
      <3>1. Due(t, n)' = a - 0
        BY <1>4, <2>7 DEF Due, Updating
      <3>2. Left(n) # m /\ Right(n) # m
        BY <2>1, <2>7
      <3>3. tree'[n] = tree[n] /\ tree'[Left(n)] = tree[Left(n)] /\ tree'[Right(n)] = tree[Right(n)]
        BY <1>3, <2>1, <2>7, <3>2
      <3>4. Due(t, n) = a - 0
        BY <2>4, <2>7
      <3> HIDE DEF a
      <3> QED BY <1>6, <3>1, <3>3, <3>4
    <2> QED BY <2>5, <2>6, <2>7
  <1>8. Summed'
    BY <1>5, <1>7, StoreChanges, SummedNext DEF OneSummed
  <1>9. \A n \in Nodes : tree'[n] >= 0
    <2> TAKE n \in Nodes
    <2>1. CASE n = m
      BY <1>2, <1>3, <2>1
    <2>2. CASE n # m
      BY <1>3, <2>2 DEF Sums
    <2> QED BY <2>1, <2>2
  <1>10. tree'[l] = tree[l]
    BY <1>1, <1>3, Shape
  <1>11. upd'[t].delta = upd'[t].prio - tree'[upd'[t].leaf]
    BY <1>2, <1>4, <1>10
  <1>12. ASSUME upd'[t].pc = "load"
         PROVE  /\ upd'[t].node =< Parent(upd'[t].leaf)
                /\ tree'[upd'[t].node] + upd'[t].delta >= 0
    <2> DEFINE p == Parent(m)
    <2>1. /\ m # 0 /\ upd'[t].node = p /\ p \in Inner /\ p \in Nat /\ p < m
          /\ m = Left(p) \/ m = Right(p)
      BY <1>1, <1>4, <1>12, ParentIsInner, Shape
    <2>2. p =< Parent(l) /\ p # Parent(l) /\ p # m
      BY <1>1, <1>2, <2>1
    <2>3. Due(t, p) = 0
      BY <1>2, <2>2 DEF Due, Updating
    <2>4. tree[p] = tree[Left(p)] + tree[Right(p)]
      <3>1. tree[Left(p)] \in Int /\ tree[Right(p)] \in Int
        BY <2>1, Children DEF TreeTypes
      <3> QED BY <1>6, <2>1, <2>3, <3>1
    <2>5. /\ tree[Left(p)] \in Int /\ tree[Right(p)] \in Int
          /\ tree[Left(p)] >= 0 /\ tree[Right(p)] >= 0
      BY <2>1, Children DEF TreeTypes, Sums
    <2>6. tree[p] + d >= 0
      BY <1>1, <1>2, <2>1, <2>4, <2>5
    <2>7. tree'[p] = tree[p]
      BY <1>3, <2>1, <2>2, Shape
    <2> QED BY <1>4, <2>1, <2>2, <2>6, <2>7
  <1>13. \A o \in Threads \ {t} : upd'[o].pc = "idle"
    BY <1>4 DEF Alone, Updating
  <1>14. upd'[t].pc \in {"load", "leaf"}
    BY <1>4
  <1> QED BY <1>8, <1>9, <1>11, <1>12, <1>13, <1>14 DEF Sums, Updating

\* The end of an update: nothing is owed any more.
LEMMA LeafKeeps ==
    ASSUME TreeTypes, NEW t \in Threads, SetLeaf(t)
    PROVE  /\ TreeTypes'
           /\ Alone(t) /\ Sums => Sums'
  <1> DEFINE l == upd[t].leaf
             d == upd[t].delta
  <1>1. /\ l \in Leaves /\ l \in Nodes /\ l # 0 /\ l \notin Inner /\ upd[t].prio \in Nat
        /\ d \in Int /\ Parent(l) \in Inner
    BY Shape, ParentIsInner, CapacityAssumption DEF TreeTypes, Leaves
  <1>2. /\ upd[t].pc = "leaf" /\ tree' = [tree EXCEPT ![l] = upd[t].prio]
        /\ upd' = [upd EXCEPT ![t] = IdleUpdate]
    BY DEF SetLeaf
  <1>3. TreeTypes'
    <2>1. Capacity - 1 \in Leaves /\ 0 \in Inner
      BY CapacityAssumption DEF Leaves, Inner
    <2>2. IdleUpdate \in [pc : {"idle", "load", "store", "leaf"}, leaf : Leaves,
                          prio : Nat, delta : Int, node : Inner, seen : Int]
      BY <2>1 DEF IdleUpdate
    <2> QED BY <1>1, <1>2, <2>2 DEF TreeTypes
  <1>4. /\ tree'[l] = upd[t].prio /\ \A n \in Nodes \ {l} : tree'[n] = tree[n]
        /\ upd'[t].pc = "idle" /\ \A o \in Threads \ {t} : upd'[o] = upd[o]
    BY <1>1, <1>2 DEF TreeTypes, IdleUpdate
  <1>5. ASSUME Alone(t), Sums PROVE Sums'
    <2>1. \A o \in Threads : upd'[o].pc = "idle" /\ ~Updating(o)'
      BY <1>4, <1>5 DEF Alone, Updating
    <2>2. Alone(t)'
      BY <2>1 DEF Alone
    <2>3. d = upd[t].prio - tree[l] /\ tree[l] \in Int
      BY <1>1, <1>2, <1>5 DEF Sums, Updating, TreeTypes
    <2>4. \A n \in Inner : tree[n] = tree[Left(n)] + tree[Right(n)] + Due(t, n)
      BY <1>5, SummedOfOne DEF Sums, OneSummed
    <2>5. \A n \in Inner : tree'[n] = tree'[Left(n)] + tree'[Right(n)] + Due(t, n)'
      <3> TAKE n \in Inner
      <3>1. /\ Left(n) \in Nodes /\ Right(n) \in Nodes /\ Left(n) # Right(n) /\ n \in Nodes
            /\ n # l /\ Parent(Left(n)) = n /\ Parent(Right(n)) = n
        BY <1>1, Children, Shape
      <3>2. tree[n] \in Int /\ tree[Left(n)] \in Int /\ tree[Right(n)] \in Int
        BY <3>1 DEF TreeTypes
      <3>3. Due(t, n)' = 0 /\ tree'[n] = tree[n]
        BY <1>4, <2>1, <3>1 DEF Due
      <3>4. CASE n = Parent(l)
        <4>1. Due(t, n) = d
          BY <1>1, <1>2, <3>4 DEF Due, Updating
        <4>2. l = Left(n) \/ l = Right(n)
          BY <1>1, <3>4, ParentIsInner
        <4>3. \/ tree'[Left(n)] = tree[Left(n)] + d /\ tree'[Right(n)] = tree[Right(n)]
              \/ tree'[Left(n)] = tree[Left(n)] /\ tree'[Right(n)] = tree[Right(n)] + d
          BY <1>1, <1>4, <2>3, <3>1, <4>2
        <4> QED BY <1>1, <2>4, <3>2, <3>3, <4>1, <4>3
      <3>5. CASE n # Parent(l)
        <4>1. Due(t, n) = 0
          BY <1>2, <3>5 DEF Due, Updating
        <4>2. Left(n) # l /\ Right(n) # l
          BY <3>1, <3>5
        <4>3. tree'[Left(n)] = tree[Left(n)] /\ tree'[Right(n)] = tree[Right(n)]
          BY <1>4, <3>1, <4>2
        <4> QED BY <2>4, <3>3, <4>1, <4>3
      <3> QED BY <3>4, <3>5
    <2>6. Summed'
      BY <1>3, <2>2, <2>5, SummedNext DEF OneSummed
    <2>7. \A n \in Nodes : tree'[n] >= 0
      <3> TAKE n \in Nodes
      <3>1. CASE n = l
        BY <1>1, <1>4, <3>1
      <3>2. CASE n # l
        BY <1>4, <1>5, <3>2 DEF Sums
      <3> QED BY <3>1, <3>2
    <2> QED BY <2>1, <2>6, <2>7 DEF Sums
  <1> QED BY <1>3, <1>5

-----------------------------------------------------------------------------
\* A descent in a tree without updates in progress stays within the node it is at:
\* what is left of the draw is at most what is below the node.
LEMMA DescentStays ==
    ASSUME TreeTypes, Sums, \A t \in Threads : ~Updating(t),
           NEW c \in [node : Inner, s : Int], c.s =< tree[c.node]
    PROVE  LET e == DescentStep(c) IN
           e \in [node : Nodes, s : Int] /\ e.s =< tree[e.node]
  <1> DEFINE n == c.node
  <1>1. /\ n \in Inner /\ Left(n) \in Nodes /\ Right(n) \in Nodes
        /\ tree[Left(n)] \in Int /\ tree[Right(n)] \in Int /\ c.s \in Int
    BY Children DEF TreeTypes
  <1>2. tree[n] = tree[Left(n)] + tree[Right(n)]
    <2>1. Due("engine", n) = 0 /\ Due("trainer", n) = 0
      BY DEF Due, Threads
    <2> QED BY <1>1, <2>1 DEF Sums, Summed
  <1> QED BY <1>1, <1>2 DEF DescentStep

-----------------------------------------------------------------------------
(***************************************************************************)
(* The buffer and the learner.                                             *)
(***************************************************************************)
\* Division: what is less than T + 1 times B holds B at most T times.
LEMMA Quotient ==
    ASSUME NEW B \in Nat, B > 0, NEW T \in Nat, NEW x \in Int, x < (T + 1) * B
    PROVE  x \div B =< T
  <1> DEFINE q == x \div B
  <1>1. q \in Int /\ x = B * q + (x % B) /\ x % B >= 0
    OBVIOUS
  <1>2. SUFFICES ASSUME q >= T + 1 PROVE FALSE
    BY <1>1
  <1>3. B * q >= B * (T + 1)
    <2> HIDE DEF q
    <2> QED BY <1>1, <1>2
  <1>4. x >= B * q /\ B * (T + 1) = (T + 1) * B
    <2> HIDE DEF q
    <2> QED BY <1>1
  <1> QED BY <1>1, <1>3, <1>4

\* The draws of a batch do not exceed the total.
LEMMA DrawsInTotal ==
    ASSUME trainer.total \in Nat, NEW k \in 1 .. BatchSize, NEW s \in Segment(k)
    PROVE  s \in Int /\ s =< trainer.total
  <1> DEFINE T == trainer.total
             B == BatchSize
  <1>1. B \in Nat /\ B > 0 /\ T \in Nat
    BY BufferAssumption
  <1>2. ASSUME NEW i \in 1 .. B
        PROVE  /\ (T * i + B - 1) \div B =< T
               /\ (T * i + B - 1) \div B \in Int /\ (T * i) \div B \in Int
    <2>1. T * i =< T * B /\ T * i \in Int
      BY <1>1
    <2>2. (T + 1) * B = T * B + B /\ T * B \in Int
      BY <1>1
    <2>3. T * i + B - 1 < (T + 1) * B /\ T * i + B - 1 \in Int
      BY <1>1, <2>1, <2>2
    <2> QED BY <1>1, <2>1, <2>3, Quotient
  <1>3. CASE T =< 0
    BY <1>1, <1>3 DEF Segment
  <1>4. CASE T > 0 /\ k = 1
    <2>1. s \in 0 .. (T * 1 + B - 1) \div B
      BY <1>4 DEF Segment
    <2> QED BY <1>1, <1>2, <2>1
  <1>5. CASE T > 0 /\ k # 1
    <2>1. s \in (T * (k - 1)) \div B + 1 .. (T * k + B - 1) \div B
      BY <1>5 DEF Segment
    <2>2. k - 1 \in 1 .. B
      BY <1>1, <1>5
    <2>3. (T * (k - 1)) \div B \in Int
      BY <1>2, <2>2
    <2> QED BY <1>1, <1>2, <2>1, <2>3
  <1> QED BY <1>1, <1>3, <1>4, <1>5

\* A draw is a number, whatever the total.
LEMMA DrawIsNumber ==
    ASSUME trainer.total \in Int, NEW k \in 1 .. BatchSize, NEW s \in Segment(k)
    PROVE  s \in Int
  <1>1. BatchSize \in Nat /\ BatchSize > 0
    BY BufferAssumption
  <1>2. \A i \in Int : (trainer.total * i) \div BatchSize \in Int
    <2> TAKE i \in Int
    <2>1. trainer.total * i \in Int
      OBVIOUS
    <2> QED BY <1>1, <2>1
  <1>3. CASE trainer.total =< 0
    BY <1>3 DEF Segment
  <1>4. CASE trainer.total > 0 /\ k = 1
    BY <1>4 DEF Segment
  <1>5. CASE trainer.total > 0 /\ k # 1
    BY <1>5 DEF Segment
  <1> QED BY <1>3, <1>4, <1>5

-----------------------------------------------------------------------------
\* The program points at which train_step has no batch.
Quiet == {"idle", "count", "save", "saving", "return", "dead"}

Trainers == [pc : Quiet \union {"draw", "descend", "priority"}, total : Int,
             cur : [node : Nodes, s : Int], batch : Seq(Nat), idxs : Seq(Leaves),
             k : Nat \ {0}]

BufferTypes ==
    /\ data \in [Slots -> Nat]
    /\ write \in Slots
    /\ pushes \in Nat
    /\ maxPriority \in Priorities \union {One}
    /\ trainer \in Trainers

\* A batch has a leaf for every transition, and a slot that was filled stays filled.
Paired ==
    /\ Len(trainer.batch) = Len(trainer.idxs)
    /\ trainer.pc \in Quiet => trainer.idxs = <<>>
    /\ \A i \in 1 .. Len(trainer.idxs) : data[Slot(trainer.idxs[i])] # None

\* The trainer updates the leaf whose turn it is.
AtTurn ==
    Updating("trainer") =>
        /\ trainer.pc = "priority"
        /\ trainer.k \in 1 .. Len(trainer.idxs)
        /\ upd["trainer"].leaf = trainer.idxs[trainer.k]

\* An empty slot has priority 0, and no update is on its way to it.
Stored ==
    /\ \A leaf \in Leaves : data[Slot(leaf)] = None => tree[leaf] = 0
    /\ \A t \in Threads : Updating(t) => data[Slot(upd[t].leaf)] # None

\* What holds of the buffer whatever the threads do.
BufferInv == TreeTypes /\ BufferTypes /\ Paired /\ AtTurn /\ Stored

\* What holds beside it as long as nothing is pushed during a train step.
Solo ==
    /\ Sums
    /\ \A i \in 1 .. Len(trainer.idxs) :
          data[Slot(trainer.idxs[i])] = trainer.batch[i]
    /\ trainer.pc \in {"draw", "descend"} => trainer.total = tree[0]
    /\ trainer.pc = "descend" => trainer.cur.s =< tree[trainer.cur.node]

\* The engine is not in the middle of a push while a train step runs.
NoPush == Updating("engine") => trainer.pc = "idle"

-----------------------------------------------------------------------------
\* The parameters, and the slot of a leaf.
LEMMA Numbers ==
    /\ BatchSize \in Nat /\ BatchSize > 0
    /\ Priorities \subseteq Nat \ {0} /\ One \in Nat \ {0}
    /\ \A p \in Priorities \union {One} : Alpha[p] \in Nat
    /\ \A leaf \in Leaves : Slot(leaf) \in Slots
    /\ \A i \in Slots : i + Capacity - 1 \in Leaves /\ Slot(i + Capacity - 1) = i
    /\ \A l, m \in Leaves : Slot(l) = Slot(m) => l = m
  BY BufferAssumption, CapacityAssumption DEF Slot, Slots, Leaves

LEMMA IdleIsTyped == IdleTrainer \in Trainers
  <1>1. 0 \in Nodes
    BY Shape
  <1> QED BY <1>1 DEF IdleTrainer, Root, Trainers, Quiet

\* A step that changes nothing but where train_step is.
LEMMA TrainerOnly ==
    ASSUME BufferInv, UNCHANGED <<treeVars, data, write, size, maxPriority, pushes>>,
           trainer' \in Trainers, Paired', AtTurn'
    PROVE  BufferInv' /\ (Sums => Sums')
  <1>1. tree' = tree /\ upd' = upd /\ data' = data /\ write' = write
        /\ maxPriority' = maxPriority /\ pushes' = pushes
    BY DEF treeVars
  <1>2. TreeTypes' /\ (Sums => Sums') /\ Stored' /\ BufferTypes'
    BY <1>1 DEF BufferInv, TreeTypes, Sums, Summed, Due, Updating, Stored, BufferTypes
  <1> QED BY <1>2 DEF BufferInv

\* No update of the trainer is under way outside update_priorities.
LEMMA NotInPriority ==
    ASSUME BufferInv, trainer.pc # "priority" PROVE ~Updating("trainer")
  BY DEF BufferInv, AtTurn

\* A step between two program points without a batch.
LEMMA QuietKeeps ==
    ASSUME BufferInv, UNCHANGED <<treeVars, data, write, size, maxPriority, pushes>>,
           trainer.pc \in Quiet, NEW x \in Quiet, trainer' = [trainer EXCEPT !.pc = x]
    PROVE  BufferInv' /\ (Solo => Solo')
  <1>1. /\ trainer \in Trainers /\ trainer' \in Trainers /\ trainer'.pc = x
        /\ trainer'.idxs = trainer.idxs /\ trainer'.batch = trainer.batch
    BY DEF BufferInv, BufferTypes, Trainers
  <1>2. trainer.idxs = <<>> /\ trainer'.idxs = <<>> /\ Len(trainer'.idxs) = 0
    BY <1>1 DEF BufferInv, Paired
  <1>3. Paired'
    BY <1>1, <1>2 DEF BufferInv, Paired
  <1>4. ~Updating("trainer") /\ ~Updating("trainer")'
    BY NotInPriority DEF Quiet, treeVars, Updating
  <1>5. AtTurn'
    BY <1>4 DEF AtTurn
  <1>6. BufferInv' /\ (Sums => Sums')
    BY <1>1, <1>3, <1>5, TrainerOnly
  <1>7. ASSUME Solo PROVE Solo'
    BY <1>1, <1>2, <1>6, <1>7 DEF Solo, Quiet
  <1> QED BY <1>6, <1>7

\* The start of a train step.
LEMMA TrainStartKeeps ==
    ASSUME BufferInv, TrainStart
    PROVE  BufferInv' /\ (Solo => Solo')
  <1>1. /\ trainer.pc = "idle" /\ tree' = tree /\ upd' = upd
        /\ trainer' = [IdleTrainer EXCEPT !.pc = "draw", !.total = tree[0]]
        /\ UNCHANGED <<treeVars, data, write, size, maxPriority, pushes>>
    BY DEF TrainStart, treeVars
  <1>2. tree[0] \in Int
    BY Shape DEF BufferInv, TreeTypes
  <1>3. /\ trainer'.pc = "draw" /\ trainer'.total = tree[0]
        /\ trainer'.batch = <<>> /\ trainer'.idxs = <<>>
    BY <1>1 DEF IdleTrainer
  <1>4. trainer' \in Trainers
    BY <1>1, <1>2, IdleIsTyped DEF Trainers
  <1>5. Paired'
    BY <1>3 DEF Paired, Quiet
  <1>6. ~Updating("trainer") /\ ~Updating("trainer")'
    BY <1>1, NotInPriority DEF Updating
  <1>7. AtTurn'
    BY <1>6 DEF AtTurn
  <1>8. BufferInv' /\ (Sums => Sums')
    BY <1>1, <1>4, <1>5, <1>7, TrainerOnly
  <1>9. ASSUME Solo PROVE Solo'
    BY <1>1, <1>3, <1>8, <1>9 DEF Solo
  <1> QED BY <1>8, <1>9

\* One draw.
LEMMA DrawKeeps ==
    ASSUME BufferInv, NEW s \in Segment(trainer.k), Draw(s)
    PROVE  BufferInv' /\ (Solo => Solo')
  <1>1. /\ trainer.pc = "draw" /\ trainer.k =< BatchSize /\ tree' = tree /\ upd' = upd
        /\ trainer' = [trainer EXCEPT !.pc = "descend", !.cur = [node |-> 0, s |-> s]]
        /\ UNCHANGED <<treeVars, data, write, size, maxPriority, pushes>> /\ data' = data
    BY DEF Draw, treeVars
  <1>2. trainer \in Trainers /\ trainer.k \in 1 .. BatchSize /\ trainer.total \in Int
    BY <1>1, Numbers DEF BufferInv, BufferTypes, Trainers
  <1>3. s \in Int
    BY <1>2, DrawIsNumber
  <1>4. /\ trainer'.pc = "descend" /\ trainer'.total = trainer.total
        /\ trainer'.batch = trainer.batch /\ trainer'.idxs = trainer.idxs
        /\ trainer'.cur = [node |-> 0, s |-> s]
    BY <1>1, <1>2 DEF Trainers
  <1>5. trainer' \in Trainers
    BY <1>1, <1>2, <1>3, Shape DEF Trainers
  <1>6. Paired'
    BY <1>1, <1>4 DEF BufferInv, Paired, Quiet
  <1>7. ~Updating("trainer") /\ ~Updating("trainer")'
    BY <1>1, NotInPriority DEF Updating
  <1>8. AtTurn'
    BY <1>7 DEF AtTurn
  <1>9. BufferInv' /\ (Sums => Sums')
    BY <1>1, <1>5, <1>6, <1>8, TrainerOnly
  <1>10. ASSUME Solo PROVE Solo'
    <2>1. trainer.total = tree[0] /\ tree[0] >= 0
      BY <1>1, <1>10, Shape DEF Solo, Sums
    <2>2. s =< trainer.total
      BY <1>2, <2>1, DrawsInTotal
    <2> QED BY <1>1, <1>4, <1>9, <1>10, <2>1, <2>2 DEF Solo
  <1> QED BY <1>9, <1>10

\* One level of a descent.
LEMMA DescendKeeps ==
    ASSUME BufferInv, Descend
    PROVE  BufferInv' /\ (NoPush /\ Solo => Solo')
  <1> DEFINE c == trainer.cur
  <1>1. /\ trainer.pc = "descend" /\ c.node \in Inner /\ tree' = tree /\ upd' = upd
        /\ trainer' = [trainer EXCEPT !.cur = DescentStep(c)] /\ data' = data
        /\ UNCHANGED <<treeVars, data, write, size, maxPriority, pushes>>
    BY DEF Descend, treeVars
  <1>2. trainer \in Trainers /\ c \in [node : Inner, s : Int]
    BY <1>1 DEF BufferInv, BufferTypes, Trainers
  <1>3. DescentStep(c) \in [node : Nodes, s : Int]
    <2>1. Left(c.node) \in Nodes /\ Right(c.node) \in Nodes /\ tree[Left(c.node)] \in Int
      BY <1>1, Children DEF BufferInv, TreeTypes
    <2> QED BY <1>2, <2>1 DEF DescentStep
  <1>4. /\ trainer'.pc = "descend" /\ trainer'.total = trainer.total
        /\ trainer'.batch = trainer.batch /\ trainer'.idxs = trainer.idxs
        /\ trainer'.cur = DescentStep(c) /\ trainer' \in Trainers
    <2> HIDE DEF c
    <2> QED BY <1>1, <1>2, <1>3 DEF Trainers
  <1>5. Paired'
    BY <1>1, <1>4 DEF BufferInv, Paired, Quiet
  <1>6. ~Updating("trainer") /\ ~Updating("trainer")'
    BY <1>1, NotInPriority DEF Updating
  <1>7. AtTurn'
    BY <1>6 DEF AtTurn
  <1>8. BufferInv' /\ (Sums => Sums')
    BY <1>1, <1>4, <1>5, <1>7, TrainerOnly
  <1>9. ASSUME NoPush, Solo PROVE Solo'
    <2>1. \A t \in Threads : ~Updating(t)
      BY <1>1, <1>6, <1>9 DEF NoPush, Threads
    <2>2. trainer'.cur.s =< tree[trainer'.cur.node]
      <3>1. c.s =< tree[c.node]
        BY <1>1, <1>9 DEF Solo
      <3> QED BY <1>2, <1>4, <1>9, <2>1, <3>1, DescentStays DEF BufferInv, Solo
    <2> QED BY <1>1, <1>4, <1>8, <1>9, <2>2 DEF Solo
  <1> QED BY <1>8, <1>9

\* The end of a draw: nothing, or one more transition in the batch.
LEMMA GetKeeps ==
    ASSUME BufferInv, Get
    PROVE  BufferInv' /\ (Solo => Solo')
  <1> DEFINE leaf  == trainer.cur.node
             datum == data[Slot(leaf)]
  <1>1. /\ trainer.pc = "descend" /\ leaf \in Leaves /\ tree' = tree /\ upd' = upd
        /\ UNCHANGED <<treeVars, data, write, size, maxPriority, pushes>> /\ data' = data
    BY DEF Get, treeVars
  <1>2. trainer \in Trainers /\ trainer.k + 1 \in Nat \ {0} /\ Root \in [node : Nodes, s : Int]
    BY Shape DEF BufferInv, BufferTypes, Trainers, Root
  <1>3. datum \in Nat
    BY <1>1, Numbers DEF BufferInv, BufferTypes
  <1>4. ~Updating("trainer") /\ ~Updating("trainer")'
    BY <1>1, NotInPriority DEF Updating
  <1>5. AtTurn'
    BY <1>4 DEF AtTurn
  <1>6. CASE trainer' = [trainer EXCEPT !.pc = "draw", !.cur = Root, !.k = trainer.k + 1]
    <2>1. /\ trainer'.pc = "draw" /\ trainer'.total = trainer.total
          /\ trainer'.batch = trainer.batch /\ trainer'.idxs = trainer.idxs
          /\ trainer' \in Trainers
      BY <1>2, <1>6 DEF Trainers
    <2>2. Paired'
      BY <1>1, <2>1 DEF BufferInv, Paired, Quiet
    <2>3. BufferInv' /\ (Sums => Sums')
      BY <1>1, <1>5, <2>1, <2>2, TrainerOnly
    <2>4. ASSUME Solo PROVE Solo'
      BY <1>1, <2>1, <2>3, <2>4 DEF Solo
    <2> QED BY <2>3, <2>4
  <1>7. CASE /\ datum # None
             /\ trainer' = [trainer EXCEPT !.pc = "draw", !.cur = Root, !.k = trainer.k + 1,
                               !.batch = Append(trainer.batch, datum),
                               !.idxs = Append(trainer.idxs, leaf)]
    <2>1. trainer.batch \in Seq(Nat) /\ trainer.idxs \in Seq(Leaves)
      BY <1>2 DEF Trainers
    <2>2. /\ Append(trainer.batch, datum) \in Seq(Nat)
          /\ Append(trainer.idxs, leaf) \in Seq(Leaves)
      BY <1>1, <1>3, <2>1, AppendProperties
    <2>3. /\ trainer'.pc = "draw" /\ trainer'.total = trainer.total
          /\ trainer'.batch = Append(trainer.batch, datum)
          /\ trainer'.idxs = Append(trainer.idxs, leaf)
          /\ trainer' \in Trainers
      <3> HIDE DEF leaf, datum
      <3> QED BY <1>2, <1>7, <2>2 DEF Trainers
    <2> DEFINE n == Len(trainer.idxs)
    <2>4. /\ n \in Nat /\ Len(trainer.batch) = n
          /\ Len(trainer'.idxs) = n + 1 /\ Len(trainer'.batch) = n + 1
      BY <2>1, <2>3, AppendProperties DEF BufferInv, Paired
    <2>5. /\ trainer'.idxs[n + 1] = leaf /\ trainer'.batch[n + 1] = datum
          /\ \A i \in 1 .. n : /\ trainer'.idxs[i] = trainer.idxs[i]
                               /\ trainer'.batch[i] = trainer.batch[i]
      <3> HIDE DEF leaf, datum
      <3> QED BY <1>1, <1>3, <2>1, <2>3, <2>4, AppendProperties
    <2>6. \A i \in 1 .. n + 1 : i = n + 1 \/ i \in 1 .. n
      BY <2>4
    <2>7. Paired'
      BY <1>1, <1>7, <2>3, <2>4, <2>5, <2>6 DEF BufferInv, Paired, Quiet
    <2>8. BufferInv' /\ (Sums => Sums')
      BY <1>1, <1>5, <2>3, <2>7, TrainerOnly
    <2>9. ASSUME Solo PROVE Solo'
      <3>1. \A i \in 1 .. Len(trainer'.idxs) : data'[Slot(trainer'.idxs[i])] = trainer'.batch[i]
        BY <1>1, <2>4, <2>5, <2>6, <2>9 DEF Solo
      <3> QED BY <1>1, <2>3, <2>8, <2>9, <3>1 DEF Solo
    <2> QED BY <2>8, <2>9
  <1>8. CASE trainer' = [IdleTrainer EXCEPT !.pc = "dead"]
    <2>1. /\ trainer'.pc = "dead" /\ trainer'.batch = <<>> /\ trainer'.idxs = <<>>
          /\ trainer' \in Trainers
      BY <1>8, IdleIsTyped DEF IdleTrainer, Trainers, Quiet
    <2>2. Paired'
      BY <2>1 DEF Paired
    <2>3. BufferInv' /\ (Sums => Sums')
      BY <1>1, <1>5, <2>1, <2>2, TrainerOnly
    <2>4. ASSUME Solo PROVE Solo'
      BY <2>1, <2>3, <2>4 DEF Solo
    <2> QED BY <2>3, <2>4
  <1> QED
    <2>1. \/ trainer' = [trainer EXCEPT !.pc = "draw", !.cur = Root, !.k = trainer.k + 1]
          \/ /\ datum # None
             /\ trainer' = [trainer EXCEPT !.pc = "draw", !.cur = Root, !.k = trainer.k + 1,
                               !.batch = Append(trainer.batch, datum),
                               !.idxs = Append(trainer.idxs, leaf)]
          \/ trainer' = [IdleTrainer EXCEPT !.pc = "dead"]
      BY DEF Get
    <2> QED BY <1>6, <1>7, <1>8, <2>1

\* The end of sampling.
LEMMA SampledKeeps ==
    ASSUME BufferInv, Sampled
    PROVE  BufferInv' /\ (Solo => Solo')
  <1>1. /\ trainer.pc = "draw" /\ tree' = tree /\ upd' = upd /\ data' = data
        /\ UNCHANGED <<treeVars, data, write, size, maxPriority, pushes>>
        /\ \/ trainer' = [IdleTrainer EXCEPT !.pc = "return"]
           \/ trainer' = [trainer EXCEPT !.pc = "priority", !.total = 0, !.k = 1]
    BY DEF Sampled, treeVars
  <1>2. trainer \in Trainers
    BY DEF BufferInv, BufferTypes
  <1>3. ~Updating("trainer") /\ ~Updating("trainer")'
    BY <1>1, NotInPriority DEF Updating
  <1>4. AtTurn'
    BY <1>3 DEF AtTurn
  <1>5. CASE trainer' = [IdleTrainer EXCEPT !.pc = "return"]
    <2>1. /\ trainer'.pc = "return" /\ trainer'.batch = <<>> /\ trainer'.idxs = <<>>
          /\ trainer' \in Trainers
      BY <1>5, IdleIsTyped DEF IdleTrainer, Trainers, Quiet
    <2>2. Paired'
      BY <2>1 DEF Paired
    <2>3. BufferInv' /\ (Sums => Sums')
      BY <1>1, <1>4, <2>1, <2>2, TrainerOnly
    <2>4. ASSUME Solo PROVE Solo'
      BY <2>1, <2>3, <2>4 DEF Solo
    <2> QED BY <2>3, <2>4
  <1>6. CASE trainer' = [trainer EXCEPT !.pc = "priority", !.total = 0, !.k = 1]
    <2>1. /\ trainer'.pc = "priority" /\ trainer'.batch = trainer.batch
          /\ trainer'.idxs = trainer.idxs /\ trainer' \in Trainers
      <3>1. 0 \in Int /\ 1 \in Nat \ {0}
        OBVIOUS
      <3>2. /\ trainer'.pc = "priority" /\ trainer'.batch = trainer.batch
            /\ trainer'.idxs = trainer.idxs
        BY <1>2, <1>6 DEF Trainers
      <3>3. trainer' \in Trainers
        BY <1>2, <1>6, <3>1 DEF Trainers
      <3> QED BY <3>2, <3>3
    <2>2. Paired'
      BY <1>1, <2>1 DEF BufferInv, Paired, Quiet
    <2>3. BufferInv' /\ (Sums => Sums')
      BY <1>1, <1>4, <2>1, <2>2, TrainerOnly
    <2>4. ASSUME Solo PROVE Solo'
      BY <1>1, <2>1, <2>3, <2>4 DEF Solo
    <2> QED BY <2>3, <2>4
  <1> QED BY <1>1, <1>5, <1>6

\* The priorities are written.
LEMMA BatchDoneKeeps ==
    ASSUME BufferInv, BatchDone
    PROVE  BufferInv' /\ (Solo => Solo')
  <1>1. /\ ~Updating("trainer") /\ tree' = tree /\ upd' = upd /\ data' = data
        /\ UNCHANGED <<treeVars, data, write, size, maxPriority, pushes>>
        /\ trainer' = [IdleTrainer EXCEPT !.pc = "count"]
    BY DEF BatchDone, treeVars
  <1>2. AtTurn'
    BY <1>1 DEF AtTurn, Updating
  <1>3. /\ trainer'.pc = "count" /\ trainer'.batch = <<>> /\ trainer'.idxs = <<>>
        /\ trainer' \in Trainers
    BY <1>1, IdleIsTyped DEF IdleTrainer, Trainers, Quiet
  <1>4. Paired'
    BY <1>3 DEF Paired
  <1>5. BufferInv' /\ (Sums => Sums')
    BY <1>1, <1>2, <1>3, <1>4, TrainerOnly
  <1>6. ASSUME Solo PROVE Solo'
    BY <1>3, <1>5, <1>6 DEF Solo
  <1> QED BY <1>5, <1>6

\* A push begins: the slot is filled before its priority is on its way.
LEMMA PushKeeps ==
    ASSUME BufferInv, Push
    PROVE  BufferInv' /\ (trainer.pc = "idle" /\ Solo => Solo')
  <1> DEFINE leaf == write + Capacity - 1
             prio == Alpha[maxPriority]
  <1>1. /\ ~Updating("engine") /\ UpdateStart("engine", leaf, prio)
        /\ data' = [data EXCEPT ![write] = pushes + 1] /\ pushes' = pushes + 1
        /\ write' = write /\ maxPriority' = maxPriority /\ trainer' = trainer
    BY DEF Push
  <1>2. /\ leaf \in Leaves /\ Slot(leaf) = write /\ prio \in Nat /\ "engine" \in Threads
    BY Numbers DEF BufferInv, BufferTypes, Threads
  <1>3. TreeTypes' /\ ((\A o \in Threads : ~Updating(o)) /\ Sums => Sums')
    <2> HIDE DEF leaf, prio
    <2> QED BY <1>1, <1>2, StartKeeps DEF BufferInv
  <1>4. /\ tree' = tree /\ upd'["engine"].leaf = leaf /\ upd'["trainer"] = upd["trainer"]
    <2> HIDE DEF leaf, prio
    <2> QED BY <1>1, <1>2 DEF UpdateStart, BufferInv, TreeTypes, Threads
  <1>5. /\ pushes + 1 \in Nat /\ pushes + 1 # None
        /\ data'[write] = pushes + 1 /\ \A i \in Slots \ {write} : data'[i] = data[i]
    BY <1>1 DEF BufferInv, BufferTypes, None
  <1>6. BufferTypes'
    BY <1>1, <1>5 DEF BufferInv, BufferTypes
  <1>7. \A i \in Slots : data'[i] = None => data[i] = None
    BY <1>5
  <1>8. \A i \in 1 .. Len(trainer.idxs) : Slot(trainer.idxs[i]) \in Slots
    <2>1. trainer.idxs \in Seq(Leaves)
      BY DEF BufferInv, BufferTypes, Trainers
    <2> QED BY <2>1, Numbers
  <1>9. Paired'
    BY <1>1, <1>7, <1>8 DEF BufferInv, Paired
  <1>10. AtTurn'
    BY <1>1, <1>4 DEF BufferInv, AtTurn, Updating
  <1>11. Stored'
    <2>1. \A l \in Leaves : data'[Slot(l)] = None => tree'[l] = 0
      BY <1>4, <1>7, Numbers DEF BufferInv, Stored
    <2>2. data'[Slot(upd'["engine"].leaf)] # None
      BY <1>2, <1>4, <1>5
    <2>3. Updating("trainer")' => data'[Slot(upd'["trainer"].leaf)] # None
      <3>1. Slot(upd["trainer"].leaf) \in Slots
        BY Numbers DEF BufferInv, TreeTypes, Threads
      <3> QED BY <1>4, <1>7, <3>1 DEF BufferInv, Stored, Updating, Threads
    <2> QED BY <2>1, <2>2, <2>3 DEF Stored, Threads
  <1>12. ASSUME trainer.pc = "idle", Solo PROVE Solo'
    <2>1. \A o \in Threads : ~Updating(o)
      BY <1>1, <1>12, NotInPriority DEF Threads
    <2>2. trainer.idxs = <<>>
      BY <1>12 DEF BufferInv, Paired, Quiet
    <2> QED BY <1>1, <1>3, <1>12, <2>1, <2>2 DEF Solo
  <1> QED BY <1>3, <1>6, <1>9, <1>10, <1>11, <1>12 DEF BufferInv

\* A step on the way to the root changes inner nodes only.
LEMMA PropagateKeeps ==
    ASSUME BufferInv, NEW t \in Threads, Propagate(t)
    PROVE  BufferInv' /\ (NoPush /\ Solo => Solo')
  <1>1. /\ Load(t) \/ Store(t)
        /\ data' = data /\ write' = write /\ maxPriority' = maxPriority
        /\ pushes' = pushes /\ trainer' = trainer
    BY DEF Propagate
  <1>2. Updating(t)
    BY <1>1 DEF Load, Store, Updating
  <1>3. TreeTypes' /\ (Alone(t) /\ Sums => Sums')
    BY <1>1, LoadKeeps, StoreKeeps, StoreChanges DEF BufferInv
  <1>4. /\ \A l \in Leaves : tree'[l] = tree[l]
        /\ \A o \in Threads : upd'[o].leaf = upd[o].leaf /\ (Updating(o)' <=> Updating(o))
    <2>1. CASE Load(t)
      BY <2>1 DEF Load, Updating, BufferInv, TreeTypes
    <2>2. CASE Store(t)
      <3>1. upd[t].node \in Inner /\ \A l \in Leaves : l # upd[t].node /\ l \in Nodes
        BY Shape DEF BufferInv, TreeTypes
      <3>2. \A l \in Leaves : tree'[l] = tree[l]
        BY <2>2, <3>1, StoreChanges DEF BufferInv, TreeTypes
      <3>3. upd'[t].leaf = upd[t].leaf /\ Updating(t)' /\ \A o \in Threads \ {t} : upd'[o] = upd[o]
        BY <2>2, StoreChanges DEF BufferInv, Updating
      <3>4. Updating(t)
        BY <1>2
      <3>5. \A o \in Threads : upd'[o].leaf = upd[o].leaf /\ (Updating(o)' <=> Updating(o))
        BY <3>3, <3>4 DEF Updating
      <3> QED BY <3>2, <3>5
    <2> QED BY <1>1, <2>1, <2>2
  <1>5. BufferTypes' /\ Paired'
    BY <1>1 DEF BufferInv, BufferTypes, Paired
  <1>6. AtTurn'
    BY <1>1, <1>4 DEF BufferInv, AtTurn, Threads
  <1>7. Stored'
    BY <1>1, <1>4 DEF BufferInv, Stored
  <1>8. ASSUME NoPush, Solo PROVE Solo'
    <2>1. Alone(t) /\ trainer.pc \notin {"draw", "descend"}
      <3>1. CASE t = "engine"
        BY <1>2, <1>8, <3>1, NotInPriority DEF NoPush, Alone, Threads
      <3>2. CASE t = "trainer"
        <4>1. trainer.pc = "priority"
          BY <1>2, <3>2 DEF BufferInv, AtTurn
        <4> QED BY <1>8, <3>2, <4>1 DEF NoPush, Alone, Threads
      <3> QED BY <3>1, <3>2 DEF Threads
    <2> QED BY <1>1, <1>3, <1>8, <2>1 DEF Solo
  <1> QED BY <1>3, <1>5, <1>6, <1>7, <1>8 DEF BufferInv

\* The leaf gets its priority.
LEMMA SetLeafKeeps ==
    ASSUME TreeTypes, Stored, NEW t \in Threads, SetLeaf(t), data' = data
    PROVE  Stored' /\ Updating(t) /\ ~Updating(t)' /\ \A o \in Threads \ {t} : upd'[o] = upd[o]
  <1>1. /\ upd[t].pc = "leaf" /\ upd[t].leaf \in Leaves /\ upd[t].leaf \in Nodes
        /\ tree' = [tree EXCEPT ![upd[t].leaf] = upd[t].prio]
        /\ upd' = [upd EXCEPT ![t] = IdleUpdate]
    BY Shape DEF SetLeaf, TreeTypes
  <1>2. upd'[t].pc = "idle" /\ \A o \in Threads \ {t} : upd'[o] = upd[o]
    BY <1>1 DEF TreeTypes, IdleUpdate
  <1>3. data[Slot(upd[t].leaf)] # None
    BY <1>1 DEF Stored, Updating
  <1>4. \A l \in Leaves \ {upd[t].leaf} : tree'[l] = tree[l]
    BY <1>1, Shape DEF TreeTypes
  <1>5. \A l \in Leaves : data[Slot(l)] = None => tree'[l] = 0
    BY <1>3, <1>4 DEF Stored
  <1> QED BY <1>1, <1>2, <1>5 DEF Stored, Updating

\* The end of a push.
LEMMA PushEndKeeps ==
    ASSUME BufferInv, PushEnd
    PROVE  BufferInv' /\ (NoPush /\ Solo => Solo')
  <1>1. /\ SetLeaf("engine") /\ "engine" \in Threads /\ write' = (write + 1) % Capacity
        /\ data' = data /\ maxPriority' = maxPriority /\ pushes' = pushes /\ trainer' = trainer
    BY DEF PushEnd, Threads
  <1>2. TreeTypes' /\ (Alone("engine") /\ Sums => Sums')
    BY <1>1, LeafKeeps DEF BufferInv
  <1>3. /\ Stored' /\ Updating("engine") /\ ~Updating("engine")'
        /\ upd'["trainer"] = upd["trainer"]
    BY <1>1, SetLeafKeeps DEF BufferInv, Threads
  <1>4. write' \in Slots
    <2>1. write \in Nat /\ Capacity \in Nat /\ Capacity > 0
      BY CapacityAssumption DEF BufferInv, BufferTypes, Slots
    <2>2. (write + 1) % Capacity \in 0 .. Capacity - 1
      BY <2>1
    <2> QED BY <1>1, <2>2 DEF Slots
  <1>5. BufferTypes' /\ Paired'
    BY <1>1, <1>4 DEF BufferInv, BufferTypes, Paired
  <1>6. AtTurn'
    BY <1>1, <1>3 DEF BufferInv, AtTurn, Updating
  <1>7. ASSUME NoPush, Solo PROVE Solo'
    <2>1. Alone("engine") /\ trainer.pc = "idle"
      BY <1>3, <1>7, NotInPriority DEF NoPush, Alone, Threads
    <2> QED BY <1>1, <1>2, <1>7, <2>1 DEF Solo
  <1> QED BY <1>2, <1>3, <1>5, <1>6, <1>7 DEF BufferInv

\* A priority begins to be written.
LEMMA ReprioritiseKeeps ==
    ASSUME BufferInv, NEW p \in Priorities, Reprioritise(p)
    PROVE  BufferInv' /\ (NoPush /\ Solo => Solo')
  <1> DEFINE leaf == trainer.idxs[trainer.k]
  <1>1. /\ trainer.pc = "priority" /\ trainer.k =< Len(trainer.batch) /\ ~Updating("trainer")
        /\ UpdateStart("trainer", leaf, p) /\ "trainer" \in Threads
        /\ maxPriority' = IF p > maxPriority THEN p ELSE maxPriority
        /\ data' = data /\ write' = write /\ pushes' = pushes /\ trainer' = trainer
    BY DEF Reprioritise, Threads
  <1>2. /\ trainer.idxs \in Seq(Leaves) /\ trainer.k \in 1 .. Len(trainer.idxs)
    BY <1>1 DEF BufferInv, BufferTypes, Trainers, Paired
  <1>3. leaf \in Leaves /\ p \in Nat
    BY <1>2, Numbers
  <1>4. TreeTypes' /\ ((\A o \in Threads : ~Updating(o)) /\ Sums => Sums')
    <2> HIDE DEF leaf
    <2> QED BY <1>1, <1>3, StartKeeps DEF BufferInv
  <1>5. /\ tree' = tree /\ upd'["trainer"].leaf = leaf /\ upd'["engine"] = upd["engine"]
    <2> HIDE DEF leaf
    <2> QED BY <1>1, <1>3 DEF UpdateStart, BufferInv, TreeTypes, Threads
  <1>6. BufferTypes' /\ Paired'
    BY <1>1 DEF BufferInv, BufferTypes, Paired
  <1>7. AtTurn'
    BY <1>1, <1>2, <1>5 DEF AtTurn
  <1>8. Stored'
    <2>1. data[Slot(leaf)] # None
      BY <1>2 DEF BufferInv, Paired
    <2>2. Updating("engine")' => data[Slot(upd'["engine"].leaf)] # None
      BY <1>5 DEF BufferInv, Stored, Updating, Threads
    <2> QED BY <1>1, <1>5, <2>1, <2>2 DEF BufferInv, Stored, Threads
  <1>9. ASSUME NoPush, Solo PROVE Solo'
    <2>1. \A o \in Threads : ~Updating(o)
      BY <1>1, <1>9 DEF NoPush, Threads
    <2> QED BY <1>1, <1>4, <1>9, <2>1 DEF Solo
  <1> QED BY <1>4, <1>6, <1>7, <1>8, <1>9 DEF BufferInv

\* A priority is written.
LEMMA ReprioritiseEndKeeps ==
    ASSUME BufferInv, ReprioritiseEnd
    PROVE  BufferInv' /\ (NoPush /\ Solo => Solo')
  <1>1. /\ SetLeaf("trainer") /\ "trainer" \in Threads
        /\ trainer' = [trainer EXCEPT !.k = trainer.k + 1]
        /\ data' = data /\ maxPriority' = maxPriority /\ pushes' = pushes /\ write' = write
    BY DEF ReprioritiseEnd, Threads
  <1>2. TreeTypes' /\ (Alone("trainer") /\ Sums => Sums')
    BY <1>1, LeafKeeps DEF BufferInv
  <1>3. /\ Stored' /\ Updating("trainer") /\ ~Updating("trainer")'
    BY <1>1, SetLeafKeeps DEF BufferInv
  <1>4. trainer.pc = "priority"
    BY <1>3 DEF BufferInv, AtTurn
  <1>5. /\ trainer'.pc = trainer.pc /\ trainer'.idxs = trainer.idxs
        /\ trainer'.batch = trainer.batch /\ trainer' \in Trainers
    <2>1. trainer \in Trainers /\ trainer.k + 1 \in Nat \ {0}
      BY DEF BufferInv, BufferTypes, Trainers
    <2> QED BY <1>1, <2>1 DEF Trainers
  <1>6. BufferTypes' /\ Paired'
    BY <1>1, <1>5 DEF BufferInv, BufferTypes, Paired
  <1>7. AtTurn'
    BY <1>3 DEF AtTurn
  <1>8. ASSUME NoPush, Solo PROVE Solo'
    <2>1. Alone("trainer")
      BY <1>4, <1>8 DEF NoPush, Alone, Threads
    <2> QED BY <1>1, <1>2, <1>4, <1>5, <1>8, <2>1 DEF Solo
  <1> QED BY <1>2, <1>3, <1>6, <1>7, <1>8 DEF BufferInv

-----------------------------------------------------------------------------
\* Whose turn it is.  With one thread a train step runs while the thread that
\* pushes waits for it: in the simulation's loop, or in the fitting of the warm
\* start, when no pass is under way.
Turns ==
    /\ Updating("engine") => pc \in {"push", "train", "select"}
    /\ phase = "fit" => pc = "ready"
    /\ OneThread /\ trainer.pc # "idle" =>
           /\ ~Updating("engine")
           /\ phase = "fit" \/ (phase = "simulate" /\ pc = "train")

\* The inductive invariant.
IInv == BufferInv /\ Turns /\ (OneThread => Solo)

\* The beginning, and the beginning after a restart.
LEMMA BufferStarts ==
    BufferInit => /\ BufferInv /\ Solo
                  /\ trainer.pc = "idle" /\ \A t \in Threads : ~Updating(t)
  <1> SUFFICES ASSUME BufferInit
               PROVE  /\ BufferInv /\ Solo
                      /\ trainer.pc = "idle" /\ \A t \in Threads : ~Updating(t)
    OBVIOUS
  <1>1. TreeTypes /\ Sums /\ \A t \in Threads : ~Updating(t)
    BY TreeStarts DEF BufferInit
  <1>2. trainer.pc = "idle" /\ trainer.batch = <<>> /\ trainer.idxs = <<>>
    BY DEF BufferInit, IdleTrainer
  <1>3. BufferTypes
    <2>1. 0 \in Slots /\ 0 \in Nat
      BY CapacityAssumption DEF Slots
    <2> QED BY <2>1, IdleIsTyped DEF BufferInit, BufferTypes, None
  <1>4. Paired
    BY <1>2 DEF Paired
  <1>5. AtTurn
    BY <1>1 DEF AtTurn, Threads
  <1>6. Stored
    BY <1>1, Shape DEF Stored, BufferInit, TreeInit
  <1>7. Solo
    BY <1>1, <1>2 DEF Solo
  <1> QED BY <1>1, <1>2, <1>3, <1>4, <1>5, <1>6, <1>7 DEF BufferInv

LEMMA BufferStartsAgain ==
    (BufferInit => /\ BufferInv /\ Solo
                   /\ trainer.pc = "idle" /\ \A t \in Threads : ~Updating(t))'
  BY BufferStarts, PTL

LEMMA Starts == Init => IInv
  <1> SUFFICES ASSUME Init PROVE IInv
    OBVIOUS
  <1>1. BufferInv /\ Solo /\ trainer.pc = "idle" /\ ~Updating("engine")
    BY BufferStarts DEF Init, Threads
  <1>2. pc = "ready"
    BY DEF Init, AgentInit
  <1> QED BY <1>1, <1>2 DEF IInv, Turns

LEMMA RestartKeeps ==
    ASSUME Restart PROVE IInv'
  <1>1. BufferInit' /\ pc' = "ready"
    BY DEF Restart, BufferInit, TreeInit
  <1>2. BufferInv' /\ Solo' /\ trainer'.pc = "idle" /\ ~Updating("engine")'
    BY <1>1, BufferStartsAgain DEF Threads
  <1> QED BY <1>1, <1>2 DEF IInv, Turns

-----------------------------------------------------------------------------
\* A step that leaves the buffer alone.
LEMMA NothingKeeps ==
    ASSUME BufferInv, UNCHANGED bufferVars
    PROVE  /\ BufferInv' /\ (Solo => Solo') /\ trainer' = trainer
           /\ Updating("engine")' <=> Updating("engine")
  <1>1. tree' = tree /\ upd' = upd /\ data' = data /\ write' = write
        /\ maxPriority' = maxPriority /\ pushes' = pushes /\ trainer' = trainer
    BY DEF bufferVars, treeVars
  <1>2. BufferInv'
    BY <1>1 DEF BufferInv, TreeTypes, BufferTypes, Paired, AtTurn, Stored, Updating
  <1>3. Solo => Solo'
    BY <1>1 DEF Solo, Sums, Summed, Due, Updating
  <1> QED BY <1>1, <1>2, <1>3 DEF Updating

LEMMA NoPushAlone ==
    ASSUME IInv, OneThread PROVE NoPush
  BY DEF IInv, Turns, NoPush

\* A step of a pass, of a scenario, or a request.
LEMMA GatherKeeps ==
    ASSUME IInv, NEW e, Gather(e), pc = "ready", phase # "fit",
           phase' = phase, mode' = mode, pc' \in {"push", "train", "select"}
    PROVE  IInv'
  <1>1. OneThread => trainer.pc = "idle"
    BY DEF IInv, Turns
  <1>2. UNCHANGED bufferVars \/ Push
    BY DEF Gather, PushExperience
  <1>3. /\ BufferInv' /\ trainer' = trainer
        /\ trainer.pc = "idle" /\ Solo => Solo'
    <2>1. CASE UNCHANGED bufferVars
      BY <2>1, NothingKeeps DEF IInv
    <2>2. CASE Push
      BY <2>2, PushKeeps DEF IInv, Push
    <2> QED BY <1>2, <2>1, <2>2
  <1>4. OneThread' <=> OneThread
    BY DEF OneThread
  <1>5. Turns'
    BY <1>1, <1>3, <1>4 DEF Turns
  <1> QED BY <1>1, <1>3, <1>4, <1>5 DEF IInv

\* A step of the engine that leaves the buffer alone.
LEMMA AgentKeeps ==
    ASSUME IInv, UNCHANGED bufferVars, mode' = mode,
           phase = "serve" => phase' = "serve",
           Updating("engine") => pc' \in {"push", "train", "select"},
           phase' = "fit" => pc' = "ready",
           OneThread /\ trainer.pc # "idle" =>
               phase' = "fit" \/ (phase' = "simulate" /\ pc' = "train")
    PROVE  IInv'
  <1>1. /\ BufferInv' /\ (Solo => Solo') /\ trainer' = trainer
        /\ Updating("engine")' <=> Updating("engine")
    BY NothingKeeps DEF IInv
  <1>2. OneThread' => OneThread
    BY DEF OneThread
  <1>3. Turns'
    BY <1>1, <1>2 DEF IInv, Turns
  <1> QED BY <1>1, <1>2, <1>3 DEF IInv

LEMMA EngineKeeps ==
    ASSUME IInv, Request \/ EngineWork PROVE IInv'
  <1>1. CASE Request
    <2>1. PICK e : Gather(e)
      BY <1>1 DEF Request
    <2> QED BY <1>1, <2>1, GatherKeeps DEF Request
  <1>2. ASSUME NEW a \in Modcods, PretrainStep(a) PROVE IInv'
    <2>1. PICK e : Gather(e)
      BY <1>2 DEF PretrainStep
    <2> QED BY <1>2, <2>1, GatherKeeps DEF PretrainStep
  <1>3. ASSUME NEW a \in Modcods, SimulateStep(a) PROVE IInv'
    <2>1. PICK e : Gather(e)
      BY <1>3 DEF SimulateStep
    <2>2. pc' \in {"push", "train", "select"}
      BY <1>3 DEF SimulateStep
    <2> QED BY <1>3, <2>1, <2>2, GatherKeeps DEF SimulateStep
  <1>4. ASSUME NEW a \in Modcods, Select(a) PROVE IInv'
    BY <1>4, AgentKeeps DEF Select, IInv, Turns
  <1>5. CASE Propagate("engine") /\ UNCHANGED agentVars
    <2>1. /\ BufferInv' /\ (NoPush /\ Solo => Solo') /\ "engine" \in Threads
      BY <1>5, PropagateKeeps DEF IInv, Threads
    <2>2. Updating("engine") /\ trainer' = trainer /\ pc' = pc /\ phase' = phase /\ mode' = mode
      BY <1>5 DEF Propagate, Load, Store, Updating, agentVars
    <2>3. OneThread' <=> OneThread
      BY <2>2 DEF OneThread
    <2>4. Turns'
      BY <2>2, <2>3 DEF IInv, Turns
    <2> QED BY <2>1, <2>3, <2>4, NoPushAlone DEF IInv
  <1>6. CASE PushEnd /\ UNCHANGED agentVars
    <2>1. /\ BufferInv' /\ (NoPush /\ Solo => Solo')
      BY <1>6, PushEndKeeps DEF IInv
    <2>2. /\ ~Updating("engine")' /\ trainer' = trainer /\ pc' = pc /\ phase' = phase /\ mode' = mode
      BY <1>6, SetLeafKeeps DEF PushEnd, agentVars, Threads, IInv, BufferInv
    <2>3. OneThread' <=> OneThread
      BY <2>2 DEF OneThread
    <2>4. Turns'
      BY <2>2, <2>3 DEF IInv, Turns
    <2> QED BY <2>1, <2>3, <2>4, NoPushAlone DEF IInv
  <1>7. CASE Pushed
    BY <1>7, AgentKeeps DEF Pushed, IInv, Turns
  <1>8. CASE NextPass
    <2>1. /\ UNCHANGED bufferVars /\ mode' = mode /\ pc' = "ready" /\ pc = "ready"
          /\ phase \in {"pretrain", "simulate"}
      BY <1>8 DEF NextPass
    <2>2. ~Updating("engine")
      BY <2>1 DEF IInv, Turns
    <2>3. OneThread => trainer.pc = "idle"
      BY <2>1 DEF IInv, Turns
    <2> QED BY <2>1, <2>2, <2>3, AgentKeeps
  <1>9. CASE Serve
    BY <1>9, AgentKeeps DEF Serve, IInv, Turns
  <1> QED BY <1>1, <1>2, <1>3, <1>4, <1>5, <1>6, <1>7, <1>8, <1>9 DEF EngineWork

-----------------------------------------------------------------------------
\* A step inside a train step: the rest of the program is where it was.
LEMMA InTrainKeeps ==
    ASSUME IInv, BufferInv', NoPush /\ Solo => Solo', trainer.pc # "idle",
           Updating("engine")' <=> Updating("engine"),
           mode' = mode, phase' = phase, pc' = pc
    PROVE  IInv'
  <1>1. OneThread' <=> OneThread
    BY DEF OneThread
  <1>2. Turns'
    BY <1>1 DEF IInv, Turns
  <1> QED BY <1>1, <1>2, NoPushAlone DEF IInv

LEMMA TrainerKeeps ==
    ASSUME IInv, TrainerStep, UNCHANGED agentVars PROVE IInv'
  <1>1. mode' = mode /\ phase' = phase /\ pc' = pc
    BY DEF agentVars
  <1>2. TreeTypes /\ "trainer" \in Threads /\ "engine" \in Threads \ {"trainer"}
    BY DEF IInv, BufferInv, Threads
  <1>3. ASSUME Updating("trainer") PROVE trainer.pc # "idle"
    BY <1>3 DEF IInv, BufferInv, AtTurn
  <1>4. CASE Propagate("trainer")
    <2>1. Updating("trainer")
      BY <1>4 DEF Propagate, Load, Store, Updating
    <2>2. upd'["engine"] = upd["engine"]
      BY <1>2, <1>4 DEF Propagate, Load, Store, TreeTypes
    <2>3. BufferInv' /\ (NoPush /\ Solo => Solo')
      BY <1>2, <1>4, PropagateKeeps DEF IInv
    <2> QED BY <1>1, <1>3, <2>1, <2>2, <2>3, InTrainKeeps DEF Updating
  <1>5. ASSUME NEW s \in Segment(trainer.k), Draw(s) PROVE IInv'
    <2>1. BufferInv' /\ (Solo => Solo')
      BY <1>5, DrawKeeps DEF IInv
    <2> QED BY <1>1, <1>5, <2>1, InTrainKeeps DEF Draw, treeVars, Updating
  <1>6. CASE Descend
    <2>1. BufferInv' /\ (NoPush /\ Solo => Solo')
      BY <1>6, DescendKeeps DEF IInv
    <2> QED BY <1>1, <1>6, <2>1, InTrainKeeps DEF Descend, treeVars, Updating
  <1>7. CASE Get
    <2>1. BufferInv' /\ (Solo => Solo')
      BY <1>7, GetKeeps DEF IInv
    <2>2. trainer.pc # "idle" /\ upd' = upd
      BY <1>7 DEF Get, treeVars
    <2> QED BY <1>1, <2>1, <2>2, InTrainKeeps DEF Updating
  <1>8. CASE Sampled
    <2>1. BufferInv' /\ (Solo => Solo')
      BY <1>8, SampledKeeps DEF IInv
    <2> QED BY <1>1, <1>8, <2>1, InTrainKeeps DEF Sampled, treeVars, Updating
  <1>9. ASSUME NEW p \in Priorities, Reprioritise(p) PROVE IInv'
    <2>1. BufferInv' /\ (NoPush /\ Solo => Solo')
      BY <1>9, ReprioritiseKeeps DEF IInv
    <2>2. upd'["engine"] = upd["engine"] /\ trainer.pc # "idle"
      BY <1>2, <1>9 DEF Reprioritise, UpdateStart, TreeTypes
    <2> QED BY <1>1, <2>1, <2>2, InTrainKeeps DEF Updating
  <1>10. CASE ReprioritiseEnd
    <2>1. BufferInv' /\ (NoPush /\ Solo => Solo')
      BY <1>10, ReprioritiseEndKeeps DEF IInv
    <2>2. upd'["engine"] = upd["engine"] /\ Updating("trainer")
      BY <1>2, <1>10 DEF ReprioritiseEnd, SetLeaf, TreeTypes, Updating
    <2> QED BY <1>1, <1>3, <2>1, <2>2, InTrainKeeps DEF Updating
  <1>11. CASE BatchDone
    <2>1. BufferInv' /\ (Solo => Solo')
      BY <1>11, BatchDoneKeeps DEF IInv
    <2> QED BY <1>1, <1>11, <2>1, InTrainKeeps DEF BatchDone, treeVars, Updating
  <1> QED BY <1>4, <1>5, <1>6, <1>7, <1>8, <1>9, <1>10, <1>11 DEF TrainerStep

\* The beginning of a train step: it is the turn of whoever calls it.
LEMMA CallKeeps ==
    ASSUME IInv, TrainCall, trainer.pc = "idle", BufferInv', Solo => Solo',
           upd' = upd, mode' = mode, phase' = phase, pc' = pc
    PROVE  IInv'
  <1>1. OneThread' <=> OneThread
    BY DEF OneThread
  <1>2. OneThread => ~Updating("engine")
    BY DEF IInv, Turns, TrainCall, OneThread
  <1>3. OneThread => phase = "fit" \/ (phase = "simulate" /\ pc = "train")
    BY DEF TrainCall, OneThread
  <1>4. Turns'
    BY <1>1, <1>2, <1>3 DEF IInv, Turns, Updating
  <1> QED BY <1>1, <1>4 DEF IInv

LEMMA TrainKeeps ==
    ASSUME IInv, TrainStep PROVE IInv'
  <1>1. CASE Untrained
    <2>1. /\ trainer.pc = "idle" /\ trainer' = [trainer EXCEPT !.pc = "return"] /\ upd' = upd
          /\ UNCHANGED <<treeVars, data, write, size, maxPriority, pushes>> /\ TrainCall
          /\ mode' = mode /\ phase' = phase /\ pc' = pc
      BY <1>1 DEF Untrained, agentVars, treeVars
    <2>2. BufferInv' /\ (Solo => Solo')
      BY <2>1, QuietKeeps DEF IInv, Quiet
    <2> QED BY <2>1, <2>2, CallKeeps
  <1>2. CASE Train
    <2>1. BufferInv' /\ (Solo => Solo')
      BY <1>2, TrainStartKeeps DEF IInv, Train
    <2> QED BY <1>2, <2>1, CallKeeps DEF Train, TrainStart, treeVars
  <1>3. CASE TrainerStep /\ UNCHANGED agentVars
    BY <1>3, TrainerKeeps
  <1>4. CASE Count \/ SaveStart \/ SaveEnd
    <2>1. /\ trainer.pc \in Quiet /\ trainer.pc # "idle" /\ upd' = upd
          /\ \E x \in Quiet : trainer' = [trainer EXCEPT !.pc = x]
          /\ UNCHANGED <<treeVars, data, write, size, maxPriority, pushes>>
          /\ mode' = mode /\ phase' = phase /\ pc' = pc
      BY <1>4 DEF Count, SaveStart, SaveEnd, Quiet, treeVars
    <2>2. BufferInv' /\ (Solo => Solo')
      BY <2>1, QuietKeeps DEF IInv
    <2> QED BY <2>1, <2>2, InTrainKeeps DEF Updating
  <1>5. CASE TrainReturn
    <2>1. /\ trainer.pc \in Quiet /\ trainer.pc # "idle" /\ "idle" \in Quiet /\ upd' = upd
          /\ trainer' = [trainer EXCEPT !.pc = "idle"]
          /\ UNCHANGED <<treeVars, data, write, size, maxPriority, pushes>>
          /\ mode' = mode /\ phase' = phase
          /\ pc' = IF phase = "simulate" THEN "ready" ELSE pc
      BY <1>5 DEF TrainReturn, Quiet, treeVars
    <2>2. BufferInv' /\ (Solo => Solo')
      BY <2>1, QuietKeeps DEF IInv
    <2>3. trainer'.pc = "idle"
      BY <2>1 DEF IInv, BufferInv, BufferTypes, Trainers
    <2>4. OneThread' <=> OneThread
      BY <2>1 DEF OneThread
    <2>5. phase = "simulate" => OneThread /\ ~Updating("engine")
      BY <2>1 DEF IInv, Turns, OneThread
    <2>6. Turns'
      BY <2>1, <2>3, <2>5 DEF IInv, Turns, Updating
    <2> QED BY <2>2, <2>4, <2>6 DEF IInv
  <1> QED BY <1>1, <1>2, <1>3, <1>4, <1>5 DEF TrainStep

-----------------------------------------------------------------------------
LEMMA StepKeeps ==
    ASSUME IInv, [Next]_vars PROVE IInv'
  <1>1. CASE Request \/ EngineWork
    BY <1>1, EngineKeeps
  <1>2. CASE TrainStep
    BY <1>2, TrainKeeps
  <1>3. CASE Kill \/ Interrupt
    BY <1>3, RestartKeeps DEF Kill, Interrupt
  <1>4. CASE UNCHANGED vars
    <2>1. UNCHANGED bufferVars /\ mode' = mode /\ phase' = phase /\ pc' = pc
      BY <1>4 DEF vars, agentVars
    <2> QED BY <2>1, AgentKeeps DEF IInv, Turns
  <1> QED BY <1>1, <1>2, <1>3, <1>4 DEF Next

LEMMA Invariance == Spec => []IInv
  <1>1. Init => IInv
    BY Starts
  <1>2. IInv /\ [Next]_vars => IInv'
    BY StepKeeps
  <1> QED BY <1>1, <1>2, PTL DEF Spec

\* The sums of the tree match whenever one thread pushes and trains (_SumTree), for
\* every capacity and however the updates are broken up.
THEOREM SumsAgree == Spec => []SumsMatch
  <1>1. IInv => SumsMatch
    BY DEF IInv, Solo, Sums, SumsMatch
  <1> QED BY <1>1, Invariance, PTL

\* With one thread a positive draw stays within the node it has descended to and ends
\* at a stored transition with a positive priority (_retrieve), so that its weight
\* can be computed (sample).
THEOREM DrawsEndWell == Spec => []DrawsFindEntries
  <1>1. IInv => DrawsFindEntries
    <2> SUFFICES ASSUME IInv, OneThread, trainer.pc = "descend", trainer.cur.s > 0
                 PROVE  /\ trainer.cur.s <= tree[trainer.cur.node]
                        /\ trainer.cur.node \in Leaves =>
                               /\ tree[trainer.cur.node] > 0
                               /\ data[Slot(trainer.cur.node)] # None
      BY DEF DrawsFindEntries
    <2>1. trainer.cur.node \in Nodes /\ trainer.cur.s \in Int
      BY DEF IInv, BufferInv, BufferTypes, Trainers
    <2>2. tree[trainer.cur.node] \in Int
      BY <2>1 DEF IInv, BufferInv, TreeTypes
    <2>3. trainer.cur.s =< tree[trainer.cur.node]
      BY DEF IInv, Solo
    <2>4. tree[trainer.cur.node] > 0
      BY <2>1, <2>2, <2>3
    <2>5. trainer.cur.node \in Leaves => data[Slot(trainer.cur.node)] # None
      BY <2>4 DEF IInv, BufferInv, Stored
    <2> QED BY <2>3, <2>4, <2>5
  <1> QED BY <1>1, Invariance, PTL

\* With one thread the error of a transition becomes the priority of the leaf it was
\* drawn from (update_priorities): nothing has replaced it since.
THEOREM ErrorsAreFiled == Spec => []ErrorsGoHome
  <1>1. IInv => ErrorsGoHome
    BY DEF IInv, BufferInv, AtTurn, Solo, ErrorsGoHome
  <1> QED BY <1>1, Invariance, PTL

-----------------------------------------------------------------------------
\* No multiple of P lies strictly between two consecutive ones.
LEMMA Consecutive ==
    ASSUME NEW P \in Nat \ {0}, NEW a \in Int, NEW b \in Int
    PROVE  ~(P * a < P * b /\ P * b < P * a + P)
  <1>1. P * a + P = P * (a + 1)
    OBVIOUS
  <1>2. CASE b =< a
    <2>1. P * b =< P * a
      BY <1>2
    <2> QED BY <2>1
  <1>3. CASE b >= a + 1
    <2>1. P * b >= P * (a + 1)
      BY <1>3
    <2> QED BY <1>1, <2>1
  <1> QED BY <1>2, <1>3

\* Between two multiples of a period there is none.
LEMMA NoMultipleBetween ==
    ASSUME NEW P \in Nat \ {0}, NEW x \in Nat, NEW y \in Int,
           x % P = 0, x < y, y < x + P
    PROVE  y % P # 0
  <1> DEFINE q == x \div P
             r == y \div P
  <1>1. q \in Int /\ x = P * q + (x % P)
    OBVIOUS
  <1>2. r \in Int /\ y = P * r + (y % P)
    OBVIOUS
  <1> HIDE DEF q, r
  <1>3. SUFFICES ASSUME y % P = 0 PROVE FALSE
    OBVIOUS
  <1>4. P * q < P * r /\ P * r < P * q + P
    BY <1>1, <1>2, <1>3
  <1> QED BY <1>1, <1>2, <1>4, Consecutive

\* A period after a multiple is the next one.
LEMMA NextMultiple ==
    ASSUME NEW P \in Nat \ {0}, NEW x \in Nat, x % P = 0
    PROVE  (x + P) % P = 0
  <1> DEFINE q == x \div P
             r == (x + P) \div P
             m == (x + P) % P
  <1>1. q \in Int /\ x = P * q + (x % P)
    OBVIOUS
  <1>2. r \in Int /\ x + P = P * r + m /\ m \in Int /\ 0 =< m /\ m < P
    OBVIOUS
  <1>3. SUFFICES m = 0
    OBVIOUS
  <1> HIDE DEF q, r, m
  <1>4. x + P = P * (q + 1)
    BY <1>1
  <1>5. CASE m > 0
    <2>1. P * r < P * (q + 1) /\ P * (q + 1) < P * r + P
      BY <1>1, <1>2, <1>4, <1>5
    <2> QED BY <1>1, <1>2, <2>1, Consecutive
  <1> QED BY <1>2, <1>5

\* The train steps a restart would find.
OnDisk == IF file = NoFile THEN 0 ELSE file

\* The checkpoint and what the trainer does with it: none is being written, one is
\* due, one is being written, or one was torn and nothing runs any more.
Checkpointed ==
    /\ trainSteps \in Nat
    /\ file \in Nat \union {NoFile, Torn}
    /\ file # Torn => OnDisk % SaveEvery = 0
    /\ \/ /\ file # Torn /\ trainer.pc \notin {"save", "saving"}
          /\ OnDisk =< trainSteps /\ trainSteps < OnDisk + SaveEvery
       \/ /\ file # Torn /\ trainer.pc = "save"
          /\ trainSteps = OnDisk + SaveEvery
       \/ /\ file = Torn /\ trainer.pc = "saving"
          /\ trainSteps % SaveEvery = 0
       \/ /\ file = Torn /\ phase = "failed" /\ trainer.pc = "idle"

LEMMA Periods == SaveEvery \in Nat \ {0} /\ NoFile \notin Nat /\ Torn \notin Nat /\ Torn # NoFile
  BY LearnerAssumption DEF NoFile, Torn

\* A step that leaves the checkpoint and its count alone, and does not begin one.
LEMMA ElsewhereKeeps ==
    ASSUME Checkpointed, trainSteps' = trainSteps, file' = file,
           phase = "failed" => phase' = "failed",
           trainer'.pc = trainer.pc
             \/ (trainer.pc \notin {"save", "saving"} /\ phase # "failed"
                   /\ trainer'.pc \notin {"save", "saving"})
    PROVE  Checkpointed'
  BY DEF Checkpointed, OnDisk

LEMMA GathererKeepsCheckpoint ==
    ASSUME Checkpointed, Request \/ EngineWork PROVE Checkpointed'
  <1>1. trainSteps' = trainSteps /\ file' = file /\ (phase = "failed" => phase' = "failed")
    BY DEF Request, EngineWork, PretrainStep, SimulateStep, Select, Pushed, NextPass, Serve,
           agentVars
  <1>2. ASSUME NEW e, Gather(e) PROVE trainer' = trainer
    BY <1>2 DEF Gather, PushExperience, Push, bufferVars
  <1>3. trainer' = trainer
    BY <1>2 DEF Request, EngineWork, PretrainStep, SimulateStep, Select, Pushed, NextPass,
                Serve, Propagate, PushEnd, bufferVars
  <1> QED BY <1>1, <1>3, ElsewhereKeeps

\* A step inside train_step, before the count.
LEMMA BatchKeepsCheckpoint ==
    ASSUME IInv, Checkpointed, TrainerStep, UNCHANGED agentVars PROVE Checkpointed'
  <1>1. trainSteps' = trainSteps /\ file' = file /\ phase' = phase
    BY DEF agentVars
  <1>2. trainer \in Trainers /\ IdleTrainer \in Trainers
    BY IdleIsTyped DEF IInv, BufferInv, BufferTypes
  <1>3. CASE Propagate("trainer") \/ \E p \in Priorities : Reprioritise(p)
    <2>1. trainer' = trainer
      BY <1>3 DEF Propagate, Reprioritise
    <2> QED BY <1>1, <2>1, ElsewhereKeeps
  <1>4. CASE ReprioritiseEnd
    <2>1. trainer'.pc = trainer.pc
      BY <1>2, <1>4 DEF ReprioritiseEnd, Trainers
    <2> QED BY <1>1, <2>1, ElsewhereKeeps
  <1>5. CASE (\E s \in Segment(trainer.k) : Draw(s)) \/ Descend \/ Get \/ Sampled \/ BatchDone
    <2>1. trainer.pc \in {"draw", "descend", "priority"}
      BY <1>5 DEF Draw, Descend, Get, Sampled, BatchDone
    <2>2. trainer'.pc \notin {"save", "saving"}
      BY <1>2, <1>5 DEF Draw, Descend, Get, Sampled, BatchDone, Trainers
    <2>3. file # Torn
      BY <2>1 DEF Checkpointed
    <2> QED BY <1>1, <2>1, <2>2, <2>3 DEF Checkpointed, OnDisk
  <1> QED BY <1>3, <1>4, <1>5 DEF TrainerStep

\* A step at the beginning or the end of train_step.
LEMMA TrainKeepsCheckpoint ==
    ASSUME IInv, Checkpointed, TrainStep PROVE Checkpointed'
  <1>1. trainer \in Trainers /\ IdleTrainer \in Trainers
    BY IdleIsTyped DEF IInv, BufferInv, BufferTypes
  <1>2. CASE Untrained \/ Train
    <2>1. trainSteps' = trainSteps /\ file' = file /\ phase' = phase /\ phase # "failed"
      BY <1>2 DEF Untrained, Train, TrainCall, agentVars
    <2>2. trainer.pc = "idle" /\ trainer'.pc \in {"return", "draw"}
      BY <1>1, <1>2 DEF Untrained, Train, TrainStart, Trainers
    <2> QED BY <2>1, <2>2, ElsewhereKeeps
  <1>3. CASE TrainerStep /\ UNCHANGED agentVars
    BY <1>3, BatchKeepsCheckpoint
  <1>4. CASE Count
    <2>1. /\ trainer.pc = "count" /\ trainSteps' = trainSteps + 1 /\ file' = file
          /\ \/ (trainSteps + 1) % SaveEvery # 0 /\ trainer'.pc = "return"
             \/ (trainSteps + 1) % SaveEvery = 0 /\ trainer'.pc = "save"
      BY <1>1, <1>4 DEF Count, Trainers
    <2>2. /\ file # Torn /\ OnDisk \in Nat /\ trainSteps \in Nat /\ OnDisk % SaveEvery = 0
          /\ OnDisk =< trainSteps /\ trainSteps < OnDisk + SaveEvery
      BY <2>1 DEF Checkpointed, OnDisk
    <2>3. OnDisk' = OnDisk
      BY <2>1 DEF OnDisk
    <2>4. CASE trainSteps + 1 < OnDisk + SaveEvery
      <3> DEFINE y == trainSteps + 1
      <3>1. y % SaveEvery # 0
        <4>1. y \in Int /\ OnDisk < y /\ y < OnDisk + SaveEvery
          BY <2>2, <2>4, Periods
        <4> HIDE DEF y
        <4> QED BY <2>2, <4>1, Periods, NoMultipleBetween
      <3> QED BY <2>1, <2>2, <2>3, <2>4, <3>1, Periods DEF Checkpointed
    <2>5. CASE trainSteps + 1 = OnDisk + SaveEvery
      <3>1. (trainSteps + 1) % SaveEvery = 0
        BY <2>2, <2>5, Periods, NextMultiple
      <3> QED BY <2>1, <2>2, <2>3, <2>5, <3>1, Periods DEF Checkpointed
    <2> QED BY <2>2, <2>4, <2>5, Periods
  <1>5. CASE SaveStart
    <2>1. trainer.pc = "save" /\ trainer'.pc = "saving" /\ file' = Torn
          /\ trainSteps' = trainSteps
      BY <1>1, <1>5 DEF SaveStart, Trainers
    <2>2. OnDisk \in Nat /\ OnDisk % SaveEvery = 0 /\ trainSteps = OnDisk + SaveEvery
      BY <2>1 DEF Checkpointed, OnDisk
    <2>3. trainSteps % SaveEvery = 0
      BY <2>2, Periods, NextMultiple
    <2> QED BY <2>1, <2>3 DEF Checkpointed
  <1>6. CASE SaveEnd
    <2>1. trainer.pc = "saving" /\ trainer'.pc = "return" /\ file' = trainSteps
          /\ trainSteps' = trainSteps
      BY <1>1, <1>6 DEF SaveEnd, Trainers
    <2>2. trainSteps \in Nat /\ trainSteps % SaveEvery = 0
      BY <2>1 DEF Checkpointed
    <2>3. OnDisk' = trainSteps
      BY <2>1, <2>2, Periods DEF OnDisk
    <2> QED BY <2>1, <2>2, <2>3, Periods DEF Checkpointed
  <1>7. CASE TrainReturn
    <2>1. /\ trainer.pc = "return" /\ trainer'.pc = "idle" /\ phase' = phase
          /\ trainSteps' = trainSteps /\ file' = file
      BY <1>1, <1>7 DEF TrainReturn, Trainers
    <2>2. file # Torn
      BY <2>1 DEF Checkpointed
    <2> QED BY <2>1, <2>2 DEF Checkpointed, OnDisk
  <1> QED BY <1>2, <1>3, <1>4, <1>5, <1>6, <1>7 DEF TrainStep

\* A crash at any moment: the next start has what is on disk.
LEMMA CrashKeepsCheckpoint ==
    ASSUME Checkpointed, Restart PROVE Checkpointed'
  <1>1. /\ file' = file /\ trainer' = IdleTrainer
        /\ phase' = IF file = Torn THEN "failed" ELSE StartPhase
        /\ trainSteps' = IF file \in Nat THEN file ELSE 0
    BY DEF Restart
  <1>2. trainer'.pc = "idle"
    BY <1>1 DEF IdleTrainer
  <1>3. CASE file = Torn
    BY <1>1, <1>2, <1>3, Periods DEF Checkpointed
  <1>4. CASE file # Torn
    <2>1. OnDisk' = OnDisk /\ OnDisk \in Nat /\ trainSteps' = OnDisk
      BY <1>1, <1>4, Periods DEF Checkpointed, OnDisk
    <2> QED BY <1>1, <1>2, <1>4, <2>1, Periods DEF Checkpointed
  <1> QED BY <1>3, <1>4

\* The checkpoint on disk is less than SaveEvery train steps behind (train_step, line
\* 737), through any number of crashes, unless one comes while it is being written.
THEOREM CrashesCostLittle == Spec => []CheckpointLag
  <1>1. Init => Checkpointed
    <2> SUFFICES ASSUME Init PROVE Checkpointed
      OBVIOUS
    <2>1. trainSteps = 0 /\ file = NoFile /\ trainer.pc = "idle"
      BY DEF Init, BufferInit, IdleTrainer
    <2>2. OnDisk = 0
      BY <2>1 DEF OnDisk
    <2>3. 0 % SaveEvery = 0
      BY Periods
    <2> QED BY <2>1, <2>2, <2>3, Periods DEF Checkpointed
  <1>2. IInv /\ Checkpointed /\ [Next]_vars => Checkpointed'
    <2> SUFFICES ASSUME IInv, Checkpointed, [Next]_vars PROVE Checkpointed'
      OBVIOUS
    <2>1. CASE Request \/ EngineWork
      BY <2>1, GathererKeepsCheckpoint
    <2>2. CASE TrainStep
      BY <2>2, TrainKeepsCheckpoint
    <2>3. CASE Kill \/ Interrupt
      BY <2>3, CrashKeepsCheckpoint DEF Kill, Interrupt
    <2>4. CASE UNCHANGED vars
      <3>1. trainSteps' = trainSteps /\ file' = file /\ phase' = phase /\ trainer' = trainer
        BY <2>4 DEF vars, agentVars, bufferVars
      <3> QED BY <3>1, ElsewhereKeeps
    <2> QED BY <2>1, <2>2, <2>3, <2>4 DEF Next
  <1>3. Checkpointed => CheckpointLag
    <2> SUFFICES ASSUME Checkpointed, file # Torn, trainer.pc # "save"
                 PROVE  trainSteps < SaveEvery + (IF file = NoFile THEN 0 ELSE file)
      BY DEF CheckpointLag
    <2>1. trainSteps < OnDisk + SaveEvery /\ OnDisk \in Nat /\ trainSteps \in Nat
      BY DEF Checkpointed, OnDisk
    <2> QED BY <2>1, Periods DEF OnDisk
  <1> QED BY <1>1, <1>2, <1>3, Invariance, PTL DEF Spec

-----------------------------------------------------------------------------
\* What the n-step buffer holds, and what was pushed of it.
Entries == [from : Nat, to : Nat, pass : Nat, values : Nat,
            changed : BOOLEAN, charged : BOOLEAN]

\* Passes follow one another, and of entries of one pass any two are as far apart as
\* their places: said of any two, this needs no induction over the buffer.
Chained(w) ==
    \A i, j \in 1 .. Len(w) :
        i =< j => /\ w[i].pass =< w[j].pass
                  /\ w[i].pass = w[j].pass => w[j].to = w[i].from + (j - i + 1)

Valued(w) == \A i \in 1 .. Len(w) : w[i].values \in {w[i].from, w[i].to}

\* The last entry of this pass leads to the step taken last, or about to be taken.
Reached ==
    /\ prev # NoStep => prev.at = at
    /\ \A k \in 1 .. Len(nstep) :
          /\ nstep[k].pass =< pass
          /\ k = Len(nstep) /\ nstep[k].pass = pass =>
                prev # NoStep /\ nstep[k].to = (IF pc = "select" THEN at + 1 ELSE at)

Gathered ==
    /\ at \in Nat /\ pass \in Nat
    /\ nstep \in Seq(Entries) /\ Len(nstep) =< NStep
    /\ Chained(nstep) /\ Valued(nstep)
    /\ Reached
    /\ stored \in Seq([from : Nat, to : Nat, passes : SUBSET Nat])
    /\ \A k \in 1 .. Len(stored) :
          Cardinality(stored[k].passes) = 1 => stored[k].to - stored[k].from = NStep

\* The window an entry ends: one longer than the buffer, or as long without its first.
LEMMA WindowShape ==
    ASSUME nstep \in Seq(Entries), Len(nstep) =< NStep, NEW e \in Entries
    PROVE  /\ Window(e) \in Seq(Entries) /\ Len(Window(e)) \in 1 .. NStep
           /\ Window(e)[Len(Window(e))] = e
           /\ \E d \in {0, 1} :
                 /\ Len(Window(e)) = Len(nstep) + 1 - d
                 /\ \A i \in 1 .. Len(Window(e)) - 1 :
                       i + d \in 1 .. Len(nstep) /\ Window(e)[i] = nstep[i + d]
  <1> DEFINE n == Len(nstep)
  <1>1. NStep \in Nat \ {0} /\ n \in Nat
    BY LearnerAssumption
  <1>2. CASE n = NStep
    <2>1. nstep # <<>>
      BY <1>1, <1>2
    <2>2. /\ Tail(nstep) \in Seq(Entries) /\ Len(Tail(nstep)) = n - 1
          /\ \A i \in 1 .. n - 1 : Tail(nstep)[i] = nstep[i + 1]
      BY <2>1
    <2>3. Window(e) = Append(Tail(nstep), e)
      BY <1>2 DEF Window
    <2>4. /\ Window(e) \in Seq(Entries) /\ Len(Window(e)) = n
          /\ Window(e)[n] = e
          /\ \A i \in 1 .. n - 1 : Window(e)[i] = nstep[i + 1]
      BY <1>1, <2>2, <2>3
    <2>5. \A i \in 1 .. n - 1 : i + 1 \in 1 .. n
      BY <1>1
    <2> QED BY <1>1, <1>2, <2>4, <2>5
  <1>3. CASE n # NStep
    <2>1. Window(e) = Append(nstep, e)
      BY <1>3 DEF Window
    <2>2. /\ Window(e) \in Seq(Entries) /\ Len(Window(e)) = n + 1
          /\ Window(e)[n + 1] = e
          /\ \A i \in 1 .. n : Window(e)[i] = nstep[i]
      BY <1>1, <2>1
    <2>3. \A i \in 1 .. n : i + 0 = i
      BY <1>1
    <2> QED BY <1>1, <1>3, <2>2, <2>3
  <1> QED BY <1>2, <1>3

\* The window is chained if the entry starts where the buffer ends.
LEMMA WindowChained ==
    ASSUME nstep \in Seq(Entries), Len(nstep) =< NStep, Chained(nstep), Valued(nstep),
           NEW e \in Entries, e.to = e.from + 1, e.values \in {e.from, e.to},
           \A k \in 1 .. Len(nstep) :
               /\ nstep[k].pass =< e.pass
               /\ k = Len(nstep) /\ nstep[k].pass = e.pass => nstep[k].to = e.from
    PROVE  Chained(Window(e)) /\ Valued(Window(e))
  <1> DEFINE w == Window(e)
             n == Len(nstep)
  <1>1. PICK d \in {0, 1} :
          /\ Len(w) = n + 1 - d
          /\ \A i \in 1 .. Len(w) - 1 : i + d \in 1 .. n /\ w[i] = nstep[i + d]
    BY WindowShape
  <1>2. /\ n \in Nat /\ w[Len(w)] = e /\ Len(w) \in Nat
        /\ \A i \in 1 .. n : nstep[i] \in Entries
    BY WindowShape
  <1> HIDE DEF w
  <1>3. ASSUME NEW i \in 1 .. Len(w), NEW j \in 1 .. Len(w), i =< j
        PROVE  /\ w[i].pass =< w[j].pass
               /\ w[i].pass = w[j].pass => w[j].to = w[i].from + (j - i + 1)
    <2>1. CASE j < Len(w)
      <3>1. i + d \in 1 .. n /\ j + d \in 1 .. n /\ i + d =< j + d
            /\ w[i] = nstep[i + d] /\ w[j] = nstep[j + d]
        BY <1>1, <1>2, <1>3, <2>1
      <3>2. /\ nstep[i + d].pass =< nstep[j + d].pass
            /\ nstep[i + d].pass = nstep[j + d].pass =>
                  nstep[j + d].to = nstep[i + d].from + (j + d - (i + d) + 1)
        BY <3>1 DEF Chained
      <3>3. j + d - (i + d) + 1 = j - i + 1
        BY <1>2, <3>1
      <3> QED BY <3>1, <3>2, <3>3
    <2>2. CASE j = Len(w) /\ i = j
      <3>1. w[i] = e /\ w[j] = e /\ j - i + 1 = 1
        BY <1>2, <2>2
      <3> QED BY <3>1 DEF Entries
    <2>3. CASE j = Len(w) /\ i < j
      <3>1. i + d \in 1 .. n /\ w[i] = nstep[i + d] /\ w[j] = e /\ n = Len(w) - 1 + d
        BY <1>1, <1>2, <2>3
      <3>2. n \in 1 .. n /\ i + d =< n
        BY <1>2, <3>1
      <3>3. /\ nstep[i + d].pass =< nstep[n].pass
            /\ nstep[i + d].pass = nstep[n].pass =>
                  nstep[n].to = nstep[i + d].from + (n - (i + d) + 1)
        BY <3>1, <3>2 DEF Chained
      <3>4. /\ nstep[n].pass =< e.pass
            /\ nstep[n].pass = e.pass => nstep[n].to = e.from
        BY <3>2
      <3>5. nstep[n] \in Entries /\ nstep[i + d] \in Entries
        BY <1>2, <3>1, <3>2
      <3>6. w[i].pass =< e.pass
        BY <3>1, <3>3, <3>4, <3>5 DEF Entries
      <3>7. ASSUME w[i].pass = e.pass PROVE e.to = w[i].from + (j - i + 1)
        <4>1. nstep[i + d].pass = nstep[n].pass /\ nstep[n].pass = e.pass
          <5>1. /\ nstep[i + d].pass \in Nat /\ nstep[n].pass \in Nat /\ e.pass \in Nat
                /\ nstep[i + d].pass = e.pass
            BY <3>1, <3>5, <3>7 DEF Entries
          <5> QED BY <3>3, <3>4, <5>1
        <4>2. e.from = nstep[i + d].from + (n - (i + d) + 1)
          BY <3>3, <3>4, <4>1
        <4>3. n - (i + d) + 1 + 1 = j - i + 1
          BY <1>2, <2>3, <3>1
        <4>4. /\ nstep[i + d].from \in Nat /\ w[i].from = nstep[i + d].from
              /\ e.from \in Nat /\ e.to = e.from + 1
          BY <3>1, <3>5 DEF Entries
        <4>5. n - (i + d) + 1 \in Int
          BY <1>1, <1>2
        <4>6. e.to = nstep[i + d].from + (n - (i + d) + 1) + 1
          BY <4>2, <4>4
        <4>7. e.to = nstep[i + d].from + (n - (i + d) + 1 + 1)
          BY <4>4, <4>5, <4>6
        <4> QED BY <4>3, <4>4, <4>7
      <3> QED BY <3>1, <3>6, <3>7
    <2> QED BY <1>2, <1>3, <2>1, <2>2, <2>3
  <1>4. ASSUME NEW i \in 1 .. Len(w) PROVE w[i].values \in {w[i].from, w[i].to}
    <2>1. CASE i = Len(w)
      BY <1>2, <2>1
    <2>2. CASE i < Len(w)
      BY <1>1, <1>2, <2>2 DEF Valued
    <2> QED BY <1>2, <2>1, <2>2
  <1> QED BY <1>3, <1>4 DEF Chained, Valued, w

\* A whole window within one pass covers NStep steps.
LEMMA ReturnsSpan ==
    ASSUME NEW w \in Seq(Entries), Len(w) = NStep, Chained(w)
    PROVE  /\ Returns(w) \in [from : Nat, to : Nat, passes : SUBSET Nat]
           /\ Cardinality(Returns(w).passes) = 1 =>
                 Returns(w).to - Returns(w).from = NStep
  <1>1. /\ NStep \in Nat /\ NStep >= 1 /\ DOMAIN w = 1 .. NStep
        /\ 1 \in 1 .. NStep /\ NStep \in 1 .. NStep
    BY LearnerAssumption
  <1>2. \A i \in 1 .. NStep : w[i] \in Entries
    BY <1>1
  <1> DEFINE P == {w[i].pass : i \in DOMAIN w}
  <1>3. Returns(w) = [from |-> w[1].from, to |-> w[NStep].to, passes |-> P]
    BY DEF Returns
  <1>4. w[1].from \in Nat /\ w[NStep].to \in Nat /\ P \subseteq Nat
    BY <1>1, <1>2 DEF Entries
  <1>5. w[1].pass \in P /\ w[NStep].pass \in P
    BY <1>1
  <1>6. ASSUME Cardinality(P) = 1 PROVE w[NStep].to - w[1].from = NStep
    <2>1. \A i \in 1 .. NStep : w[i].pass \in Nat /\ w[i].pass =< w[NStep].pass
      BY <1>1, <1>2 DEF Chained, Entries
    <2>2. IsFiniteSet(P)
      <3>1. \A p \in P : p =< w[NStep].pass
        BY <1>1, <2>1
      <3>2. P \in SUBSET Nat /\ w[NStep].pass \in Nat
        BY <1>1, <1>4, <2>1
      <3> HIDE DEF P
      <3> QED BY <3>1, <3>2, FS_BoundedSetOfNaturals
    <2>3. PICK x : P = {x}
      <3> HIDE DEF P
      <3> QED BY <1>6, <2>2, FS_Singleton
    <2>4. w[1].pass = w[NStep].pass
      BY <1>5, <2>3
    <2>5. w[NStep].to = w[1].from + (NStep - 1 + 1)
      BY <1>1, <2>4 DEF Chained
    <2> QED BY <1>1, <1>4, <2>5
  <1> HIDE DEF P
  <1> QED BY <1>3, <1>4, <1>6

\* One step's experience, or none, is gathered.
LEMMA GatherKeepsSteps ==
    ASSUME Gathered, pc = "ready", NEW v, NEW a, NEW b, v = prev.at \/ v = at + 1,
           Gather(Experience(v, a, b))
    PROVE  /\ nstep' \in Seq(Entries) /\ Len(nstep') =< NStep
           /\ Chained(nstep') /\ Valued(nstep')
           /\ \A k \in 1 .. Len(nstep') :
                 /\ nstep'[k].pass =< pass
                 /\ k = Len(nstep') /\ nstep'[k].pass = pass =>
                       prev # NoStep /\ nstep'[k].to = at + 1
           /\ stored' \in Seq([from : Nat, to : Nat, passes : SUBSET Nat])
           /\ \A k \in 1 .. Len(stored') :
                 Cardinality(stored'[k].passes) = 1 => stored'[k].to - stored'[k].from = NStep
  <1> DEFINE e == Experience(v, a, b)
             w == Window(e)
  <1>1. CASE prev = NoStep
    <2>1. UNCHANGED <<nstep, stored>>
      BY <1>1 DEF Gather
    <2>2. \A k \in 1 .. Len(nstep) :
             nstep[k].pass =< pass /\ ~(k = Len(nstep) /\ nstep[k].pass = pass)
      BY <1>1 DEF Gathered, Reached
    <2> QED BY <2>1, <2>2 DEF Gathered
  <1>2. CASE prev # NoStep
    <2>1. at \in Nat /\ pass \in Nat /\ prev.at = at /\ v \in {at, at + 1}
      BY <1>2 DEF Gathered, Reached
    <2>2. /\ e \in Entries /\ e.to = e.from + 1 /\ e.from = at /\ e.to = at + 1
          /\ e.pass = pass /\ e.values \in {e.from, e.to}
      BY <2>1 DEF Experience, Entries
    <2>3. nstep' = w /\ (stored' = stored \/ (Len(w) >= NStep /\ stored' = Append(stored, Returns(w))))
      BY <1>2 DEF Gather, PushExperience
    <2> HIDE DEF e
    <2>4. \A k \in 1 .. Len(nstep) :
             /\ nstep[k].pass =< e.pass
             /\ k = Len(nstep) /\ nstep[k].pass = e.pass => nstep[k].to = e.from
      BY <2>2 DEF Gathered, Reached
    <2>5. w \in Seq(Entries) /\ Len(w) \in 1 .. NStep /\ w[Len(w)] = e
      BY <2>2, WindowShape DEF Gathered
    <2>6. Chained(w) /\ Valued(w)
      BY <2>2, <2>4, WindowChained DEF Gathered
    <2> HIDE DEF w
    <2>7. NStep \in Nat
      BY LearnerAssumption
    <2>8. ASSUME NEW k \in 1 .. Len(w)
          PROVE  w[k].pass =< pass /\ (k = Len(w) => w[k].to = at + 1)
      <3>1. Len(w) \in 1 .. Len(w) /\ k =< Len(w)
        BY <2>5
      <3>2. w[k].pass =< w[Len(w)].pass
        BY <2>6, <3>1 DEF Chained
      <3> QED BY <2>2, <2>5, <3>2
    <2>9. /\ stored' \in Seq([from : Nat, to : Nat, passes : SUBSET Nat])
          /\ \A k \in 1 .. Len(stored') :
                Cardinality(stored'[k].passes) = 1 => stored'[k].to - stored'[k].from = NStep
      <3>1. CASE stored' = stored
        BY <3>1 DEF Gathered
      <3>2. CASE Len(w) >= NStep /\ stored' = Append(stored, Returns(w))
        <4>1. Len(w) = NStep
          BY <2>5, <2>7, <3>2
        <4> DEFINE r == Returns(w)
        <4>2. /\ r \in [from : Nat, to : Nat, passes : SUBSET Nat]
              /\ Cardinality(r.passes) = 1 => r.to - r.from = NStep
          BY <2>5, <2>6, <4>1, ReturnsSpan
        <4>3. stored' = Append(stored, r)
          BY <3>2
        <4> HIDE DEF r
        <4>4. /\ stored' \in Seq([from : Nat, to : Nat, passes : SUBSET Nat])
              /\ Len(stored') = Len(stored) + 1 /\ stored'[Len(stored) + 1] = r
              /\ \A k \in 1 .. Len(stored) : stored'[k] = stored[k]
          BY <4>2, <4>3 DEF Gathered
        <4>5. \A k \in 1 .. Len(stored') : k = Len(stored) + 1 \/ k \in 1 .. Len(stored)
          BY <4>4 DEF Gathered
        <4> QED BY <4>2, <4>4, <4>5 DEF Gathered
      <3> QED BY <2>3, <3>1, <3>2
    <2>10. nstep' \in Seq(Entries) /\ Len(nstep') =< NStep /\ Chained(nstep') /\ Valued(nstep')
      BY <2>3, <2>5, <2>6, <2>7
    <2>11. \A k \in 1 .. Len(nstep') :
              nstep'[k].pass =< pass /\ (k = Len(nstep') => nstep'[k].to = at + 1)
      BY <2>3, <2>8
    <2> QED BY <1>2, <2>9, <2>10, <2>11
  <1> QED BY <1>1, <1>2

\* The action of the step is taken: it is what the next experience starts from.
LEMMA TakeReaches ==
    ASSUME Gathered, pc = "ready", NEW v, NEW a, NEW b, v = prev.at \/ v = at + 1,
           Gather(Experience(v, a, b)), NEW x, Take(x), pass' = pass, pc' # "select"
    PROVE  Gathered'
  <1>1. at \in Nat /\ pass \in Nat /\ at' = at + 1
        /\ prev' = [at |-> at + 1, action |-> x, before |-> held]
    BY DEF Take, Gathered
  <1>2. prev'.at = at' /\ prev' # NoStep
    BY <1>1 DEF NoStep
  <1>3. Reached'
    BY <1>1, <1>2, GatherKeepsSteps DEF Reached
  <1> QED BY <1>1, <1>3, GatherKeepsSteps DEF Gathered

\* A step that leaves the experience alone.
LEMMA AsideKeepsSteps ==
    ASSUME Gathered, UNCHANGED <<nstep, stored>>, at' = at,
           \/ prev' = prev /\ pass' = pass /\ (pc' = "select" <=> pc = "select")
           \/ prev' = NoStep /\ pass' = pass + 1
    PROVE  Gathered'
  <1>1. at \in Nat /\ pass \in Nat
    BY DEF Gathered
  <1>2. Chained(nstep)' /\ Valued(nstep)'
    BY DEF Gathered, Chained, Valued
  <1>3. Reached'
    <2>1. CASE prev' = prev /\ pass' = pass /\ (pc' = "select" <=> pc = "select")
      BY <2>1 DEF Gathered, Reached
    <2>2. CASE prev' = NoStep /\ pass' = pass + 1
      <3>1. \A k \in 1 .. Len(nstep) :
               nstep[k].pass \in Nat /\ nstep[k].pass =< pass
        <4>1. \A k \in 1 .. Len(nstep) : nstep[k] \in Entries /\ nstep[k].pass =< pass
          BY DEF Gathered, Reached
        <4> QED BY <4>1 DEF Entries
      <3>2. \A k \in 1 .. Len(nstep) : nstep[k].pass =< pass + 1 /\ nstep[k].pass # pass + 1
        BY <1>1, <3>1
      <3> QED BY <2>2, <3>2 DEF Reached
    <2> QED BY <2>1, <2>2
  <1>4. at' \in Nat /\ pass' \in Nat
    BY <1>1
  <1>5. /\ nstep' \in Seq(Entries) /\ Len(nstep') =< NStep
        /\ stored' \in Seq([from : Nat, to : Nat, passes : SUBSET Nat])
        /\ \A k \in 1 .. Len(stored') :
              Cardinality(stored'[k].passes) = 1 => stored'[k].to - stored'[k].from = NStep
    BY DEF Gathered
  <1> QED BY <1>2, <1>3, <1>4, <1>5 DEF Gathered

LEMMA GatheringKeeps ==
    ASSUME Gathered, Request \/ EngineWork PROVE Gathered'
  <1>1. ASSUME NEW x \in Modcods, PretrainStep(x) PROVE Gathered'
    BY <1>1, TakeReaches DEF PretrainStep
  <1>2. ASSUME NEW x \in Modcods, SimulateStep(x) PROVE Gathered'
    BY <1>2, TakeReaches DEF SimulateStep
  <1>3. CASE Request
    <2>1. /\ pc = "ready" /\ Gather(Experience(prev.at, prev.action, held))
          /\ UNCHANGED <<at, pass, prev>> /\ pc' = "select"
      BY <1>3 DEF Request
    <2>2. Reached'
      BY <2>1, GatherKeepsSteps DEF Gathered, Reached
    <2> QED BY <2>1, <2>2, GatherKeepsSteps DEF Gathered
  <1>4. ASSUME NEW x \in Modcods, Select(x) PROVE Gathered'
    <2>1. /\ pc = "select" /\ pc' = "ready" /\ UNCHANGED <<pass, nstep, stored>>
          /\ at' = at + 1 /\ prev' = [at |-> at + 1, action |-> x, before |-> held]
      BY <1>4 DEF Select, Take
    <2>2. at' \in Nat /\ prev'.at = at' /\ prev' # NoStep
      BY <2>1 DEF NoStep, Gathered
    <2>3. Reached'
      BY <2>1, <2>2 DEF Gathered, Reached
    <2>4. Chained(nstep)' /\ Valued(nstep)'
      BY <2>1 DEF Gathered, Chained, Valued
    <2> QED BY <2>1, <2>2, <2>3, <2>4 DEF Gathered
  <1>5. CASE NextPass
    <2>1. UNCHANGED <<nstep, stored, at>> /\ prev' = NoStep /\ pass' = pass + 1
      BY <1>5 DEF NextPass
    <2> QED BY <2>1, AsideKeepsSteps
  <1>6. CASE Pushed \/ Serve \/ ((Propagate("engine") \/ PushEnd) /\ UNCHANGED agentVars)
    <2>1. /\ UNCHANGED <<nstep, stored, at, prev, pass>>
          /\ pc' = "select" <=> pc = "select"
      BY <1>6 DEF Pushed, Serve, agentVars
    <2> QED BY <2>1, AsideKeepsSteps
  <1> QED BY <1>1, <1>2, <1>3, <1>4, <1>5, <1>6 DEF EngineWork

\* Within one pass a transition covers NStep consecutive steps, and every reward is that
\* of a step it covers or leads to (push_experience), for every n and whatever the
\* passes, the restarts and the training do.
THEOREM StepsAreConsecutive == Spec => []NStepIsConsecutive
  <1>1. Init => Gathered
    <2> SUFFICES ASSUME Init PROVE Gathered
      OBVIOUS
    <2>1. at = 0 /\ pass = 1 /\ nstep = <<>> /\ stored = <<>> /\ prev = NoStep
      BY DEF Init, AgentInit
    <2>2. NStep \in Nat
      BY LearnerAssumption
    <2> QED BY <2>1, <2>2 DEF Gathered, Chained, Valued, Reached
  <1>2. IInv /\ Gathered /\ [Next]_vars => Gathered'
    <2> SUFFICES ASSUME IInv, Gathered, [Next]_vars PROVE Gathered'
      OBVIOUS
    <2>1. CASE Request \/ EngineWork
      BY <2>1, GatheringKeeps
    <2>2. CASE TrainStep
      <3>1. UNCHANGED <<nstep, stored, at, prev, pass>>
        BY <2>2 DEF TrainStep, Untrained, Train, Count, SaveStart, SaveEnd, TrainReturn, agentVars
      <3>2. pc' = pc \/ (pc' = "ready" /\ trainer.pc = "return" /\ phase = "simulate")
        BY <2>2 DEF TrainStep, Untrained, Train, Count, SaveStart, SaveEnd, TrainReturn, agentVars
      <3>3. trainer.pc = "return" /\ phase = "simulate" => pc = "train"
        BY DEF IInv, Turns, OneThread
      <3> QED BY <3>1, <3>2, <3>3, AsideKeepsSteps
    <2>3. CASE Kill \/ Interrupt
      <3>1. at' = 0 /\ pass' = 1 /\ nstep' = <<>> /\ stored' = <<>> /\ prev' = NoStep
        BY <2>3 DEF Kill, Interrupt, Restart
      <3>2. NStep \in Nat
        BY LearnerAssumption
      <3> QED BY <3>1, <3>2 DEF Gathered, Chained, Valued, Reached
    <2>4. CASE UNCHANGED vars
      <3>1. UNCHANGED <<nstep, stored, at, prev, pass, pc>>
        BY <2>4 DEF vars, agentVars
      <3> QED BY <3>1, AsideKeepsSteps
    <2> QED BY <2>1, <2>2, <2>3, <2>4 DEF Next
  <1>3. Gathered => NStepIsConsecutive
    <2> SUFFICES ASSUME Gathered PROVE NStepIsConsecutive
      OBVIOUS
    <2>1. \A k \in 1 .. Len(nstep) : nstep[k] \in Entries
      BY DEF Gathered
    <2>2. \A k \in 1 .. Len(nstep) : nstep[k].to = nstep[k].from + 1
      BY DEF Gathered, Chained
    <2>3. \A k \in 1 .. Len(nstep) : nstep[k].from < nstep[k].to
      BY <2>1, <2>2 DEF Entries
    <2> QED BY <2>3 DEF Gathered, Valued, NStepIsConsecutive
  <1> QED BY <1>1, <1>2, <1>3, Invariance, PTL DEF Spec

-----------------------------------------------------------------------------
(***************************************************************************)
(* Draws in proportion to priority.  The draws 1 .. tree[n] that descend   *)
(* from node n to a leaf below it are as many consecutive numbers as the   *)
(* leaf's priority.                                                        *)
(***************************************************************************)
\* Where f says that a draw from a node ends, according to where it goes next.
Onwards(f, n, s) ==
    IF n \in Leaves THEN n
    ELSE IF s <= tree[Left(n)] THEN f[Left(n)][s]
    ELSE f[Right(n)][s - tree[Left(n)]]

\* leafOf of SampledInProportion.
LeafOf == CHOOSE f : f = [n \in Nodes |-> [s \in Int |-> Onwards(f, n, s)]]

LEMMA ProportionOfLeafOf ==
    ASSUME OneThread, \A t \in Threads : ~Updating(t),
           \A leaf \in Leaves : Cardinality({s \in 1 .. tree[0] : LeafOf[0][s] = leaf}) = tree[leaf]
    PROVE  SampledInProportion
BY DEF SampledInProportion, LeafOf, Onwards

\* From the last node to the first: what holds of a node if it holds of all later ones.
LEMMA FromTheLast ==
    ASSUME NEW S \in SUBSET Nodes,
           \A n \in Nodes : (\A m \in Nodes : m > n => m \in S) => n \in S
    PROVE  S = Nodes
<1> DEFINE N == 2 * Capacity - 2
           R == {ss \in Nat \X Nat : ss[1] < ss[2]}
           T == {k \in Nat : k =< N /\ N - k \notin S}
<1>1. N \in Nat /\ Nodes = 0 .. N
  BY CapacityAssumption DEF Nodes
<1> HIDE DEF N
<1>2. SUFFICES ASSUME T # {} PROVE FALSE
  <2> SUFFICES ASSUME NEW n \in Nodes, n \notin S PROVE T # {}
    OBVIOUS
  <2>1. N - n \in Nat /\ N - n =< N /\ N - (N - n) = n
    BY <1>1
  <2> QED BY <2>1
<1>3. PICK x \in T : \A y \in T : <<y, x>> \notin R
  <2>1. IsWellFoundedOn(R, Nat)
    BY NatLessThanWellFounded DEF OpToRel
  <2>2. T \subseteq Nat
    OBVIOUS
  <2> HIDE DEF R, T
  <2> QED BY <1>2, <2>1, <2>2, WFMin
<1>4. x \in Nat /\ x =< N /\ N - x \notin S /\ N - x \in Nodes
  BY <1>1
<1>5. ASSUME NEW m \in Nodes, m > N - x, m \notin S PROVE FALSE
  <2>1. N - m \in Nat /\ N - m =< N /\ N - (N - m) = m /\ N - m < x
    BY <1>1, <1>4, <1>5
  <2>2. N - m \in T
    BY <1>5, <2>1
  <2>3. <<N - m, x>> \in R
    BY <1>4, <2>1
  <2> QED BY <1>3, <2>2, <2>3
<1> QED BY <1>4, <1>5

\* And from the root on.
LEMMA FromTheRoot ==
    ASSUME NEW S \in SUBSET Nodes,
           \A n \in Nodes : (\A m \in Nodes : m < n => m \in S) => n \in S
    PROVE  S = Nodes
<1> DEFINE R == {ss \in Nat \X Nat : ss[1] < ss[2]}
           T == Nodes \ S
<1>1. T \subseteq Nat
  BY Shape
<1>2. SUFFICES ASSUME T # {} PROVE FALSE
  OBVIOUS
<1>3. PICK x \in T : \A y \in T : <<y, x>> \notin R
  <2>1. IsWellFoundedOn(R, Nat)
    BY NatLessThanWellFounded DEF OpToRel
  <2> HIDE DEF R, T
  <2> QED BY <1>1, <1>2, <2>1, WFMin
<1>4. ASSUME NEW m \in Nodes, m < x, m \notin S PROVE FALSE
  <2>1. m \in T /\ m \in Nat /\ x \in Nat
    BY <1>1, <1>4
  <2> QED BY <1>3, <1>4, <2>1
<1> QED BY <1>4

\* Onwards(f, n, s) only asks f of later nodes.
LEMMA LaterNodes ==
    ASSUME TreeTypes, NEW n \in Nodes, NEW s \in Int, NEW f, NEW g,
           \A m \in Nodes, x \in Int : m > n => f[m][x] = g[m][x]
    PROVE  Onwards(f, n, s) = Onwards(g, n, s)
<1>1. CASE n \in Leaves
  BY <1>1 DEF Onwards
<1>2. CASE n \notin Leaves
  <2>1. n \in Inner
    BY <1>2, Shape
  <2>2. /\ Left(n) \in Nodes /\ Right(n) \in Nodes /\ Left(n) > n /\ Right(n) > n
        /\ tree[Left(n)] \in Int /\ s - tree[Left(n)] \in Int
    <3>1. Left(n) \in Nodes /\ Right(n) \in Nodes /\ Left(n) > n /\ Right(n) > n
      BY <2>1, Children
    <3>2. tree[Left(n)] \in Int
      BY <3>1 DEF TreeTypes
    <3> QED BY <3>1, <3>2
  <2> QED BY <1>2, <2>2 DEF Onwards
<1> QED BY <1>1, <1>2

\* A function can be built node by node, from the last one on.
LEMMA LeafOfExists ==
    ASSUME TreeTypes
    PROVE  \E f \in [Nodes -> [Int -> Nodes]] :
              \A n \in Nodes, s \in Int : f[n][s] = Onwards(f, n, s)
<1> DEFINE F == [Nodes -> [Int -> Nodes]]
           Good(f, n) == \A m \in Nodes, s \in Int : m >= n => f[m][s] = Onwards(f, m, s)
           S == {n \in Nodes : \E f \in F : Good(f, n)}
<1>1. ASSUME NEW n \in Nodes, \A m \in Nodes : m > n => m \in S
      PROVE  n \in S
  <2>1. n \in Nat /\ \A m \in Nodes : m \in Nat
    BY Shape
  <2>2. PICK f \in F : \A m \in Nodes, s \in Int : m > n => f[m][s] = Onwards(f, m, s)
    <3>1. CASE n + 1 \in Nodes
      <4>1. n + 1 > n
        BY <2>1
      <4>2. PICK f \in F : Good(f, n + 1)
        BY <1>1, <3>1, <4>1
      <4>3. \A m \in Nodes : m > n => m >= n + 1
        BY <2>1
      <4> QED BY <4>2, <4>3
    <3>2. CASE n + 1 \notin Nodes
      <4>1. \A m \in Nodes : ~(m > n)
        BY <2>1, <3>2, CapacityAssumption DEF Nodes
      <4>2. [m \in Nodes |-> [s \in Int |-> n]] \in F
        OBVIOUS
      <4> QED BY <4>1, <4>2
    <3> QED BY <3>1, <3>2
  <2> DEFINE g == [m \in Nodes |-> [s \in Int |-> IF m = n THEN Onwards(f, n, s) ELSE f[m][s]]]
  <2>3. \A m \in Nodes, s \in Int : g[m][s] = IF m = n THEN Onwards(f, n, s) ELSE f[m][s]
    OBVIOUS
  <2>4. ASSUME NEW s \in Int PROVE Onwards(f, n, s) \in Nodes
    <3>1. CASE n \in Leaves
      BY <3>1 DEF Onwards
    <3>2. CASE n \notin Leaves
      <4>1. n \in Inner
        BY <3>2, Shape
      <4>2. /\ Left(n) \in Nodes /\ Right(n) \in Nodes /\ s - tree[Left(n)] \in Int
        BY <4>1, Children DEF TreeTypes
      <4> QED BY <3>2, <4>2 DEF Onwards
    <3> QED BY <3>1, <3>2
  <2>5. g \in F
    BY <2>4
  <2> HIDE DEF g
  <2>6. \A m \in Nodes, s \in Int : m > n => f[m][s] = g[m][s]
    <3>1. \A m \in Nodes : m > n => m # n
      BY <2>1
    <3> QED BY <2>3, <3>1
  <2>7. ASSUME NEW m \in Nodes, NEW s \in Int, m >= n PROVE g[m][s] = Onwards(g, m, s)
    <3>1. \A k \in Nodes, x \in Int : k > m => f[k][x] = g[k][x]
      <4>1. \A k \in Nodes : k > m => k > n
        BY <2>1, <2>7
      <4> QED BY <2>6, <4>1
    <3>2. Onwards(f, m, s) = Onwards(g, m, s)
      BY <3>1, LaterNodes
    <3>3. CASE m = n
      BY <2>3, <3>2, <3>3
    <3>4. CASE m # n
      <4>1. m > n
        BY <2>1, <2>7, <3>4
      <4> QED BY <2>2, <2>3, <3>2, <3>4, <4>1
    <3> QED BY <3>3, <3>4
  <2> QED BY <2>5, <2>7
<1>2. S = Nodes
  <2>1. S \in SUBSET Nodes
    OBVIOUS
  <2> HIDE DEF S
  <2> QED BY <1>1, <2>1, FromTheLast
<1>3. 0 \in S
  <2> HIDE DEF S
  <2> QED BY <1>2, Shape
<1>4. \A m \in Nodes : m >= 0
  BY Shape
<1> QED BY <1>3, <1>4

LEMMA LeafOfIs ==
    ASSUME TreeTypes
    PROVE  \A n \in Nodes, s \in Int : LeafOf[n][s] = Onwards(LeafOf, n, s)
<1>1. PICK f \in [Nodes -> [Int -> Nodes]] :
          \A n \in Nodes, s \in Int : f[n][s] = Onwards(f, n, s)
  BY LeafOfExists
<1>2. f = [n \in Nodes |-> [s \in Int |-> Onwards(f, n, s)]]
  BY <1>1
<1>3. LeafOf = [n \in Nodes |-> [s \in Int |-> Onwards(LeafOf, n, s)]]
  BY <1>2 DEF LeafOf
<1> DEFINE g == [n \in Nodes |-> [s \in Int |-> Onwards(LeafOf, n, s)]]
<1>4. \A n \in Nodes, s \in Int : g[n][s] = Onwards(LeafOf, n, s)
  OBVIOUS
<1>5. g = LeafOf
  BY <1>3
<1> HIDE DEF g
<1> QED BY <1>4, <1>5

\* The way from the root to a node: it goes through one child of each node before.
Way(A, m) ==
    /\ 0 \in A /\ m \in A
    /\ \A n \in A : n =< m /\ (n # 0 => Parent(n) \in A)
    /\ \A n \in A : n # m => /\ n \in Inner
                             /\ Left(n) \in A <=> Right(n) \notin A

LEMMA WayExists ==
    ASSUME NEW m \in Nodes
    PROVE  \E A \in SUBSET Nodes : Way(A, m)
<1> DEFINE S == {n \in Nodes : \E A \in SUBSET Nodes : Way(A, n)}
<1>1. ASSUME NEW n \in Nodes, \A k \in Nodes : k < n => k \in S
      PROVE  n \in S
  <2>1. CASE n = 0
    <3>1. Way({0}, 0) /\ {0} \in SUBSET Nodes
      BY Shape DEF Way
    <3> QED BY <2>1, <3>1
  <2>2. CASE n # 0
    <3> DEFINE p == Parent(n)
    <3>1. p \in Inner /\ p \in Nodes /\ p < n /\ (n = Left(p) \/ n = Right(p))
      BY <2>2, ParentIsInner, Shape
    <3>2. PICK A \in SUBSET Nodes : Way(A, p)
      BY <1>1, <3>1
    <3> DEFINE B == A \cup {n}
    <3>3. n \in Nat /\ p \in Nat /\ \A k \in A : k \in Nat
      BY <3>1, Shape
    <3> HIDE DEF p
    <3>4. \A k \in A : k < n /\ k # n
      BY <3>1, <3>2, <3>3 DEF Way
    <3>5. \A k \in B : k =< n /\ (k # 0 => Parent(k) \in B)
      BY <3>1, <3>2, <3>3, <3>4 DEF Way, p
    <3>6. ASSUME NEW k \in B, k # n PROVE k \in Inner /\ (Left(k) \in B <=> Right(k) \notin B)
      <4>1. k \in A
        BY <3>6
      <4>2. CASE k = p
        <5>1. Left(p) > p /\ Right(p) > p /\ Left(p) # Right(p)
          BY <3>1, Children
        <5>2. Left(p) \notin A /\ Right(p) \notin A
          <6>1. \A x \in A : x =< p
            BY <3>2 DEF Way
          <6>2. Left(p) \in Nat /\ Right(p) \in Nat
            BY <3>1, Children, Shape
          <6> QED BY <3>3, <5>1, <6>1, <6>2
        <5> QED BY <3>1, <4>2, <5>1, <5>2
      <4>3. CASE k # p
        <5>1. k \in Inner /\ (Left(k) \in A <=> Right(k) \notin A)
          BY <3>2, <4>1, <4>3 DEF Way
        <5>2. Parent(Left(k)) = k /\ Parent(Right(k)) = k
          BY <5>1, Children
        <5>3. Left(k) # n /\ Right(k) # n
          BY <4>3, <5>2 DEF p
        <5> QED BY <5>1, <5>3
      <4> QED BY <4>2, <4>3
    <3>7. 0 \in B /\ n \in B /\ B \in SUBSET Nodes
      BY <3>2 DEF Way
    <3>8. Way(B, n)
      <4> HIDE DEF B
      <4> QED BY <3>5, <3>6, <3>7 DEF Way
    <3> HIDE DEF B
    <3> QED BY <3>7, <3>8
  <2> QED BY <2>1, <2>2
<1>2. S = Nodes
  <2>1. S \in SUBSET Nodes
    OBVIOUS
  <2> HIDE DEF S
  <2> QED BY <1>1, <2>1, FromTheRoot
<1>3. m \in S
  <2> HIDE DEF S
  <2> QED BY <1>2
<1> QED BY <1>3

\* Of the draws at a node on the way to a leaf, consecutive ones end there, as many as
\* the priority of the leaf; elsewhere none does.
LEMMA DrawsOfLeaf ==
    ASSUME TreeTypes, Sums, \A t \in Threads : ~Updating(t),
           NEW leaf \in Leaves, NEW A \in SUBSET Nodes, Way(A, leaf)
    PROVE  \E a \in Nat : /\ a + tree[leaf] =< tree[0]
                          /\ \A s \in 1 .. tree[0] :
                                LeafOf[0][s] = leaf <=> a < s /\ s =< a + tree[leaf]
<1> DEFINE On(n) == \E a \in Nat :
                /\ a + tree[leaf] =< tree[n]
                /\ \A s \in 1 .. tree[n] : LeafOf[n][s] = leaf <=> a < s /\ s =< a + tree[leaf]
           Off(n) == \A s \in Int : LeafOf[n][s] # leaf
           S == {n \in Nodes : IF n \in A THEN On(n) ELSE Off(n)}
<1>1. \A n \in Nodes, s \in Int : LeafOf[n][s] = Onwards(LeafOf, n, s)
  BY LeafOfIs
<1>2. \A n \in Nodes : tree[n] \in Nat
  BY DEF Sums, TreeTypes
<1>3. leaf \in Nodes /\ tree[leaf] \in Nat
  BY <1>2, Shape
<1>4. ASSUME NEW n \in Nodes, \A m \in Nodes : m > n => m \in S
      PROVE  n \in S
  <2>1. CASE n \in Leaves
    <3>1. \A s \in Int : LeafOf[n][s] = n
      BY <1>1, <2>1 DEF Onwards
    <3>2. n \in A => n = leaf
      BY <2>1, Shape DEF Way
    <3>3. CASE n \in A
      <4>1. 0 \in Nat /\ 0 + tree[leaf] =< tree[n]
        BY <1>3, <3>2, <3>3
      <4>2. \A s \in 1 .. tree[n] : LeafOf[n][s] = leaf <=> 0 < s /\ s =< 0 + tree[leaf]
        BY <1>3, <3>1, <3>2, <3>3
      <4> QED BY <3>3, <4>1, <4>2
    <3>4. CASE n \notin A
      <4>1. n # leaf
        BY <3>4 DEF Way
      <4> QED BY <3>1, <3>4, <4>1
    <3> QED BY <3>3, <3>4
  <2>2. CASE n \notin Leaves
    <3> DEFINE l == Left(n)
               r == Right(n)
    <3>1. n \in Inner /\ n # leaf
      BY <2>2, Shape
    <3>2. /\ l \in Nodes /\ r \in Nodes /\ l > n /\ r > n
          /\ Parent(l) = n /\ Parent(r) = n /\ l # 0 /\ r # 0
      BY <3>1, Children
    <3>3. tree[l] \in Nat /\ tree[r] \in Nat /\ tree[n] = tree[l] + tree[r]
      <4>1. Due("engine", n) = 0 /\ Due("trainer", n) = 0
        BY DEF Due, Threads
      <4> QED BY <1>2, <3>1, <3>2, <4>1 DEF Sums, Summed
    <3>4. /\ \A s \in Int : s =< tree[l] => LeafOf[n][s] = LeafOf[l][s]
          /\ \A s \in Int : s > tree[l] => LeafOf[n][s] = LeafOf[r][s - tree[l]]
      BY <1>1, <2>2, <3>3 DEF Onwards
    <3>5. /\ IF l \in A THEN On(l) ELSE Off(l)
          /\ IF r \in A THEN On(r) ELSE Off(r)
      BY <1>4, <3>2
    <3>6. \A s \in Int : s - tree[l] \in Int
      BY <3>3
    <3> HIDE DEF l, r
    <3>7. CASE n \notin A
      <4>1. l \notin A /\ r \notin A
        BY <3>2, <3>7 DEF Way
      <4>2. Off(l) /\ Off(r)
        BY <3>5, <4>1
      <4>3. Off(n)
        BY <3>3, <3>4, <3>6, <4>2
      <4> QED BY <3>7, <4>3
    <3>8. CASE n \in A /\ l \in A
      <4>1. On(l) /\ Off(r)
        BY <3>1, <3>5, <3>8 DEF Way, l, r
      <4>2. PICK a \in Nat :
                /\ a + tree[leaf] =< tree[l]
                /\ \A s \in 1 .. tree[l] : LeafOf[l][s] = leaf <=> a < s /\ s =< a + tree[leaf]
        BY <4>1
      <4>3. a + tree[leaf] =< tree[n]
        BY <1>3, <3>3, <4>2
      <4>4. ASSUME NEW s \in 1 .. tree[n]
            PROVE  LeafOf[n][s] = leaf <=> a < s /\ s =< a + tree[leaf]
        <5>1. s \in Int /\ 1 =< s
          BY <3>3
        <5>2. CASE s =< tree[l]
          <6>1. s \in 1 .. tree[l]
            BY <3>3, <5>1, <5>2
          <6> QED BY <3>4, <4>2, <5>1, <5>2, <6>1
        <5>3. CASE s > tree[l]
          <6>1. LeafOf[n][s] # leaf
            BY <3>4, <3>6, <4>1, <5>1, <5>3
          <6>2. ~(s =< a + tree[leaf])
            BY <1>3, <3>3, <4>2, <5>1, <5>3
          <6> QED BY <6>1, <6>2
        <5> QED BY <3>3, <5>1, <5>2, <5>3
      <4>5. On(n)
        BY <4>3, <4>4
      <4> QED BY <3>8, <4>5
    <3>9. CASE n \in A /\ l \notin A
      <4>1. Off(l) /\ On(r)
        BY <3>1, <3>5, <3>9 DEF Way, l, r
      <4>2. PICK a \in Nat :
                /\ a + tree[leaf] =< tree[r]
                /\ \A s \in 1 .. tree[r] : LeafOf[r][s] = leaf <=> a < s /\ s =< a + tree[leaf]
        BY <4>1
      <4> DEFINE b == a + tree[l]
      <4>3. b \in Nat /\ b + tree[leaf] =< tree[n]
        BY <1>3, <3>3, <4>2
      <4>4. ASSUME NEW s \in 1 .. tree[n]
            PROVE  LeafOf[n][s] = leaf <=> b < s /\ s =< b + tree[leaf]
        <5>1. s \in Int /\ 1 =< s /\ s =< tree[n]
          BY <3>3
        <5>2. CASE s =< tree[l]
          <6>1. LeafOf[n][s] # leaf
            BY <3>4, <4>1, <5>1, <5>2
          <6>2. ~(b < s)
            BY <3>3, <5>1, <5>2
          <6> QED BY <6>1, <6>2
        <5>3. CASE s > tree[l]
          <6> DEFINE x == s - tree[l]
          <6>1. x \in 1 .. tree[r]
            BY <3>3, <5>1, <5>3
          <6>2. LeafOf[n][s] = LeafOf[r][x]
            BY <3>4, <5>1, <5>3
          <6>3. (a < x <=> b < s) /\ (x =< a + tree[leaf] <=> s =< b + tree[leaf])
            BY <1>3, <3>3, <5>1
          <6> HIDE DEF x, b
          <6> QED BY <4>2, <6>1, <6>2, <6>3
        <5> QED BY <3>3, <5>1, <5>2, <5>3
      <4> HIDE DEF b
      <4>5. On(n)
        BY <4>3, <4>4
      <4> QED BY <3>9, <4>5
    <3> QED BY <3>7, <3>8, <3>9
  <2> QED BY <2>1, <2>2
<1>5. S = Nodes
  <2>1. S \in SUBSET Nodes
    OBVIOUS
  <2> HIDE DEF S
  <2> QED BY <1>4, <2>1, FromTheLast
<1>6. 0 \in S /\ 0 \in A
  <2> HIDE DEF S
  <2> QED BY <1>5, Shape DEF Way
<1> QED BY <1>6

\* Whatever the priorities are and however they have come to be, with one thread and
\* between two updates the draws are shared out in proportion to them.
THEOREM DrawsInProportion == Spec => []SampledInProportion
<1>1. IInv => SampledInProportion
  <2> SUFFICES ASSUME IInv PROVE SampledInProportion
    OBVIOUS
  <2>1. CASE OneThread /\ \A t \in Threads : ~Updating(t)
    <3>1. TreeTypes /\ Sums
      BY <2>1 DEF IInv, BufferInv, Solo
    <3>2. ASSUME NEW leaf \in Leaves
          PROVE  Cardinality({s \in 1 .. tree[0] : LeafOf[0][s] = leaf}) = tree[leaf]
      <4>1. leaf \in Nodes /\ 0 \in Nodes
        BY Shape
      <4>2. PICK A \in SUBSET Nodes : Way(A, leaf)
        BY <4>1, WayExists
      <4>3. PICK a \in Nat : /\ a + tree[leaf] =< tree[0]
                             /\ \A s \in 1 .. tree[0] :
                                   LeafOf[0][s] = leaf <=> a < s /\ s =< a + tree[leaf]
        BY <2>1, <3>1, <4>2, DrawsOfLeaf
      <4>4. tree[leaf] \in Nat /\ tree[0] \in Nat
        BY <3>1, <4>1 DEF TreeTypes, Sums
      <4>5. {s \in 1 .. tree[0] : LeafOf[0][s] = leaf} = a + 1 .. a + tree[leaf]
        BY <4>3, <4>4
      <4>6. Cardinality(a + 1 .. a + tree[leaf]) = tree[leaf]
        <5>1. a + 1 \in Int /\ a + tree[leaf] \in Int
          BY <4>4
        <5>2. \A x, y \in Int : Cardinality(x .. y) = IF x > y THEN 0 ELSE y - x + 1
          BY FS_Interval
        <5>3. PICK x, y \in Int : x = a + 1 /\ y = a + tree[leaf]
          BY <5>1
        <5>4. Cardinality(x .. y) = IF x > y THEN 0 ELSE y - x + 1
          BY <5>2
        <5>5. (IF x > y THEN 0 ELSE y - x + 1) = tree[leaf]
          BY ONLY <4>4, <5>3
        <5> QED BY <5>3, <5>4, <5>5
      <4> QED BY <4>5, <4>6
    <3> QED BY <2>1, <3>2, ProportionOfLeafOf
  <2>2. CASE ~(OneThread /\ \A t \in Threads : ~Updating(t))
    BY <2>2 DEF SampledInProportion
  <2> QED BY <2>1, <2>2
<1> QED BY <1>1, Invariance, PTL

=============================================================================
