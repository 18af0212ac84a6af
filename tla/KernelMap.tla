------------------------------- MODULE KernelMap -------------------------------
(***************************************************************************)
(* The red-black tree of std/map/map.h, which std/set/set.h repeats for    *)
(* keys alone: nodes with colours and pointers, one sentinel for all       *)
(* leaves, and the loops that repair the tree after an insertion or an     *)
(* erasure, one iteration a step.  A node is named by its key: no two have *)
(* the same.  The data of a key stays in its node and is left out.         *)
(***************************************************************************)
EXTENDS Integers, FiniteSets, FiniteSetsExt

CONSTANT Keys

ASSUME KeysAssumption == Keys \subseteq Nat \ {0} /\ IsFiniteSet(Keys)

nil == 0     \* nil_, the sentinel
Null == -1   \* nullptr

Nodes == Keys \cup {nil}
Sides == {"left", "right"}
Opposite(side) == IF side = "left" THEN "right" ELSE "left"

VARIABLES
  tree,       \* root_, and of every node its children, its parent and its colour
  size_,
  moved,      \* root_ and nil_ are null: the tree was moved to another map
  compares,   \* compare_ can be called
  op,         \* the operation under way
  alive,      \* no pointer to nothing was followed, and the stack was deep enough
  contents    \* history: the keys given to Insert, without the nodes given to Erase

vars == <<tree, size_, moved, compares, op, alive, contents>>

EmptyTree == [root |-> nil,
              left |-> [n \in Nodes |-> nil], right |-> [n \in Nodes |-> nil],
              parent |-> [n \in Nodes |-> nil], red |-> [n \in Nodes |-> FALSE]]

\* What is repaired, from which node on, after how many rounds; what Erase returns;
\* the end of a range that is being erased.
Rest == [fix |-> "none", node |-> nil, rounds |-> 0, returned |-> nil, last |-> Null]
AtRest == op = Rest

-----------------------------------------------------------------------------
(* Pointers *)

\* v takes the place of u below u's parent.
Hang(t, u, v) ==
  LET p == t.parent[u]
      side == IF u = t.left[p] THEN "left" ELSE "right"
  IN  IF p = nil THEN [t EXCEPT !.root = v] ELSE [t EXCEPT ![side][p] = v]

\* Mutant of Transplant: v keeps its parent.
TransplantDown(t, u, v) == Hang(t, u, v)

Transplant(t, u, v) == [Hang(t, u, v) EXCEPT !.parent[v] = t.parent[u]]

\* LeftRotate and RightRotate: x goes down to a side, its child y comes up.  First x
\* takes over what y had on that side, then y takes x's place, last x goes below y.
TakeOver(t, x, far, inner) ==
  LET taken == [t EXCEPT ![far][x] = inner]
  IN  IF inner = nil THEN taken ELSE [taken EXCEPT !.parent[inner] = x]
Lower(t, x, side, y, p) == [t EXCEPT ![side][y] = x, !.parent[y] = p, !.parent[x] = y]

Raise(t, x, side, y) ==
  Lower(Hang(TakeOver(t, x, Opposite(side), t[side][y]), x, y), x, side, y, t.parent[x])

Rotate(t, x, side) == Raise(t, x, side, t[Opposite(side)][x])

Outermost(t, side, node) ==
  LET down[n \in Nodes] == IF t[side][n] = nil THEN n ELSE down[t[side][n]]
  IN  down[node]
Minimum(t, node) == Outermost(t, "left", node)
Maximum(t, node) == Outermost(t, "right", node)

\* Successor is the neighbour to the right, Predecessor the one to the left.
Neighbour(t, side, node) ==
  LET up[n \in Nodes] ==
        IF t.parent[n] # nil /\ n = t[side][t.parent[n]] THEN up[t.parent[n]] ELSE t.parent[n]
  IN  IF t[side][node] # nil THEN Outermost(t, Opposite(side), t[side][node]) ELSE up[node]
Successor(t, node) == Neighbour(t, "right", node)
Predecessor(t, node) == Neighbour(t, "left", node)

-----------------------------------------------------------------------------
(* Searching *)

\* The last node on the way to a key, which is the key's own if it is there.
Descend(t, k) ==
  LET below[n \in Nodes] ==
        LET next == IF k < n THEN t.left[n] ELSE t.right[n]
        IN  IF n = k \/ next = nil THEN n ELSE below[next]
  IN  IF t.root = nil THEN nil ELSE below[t.root]

Find(t, k) == IF Descend(t, k) = k THEN k ELSE nil

\* The last node on the way at which the search turns left, which it does at keys above.
Bound(t, above) ==
  LET from[n \in Nodes] ==
        IF n = nil THEN nil
        ELSE IF n \in above
             THEN LET better == from[t.left[n]] IN IF better = nil THEN n ELSE better
             ELSE from[t.right[n]]
  IN  from[t.root]
LowerBound(t, k) == Bound(t, {n \in Keys : n >= k})

\* Mutant of UpperBound: the key itself is taken.
UpperBoundLoose(t, k) == Bound(t, {n \in Keys : n >= k})

UpperBound(t, k) == Bound(t, {n \in Keys : n > k})

-----------------------------------------------------------------------------
(* Insertion *)

Crash == alive' = FALSE /\ UNCHANGED <<tree, size_, moved, compares, op, contents>>

\* Mutant of Link: the sides are mixed up.
LinkSwapped(t, y, z) ==
  LET placed == [t EXCEPT !.left[z] = nil, !.right[z] = nil, !.parent[z] = y, !.red[z] = TRUE]
  IN  IF y = nil THEN [placed EXCEPT !.root = z]
      ELSE [placed EXCEPT ![IF z < y THEN "right" ELSE "left"][y] = z]

Link(t, y, z) ==
  LET placed == [t EXCEPT !.left[z] = nil, !.right[z] = nil, !.parent[z] = y, !.red[z] = TRUE]
  IN  IF y = nil THEN [placed EXCEPT !.root = z]
      ELSE [placed EXCEPT ![IF z < y THEN "left" ELSE "right"][y] = z]

\* Insert and operator[]: the key is not there yet.
InsertNew(k) ==
  /\ Find(tree, k) = nil
  /\ tree' = Link(tree, Descend(tree, k), k)
  /\ op' = [Rest EXCEPT !.fix = "insert", !.node = k]
  /\ contents' = contents \cup {k}
  /\ UNCHANGED <<size_, moved, compares, alive>>

\* Mutant of InsertPresent: a key that is there is counted again.
InsertPresentCounted(k) ==
  /\ Find(tree, k) = k
  /\ size_' = size_ + 1
  /\ UNCHANGED <<tree, moved, compares, op, alive, contents>>

InsertPresent(k) == Find(tree, k) = k /\ UNCHANGED vars

Insert(k) ==
  /\ alive /\ AtRest
  /\ IF moved \/ (~compares /\ tree.root # nil) THEN Crash
     ELSE InsertNew(k) \/ InsertPresent(k)

\* Mutant of InsertFixup: the node that comes up stays red.
InsertFixupRed(t, z) ==
  LET p == t.parent[z]
      g == t.parent[p]
      side == IF p = t.left[g] THEN "left" ELSE "right"
      far == Opposite(side)
      y == t[far][g]
      inner == z = t[far][p]
      straight == IF inner THEN Rotate(t, p, side) ELSE t
      child == IF inner THEN p ELSE z
      top == straight.parent[child]
      over == straight.parent[top]
  IN  IF t.red[y]
      THEN [tree |-> [t EXCEPT !.red[p] = FALSE, !.red[y] = FALSE, !.red[g] = TRUE], node |-> g]
      ELSE [tree |-> Rotate([straight EXCEPT !.red[over] = TRUE], over, far),
            node |-> child]

\* One iteration of InsertFixup: [tree, node].
InsertFixup(t, z) ==
  LET p == t.parent[z]
      g == t.parent[p]
      side == IF p = t.left[g] THEN "left" ELSE "right"
      far == Opposite(side)
      y == t[far][g]
      inner == z = t[far][p]
      straight == IF inner THEN Rotate(t, p, side) ELSE t
      child == IF inner THEN p ELSE z
      top == straight.parent[child]
      over == straight.parent[top]
  IN  IF t.red[y]
      THEN [tree |-> [t EXCEPT !.red[p] = FALSE, !.red[y] = FALSE, !.red[g] = TRUE], node |-> g]
      ELSE [tree |-> Rotate([straight EXCEPT !.red[top] = FALSE, !.red[over] = TRUE], over, far),
            node |-> child]

FixInsertion ==
  /\ op.fix = "insert" /\ tree.red[tree.parent[op.node]]
  /\ LET next == InsertFixup(tree, op.node)
     IN  tree' = next.tree /\ op' = [op EXCEPT !.node = next.node, !.rounds = @ + 1]
  /\ UNCHANGED <<size_, moved, compares, alive, contents>>

EndInsertion ==
  /\ op.fix = "insert" /\ ~tree.red[tree.parent[op.node]]
  /\ tree' = [tree EXCEPT !.red[tree.root] = FALSE]
  /\ size_' = size_ + 1
  /\ op' = Rest
  /\ UNCHANGED <<moved, compares, alive, contents>>

-----------------------------------------------------------------------------
(* Erasure *)

\* The tree without z, whose node is freed, and the node that took the place of
\* the one unlinked, with the colour that went.
Unlink(t, z) ==
  LET Freed(u) == [u EXCEPT !.left[z] = nil, !.right[z] = nil, !.parent[z] = nil, !.red[z] = FALSE]
      y == Minimum(t, t.right[z])
      x == t.right[y]
      apart == IF t.parent[y] = z THEN [t EXCEPT !.parent[x] = y]
               ELSE LET up == [Transplant(t, y, x) EXCEPT !.right[y] = t.right[z]]
                    IN  [up EXCEPT !.parent[up.right[y]] = y]
      moved_ == [Transplant(apart, z, y) EXCEPT !.left[y] = t.left[z]]
  IN  IF t.left[z] = nil
      THEN [tree |-> Freed(Transplant(t, z, t.right[z])), node |-> t.right[z], red |-> t.red[z]]
      ELSE IF t.right[z] = nil
      THEN [tree |-> Freed(Transplant(t, z, t.left[z])), node |-> t.left[z], red |-> t.red[z]]
      ELSE [tree |-> Freed([moved_ EXCEPT !.parent[t.left[z]] = y, !.red[y] = t.red[z]]),
            node |-> x, red |-> t.red[y]]

\* Erase of a node that is there, alone or as one of a range.
EraseNode(z, last) ==
  LET cut == Unlink(tree, z)
  IN  /\ tree' = cut.tree
      /\ size_' = size_ - 1
      /\ op' = [fix |-> IF cut.red THEN "none" ELSE "erase", node |-> cut.node,
                rounds |-> 0, returned |-> cut.node, last |-> last]
      /\ contents' = contents \ {z}
      /\ UNCHANGED <<moved, compares, alive>>

Erase(k) ==
  /\ alive /\ AtRest
  /\ IF ~compares /\ tree.root # nil THEN Crash
     ELSE IF Find(tree, k) = nil THEN UNCHANGED vars ELSE EraseNode(k, Null)

\* One iteration of DeleteFixup: [tree, node].
DeleteFixup(t, x) ==
  LET p == t.parent[x]
      side == IF x = t.left[p] THEN "left" ELSE "right"
      far == Opposite(side)
      sibling == t[far][p]
      t1 == IF t.red[sibling]
            THEN Rotate([t EXCEPT !.red[sibling] = FALSE, !.red[p] = TRUE], p, side) ELSE t
      w == t1[far][p]
      near == t1[side][w]
      t2 == IF t1.red[t1[far][w]] THEN t1
            ELSE Rotate([t1 EXCEPT !.red[near] = FALSE, !.red[w] = TRUE], w, far)
      v == t2[far][p]
      t3 == [t2 EXCEPT !.red = [@ EXCEPT ![v] = t2.red[p], ![p] = FALSE, ![t2[far][v]] = FALSE]]
      t4 == Rotate(t3, p, side)
  IN  IF ~t1.red[t1.left[w]] /\ ~t1.red[t1.right[w]]
      THEN [tree |-> [t1 EXCEPT !.red[w] = TRUE], node |-> p]
      ELSE [tree |-> t4, node |-> t4.root]

ToFix == op.node # tree.root /\ ~tree.red[op.node]

FixErasure ==
  /\ op.fix = "erase" /\ ToFix
  /\ LET next == DeleteFixup(tree, op.node)
     IN  tree' = next.tree /\ op' = [op EXCEPT !.node = next.node, !.rounds = @ + 1]
  /\ UNCHANGED <<size_, moved, compares, alive, contents>>

\* Mutant of EndErasure: the last node is not made black.
EndErasureRed ==
  /\ op.fix = "erase" /\ ~ToFix
  /\ op' = [op EXCEPT !.fix = "none"]
  /\ UNCHANGED <<tree, size_, moved, compares, alive, contents>>

EndErasure ==
  /\ op.fix = "erase" /\ ~ToFix
  /\ tree' = [tree EXCEPT !.red[op.node] = FALSE]
  /\ op' = [op EXCEPT !.fix = "none"]
  /\ UNCHANGED <<size_, moved, compares, alive, contents>>

\* A single erasure is done.
EraseReturns ==
  /\ op.fix = "none" /\ op # Rest /\ op.last = Null
  /\ op' = Rest
  /\ UNCHANGED <<tree, size_, moved, compares, alive, contents>>

\* Erase of a range goes on with what Erase returned, which need not be the next
\* node; at the sentinel Erase returns null, which the next round follows.
EraseRange(first, last) ==
  /\ alive /\ AtRest
  /\ first \in contents /\ last \in {n \in contents : n >= first} \cup {nil}
  /\ op' = [Rest EXCEPT !.returned = first, !.last = last]
  /\ UNCHANGED <<tree, size_, moved, compares, alive, contents>>

EraseNext ==
  /\ alive /\ op.fix = "none" /\ op.last # Null
  /\ IF op.returned = op.last
     THEN op' = Rest /\ UNCHANGED <<tree, size_, moved, compares, alive, contents>>
     ELSE IF op.returned = nil THEN Crash ELSE EraseNode(op.returned, op.last)

-----------------------------------------------------------------------------
(* Whole maps *)

Clear ==
  /\ alive /\ AtRest
  /\ tree' = EmptyTree
  /\ size_' = 0 /\ contents' = {}
  /\ UNCHANGED <<moved, compares, op, alive>>

\* A copy looks for its own sentinel in the other tree, in whose leaves it runs in
\* circles until the stack is used up.
CopyTo ==
  /\ alive /\ AtRest
  /\ IF contents = {} THEN UNCHANGED vars ELSE Crash

MoveTo ==
  /\ alive /\ AtRest
  /\ tree' = EmptyTree /\ size_' = 0 /\ contents' = {}
  /\ moved' = TRUE
  /\ UNCHANGED <<compares, op, alive>>

\* Swap with, or move assignment from, a map that has just been constructed.
TakeNew ==
  /\ alive /\ AtRest
  /\ tree' = EmptyTree /\ size_' = 0 /\ contents' = {}
  /\ moved' = FALSE /\ compares' = TRUE
  /\ UNCHANGED <<op, alive>>

\* Begin, which looks for the least node.
Begin ==
  /\ alive /\ AtRest
  /\ IF moved THEN Crash ELSE UNCHANGED vars

\* A set constructed from a range without a comparison has none to call.
Init ==
  /\ tree = EmptyTree /\ size_ = 0 /\ contents = {}
  /\ moved = FALSE /\ compares \in BOOLEAN
  /\ op = Rest /\ alive = TRUE

Repair == FixInsertion \/ EndInsertion \/ FixErasure \/ EndErasure \/ EraseReturns \/ EraseNext

Next ==
  \/ \E k \in Keys : Insert(k) \/ Erase(k)
  \/ \E first, last \in Nodes : EraseRange(first, last)
  \/ Repair
  \/ Clear \/ CopyTo \/ MoveTo \/ TakeNew \/ Begin

Spec == Init /\ [][Next]_vars

-----------------------------------------------------------------------------
(* Properties *)

\* Every variable keeps its type.
TypeOK ==
  /\ tree.root \in Nodes
  /\ tree.left \in [Nodes -> Nodes] /\ tree.right \in [Nodes -> Nodes]
  /\ tree.parent \in [Nodes -> Nodes] /\ tree.red \in [Nodes -> BOOLEAN]
  /\ size_ \in 0 .. Cardinality(Keys)
  /\ moved \in BOOLEAN /\ compares \in BOOLEAN /\ alive \in BOOLEAN
  /\ op.fix \in {"none", "insert", "erase"} /\ op.node \in Nodes
  /\ op.rounds \in Nat /\ op.returned \in Nodes /\ op.last \in Nodes \cup {Null}
  /\ contents \subseteq Keys

\* The nodes below one, itself included.
Below(t, node) ==
  LET under[n \in Nodes] == IF n = nil THEN {} ELSE {n} \cup under[t.left[n]] \cup under[t.right[n]]
  IN  under[node]

\* After any sequence of operations the tree holds exactly the keys that Insert was
\* given, without the nodes that Erase was given, each where the search looks for it.
\* A range erases the nodes its rounds come to, which need not be those of the range.
Ordered ==
  op.fix = "none" =>
    /\ Below(tree, tree.root) = contents
    /\ \A n \in contents : /\ \A m \in Below(tree, tree.left[n]) : m < n
                           /\ \A m \in Below(tree, tree.right[n]) : n < m

\* The black nodes on every way down, or -1 if ways differ.
BlackHeight(t) ==
  LET black[n \in Nodes] ==
        IF n = nil THEN 0
        ELSE LET l == black[t.left[n]]
                 r == black[t.right[n]]
             IN  IF l = r /\ l >= 0 THEN l + IF t.red[n] THEN 0 ELSE 1 ELSE -1
  IN  black[t.root]

\* The tree is balanced: a red node has black children, and every way down passes
\* as many black nodes, so that a search takes logarithmic time.
Balanced ==
  op.fix = "none" =>
    /\ ~tree.red[tree.root]
    /\ \A n \in contents : tree.red[n] => ~tree.red[tree.left[n]] /\ ~tree.red[tree.right[n]]
    /\ BlackHeight(tree) >= 0

\* Pointers up and down agree, the sentinel is a black leaf whatever its parent
\* was set to meanwhile, and the size is the number of nodes.
Linked ==
  op.fix = "none" =>
    /\ tree.root # nil => tree.parent[tree.root] = nil
    /\ \A n \in contents, side \in Sides : tree[side][n] # nil => tree.parent[tree[side][n]] = n
    /\ tree.left[nil] = nil /\ tree.right[nil] = nil /\ ~tree.red[nil]
    /\ size_ = Cardinality(contents)

LeastOf(S) == IF S = {} THEN nil ELSE Min(S)
GreatestOf(S) == IF S = {} THEN nil ELSE Max(S)

\* Iteration in both directions visits the keys in order, and bounds are the least keys.
Traversable ==
  op.fix = "none" =>
    /\ \A n \in contents : /\ Successor(tree, n) = LeastOf({m \in contents : m > n})
                           /\ Predecessor(tree, n) = GreatestOf({m \in contents : m < n})
    /\ Minimum(tree, tree.root) = LeastOf(contents)
    /\ Maximum(tree, tree.root) = GreatestOf(contents)
    /\ \A k \in Keys : /\ LowerBound(tree, k) = LeastOf({m \in contents : m >= k})
                       /\ UpperBound(tree, k) = LeastOf({m \in contents : m > k})
                       /\ Find(tree, k) = IF k \in contents THEN k ELSE nil

\* The greatest power of two that is not greater than n.
Logarithm(n) == Max({e \in 0 .. n : 2 ^ e <= n})

\* A repair ends, after no more rounds than the logarithm of the number of keys: it
\* goes up all the way, and never twice.  (InsertFixup, DeleteFixup)
RepairsShort ==
  op.fix # "none" => op.rounds <= Logarithm(Cardinality(Below(tree, tree.root)) + 1)

=============================================================================
