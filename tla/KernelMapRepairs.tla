------------------------- MODULE KernelMapRepairs -------------------------
(***************************************************************************)
(* What the steps of map.h make of a red-black tree, over any finite set   *)
(* of keys: rotations, the iterations of InsertFixup and DeleteFixup, and  *)
(* the two parts that Unlink consists of.                                  *)
(*                                                                         *)
(* The argument is about pointers as the code sets them.  A tree has a     *)
(* shape u, the set of nodes below each node, and a weight b, the black    *)
(* nodes on the ways down from it.  They are carried from step to step     *)
(* instead of being computed anew: a rotation or a splice changes a few    *)
(* pointers, and u and b at a few nodes.                                   *)
(*                                                                         *)
(* A repair has its own invariant.  While an insertion is repaired at z,   *)
(* only z may be a red child of a red node (Mend); while an erasure is     *)
(* repaired at x, the ways down through x pass one black node less         *)
(* (Short).  An iteration of the code leaves such a tree at the node it    *)
(* goes on with, and where its loop ends, the last colour makes the tree   *)
(* whole (Sound).                                                          *)
(***************************************************************************)
EXTENDS KernelMap, FiniteSetTheorems, TLAPS

-----------------------------------------------------------------------------
(* Trees and their shapes *)

Trees == [root : Nodes, left : [Nodes -> Nodes], right : [Nodes -> Nodes],
          parent : [Nodes -> Nodes], red : [Nodes -> BOOLEAN]]

\* On which side of a node another one belongs.
Before(side, m, n) == IF side = "left" THEN m < n ELSE n < m

\* What a node has on a side, above it, its colour, and the root.
Kid(t, side, n) == t[side][n]
Up(t, n) == t.parent[n]
Red(t, n) == t.red[n]
Top(t) == t.root

\* u has the nodes below each, itself included.
Shape(t, u) ==
  /\ t \in Trees /\ u \in [Nodes -> SUBSET Keys]
  /\ u[nil] = {} /\ \A side \in Sides : Kid(t, side, nil) = nil
  /\ ~Red(t, nil)
  /\ \A n \in Keys : u[n] = {n} \cup u[Kid(t, "left", n)] \cup u[Kid(t, "right", n)]
  /\ \A n \in Keys, side \in Sides, m \in Keys : m \in u[Kid(t, side, n)] => Before(side, m, n)
  /\ \A n \in Keys, side \in Sides : Kid(t, side, n) # nil => Up(t, Kid(t, side, n)) = n
  /\ Top(t) # nil => Up(t, Top(t)) = nil
  /\ \A n \in Keys \ u[Top(t)] : /\ \A side \in Sides : Kid(t, side, n) = nil
                                 /\ Up(t, n) = nil /\ ~Red(t, n)

\* The sentinel is no key.
LEMMA KeyFacts ==
  /\ Nodes = Keys \cup {nil} /\ nil \notin Keys /\ nil \in Nodes
  /\ \A k \in Keys : k \in Int /\ k \in Nodes /\ k # nil
BY KeysAssumption DEF Nodes, nil

\* There are two sides.
LEMMA SideFacts ==
  /\ \A s \in Sides : /\ Opposite(s) \in Sides /\ Opposite(Opposite(s)) = s /\ Opposite(s) # s
                      /\ \A r \in Sides : r = s \/ r = Opposite(s)
  /\ (\A r \in Sides : r = "left" \/ r = "right") /\ "left" \in Sides /\ "right" \in Sides
  /\ Opposite("left") = "right" /\ Opposite("right") = "left"
BY DEF Sides, Opposite

\* Keys are ordered on either side.
LEMMA BeforeFacts ==
  \A s \in Sides, m, n \in Keys :
    /\ Before(Opposite(s), m, n) <=> Before(s, n, m)
    /\ ~(Before(s, m, n) /\ Before(s, n, m)) /\ ~Before(s, n, n)
    /\ m = n \/ Before(s, m, n) \/ Before(s, n, m)
    /\ \A k \in Keys : Before(s, m, n) /\ Before(s, n, k) => Before(s, m, k)
BY KeyFacts, SideFacts DEF Before

\* Fields have their types.
LEMMA TreeFields ==
  ASSUME NEW t \in Trees
  PROVE  /\ \A n \in Nodes : Kid(t, "left", n) = t.left[n] /\ Kid(t, "right", n) = t.right[n]
         /\ \A s \in Sides, n \in Nodes : Kid(t, s, n) \in Nodes
         /\ Top(t) \in Nodes
         /\ \A n \in Nodes : Up(t, n) \in Nodes /\ Red(t, n) \in BOOLEAN
BY DEF Trees, Sides, Kid, Up, Red, Top

\* Below a node are it and what is below its children, two disjoint and smaller sets.
LEMMA ShapeFacts ==
  ASSUME NEW t, NEW u, Shape(t, u)
  PROVE  /\ \A n \in Nodes, s \in Sides : Kid(t, s, n) \in Nodes /\ u[Kid(t, s, n)] \subseteq u[n]
         /\ \A n \in Nodes : /\ u[n] \in SUBSET Keys /\ IsFiniteSet(u[n])
                             /\ Cardinality(u[n]) \in Nat
         /\ \A n \in Keys : n \in u[n]
         /\ \A n \in Keys, s \in Sides :
              /\ n \notin u[Kid(t, s, n)] /\ Kid(t, s, n) # n
              /\ u[Kid(t, s, n)] \cap u[Kid(t, Opposite(s), n)] = {}
              /\ u[n] = {n} \cup u[Kid(t, s, n)] \cup u[Kid(t, Opposite(s), n)]
              /\ Cardinality(u[Kid(t, s, n)]) < Cardinality(u[n])
              /\ Kid(t, s, n) # nil => Kid(t, s, n) \in Keys /\ Kid(t, s, n) # Kid(t, Opposite(s), n)
<1>1. t \in Trees /\ u \in [Nodes -> SUBSET Keys] BY DEF Shape
<1>2. \A n \in Nodes, s \in Sides : Kid(t, s, n) \in Nodes BY <1>1, TreeFields
<1>3. \A n \in Nodes : u[n] \in SUBSET Keys /\ IsFiniteSet(u[n]) /\ Cardinality(u[n]) \in Nat
  BY <1>1, KeysAssumption, FS_Subset, FS_CardinalityType
<1>4. ASSUME NEW n \in Keys, NEW s \in Sides
      PROVE  u[n] = {n} \cup u[Kid(t, s, n)] \cup u[Kid(t, Opposite(s), n)]
  BY <1>1, TreeFields, SideFacts DEF Shape
<1>5. \A n \in Keys : n \in u[n] BY <1>4, SideFacts
<1>6. ASSUME NEW n \in Keys, NEW s \in Sides
      PROVE  /\ n \notin u[Kid(t, s, n)] /\ Kid(t, s, n) # n
             /\ u[Kid(t, s, n)] \cap u[Kid(t, Opposite(s), n)] = {}
  <2>0. n \in Nodes /\ Opposite(s) \in Sides BY KeyFacts, SideFacts
  <2>1. \A m \in u[Kid(t, s, n)] : m \in Keys /\ Before(s, m, n) BY <1>2, <1>3, <2>0 DEF Shape
  <2>2. \A m \in u[Kid(t, Opposite(s), n)] : m \in Keys /\ Before(Opposite(s), m, n)
    BY <1>2, <1>3, <2>0 DEF Shape
  <2>3. n \notin u[Kid(t, s, n)] BY <2>1, BeforeFacts
  <2>4. Kid(t, s, n) # n BY <2>3, <1>5
  <2>5. u[Kid(t, s, n)] \cap u[Kid(t, Opposite(s), n)] = {} BY <2>1, <2>2, BeforeFacts
  <2>6. QED BY <2>3, <2>4, <2>5
<1>7. ASSUME NEW n \in Keys, NEW s \in Sides
      PROVE  Cardinality(u[Kid(t, s, n)]) < Cardinality(u[n])
  <2>1. n \in Nodes /\ Kid(t, s, n) \in Nodes BY <1>2, KeyFacts
  <2>2. u[Kid(t, s, n)] \subseteq u[n] /\ u[Kid(t, s, n)] # u[n] BY <1>4, <1>6
  <2>3. IsFiniteSet(u[n]) /\ IsFiniteSet(u[Kid(t, s, n)]) BY <1>3, <2>1
  <2>4. /\ Cardinality(u[Kid(t, s, n)]) <= Cardinality(u[n])
        /\ Cardinality(u[n]) = Cardinality(u[Kid(t, s, n)]) => u[n] = u[Kid(t, s, n)]
    BY <2>2, <2>3, FS_Subset
  <2>5. QED BY <1>3, <2>1, <2>2, <2>4
<1>8. ASSUME NEW n \in Nodes, NEW s \in Sides PROVE u[Kid(t, s, n)] \subseteq u[n]
  <2>1. CASE n = nil BY <2>1 DEF Shape
  <2>2. CASE n \in Keys BY <2>2, <1>4
  <2>3. QED BY <2>1, <2>2, KeyFacts
<1>9. ASSUME NEW n \in Keys, NEW s \in Sides, Kid(t, s, n) # nil
      PROVE  Kid(t, s, n) \in Keys /\ Kid(t, s, n) # Kid(t, Opposite(s), n)
  <2>1. Kid(t, s, n) \in Keys BY <1>2, <1>9, KeyFacts
  <2>2. Kid(t, s, n) \in u[Kid(t, s, n)] BY <1>5, <2>1
  <2>3. QED BY <1>6, <2>1, <2>2
<1>10. QED BY <1>2, <1>3, <1>4, <1>5, <1>6, <1>7, <1>8, <1>9

-----------------------------------------------------------------------------
(* Induction over the nodes of a tree *)

\* Induction over the numbers, for sets.
LEMMA Ind ==
  ASSUME NEW S \in SUBSET Nat, 0 \in S, \A n \in S : n + 1 \in S
  PROVE  S = Nat
<1>1. SUFFICES ASSUME NEW n \in Nat \ S PROVE FALSE
  OBVIOUS
<1> DEFINE A == S \cap (0 .. n)
           B == A \ {0}
           up == [x \in A |-> x + 1]
<1>2. IsFiniteSet(0 .. n) BY FS_Interval
<1>3. IsFiniteSet(A) BY <1>2, FS_Subset
<1>0. 0 \in A OBVIOUS
<1>5. up \in [A -> B]
  BY <1>1
<1>6. \A x, y \in A : x # y => up[x] # up[y]
  OBVIOUS
<1> HIDE DEF up, A
<1>4a. Cardinality(A) \in Nat BY <1>3, FS_CardinalityType
<1>4. Cardinality(B) = Cardinality(A) - 1 /\ IsFiniteSet(B)
  BY <1>3, <1>0, FS_RemoveElement
<1> HIDE DEF B
<1>8. Cardinality(B) < Cardinality(A) BY <1>4, <1>4a
<1>7. \E x, y \in A : x # y /\ up[x] = up[y] BY <1>3, <1>4, <1>5, <1>8, FS_PigeonHole
<1>9. QED BY <1>6, <1>7

\* A set that has the sentinel, and each node whose children it has, has all nodes.
LEMMA TreeInduction ==
  ASSUME NEW t, NEW u, Shape(t, u), NEW P, nil \in P,
         \A n \in Keys : (\A s \in Sides : Kid(t, s, n) \in P) => n \in P
  PROVE  Nodes \subseteq P
<1> DEFINE S == {k \in Nat : \A n \in Nodes : Cardinality(u[n]) <= k => n \in P}
<1>0. /\ \A n \in Nodes : Cardinality(u[n]) \in Nat
      /\ \A n \in Keys, s \in Sides : Kid(t, s, n) \in Nodes /\ Cardinality(u[Kid(t, s, n)]) < Cardinality(u[n])
  BY ShapeFacts, KeyFacts
<1>1. 0 \in S
  <2>1. SUFFICES ASSUME NEW n \in Keys, Cardinality(u[n]) <= 0 PROVE n \in P
    BY KeyFacts
  <2>2. "left" \in Sides BY SideFacts
  <2>3. QED BY <1>0, <2>1, <2>2, KeyFacts
<1>2. ASSUME NEW k \in S PROVE k + 1 \in S
  <2>1. SUFFICES ASSUME NEW n \in Keys, Cardinality(u[n]) <= k + 1 PROVE n \in P
    BY KeyFacts
  <2>2. \A s \in Sides : Cardinality(u[Kid(t, s, n)]) <= k /\ Kid(t, s, n) \in Nodes BY <1>0, <2>1, KeyFacts
  <2>3. QED BY <2>2
<1>3. S = Nat BY <1>1, <1>2, Ind
<1> HIDE DEF S
<1>4. ASSUME NEW n \in Nodes PROVE n \in P
  <2>1. Cardinality(u[n]) \in S BY <1>0, <1>3
  <2>2. QED BY <1>0, <2>1 DEF S
<1>5. QED BY <1>4

\* Below a node are keys, each with all that is below it, and each but the node itself
\* is a child of its parent, which is below the node too.
LEMMA Upward ==
  ASSUME NEW t, NEW u, Shape(t, u), NEW n \in Nodes, NEW m \in u[n]
  PROVE  /\ m \in Keys /\ u[m] \subseteq u[n]
         /\ m # n => /\ Up(t, m) \in Keys /\ Up(t, m) \in u[n]
                     /\ \E s \in Sides : Kid(t, s, Up(t, m)) = m
<1> DEFINE P == {j \in Nodes : \A k \in u[j] :
                   /\ k \in Keys /\ u[k] \subseteq u[j]
                   /\ k # j => /\ Up(t, k) \in Keys /\ Up(t, k) \in u[j]
                               /\ \E s \in Sides : Kid(t, s, Up(t, k)) = k}
<1>1. nil \in P BY KeyFacts DEF Shape
<1>2. ASSUME NEW j \in Keys, \A s \in Sides : Kid(t, s, j) \in P PROVE j \in P
  <2>1. SUFFICES ASSUME NEW k \in u[j], k # j
        PROVE  /\ k \in Keys /\ u[k] \subseteq u[j] /\ Up(t, k) \in Keys /\ Up(t, k) \in u[j]
               /\ \E s \in Sides : Kid(t, s, Up(t, k)) = k
    <3>1. j \in Nodes BY KeyFacts
    <3>2. QED BY <2>1, <3>1
  <2>2. PICK s \in Sides : k \in u[Kid(t, s, j)] BY <2>1, ShapeFacts, SideFacts
  <2>3. /\ k \in Keys /\ u[k] \subseteq u[Kid(t, s, j)]
        /\ k # Kid(t, s, j) => /\ Up(t, k) \in Keys /\ Up(t, k) \in u[Kid(t, s, j)]
                          /\ \E r \in Sides : Kid(t, r, Up(t, k)) = k
    BY <1>2, <2>2
  <2>4. u[Kid(t, s, j)] \subseteq u[j] /\ j \in u[j] BY ShapeFacts, KeyFacts
  <2>5. CASE k = Kid(t, s, j)
    <3>1. Up(t, k) = j BY <2>3, <2>5, KeyFacts DEF Shape
    <3>2. QED BY <2>3, <2>4, <2>5, <3>1
  <2>6. QED BY <2>3, <2>4, <2>5
<1> HIDE DEF P
<1>3. Nodes \subseteq P BY <1>1, <1>2, TreeInduction
<1>4. QED BY <1>3 DEF P

\* The nodes with a child, and their children, are those of the tree, and each of them
\* but the root is a child of its parent, another of them.
LEMMA InTree ==
  ASSUME NEW t, NEW u, Shape(t, u)
  PROVE  LET S == u[Top(t)]
         IN  /\ Top(t) \in Nodes /\ nil \notin S /\ S \subseteq Keys /\ (Top(t) = nil <=> S = {})
             /\ Top(t) # nil => Top(t) \in S /\ Top(t) \in Keys
             /\ \A n \in S : Up(t, n) = nil <=> n = Top(t)
             /\ \A n \in S : n # Top(t) => /\ Up(t, n) \in S /\ Up(t, n) # n
                                           /\ \E s \in Sides : Kid(t, s, Up(t, n)) = n
             /\ \A n \in Nodes, s \in Sides : Kid(t, s, n) # nil => /\ n \in S /\ Kid(t, s, n) \in S
                                                               /\ Kid(t, s, n) # Top(t)
                                                               /\ Up(t, Kid(t, s, n)) = n
<1> DEFINE S == u[Top(t)]
<1>0. Top(t) \in Nodes BY TreeFields DEF Shape
<1>1. nil \notin S /\ S \subseteq Keys BY <1>0, ShapeFacts, KeyFacts
<1>2. Top(t) # nil => Top(t) \in S /\ Top(t) \in Keys BY <1>0, ShapeFacts, KeyFacts
<1>3. Top(t) = nil <=> S = {} BY <1>2 DEF Shape
<1>4. \A n \in S : n # Top(t) => Up(t, n) \in S /\ Up(t, n) \in Keys
                                 /\ \E s \in Sides : Kid(t, s, Up(t, n)) = n
  BY <1>0, Upward
<1>5. \A n \in S : Up(t, n) = nil <=> n = Top(t) BY <1>1, <1>2, <1>4, KeyFacts DEF Shape
<1>6. \A n \in S : n # Top(t) => Up(t, n) # n BY <1>1, <1>4, ShapeFacts
<1>7. ASSUME NEW n \in Nodes, NEW s \in Sides, Kid(t, s, n) # nil
      PROVE  n \in S /\ Kid(t, s, n) \in S /\ Kid(t, s, n) # Top(t) /\ Up(t, Kid(t, s, n)) = n
  <2>1. n \in Keys BY <1>7, KeyFacts DEF Shape
  <2>2. n \in S
    <3>1. t \in Trees BY DEF Shape
    <3>2. QED BY <1>7, <2>1, <3>1, TreeFields, SideFacts DEF Shape
  <2>3. u[n] \subseteq S BY <1>0, <2>2, Upward
  <2>4. Kid(t, s, n) \in Keys /\ Kid(t, s, n) \in u[n] BY <1>7, <2>1, ShapeFacts, KeyFacts
  <2>5. Up(t, Kid(t, s, n)) = n BY <1>7, <2>1 DEF Shape
  <2>6. QED BY <1>2, <2>1, <2>2, <2>3, <2>4, <2>5, KeyFacts DEF Shape
<1>8. QED BY <1>0, <1>1, <1>2, <1>3, <1>4, <1>5, <1>6, <1>7

-----------------------------------------------------------------------------
(* Single pointers and rotations *)

\* Single assignments.
PutChild(t, side, p, v) == [t EXCEPT ![side][p] = v]
PutParent(t, p, v) == [t EXCEPT !.parent[p] = v]
PutRoot(t, v) == [t EXCEPT !.root = v]
Blacken(t, p) == [t EXCEPT !.red[p] = FALSE]
Redden(t, p) == [t EXCEPT !.red[p] = TRUE]

\* What an assignment of a child sets, and what it leaves.
LEMMA SetChild ==
  ASSUME NEW t \in Trees, NEW side \in Sides, NEW p \in Nodes, NEW v \in Nodes,
         NEW h, h = PutChild(t, side, p, v)
  PROVE  /\ h \in Trees /\ Top(h) = Top(t)
         /\ \A n \in Nodes : Up(h, n) = Up(t, n) /\ Red(h, n) = Red(t, n)
         /\ Kid(h, side, p) = v
         /\ \A s \in Sides, n \in Nodes : s # side \/ n # p => Kid(h, s, n) = Kid(t, s, n)
BY DEF Trees, Sides, PutChild, Kid, Up, Red, Top

\* The same of the assignments of a parent, of the root and of the colours.
LEMMA SetParent ==
  ASSUME NEW t \in Trees, NEW p \in Nodes, NEW v \in Nodes, NEW h, h = PutParent(t, p, v)
  PROVE  /\ h \in Trees /\ Top(h) = Top(t) /\ (\A n \in Nodes : Red(h, n) = Red(t, n))
         /\ Up(h, p) = v /\ \A n \in Nodes : n # p => Up(h, n) = Up(t, n)
         /\ \A s \in Sides, n \in Nodes : Kid(h, s, n) = Kid(t, s, n)
BY DEF Trees, Sides, PutParent, Kid, Up, Red, Top

LEMMA SetRoot ==
  ASSUME NEW t \in Trees, NEW v \in Nodes, NEW h, h = PutRoot(t, v)
  PROVE  /\ h \in Trees /\ Top(h) = v
         /\ \A n \in Nodes : Up(h, n) = Up(t, n) /\ Red(h, n) = Red(t, n)
         /\ \A s \in Sides, n \in Nodes : Kid(h, s, n) = Kid(t, s, n)
BY DEF Trees, Sides, PutRoot, Kid, Up, Red, Top

LEMMA SetBlack ==
  ASSUME NEW t \in Trees, NEW p \in Nodes, NEW h, h = Blacken(t, p)
  PROVE  /\ h \in Trees /\ Top(h) = Top(t)
         /\ \A n \in Nodes : Up(h, n) = Up(t, n)
         /\ ~Red(h, p) /\ \A n \in Nodes : n # p => Red(h, n) = Red(t, n)
         /\ \A s \in Sides, n \in Nodes : Kid(h, s, n) = Kid(t, s, n)
BY DEF Trees, Sides, Blacken, Redden, Kid, Up, Red, Top

LEMMA SetRed ==
  ASSUME NEW t \in Trees, NEW p \in Nodes, NEW h, h = Redden(t, p)
  PROVE  /\ h \in Trees /\ Top(h) = Top(t)
         /\ \A n \in Nodes : Up(h, n) = Up(t, n)
         /\ Red(h, p) /\ \A n \in Nodes : n # p => Red(h, n) = Red(t, n)
         /\ \A s \in Sides, n \in Nodes : Kid(h, s, n) = Kid(t, s, n)
BY DEF Trees, Sides, Blacken, Redden, Kid, Up, Red, Top

\* x is on one side of p only.
OnlyKid(t, x, p) == p # nil => \E s \in Sides : Kid(t, s, p) = x /\ Kid(t, Opposite(s), p) # x

\* Hang gives a place to another node.
\* How h is t with v in the place of x below p.
Hung(t, h, x, v, p) ==
  /\ h \in Trees /\ (\A n \in Nodes : Up(h, n) = Up(t, n)) /\ (\A n \in Nodes : Red(h, n) = Red(t, n))
  /\ p = nil => Top(h) = v
  /\ p # nil => Top(h) = Top(t)
  /\ \A s \in Sides, n \in Nodes :
       /\ n = p /\ p # nil /\ Kid(t, s, n) = x => Kid(h, s, n) = v
       /\ n # p \/ p = nil \/ Kid(t, s, n) # x => Kid(h, s, n) = Kid(t, s, n)

\* Hang does that.
LEMMA HangFields ==
  ASSUME NEW t \in Trees, NEW x \in Nodes, NEW v \in Nodes, NEW p, p = Up(t, x),
         OnlyKid(t, x, p),
         NEW h, h = Hang(t, x, v)
  PROVE  Hung(t, h, x, v, p)
<1>0. p \in Nodes BY TreeFields
<1>1. CASE p = nil
  <2>1. h = PutRoot(t, v) BY <1>1 DEF Hang, PutRoot, Up
  <2>2. QED BY <1>1, <2>1, SetRoot DEF Hung
<1>2. CASE p # nil
  <2> DEFINE side == IF x = t.left[p] THEN "left" ELSE "right"
  <2>1. h = PutChild(t, side, p, v) BY <1>2 DEF Hang, PutChild, Up
  <2>2. side \in Sides /\ \A s \in Sides : Kid(t, s, p) = x <=> s = side
    BY <1>0, <1>2, TreeFields, SideFacts DEF OnlyKid
  <2> HIDE DEF side
  <2>3. /\ h \in Trees /\ Top(h) = Top(t) /\ (\A n \in Nodes : Up(h, n) = Up(t, n)) /\ (\A n \in Nodes : Red(h, n) = Red(t, n))
        /\ Kid(h, side, p) = v
        /\ \A s \in Sides, n \in Nodes : s # side \/ n # p => Kid(h, s, n) = Kid(t, s, n)
    BY <1>0, <2>1, <2>2, SetChild
  <2>4. QED BY <1>2, <2>2, <2>3 DEF Hung
<1>3. QED BY <1>1, <1>2

\* A rotation is a sequence of single assignments.
LEMMA LowerSteps ==
  ASSUME NEW t, NEW x, NEW side, NEW y, NEW p
  PROVE  Lower(t, x, side, y, p) = PutParent(PutParent(PutChild(t, side, y, x), y, p), x, y)
BY ZenonT(60) DEF Lower, PutChild, PutParent

LEMMA TakeOverSteps ==
  ASSUME NEW t, NEW x, NEW far, NEW inner
  PROVE  TakeOver(t, x, far, inner) =
           IF inner = nil THEN PutChild(t, far, x, inner)
           ELSE PutParent(PutChild(t, far, x, inner), inner, x)
BY ZenonT(60) DEF TakeOver, PutChild, PutParent

\* What x taking over the inner child sets, and what it leaves.
LEMMA TakeOverFields ==
  ASSUME NEW t \in Trees, NEW x \in Nodes, NEW far \in Sides, NEW inner \in Nodes,
         NEW h, h = TakeOver(t, x, far, inner)
  PROVE  /\ h \in Trees /\ Top(h) = Top(t) /\ (\A n \in Nodes : Red(h, n) = Red(t, n))
         /\ inner # nil => Up(h, inner) = x
         /\ \A n \in Nodes : n # inner \/ n = nil => Up(h, n) = Up(t, n)
         /\ Kid(h, far, x) = inner
         /\ \A s \in Sides, n \in Nodes : s # far \/ n # x => Kid(h, s, n) = Kid(t, s, n)
<1> DEFINE taken == PutChild(t, far, x, inner)
<1>1. /\ taken \in Trees /\ Top(taken) = Top(t)
      /\ \A n \in Nodes : Up(taken, n) = Up(t, n) /\ Red(taken, n) = Red(t, n)
      /\ Kid(taken, far, x) = inner
      /\ \A s \in Sides, n \in Nodes : s # far \/ n # x => Kid(taken, s, n) = Kid(t, s, n)
  BY SetChild
<1>2. h = IF inner = nil THEN taken ELSE PutParent(taken, inner, x)
  BY TakeOverSteps, Zenon
<1> HIDE DEF taken
<1>3. CASE inner = nil
  <2>1. h = taken BY <1>2, <1>3
  <2>2. QED BY <1>1, <1>3, <2>1
<1>4. CASE inner # nil
  <2>0. h = PutParent(taken, inner, x) BY <1>2, <1>4
  <2>1. /\ h \in Trees /\ Top(h) = Top(taken)
        /\ \A n \in Nodes : Red(h, n) = Red(taken, n)
        /\ Up(h, inner) = x /\ \A n \in Nodes : n # inner => Up(h, n) = Up(taken, n)
        /\ \A s \in Sides, n \in Nodes : Kid(h, s, n) = Kid(taken, s, n)
    BY <1>1, <2>0, SetParent
  <2>2. QED BY <1>1, <1>4, <2>1
<1>5. QED BY <1>3, <1>4

\* What putting x below y sets, and what it leaves.
LEMMA LowerFields ==
  ASSUME NEW t \in Trees, NEW x \in Nodes, NEW side \in Sides, NEW y \in Nodes, NEW p \in Nodes,
         x # y, NEW h, h = Lower(t, x, side, y, p)
  PROVE  /\ h \in Trees /\ Top(h) = Top(t) /\ (\A n \in Nodes : Red(h, n) = Red(t, n))
         /\ Up(h, x) = y /\ Up(h, y) = p
         /\ \A n \in Nodes \ {x, y} : Up(h, n) = Up(t, n)
         /\ Kid(h, side, y) = x
         /\ \A s \in Sides, n \in Nodes : s # side \/ n # y => Kid(h, s, n) = Kid(t, s, n)
<1> DEFINE h1 == PutChild(t, side, y, x)
           h2 == PutParent(h1, y, p)
<1>1. h = PutParent(h2, x, y) BY LowerSteps, Zenon
<1>2. h1 = PutChild(t, side, y, x) OBVIOUS
<1>3. h2 = PutParent(h1, y, p) OBVIOUS
<1> HIDE DEF h1, h2
<1>4. /\ h1 \in Trees /\ Top(h1) = Top(t)
      /\ \A n \in Nodes : Up(h1, n) = Up(t, n) /\ Red(h1, n) = Red(t, n)
      /\ Kid(h1, side, y) = x
      /\ \A s \in Sides, n \in Nodes : s # side \/ n # y => Kid(h1, s, n) = Kid(t, s, n)
  BY <1>2, SetChild
<1>5. /\ h2 \in Trees /\ Top(h2) = Top(h1)
      /\ \A n \in Nodes : Red(h2, n) = Red(h1, n)
      /\ Up(h2, y) = p /\ \A n \in Nodes : n # y => Up(h2, n) = Up(h1, n)
      /\ \A s \in Sides, n \in Nodes : Kid(h2, s, n) = Kid(h1, s, n)
  <2>1. h1 \in Trees BY <1>4
  <2>2. QED BY <1>3, <2>1, SetParent, SMTT(60)
<1>6. /\ h \in Trees /\ Top(h) = Top(h2)
      /\ \A n \in Nodes : Red(h, n) = Red(h2, n)
      /\ Up(h, x) = y /\ \A n \in Nodes : n # x => Up(h, n) = Up(h2, n)
      /\ \A s \in Sides, n \in Nodes : Kid(h, s, n) = Kid(h2, s, n)
  <2>1. h2 \in Trees BY <1>5
  <2>2. QED BY <1>1, <2>1, SetParent, SMTT(60)
<1>7. QED BY <1>4, <1>5, <1>6

\* A rotation is these parts, one after the other.
LEMMA RotateSteps ==
  ASSUME NEW t, NEW x, NEW side
  PROVE  Rotate(t, x, side) =
           Lower(Hang(TakeOver(t, x, Opposite(side), Kid(t, side, Kid(t, Opposite(side), x))),
                      x, Kid(t, Opposite(side), x)), x, side, Kid(t, Opposite(side), x), Up(t, x))
<1>1. Kid(t, Opposite(side), x) = t[Opposite(side)][x] BY Zenon DEF Kid
<1>2. Rotate(t, x, side) = Raise(t, x, side, Kid(t, Opposite(side), x))
  BY <1>1, Zenon DEF Rotate
<1>3. \A y : Raise(t, x, side, y) =
               Lower(Hang(TakeOver(t, x, Opposite(side), Kid(t, side, y)), x, y),
                     x, side, y, Up(t, x))
  BY Zenon DEF Raise, Kid, Up
<1>4. QED BY <1>2, <1>3, Zenon

\* Of a rotation of x to a side: its child that comes up, that child's inner child, and
\* the parent.
Turn(t, x, side, far, y, inner, p) ==
  /\ side \in Sides /\ far = Opposite(side) /\ y = Kid(t, far, x) /\ y # nil
  /\ inner = Kid(t, side, y) /\ p = Up(t, x)

\* Around x and its child y: what lies where.
LEMMA RotatePlaces ==
  ASSUME NEW t, NEW u, Shape(t, u), NEW x \in u[Top(t)], NEW side, NEW far,
         NEW y, NEW inner, NEW p, Turn(t, x, side, far, y, inner, p)
  PROVE  /\ t \in Trees /\ x \in Keys /\ x \in Nodes /\ x # nil /\ side \in Sides /\ y \in Keys /\ y \in Nodes
         /\ far \in Sides /\ far # side /\ (\A s \in Sides : s = side \/ s = far) /\ Opposite(far) = side
         /\ inner \in Nodes /\ p \in Nodes /\ x # y /\ y # inner /\ x # inner
         /\ p # nil => /\ \E s \in Sides : Kid(t, s, p) = x /\ Kid(t, Opposite(s), p) # x
                       /\ p # x /\ p # y
<1>1. t \in Trees BY DEF Shape
<1>2. x \in Keys /\ x \in Nodes /\ x # nil /\ Top(t) \in Nodes BY InTree, KeyFacts
<1>0. /\ side \in Sides /\ far = Opposite(side) /\ y = Kid(t, far, x) /\ y # nil
      /\ inner = Kid(t, side, y) /\ p = Up(t, x)
  BY DEF Turn
<1>3. far \in Sides /\ far # side /\ (\A s \in Sides : s = side \/ s = far) /\ Opposite(far) = side BY <1>0, SideFacts
<1>4. y \in Keys /\ y \in Nodes /\ x # y BY <1>0, <1>2, <1>3, ShapeFacts, KeyFacts
<1>5. inner \in Nodes /\ y # inner BY <1>0, <1>4, ShapeFacts, KeyFacts
<1>6. x # inner
  <2>1. x \notin u[y] BY <1>0, <1>2, <1>3, ShapeFacts
  <2>2. u[inner] \subseteq u[y] BY <1>0, <1>4, ShapeFacts
  <2>3. x \in u[x] BY <1>2, ShapeFacts
  <2>4. QED BY <2>1, <2>2, <2>3
<1>7. p \in Nodes BY <1>0, <1>1, <1>2, TreeFields
<1>8. ASSUME p # nil PROVE /\ \E s \in Sides : Kid(t, s, p) = x /\ Kid(t, Opposite(s), p) # x
                           /\ p # x /\ p # y
  <2>1. x # Top(t) BY <1>0, <1>2, <1>8, InTree
  <2>2. PICK s \in Sides : Kid(t, s, p) = x BY <1>0, <2>1, InTree
  <2>3. p \in Keys BY <1>7, <1>8, KeyFacts
  <2>4. Kid(t, Opposite(s), p) # x BY <1>2, <2>2, <2>3, ShapeFacts
  <2>5. p # x BY <2>2, <2>3, ShapeFacts
  <2>6. p # y
    <3>1. SUFFICES ASSUME p = y PROVE FALSE
      OBVIOUS
    <3>2. x \in u[x] /\ u[x] \subseteq u[y] BY <1>2, <1>4, <2>2, <3>1, ShapeFacts
    <3>3. QED BY <1>0, <1>2, <1>3, <3>2, ShapeFacts
  <2>7. QED BY <2>2, <2>4, <2>5, <2>6
<1>9. QED BY <1>0, <1>1, <1>2, <1>3, <1>4, <1>5, <1>6, <1>7, <1>8

\* How q is t with x and y turned.
Rotated(t, q, x, side, far, y, inner, p) ==
  /\ q \in Trees /\ (\A n \in Nodes : Red(q, n) = Red(t, n))
  /\ Top(t) = x => Top(q) = y
  /\ Top(t) # x => Top(q) = Top(t)
  /\ \A s \in Sides, n \in Nodes \ {x, y} : /\ Kid(t, s, n) = x => Kid(q, s, n) = y
                                            /\ Kid(t, s, n) # x => Kid(q, s, n) = Kid(t, s, n)
  /\ Kid(q, far, x) = inner /\ Kid(q, side, x) = Kid(t, side, x)
  /\ Kid(q, side, y) = x /\ Kid(q, far, y) = Kid(t, far, y)
  /\ Up(q, x) = y /\ Up(q, y) = p
  /\ inner # nil => Up(q, inner) = x
  /\ \A n \in Nodes \ {x, y} : n # inner \/ n = nil => Up(q, n) = Up(t, n)

\* Rotate does that.
LEMMA RotateFields ==
  ASSUME NEW t, NEW u, Shape(t, u), NEW x \in u[Top(t)], NEW side, NEW far,
         NEW y, NEW inner, NEW p, Turn(t, x, side, far, y, inner, p),
         NEW q, q = Rotate(t, x, side)
  PROVE  Rotated(t, q, x, side, far, y, inner, p)
<1> DEFINE bent == TakeOver(t, x, far, inner)
           hung == Hang(bent, x, y)
<1>0. /\ t \in Trees /\ x \in Keys /\ x \in Nodes /\ x # nil /\ side \in Sides /\ y \in Keys /\ y \in Nodes
      /\ far \in Sides /\ far # side /\ (\A s \in Sides : s = side \/ s = far) /\ Opposite(far) = side
      /\ inner \in Nodes /\ p \in Nodes /\ x # y /\ y # inner /\ x # inner
  BY RotatePlaces
<1>1. p # nil => /\ \E s \in Sides : Kid(t, s, p) = x /\ Kid(t, Opposite(s), p) # x
                 /\ p # x /\ p # y
  BY RotatePlaces
<1>2. q = Lower(hung, x, side, y, p) 
  <2>1. /\ far = Opposite(side) /\ y = Kid(t, far, x) /\ inner = Kid(t, side, y) /\ p = Up(t, x)
    BY DEF Turn
  <2>2. QED BY <2>1, RotateSteps, ZenonT(60)
<1>2a. bent = TakeOver(t, x, far, inner) OBVIOUS
<1>2b. hung = Hang(bent, x, y) OBVIOUS
<1>2c. p = Up(t, x) /\ inner = Kid(t, side, y) /\ y = Kid(t, far, x) BY DEF Turn
<1> HIDE DEF bent, hung
<1>3. /\ bent \in Trees /\ Top(bent) = Top(t) /\ (\A n \in Nodes : Red(bent, n) = Red(t, n))
      /\ inner # nil => Up(bent, inner) = x
      /\ \A n \in Nodes : n # inner \/ n = nil => Up(bent, n) = Up(t, n)
      /\ Kid(bent, far, x) = inner
      /\ \A s \in Sides, n \in Nodes : s # far \/ n # x => Kid(bent, s, n) = Kid(t, s, n)
  <2>1. t \in Trees /\ x \in Nodes /\ far \in Sides /\ inner \in Nodes BY <1>0
  <2>2. QED BY <1>2a, <2>1, TakeOverFields, SMTT(120)
<1>4. p = Up(bent, x) BY <1>0, <1>2c, <1>3
<1>5. OnlyKid(bent, x, p) BY <1>0, <1>1, <1>3, SideFacts DEF OnlyKid
<1>5a. bent \in Trees /\ x \in Nodes /\ y \in Nodes BY <1>0, <1>3
<1>6. /\ hung \in Trees /\ (\A n \in Nodes : Up(hung, n) = Up(bent, n)) /\ (\A n \in Nodes : Red(hung, n) = Red(bent, n))
      /\ p = nil => Top(hung) = y
      /\ p # nil => Top(hung) = Top(bent)
      /\ \A s \in Sides, n \in Nodes :
           /\ n = p /\ p # nil /\ Kid(bent, s, n) = x => Kid(hung, s, n) = y
           /\ n # p \/ p = nil \/ Kid(bent, s, n) # x => Kid(hung, s, n) = Kid(bent, s, n)
  <2>1. Hung(bent, hung, x, y, p) BY <1>2b, <1>4, <1>5, <1>5a, HangFields
  <2>2. QED BY <2>1 DEF Hung
<1>7. /\ q \in Trees /\ Top(q) = Top(hung) /\ (\A n \in Nodes : Red(q, n) = Red(hung, n))
      /\ Up(q, x) = y /\ Up(q, y) = p
      /\ \A n \in Nodes \ {x, y} : Up(q, n) = Up(hung, n)
      /\ Kid(q, side, y) = x
      /\ \A s \in Sides, n \in Nodes : s # side \/ n # y => Kid(q, s, n) = Kid(hung, s, n)
  <2>1. /\ hung \in Trees /\ x \in Nodes /\ y \in Nodes /\ x # y
        /\ p \in Nodes /\ side \in Sides
    BY <1>0, <1>6
  <2>2. QED BY <1>2, <2>1, LowerFields, SMTT(120)
<1>10. /\ Top(t) = x => Top(q) = y
       /\ Top(t) # x => Top(q) = Top(t)
  BY <1>0, <1>2c, <1>3, <1>6, <1>7, InTree
<1>11. /\ inner # nil => Up(q, inner) = x
       /\ \A n \in Nodes \ {x, y} : n # inner \/ n = nil => Up(q, n) = Up(t, n)
  BY <1>0, <1>3, <1>6, <1>7
<1>12. ASSUME NEW s \in Sides, NEW n \in Nodes \ {x, y}
       PROVE  /\ Kid(t, s, n) = x => Kid(q, s, n) = y
              /\ Kid(t, s, n) # x => Kid(q, s, n) = Kid(t, s, n)
  <2>1. Kid(q, s, n) = Kid(hung, s, n) /\ Kid(bent, s, n) = Kid(t, s, n) BY <1>3, <1>7
  <2>2. Kid(t, s, n) = x => n = p /\ p # nil BY <1>0, <1>2c, InTree, KeyFacts
  <2>3. QED BY <1>6, <2>1, <2>2
<1>13. Kid(q, far, x) = inner /\ Kid(q, side, x) = Kid(t, side, x)
  <2>1. \A s \in Sides : Kid(q, s, x) = Kid(bent, s, x) BY <1>0, <1>1, <1>6, <1>7
  <2>2. QED BY <1>0, <1>3, <2>1
<1>14. Kid(q, side, y) = x /\ Kid(q, far, y) = Kid(t, far, y)
  BY <1>0, <1>1, <1>3, <1>6, <1>7
<1>15. QED BY <1>3, <1>6, <1>7, <1>10, <1>11, <1>12, <1>13, <1>14 DEF Rotated

-----------------------------------------------------------------------------
(* The shape of a rotated tree *)

\* After a rotation there are sets of nodes below each again, with the same at the root.
LEMMA RotateShape ==
  ASSUME NEW t, NEW u, Shape(t, u), NEW x \in u[Top(t)], NEW side, NEW far,
         NEW y, NEW inner, NEW p, Turn(t, x, side, far, y, inner, p),
         NEW q, Rotated(t, q, x, side, far, y, inner, p)
  PROVE  \E v : Shape(q, v) /\ v[Top(q)] = u[Top(t)]
<1> DEFINE c == Kid(t, side, x)
           outer == Kid(t, far, y)
           v == [n \in Nodes |-> IF n = y THEN u[x]
                                 ELSE IF n = x THEN {x} \cup u[c] \cup u[inner] ELSE u[n]]
<1>0. /\ t \in Trees /\ x \in Keys /\ x \in Nodes /\ x # nil /\ side \in Sides
      /\ y \in Keys /\ y \in Nodes /\ y # nil
      /\ far \in Sides /\ far # side /\ (\A s \in Sides : s = side \/ s = far)
      /\ Opposite(far) = side /\ Opposite(side) = far
      /\ inner \in Nodes /\ p \in Nodes /\ x # y /\ y # inner /\ x # inner
      /\ y = Kid(t, far, x) /\ inner = Kid(t, side, y) /\ p = Up(t, x)
  BY RotatePlaces, KeyFacts DEF Turn
<1>1. /\ c \in Nodes /\ outer \in Nodes /\ c # x /\ c # y /\ outer # x /\ outer # y
      /\ c # inner \/ c = nil
      /\ outer # inner \/ outer = nil
  <2>1. c \in Nodes /\ outer \in Nodes /\ c # x /\ c # y /\ outer # y
    BY <1>0, ShapeFacts, KeyFacts
  <2>2. outer # x
    <3>1. x \notin u[y] BY <1>0, ShapeFacts
    <3>2. u[outer] \subseteq u[y] BY <1>0, ShapeFacts
    <3>3. QED BY <1>0, <3>1, <3>2, ShapeFacts
  <2>3. outer # inner \/ outer = nil BY <1>0, ShapeFacts
  <2>4. c # inner \/ c = nil
    <3>1. u[inner] \subseteq u[y] BY <1>0, ShapeFacts
    <3>2. u[c] \cap u[y] = {} BY <1>0, ShapeFacts
    <3>3. c \in Keys => c \in u[c] BY ShapeFacts
    <3>4. QED BY <2>1, <3>1, <3>2, <3>3, KeyFacts
  <2>5. QED BY <2>1, <2>2, <2>3, <2>4
<1>2. /\ u[c] \subseteq Keys /\ u[inner] \subseteq Keys /\ u[outer] \subseteq Keys
      /\ u[x] = {x} \cup u[c] \cup u[y] /\ u[y] = {y} \cup u[inner] \cup u[outer]
      /\ \A n \in Nodes : u[n] \in SUBSET Keys
      /\ u[x] \in SUBSET Keys
  BY <1>0, <1>1, ShapeFacts
<1>3. v \in [Nodes -> SUBSET Keys]
  <2>1. {x} \cup u[c] \cup u[inner] \in SUBSET Keys BY <1>0, <1>2
  <2>2. QED BY <1>2, <2>1
<1>4. v[y] = u[x] BY <1>0
<1>5. v[x] = {x} \cup u[c] \cup u[inner] BY <1>0
<1>6. \A n \in Nodes : n # x /\ n # y => v[n] = u[n] OBVIOUS
<1> HIDE DEF v
<1>7. v[c] = u[c] /\ v[inner] = u[inner] /\ v[outer] = u[outer] BY <1>0, <1>1, <1>6
<1>8. /\ q \in Trees /\ (\A n \in Nodes : Red(q, n) = Red(t, n))
      /\ Top(t) = x => Top(q) = y
      /\ Top(t) # x => Top(q) = Top(t)
      /\ \A s \in Sides, n \in Nodes \ {x, y} : /\ Kid(t, s, n) = x => Kid(q, s, n) = y
                                                /\ Kid(t, s, n) # x => Kid(q, s, n) = Kid(t, s, n)
      /\ Kid(q, far, x) = inner /\ Kid(q, side, x) = c
      /\ Kid(q, side, y) = x /\ Kid(q, far, y) = outer
      /\ Up(q, x) = y /\ Up(q, y) = p
      /\ inner # nil => Up(q, inner) = x
      /\ \A n \in Nodes \ {x, y} : n # inner \/ n = nil => Up(q, n) = Up(t, n)
  BY DEF Rotated
<1> HIDE DEF c, outer
\* The children of all others lie below them as before.
<1>9. ASSUME NEW n \in Nodes \ {x, y}, NEW s \in Sides
      PROVE  /\ v[Kid(q, s, n)] = u[Kid(t, s, n)]
             /\ Kid(t, s, n) # y
             /\ n = nil => Kid(q, s, n) = nil
  <2>1. Kid(t, s, n) \in Nodes BY ShapeFacts
  <2>2. Kid(t, s, n) # y
    <3>1. SUFFICES ASSUME Kid(t, s, n) = y PROVE FALSE
      OBVIOUS
    <3>2. Up(t, y) = n BY <1>0, <3>1, InTree
    <3>3. Up(t, y) = x BY <1>0, InTree
    <3>4. QED BY <3>2, <3>3
  <2>3. n = nil => Kid(t, s, n) = nil BY DEF Shape
  <2>4. CASE Kid(t, s, n) = x
    <3>1. Kid(q, s, n) = y BY <1>8, <2>4
    <3>2. QED BY <1>0, <1>4, <2>2, <2>3, <2>4, <3>1
  <2>5. CASE Kid(t, s, n) # x
    <3>1. Kid(q, s, n) = Kid(t, s, n) BY <1>8, <2>5
    <3>2. QED BY <1>6, <2>1, <2>2, <2>3, <2>5, <3>1
  <2>6. QED BY <2>4, <2>5
<1>10. v[nil] = {} /\ ~Red(q, nil) BY <1>0, <1>6, <1>8, KeyFacts DEF Shape
<1>11. \A s \in Sides : Kid(q, s, nil) = nil BY <1>0, <1>9, KeyFacts
<1>12. ASSUME NEW n \in Keys
       PROVE  v[n] = {n} \cup v[Kid(q, "left", n)] \cup v[Kid(q, "right", n)]
  <2>0. (side = "left" /\ far = "right") \/ (side = "right" /\ far = "left") BY <1>0, SideFacts
  <2>1. CASE n = x
    <3>1. v[n] = {n} \cup v[Kid(q, side, n)] \cup v[Kid(q, far, n)] BY <1>5, <1>7, <1>8, <2>1
    <3>2. QED BY <2>0, <3>1
  <2>2. CASE n = y
    <3>1. v[n] = {n} \cup v[Kid(q, side, n)] \cup v[Kid(q, far, n)]
      BY <1>2, <1>4, <1>5, <1>7, <1>8, <2>2
    <3>2. QED BY <2>0, <3>1
  <2>3. CASE n # x /\ n # y
    <3>1. u[n] = {n} \cup u[Kid(t, "left", n)] \cup u[Kid(t, "right", n)] BY DEF Shape
    <3>2. n \in Nodes \ {x, y} BY <2>3, KeyFacts
    <3>3. /\ v[Kid(q, "left", n)] = u[Kid(t, "left", n)]
          /\ v[Kid(q, "right", n)] = u[Kid(t, "right", n)]
      BY <1>9, <3>2, SideFacts
    <3>4. v[n] = u[n] BY <1>6, <3>2
    <3>5. QED BY <3>1, <3>3, <3>4
  <2>4. QED BY <2>1, <2>2, <2>3
<1>13. ASSUME NEW n \in Keys, NEW s \in Sides, NEW m \in Keys, m \in v[Kid(q, s, n)]
       PROVE  Before(s, m, n)
  <2>0. \A k \in Keys, r \in Sides, j \in Keys : j \in u[Kid(t, r, k)] => Before(r, j, k)
    BY DEF Shape
  <2>1. CASE n = x /\ s = far
    <3>1. m \in u[y] BY <1>2, <1>7, <1>8, <1>13, <2>1
    <3>2. QED BY <1>0, <2>0, <2>1, <3>1
  <2>2. CASE n = x /\ s = side
    <3>1. m \in u[c] BY <1>7, <1>8, <1>13, <2>2
    <3>2. QED BY <1>0, <2>0, <2>2, <3>1 DEF c
  <2>3. CASE n = y /\ s = side
    <3>1. m \in {x} \cup u[c] \cup u[inner] BY <1>5, <1>8, <1>13, <2>3
    <3>2. Before(side, x, y)
      <4>1. Before(far, y, x) BY <1>0, <1>2, <2>0
      <4>2. QED BY <1>0, <4>1, BeforeFacts
    <3>3. CASE m = x BY <2>3, <3>2, <3>3
    <3>4. CASE m \in u[c]
      <4>1. Before(side, m, x) BY <1>0, <2>0, <3>4 DEF c
      <4>2. QED BY <1>0, <2>3, <3>2, <4>1, BeforeFacts
    <3>5. CASE m \in u[inner] BY <1>0, <2>0, <2>3, <3>5
    <3>6. QED BY <3>1, <3>3, <3>4, <3>5
  <2>4. CASE n = y /\ s = far
    <3>1. m \in u[outer] BY <1>7, <1>8, <1>13, <2>4
    <3>2. QED BY <1>0, <2>0, <2>4, <3>1 DEF outer
  <2>5. CASE n # x /\ n # y
    <3>1. m \in u[Kid(t, s, n)] BY <1>9, <1>13, <2>5, KeyFacts
    <3>2. QED BY <2>0, <3>1
  <2>6. QED BY <1>0, <2>1, <2>2, <2>3, <2>4, <2>5
<1>14. ASSUME NEW n \in Keys, NEW s \in Sides, Kid(q, s, n) # nil
       PROVE  Up(q, Kid(q, s, n)) = n
  <2>0. \A k \in Keys, r \in Sides : Kid(t, r, k) # nil => Up(t, Kid(t, r, k)) = k BY DEF Shape
  <2>1. CASE n = x /\ s = far BY <1>8, <1>14, <2>1
  <2>2. CASE n = x /\ s = side
    <3>1. Up(q, c) = Up(t, c) /\ c # nil BY <1>1, <1>8, <1>14, <2>2
    <3>2. QED BY <1>0, <1>8, <2>0, <2>2, <3>1 DEF c
  <2>3. CASE n = y /\ s = side BY <1>8, <2>3
  <2>4. CASE n = y /\ s = far
    <3>1. Up(q, outer) = Up(t, outer) /\ outer # nil BY <1>1, <1>8, <1>14, <2>4
    <3>2. QED BY <1>0, <1>8, <2>0, <2>4, <3>1 DEF outer
  <2>5. CASE n # x /\ n # y
    <3>0. n \in Nodes \ {x, y} BY <2>5, KeyFacts
    <3>1. CASE Kid(t, s, n) = x
      <4>1. Kid(q, s, n) = y BY <1>8, <3>0, <3>1
      <4>2. Up(t, x) = n BY <1>0, <2>0, <3>1
      <4>3. QED BY <1>0, <1>8, <4>1, <4>2
    <3>2. CASE Kid(t, s, n) # x
      <4> DEFINE m == Kid(t, s, n)
      <4>1. Kid(q, s, n) = m /\ m # nil /\ m \in Nodes BY <1>8, <1>14, <3>0, <3>2, ShapeFacts
      <4>2. Up(t, m) = n BY <2>0, <4>1
      <4>3. m # y BY <1>9, <3>0
      <4>4. m # inner
        <5>1. inner # nil => Up(t, inner) = y BY <1>0, <2>0
        <5>2. QED BY <2>5, <4>1, <4>2, <5>1
      <4>5. m \in Nodes \ {x, y} BY <3>2, <4>1, <4>3
      <4>6. Up(q, m) = Up(t, m) BY <1>8, <4>4, <4>5
      <4>7. QED BY <4>1, <4>2, <4>6
    <3>3. QED BY <3>1, <3>2
  <2>6. QED BY <1>0, <2>1, <2>2, <2>3, <2>4, <2>5
<1>15. Top(q) # nil => Up(q, Top(q)) = nil
  <2>1. CASE Top(t) = x
    <3>1. p = nil BY <1>0, <2>1 DEF Shape
    <3>2. QED BY <1>8, <2>1, <3>1
  <2>2. CASE Top(t) # x
    <3>1. Top(t) \in Nodes \ {x, y} /\ (Top(t) # inner \/ Top(t) = nil)
      BY <1>0, <2>2, InTree
    <3>2. Up(q, Top(t)) = Up(t, Top(t)) BY <1>8, <3>1
    <3>3. QED BY <1>8, <2>2, <3>2 DEF Shape
  <2>3. QED BY <2>1, <2>2
<1>16. v[Top(q)] = u[Top(t)]
  <2>1. CASE Top(t) = x BY <1>4, <1>8, <2>1
  <2>2. CASE Top(t) # x
    <3>1. Top(t) \in Nodes /\ Top(t) # y BY <1>0, InTree
    <3>2. QED BY <1>6, <1>8, <2>2, <3>1
  <2>3. QED BY <2>1, <2>2
<1>17. ASSUME NEW n \in Keys \ v[Top(q)]
       PROVE  /\ \A s \in Sides : Kid(q, s, n) = nil
              /\ Up(q, n) = nil /\ ~Red(q, n)
  <2>1. n \in Keys \ u[Top(t)] BY <1>16
  <2>2. y \in u[Top(t)] /\ (inner = nil \/ inner \in u[Top(t)]) BY <1>0, InTree
  <2>3. n \in Nodes \ {x, y} /\ n # inner BY <1>0, <2>1, <2>2, KeyFacts
  <2>4. (\A s \in Sides : Kid(t, s, n) = nil) /\ Up(t, n) = nil /\ ~Red(t, n)
    BY <2>1 DEF Shape
  <2>5. QED BY <1>0, <1>8, <2>3, <2>4
<1>18. Shape(q, v)
  BY <1>3, <1>8, <1>10, <1>11, <1>12, <1>13, <1>14, <1>15, <1>17 DEF Shape
<1>19. QED BY <1>16, <1>18

-----------------------------------------------------------------------------
(* Colours and weights *)

\* h is t with other colours.
Painted(t, h) ==
  /\ h \in Trees /\ Top(h) = Top(t)
  /\ \A n \in Nodes : Up(h, n) = Up(t, n)
  /\ \A s \in Sides, n \in Nodes : Kid(h, s, n) = Kid(t, s, n)

\* Colours do not change the shape.
LEMMA PaintedShape ==
  ASSUME NEW t, NEW u, Shape(t, u), NEW h, Painted(t, h),
         \A n \in Nodes : Red(h, n) => n \in u[Top(t)]
  PROVE  Shape(h, u)
<1>1. /\ h \in Trees /\ Top(h) = Top(t) /\ Top(t) \in Nodes
      /\ \A n \in Nodes : Up(h, n) = Up(t, n)
      /\ \A s \in Sides, n \in Nodes : Kid(h, s, n) = Kid(t, s, n) /\ Kid(t, s, n) \in Nodes
  BY ShapeFacts, InTree DEF Painted
<1>2. nil \notin u[Top(t)] BY InTree
<1>3. u \in [Nodes -> SUBSET Keys] /\ u[nil] = {} BY DEF Shape
<1>4. \A s \in Sides : Kid(h, s, nil) = nil BY <1>1, KeyFacts DEF Shape
<1>5. ~Red(h, nil) BY <1>2, KeyFacts
<1>6. ASSUME NEW n \in Keys
      PROVE u[n] = {n} \cup u[Kid(h, "left", n)] \cup u[Kid(h, "right", n)]
  <2>1. u[n] = {n} \cup u[Kid(t, "left", n)] \cup u[Kid(t, "right", n)] BY DEF Shape
  <2>2. Kid(h, "left", n) = Kid(t, "left", n) /\ Kid(h, "right", n) = Kid(t, "right", n)
    BY <1>1, KeyFacts, SideFacts
  <2>3. QED BY <2>1, <2>2
<1>7. ASSUME NEW n \in Keys, NEW s \in Sides
      PROVE  /\ \A m \in Keys : m \in u[Kid(h, s, n)] => Before(s, m, n)
             /\ Kid(h, s, n) # nil => Up(h, Kid(h, s, n)) = n
  <2>1. Kid(h, s, n) = Kid(t, s, n) /\ Kid(t, s, n) \in Nodes BY <1>1, KeyFacts
  <2>2. Up(h, Kid(t, s, n)) = Up(t, Kid(t, s, n)) BY <1>1, <2>1
  <2>3. \A m \in Keys : m \in u[Kid(t, s, n)] => Before(s, m, n) BY DEF Shape
  <2>4. Kid(t, s, n) # nil => Up(t, Kid(t, s, n)) = n BY DEF Shape
  <2>5. QED BY <2>1, <2>2, <2>3, <2>4
<1>8. Top(h) # nil => Up(h, Top(h)) = nil BY <1>1 DEF Shape
<1>9. ASSUME NEW n \in Keys \ u[Top(h)]
      PROVE  /\ \A s \in Sides : Kid(h, s, n) = nil
             /\ Up(h, n) = nil /\ ~Red(h, n)
  <2>1. n \in Keys \ u[Top(t)] /\ n \in Nodes BY <1>1, KeyFacts
  <2>2. (\A s \in Sides : Kid(t, s, n) = nil) /\ Up(t, n) = nil BY <2>1 DEF Shape
  <2>3. QED BY <1>1, <2>1, <2>2
<1>10. QED BY <1>1, <1>3, <1>4, <1>5, <1>6, <1>7, <1>8, <1>9 DEF Shape

\* A black node counts on the way down.
Weight(t, n) == IF Red(t, n) THEN 0 ELSE 1

\* Both ways down from n pass as many black nodes, which b counts.
Level(t, b, n) == \A s \in Sides : b[n] = b[Kid(t, s, n)] + Weight(t, n)

\* b counts the black nodes on the ways down, from all nodes but those in D.
Weighed(t, b, D) == b \in [Nodes -> Nat] /\ b[nil] = 0 /\ \A n \in Keys \ D : Level(t, b, n)

\* Red nodes have black children, but for children in K and nodes in P.
RedOk(t, K, P) ==
  \A n \in Keys, s \in Sides : Red(t, n) /\ Red(t, Kid(t, s, n)) => Kid(t, s, n) \in K \/ n \in P

\* As b, but for x, which gets w, and y, which gets what x had.
Reweighed(b, c, x, w, y) ==
  /\ c \in [Nodes -> Nat] /\ c[x] = w /\ c[y] = b[x]
  /\ \A n \in Nodes : n # x /\ n # y => c[n] = b[n]

\* There are such heights.
LEMMA Reweighing ==
  ASSUME NEW b \in [Nodes -> Nat], NEW x \in Nodes, NEW y \in Nodes, x # y, NEW w \in Nat
  PROVE  \E c : Reweighed(b, c, x, w, y)
<1> DEFINE c == [n \in Nodes |-> IF n = x THEN w ELSE IF n = y THEN b[x] ELSE b[n]]
<1>1. Reweighed(b, c, x, w, y) BY DEF Reweighed
<1>2. QED BY <1>1

\* A rotation keeps a node level that is not one of the two it turns.
LEMMA RotateLevel ==
  ASSUME NEW t, NEW u, Shape(t, u), NEW x \in u[Top(t)], NEW side, NEW far,
         NEW y, NEW inner, NEW p, Turn(t, x, side, far, y, inner, p),
         NEW q, Rotated(t, q, x, side, far, y, inner, p),
         NEW b, NEW c, NEW w, Reweighed(b, c, x, w, y),
         NEW n \in Keys \ {x, y}, Level(t, b, n)
  PROVE  Level(q, c, n)
<1>0. x \in Nodes /\ y \in Nodes /\ x # y /\ y = Kid(t, far, x) /\ x = Up(t, y) /\ y # nil /\ far \in Sides
  <2>1. x \in Nodes /\ y \in Nodes /\ x # y /\ y = Kid(t, far, x) /\ y # nil /\ far \in Sides
    BY RotatePlaces, KeyFacts DEF Turn
  <2>2. x = Up(t, y) BY <2>1, InTree
  <2>3. QED BY <2>1, <2>2
<1>1. SUFFICES ASSUME NEW s \in Sides PROVE c[n] = c[Kid(q, s, n)] + Weight(q, n)
  BY DEF Level
<1>2. b[n] = b[Kid(t, s, n)] + Weight(t, n) BY DEF Level
<1>3. n \in Nodes \ {x, y} /\ Kid(t, s, n) \in Nodes BY ShapeFacts, KeyFacts
<1>4. Weight(q, n) = Weight(t, n) BY <1>3 DEF Rotated, Weight
<1>5. c[n] = b[n] /\ c[y] = b[x] BY <1>3 DEF Reweighed
<1>6. c[Kid(q, s, n)] = b[Kid(t, s, n)]
  <2>1. CASE Kid(t, s, n) = x
    <3>1. Kid(q, s, n) = y BY <1>3, <2>1 DEF Rotated
    <3>2. QED BY <1>5, <2>1, <3>1
  <2>2. CASE Kid(t, s, n) # x
    <3>1. Kid(q, s, n) = Kid(t, s, n) BY <1>3, <2>2 DEF Rotated
    <3>2. Kid(t, s, n) # y BY <1>0, <1>3, InTree
    <3>3. QED BY <1>3, <2>2, <3>1, <3>2 DEF Reweighed
  <2>3. QED BY <2>1, <2>2
<1>7. QED BY <1>2, <1>4, <1>5, <1>6

-----------------------------------------------------------------------------
(* Around a node that InsertFixup looks at *)

\* No node below another has more black nodes below it.
LEMMA Outweighs ==
  ASSUME NEW t, NEW u, NEW b, Shape(t, u), Weighed(t, b, {})
  PROVE  \A n \in Nodes : \A m \in u[n] : b[m] <= b[n]
<1> DEFINE P == {n \in Nodes : \A m \in u[n] : b[m] <= b[n]}
<1>1. /\ b \in [Nodes -> Nat] /\ b[nil] = 0 /\ \A n \in Keys : Level(t, b, n)
      /\ u[nil] = {} /\ t \in Trees
  BY DEF Weighed, Shape
<1>2. nil \in P BY <1>1, KeyFacts
<1>3. ASSUME NEW n \in Keys, \A s \in Sides : Kid(t, s, n) \in P PROVE n \in P
  <2>0. n \in Nodes BY KeyFacts
  <2>1. SUFFICES ASSUME NEW m \in u[n] PROVE b[m] <= b[n]
    BY <2>0
  <2>2. m \in Nodes BY <2>0, ShapeFacts, KeyFacts
  <2>3. CASE m = n BY <1>1, <2>0, <2>3
  <2>4. CASE m # n
    <3>1. PICK s \in Sides : m \in u[Kid(t, s, n)]
      <4>1. "left" \in Sides /\ "right" \in Sides /\ Opposite("left") = "right" BY SideFacts
      <4>2. u[n] = {n} \cup u[Kid(t, "left", n)] \cup u[Kid(t, "right", n)] BY <4>1, ShapeFacts
      <4>3. QED BY <2>4, <4>1, <4>2
    <3>2. b[m] <= b[Kid(t, s, n)] BY <1>3, <3>1
    <3>3. b[n] = b[Kid(t, s, n)] + Weight(t, n) BY <1>1 DEF Level
    <3>4. Kid(t, s, n) \in Nodes /\ Weight(t, n) \in Nat BY <2>0, ShapeFacts DEF Weight
    <3>5. b[m] \in Nat /\ b[n] \in Nat /\ b[Kid(t, s, n)] \in Nat BY <1>1, <2>0, <2>2, <3>4
    <3>6. QED BY <3>2, <3>3, <3>4, <3>5
  <2>5. QED BY <2>3, <2>4
<1>4. Nodes \subseteq P
  <2> HIDE DEF P
  <2>1. QED BY <1>2, <1>3, TreeInduction
<1>5. QED BY <1>4

\* The side of its parent that a node is on, as the code finds it.
SideOf(t, n, p) == IF n = t.left[p] THEN "left" ELSE "right"

\* The code finds the side that the node is a child on.
LEMMA SideOfKid ==
  ASSUME NEW t, NEW u, Shape(t, u), NEW n, NEW p \in Keys, n # nil,
         \E s \in Sides : Kid(t, s, p) = n
  PROVE  SideOf(t, n, p) \in Sides /\ Kid(t, SideOf(t, n, p), p) = n
<1>1. PICK s \in Sides : Kid(t, s, p) = n OBVIOUS
<1>2. t \in Trees /\ p \in Nodes BY KeyFacts DEF Shape
<1>3. Kid(t, "left", p) = t.left[p] /\ Kid(t, "right", p) = t.right[p] BY <1>2, TreeFields
<1>4. CASE n = t.left[p] BY <1>3, <1>4, SideFacts DEF SideOf
<1>5. CASE n # t.left[p]
  <2>1. SideOf(t, n, p) = "right" BY <1>5 DEF SideOf
  <2>2. s = "right" BY <1>1, <1>3, <1>5, SideFacts
  <2>3. QED BY <1>1, <2>1, <2>2
<1>6. QED BY <1>4, <1>5

\* The colours that InsertFixup sets.
Recoloured(t, p, y, g) == [t EXCEPT !.red[p] = FALSE, !.red[y] = FALSE, !.red[g] = TRUE]
Exchanged(t, top, over) == [t EXCEPT !.red[top] = FALSE, !.red[over] = TRUE]

\* What the colours of InsertFixup are after the assignments, first for a red uncle.
LEMMA RecolouredFields ==
  ASSUME NEW t \in Trees, NEW p \in Nodes, NEW y \in Nodes, NEW g \in Nodes,
         NEW h, h = Recoloured(t, p, y, g)
  PROVE  /\ Painted(t, h) /\ Red(h, g)
         /\ p # g => ~Red(h, p)
         /\ y # g => ~Red(h, y)
         /\ \A n \in Nodes : n # p /\ n # y /\ n # g => Red(h, n) = Red(t, n)
<1> DEFINE h1 == Blacken(t, p)
           h2 == Blacken(h1, y)
<1>1. h = Redden(h2, g)
  <2>1. Recoloured(t, p, y, g) = Redden(Blacken(Blacken(t, p), y), g)
    BY ZenonT(60) DEF Recoloured, Blacken, Redden
  <2>2. QED BY <2>1, Zenon
<1>2. h1 = Blacken(t, p) OBVIOUS
<1>3. h2 = Blacken(h1, y) OBVIOUS
<1> HIDE DEF h1, h2
<1>4. /\ h1 \in Trees /\ Top(h1) = Top(t)
      /\ \A n \in Nodes : Up(h1, n) = Up(t, n)
      /\ ~Red(h1, p) /\ \A n \in Nodes : n # p => Red(h1, n) = Red(t, n)
      /\ \A s \in Sides, n \in Nodes : Kid(h1, s, n) = Kid(t, s, n)
  BY <1>2, SetBlack
<1>5. /\ h2 \in Trees /\ Top(h2) = Top(h1)
      /\ \A n \in Nodes : Up(h2, n) = Up(h1, n)
      /\ ~Red(h2, y) /\ \A n \in Nodes : n # y => Red(h2, n) = Red(h1, n)
      /\ \A s \in Sides, n \in Nodes : Kid(h2, s, n) = Kid(h1, s, n)
  BY <1>3, <1>4, SetBlack
<1>6. /\ h \in Trees /\ Top(h) = Top(h2)
      /\ \A n \in Nodes : Up(h, n) = Up(h2, n)
      /\ Red(h, g) /\ \A n \in Nodes : n # g => Red(h, n) = Red(h2, n)
      /\ \A s \in Sides, n \in Nodes : Kid(h, s, n) = Kid(h2, s, n)
  BY <1>1, <1>5, SetRed
<1>7. Painted(t, h) BY <1>4, <1>5, <1>6 DEF Painted
<1>8. QED BY <1>4, <1>5, <1>6, <1>7

LEMMA ExchangedFields ==
  ASSUME NEW t \in Trees, NEW p \in Nodes, NEW g \in Nodes, p # g,
         NEW h, h = Exchanged(t, p, g)
  PROVE  /\ Painted(t, h) /\ Red(h, g) /\ ~Red(h, p)
         /\ \A n \in Nodes : n # p /\ n # g => Red(h, n) = Red(t, n)
<1> DEFINE h1 == Blacken(t, p)
<1>1. h = Redden(h1, g)
  <2>1. Exchanged(t, p, g) = Redden(Blacken(t, p), g)
    BY ZenonT(60) DEF Exchanged, Blacken, Redden
  <2>2. QED BY <2>1, Zenon
<1>2. h1 = Blacken(t, p) OBVIOUS
<1> HIDE DEF h1
<1>4. /\ h1 \in Trees /\ Top(h1) = Top(t)
      /\ \A n \in Nodes : Up(h1, n) = Up(t, n)
      /\ ~Red(h1, p) /\ \A n \in Nodes : n # p => Red(h1, n) = Red(t, n)
      /\ \A s \in Sides, n \in Nodes : Kid(h1, s, n) = Kid(t, s, n)
  BY <1>2, SetBlack
<1>6. /\ h \in Trees /\ Top(h) = Top(h1)
      /\ \A n \in Nodes : Up(h, n) = Up(h1, n)
      /\ Red(h, g) /\ \A n \in Nodes : n # g => Red(h, n) = Red(h1, n)
      /\ \A s \in Sides, n \in Nodes : Kid(h, s, n) = Kid(h1, s, n)
  BY <1>1, <1>4, SetRed
<1>7. Painted(t, h) BY <1>4, <1>6 DEF Painted
<1>8. QED BY <1>4, <1>6, <1>7

\* Colours are Booleans.
LEMMA RedType ==
  ASSUME NEW t \in Trees
  PROVE  \A n \in Nodes : /\ Red(t, n) \in BOOLEAN
                          /\ Red(t, n) => Weight(t, n) = 0
                          /\ ~Red(t, n) => Weight(t, n) = 1
BY TreeFields DEF Weight

\* An insertion is being repaired at z, a red node whose parent may be red.
Mend(t, u, b, z) ==
  /\ Shape(t, u) /\ Weighed(t, b, {}) /\ RedOk(t, {z}, {})
  /\ z \in u[Top(t)] /\ Red(t, z) /\ (Red(t, Top(t)) => Top(t) = z)

\* After r rounds of the repair z is r black nodes up, or the repair is at its end.
Risen(t, b, z, r) == r <= b[z] \/ (~Red(t, Up(t, z)) /\ r <= b[Top(t)])

\* The nodes around z that InsertFixup looks at.
Grand(t, z, p, g, side, far, y) ==
  /\ p = Up(t, z) /\ g = Up(t, p) /\ Red(t, p)
  /\ side = SideOf(t, p, g) /\ far = Opposite(side) /\ y = Kid(t, far, g)

\* They are different nodes, and the grandparent is black.
LEMMA GrandFacts ==
  ASSUME NEW t, NEW u, NEW b, NEW z, Mend(t, u, b, z),
         NEW p, NEW g, NEW side, NEW far, NEW y, Grand(t, z, p, g, side, far, y)
  PROVE  /\ t \in Trees /\ Shape(t, u) /\ z \in Keys /\ z \in Nodes /\ z # nil
         /\ p \in Keys /\ p \in Nodes /\ p # nil /\ p \in u[Top(t)] /\ p # z
         /\ g \in Keys /\ g \in Nodes /\ g # nil /\ g \in u[Top(t)] /\ g # p /\ g # z /\ ~Red(t, g)
         /\ side \in Sides /\ far \in Sides /\ far # side
         /\ (\A s \in Sides : s = side \/ s = far) /\ Opposite(far) = side /\ far = Opposite(side)
         /\ Kid(t, side, g) = p /\ Kid(t, far, g) = y /\ y \in Nodes /\ y # p /\ y # g /\ y # z
         /\ Up(t, z) = p /\ Up(t, p) = g
         /\ Red(t, p) /\ Red(t, z) /\ (Kid(t, side, p) = z \/ Kid(t, far, p) = z)
         /\ Top(t) # p /\ Top(t) # z /\ ~Red(t, Top(t))
<1>0. /\ Shape(t, u) /\ RedOk(t, {z}, {}) /\ z \in u[Top(t)] /\ Red(t, z)
      /\ (Red(t, Top(t)) => Top(t) = z)
  BY DEF Mend
<1>0a. /\ p = Up(t, z) /\ g = Up(t, p) /\ Red(t, p)
       /\ side = SideOf(t, p, g) /\ far = Opposite(side) /\ y = Kid(t, far, g)
  BY DEF Grand
<1>1. t \in Trees /\ z \in Keys /\ z \in Nodes /\ z # nil /\ ~Red(t, nil) /\ Top(t) \in Nodes
  BY <1>0, InTree, KeyFacts DEF Shape
<1>2. p # nil BY <1>0a, <1>1
<1>3. z # Top(t) BY <1>0, <1>0a, <1>1, <1>2, InTree
<1>4. /\ p \in u[Top(t)] /\ p # z /\ \E s \in Sides : Kid(t, s, p) = z
  BY <1>0, <1>0a, <1>3, InTree
<1>5. p \in Keys /\ p \in Nodes BY <1>0, <1>4, InTree, KeyFacts
<1>6. p # Top(t) /\ ~Red(t, Top(t)) BY <1>0, <1>0a, <1>3
<1>7. g \in u[Top(t)] /\ g # p /\ \E s \in Sides : Kid(t, s, g) = p
  BY <1>0, <1>0a, <1>4, <1>6, InTree
<1>8. g \in Keys /\ g \in Nodes /\ g # nil BY <1>0, <1>7, InTree, KeyFacts
<1>9. ~Red(t, g)
  <2>1. PICK s \in Sides : Kid(t, s, g) = p BY <1>7
  <2>2. QED BY <1>0, <1>0a, <1>4, <1>8, <2>1 DEF RedOk
<1>10. g # z BY <1>0, <1>9
<1>11. side \in Sides /\ Kid(t, side, g) = p BY <1>0, <1>0a, <1>2, <1>7, <1>8, SideOfKid
<1>12. /\ far \in Sides /\ far # side /\ (\A s \in Sides : s = side \/ s = far) /\ Opposite(far) = side
  BY <1>0a, <1>11, SideFacts
<1>13. y \in Nodes /\ y # p /\ y # g BY <1>0, <1>0a, <1>2, <1>8, <1>11, <1>12, ShapeFacts
<1>14. y # z
  <2>1. y # nil => Up(t, y) = g BY <1>0, <1>0a, <1>8, <1>12 DEF Shape
  <2>2. QED BY <1>0a, <1>1, <1>7, <2>1
<1>15. Kid(t, side, p) = z \/ Kid(t, far, p) = z BY <1>4, <1>12
<1>16. QED BY <1>0, <1>0a, <1>1, <1>2, <1>3, <1>4, <1>5, <1>6, <1>7, <1>8, <1>9, <1>10, <1>11,
            <1>12, <1>13, <1>14, <1>15

-----------------------------------------------------------------------------
(* The repair of an insertion *)

\* A red uncle: the colours change, and the repair goes on at the grandparent, a black
\* node further up.
LEMMA RedUncle ==
  ASSUME NEW t, NEW u, NEW b, NEW z, Mend(t, u, b, z),
         NEW p, NEW g, NEW side, NEW far, NEW y, Grand(t, z, p, g, side, far, y), Red(t, y),
         NEW h, h = Recoloured(t, p, y, g)
  PROVE  Top(h) = Top(t) /\ \E c : Mend(h, u, c, g) /\ c[g] = b[z] + 1
<1> DEFINE c == [n \in Nodes |-> IF n = p \/ n = y THEN b[n] + 1 ELSE b[n]]
<1>0. /\ t \in Trees /\ Shape(t, u) /\ z \in Keys /\ z \in Nodes /\ z # nil
      /\ p \in Keys /\ p \in Nodes /\ p # nil /\ p \in u[Top(t)] /\ p # z
      /\ g \in Keys /\ g \in Nodes /\ g # nil /\ g \in u[Top(t)] /\ g # p /\ g # z /\ ~Red(t, g)
      /\ side \in Sides /\ far \in Sides /\ far # side
      /\ (\A s \in Sides : s = side \/ s = far)
      /\ Kid(t, side, g) = p /\ Kid(t, far, g) = y /\ y \in Nodes /\ y # p /\ y # g /\ y # z
      /\ Up(t, z) = p /\ Up(t, p) = g /\ Red(t, p) /\ ~Red(t, Top(t))
  BY GrandFacts
<1>1. /\ Weighed(t, b, {}) /\ RedOk(t, {z}, {}) BY DEF Mend
<1>2. /\ Painted(t, h) /\ Red(h, g) /\ ~Red(h, p) /\ ~Red(h, y)
      /\ \A n \in Nodes : n # p /\ n # y /\ n # g => Red(h, n) = Red(t, n)
  BY <1>0, RecolouredFields
<1>3. /\ Top(h) = Top(t) /\ h \in Trees
      /\ \A s \in Sides, n \in Nodes : Kid(h, s, n) = Kid(t, s, n) /\ Kid(t, s, n) \in Nodes
  BY <1>0, <1>2, ShapeFacts DEF Painted
<1>4. Shape(h, u)
  <2>1. \A n \in Nodes : Red(t, n) => n \in u[Top(t)] BY <1>0, InTree, KeyFacts DEF Shape
  <2>2. \A n \in Nodes : Red(h, n) => n \in u[Top(t)] BY <1>0, <1>2, <2>1
  <2>3. QED BY <1>0, <1>2, <2>2, PaintedShape
<1>5. /\ y # nil /\ Up(t, y) = g /\ y \in Keys
  <2>1. y # nil BY <1>0 DEF Shape
  <2>2. QED BY <1>0, <2>1, InTree, KeyFacts
\* Among the children, p and y are those of g.
<1>6. \A n \in Keys, s \in Sides : Kid(t, s, n) = p \/ Kid(t, s, n) = y => n = g
  BY <1>0, <1>5, KeyFacts, InTree
<1>7. b \in [Nodes -> Nat] /\ b[nil] = 0 /\ \A n \in Keys : Level(t, b, n) BY <1>1 DEF Weighed
<1>8. c \in [Nodes -> Nat] BY <1>7
<1>9. c[p] = b[p] + 1 /\ c[y] = b[y] + 1 /\ c[nil] = 0 BY <1>0, <1>5, <1>7, KeyFacts
<1>10. \A n \in Nodes : n # p /\ n # y => c[n] = b[n] OBVIOUS
<1> HIDE DEF c
<1>11. ASSUME NEW n \in Keys, NEW s \in Sides
       PROVE  c[n] = c[Kid(h, s, n)] + Weight(h, n)
  <2>1. b[n] = b[Kid(t, s, n)] + Weight(t, n) BY <1>7 DEF Level
  <2>2. n \in Nodes /\ Kid(h, s, n) = Kid(t, s, n) /\ Kid(t, s, n) \in Nodes BY <1>3, KeyFacts
  <2>3. /\ b[n] \in Nat /\ b[Kid(t, s, n)] \in Nat /\ b[p] \in Nat /\ b[y] \in Nat
    BY <1>0, <1>7, <2>2
  <2>4. CASE n = g
    <3>1. Kid(t, s, n) = p \/ Kid(t, s, n) = y BY <1>0, <2>4
    <3>2. Weight(t, n) = 1 /\ Weight(h, n) = 0 BY <1>0, <1>2, <2>4 DEF Weight
    <3>3. c[n] = b[n] BY <1>0, <1>10, <2>2, <2>4
    <3>4. c[Kid(t, s, n)] = b[Kid(t, s, n)] + 1 BY <1>9, <3>1
    <3>5. QED BY <2>1, <2>2, <2>3, <3>2, <3>3, <3>4
  <2>5. CASE n = p \/ n = y
    <3>1. Kid(t, s, n) # p /\ Kid(t, s, n) # y BY <1>0, <1>6, <2>5
    <3>2. Weight(t, n) = 0 /\ Weight(h, n) = 1 BY <1>0, <1>2, <2>5 DEF Weight
    <3>3. c[n] = b[n] + 1 BY <1>9, <2>5
    <3>4. c[Kid(t, s, n)] = b[Kid(t, s, n)] BY <1>10, <2>2, <3>1
    <3>5. QED BY <2>1, <2>2, <2>3, <3>2, <3>3, <3>4
  <2>6. CASE n # g /\ n # p /\ n # y
    <3>1. Kid(t, s, n) # p /\ Kid(t, s, n) # y BY <1>6, <2>6
    <3>2. Weight(h, n) = Weight(t, n) BY <1>2, <2>2, <2>6 DEF Weight
    <3>3. c[n] = b[n] /\ c[Kid(t, s, n)] = b[Kid(t, s, n)] BY <1>10, <2>2, <2>6, <3>1
    <3>4. QED BY <2>1, <2>2, <3>2, <3>3
  <2>7. QED BY <2>4, <2>5, <2>6
<1>12. Weighed(h, c, {}) BY <1>8, <1>9, <1>11 DEF Weighed, Level
<1>13. RedOk(h, {g}, {})
  <2>1. SUFFICES ASSUME NEW n \in Keys, NEW s \in Sides, Red(h, n), Red(h, Kid(h, s, n))
                 PROVE  Kid(h, s, n) = g
    BY DEF RedOk
  <2>2. n \in Nodes /\ Kid(h, s, n) = Kid(t, s, n) /\ Kid(t, s, n) \in Nodes BY <1>3, KeyFacts
  <2>3. n # p /\ n # y /\ Kid(t, s, n) # p /\ Kid(t, s, n) # y BY <1>2, <2>1, <2>2
  <2>4. n # g BY <1>0, <2>3
  <2>5. SUFFICES ASSUME Kid(t, s, n) # g PROVE FALSE
    BY <2>2
  <2>6. Red(t, n) /\ Red(t, Kid(t, s, n)) BY <1>2, <2>1, <2>2, <2>3, <2>4, <2>5
  <2>7. Kid(t, s, n) = z BY <1>1, <2>6 DEF RedOk
  <2>8. QED BY <1>0, <2>2, <2>3, <2>7, InTree
<1>14. Red(h, Top(h)) => Top(h) = g
  <2>1. Top(t) \in Nodes /\ Top(t) # p /\ Top(t) # y BY <1>0, <1>2, <1>3, <1>5, InTree
  <2>2. QED BY <1>0, <1>2, <1>3, <2>1
<1>15. Mend(h, u, c, g) BY <1>0, <1>2, <1>3, <1>4, <1>12, <1>13, <1>14 DEF Mend
<1>16. c[g] = b[z] + 1
  <2>1. Weight(t, g) = 1 /\ Weight(t, p) = 0 BY <1>0 DEF Weight
  <2>2. b[g] = b[p] + 1
    <3>1. b[g] = b[Kid(t, side, g)] + Weight(t, g) BY <1>0, <1>7 DEF Level
    <3>2. QED BY <1>0, <2>1, <3>1
  <2>3. PICK s \in Sides : Kid(t, s, p) = z BY GrandFacts
  <2>4. b[p] = b[z] + 0
    <3>1. b[p] = b[Kid(t, s, p)] + Weight(t, p) BY <1>0, <1>7 DEF Level
    <3>2. QED BY <2>1, <2>3, <3>1
  <2>5. b[z] \in Nat /\ c[g] = b[g] BY <1>0, <1>7, <1>10
  <2>6. QED BY <2>2, <2>4, <2>5
<1>17. QED BY <1>3, <1>15, <1>16

\* A black uncle and three nodes in a line: the middle one comes up.
Line(t, u, b, child, top, over, side, far) ==
  /\ Shape(t, u) /\ Weighed(t, b, {}) /\ RedOk(t, {child}, {})
  /\ child \in u[Top(t)] /\ child # nil
  /\ top \in Keys /\ over \in Keys /\ over \in u[Top(t)] /\ side \in Sides /\ far = Opposite(side)
  /\ Kid(t, side, over) = top /\ Kid(t, side, top) = child
  /\ Red(t, child) /\ Red(t, top) /\ ~Red(t, over) /\ ~Red(t, Kid(t, far, over))
  /\ ~Red(t, Top(t))

\* The rotation ends the repair: child's parent is black, and below the root there is
\* one more black node than below child.
LEMMA TurnLine ==
  ASSUME NEW t, NEW u, NEW b, NEW child, NEW top, NEW over, NEW side, NEW far,
         Line(t, u, b, child, top, over, side, far),
         NEW h, h = Exchanged(t, top, over), NEW q, q = Rotate(h, over, far)
  PROVE  \E v, c : /\ Mend(q, v, c, child) /\ v[Top(q)] = u[Top(t)]
                   /\ ~Red(q, Up(q, child)) /\ b[child] + 1 <= c[Top(q)]
<1> DEFINE inner == Kid(t, far, top)
           uncle == Kid(t, far, over)
           p == Up(t, over)
<1>0. /\ Shape(t, u) /\ Weighed(t, b, {}) /\ RedOk(t, {child}, {})
      /\ child \in u[Top(t)] /\ child # nil
      /\ top \in Keys /\ over \in Keys /\ over \in u[Top(t)] /\ side \in Sides /\ far = Opposite(side)
      /\ Kid(t, side, over) = top /\ Kid(t, side, top) = child
      /\ Red(t, child) /\ Red(t, top) /\ ~Red(t, over) /\ ~Red(t, uncle)
      /\ ~Red(t, Top(t))
  BY DEF Line
<1>1. /\ t \in Trees /\ top \in Nodes /\ over \in Nodes /\ top # nil /\ over # nil /\ Top(t) \in Nodes
      /\ far \in Sides /\ far # side /\ (\A s \in Sides : s = side \/ s = far) /\ Opposite(far) = side
      /\ inner \in Nodes /\ uncle \in Nodes /\ child \in Nodes /\ p \in Nodes
  BY <1>0, KeyFacts, SideFacts, ShapeFacts, InTree, TreeFields DEF Shape
<1> HIDE DEF inner, uncle, p
<1>2. /\ over # top /\ child # top /\ Up(t, top) = over /\ Up(t, child) = top /\ child # over
      /\ inner # child /\ inner # top /\ inner # over /\ uncle # top /\ uncle # over
      /\ top # Top(t) /\ child # Top(t)
  <2>1. over # top /\ child # top /\ inner # top /\ uncle # over /\ inner # child /\ uncle # top
    BY <1>0, <1>1, ShapeFacts DEF inner, uncle
  <2>2. Up(t, top) = over /\ Up(t, child) = top /\ top # Top(t) /\ child # Top(t)
    BY <1>0, <1>1, InTree
  <2>3. child # over
    <3>1. u[child] \subseteq u[top] /\ child \in u[child] BY <1>0, <1>1, ShapeFacts, KeyFacts
    <3>2. over \notin u[top] BY <1>0, <1>1, ShapeFacts
    <3>3. QED BY <3>1, <3>2
  <2>4. inner # over
    <3>1. u[inner] \subseteq u[top] /\ over \notin u[top] /\ over \in u[over]
      BY <1>0, <1>1, ShapeFacts DEF inner
    <3>2. QED BY <3>1
  <2>5. QED BY <2>1, <2>2, <2>3, <2>4
<1>3. /\ Painted(t, h) /\ Red(h, over) /\ ~Red(h, top)
      /\ \A n \in Nodes : n # top /\ n # over => Red(h, n) = Red(t, n)
  BY <1>1, <1>2, ExchangedFields
<1>4. /\ Top(h) = Top(t) /\ h \in Trees
      /\ \A n \in Nodes : Up(h, n) = Up(t, n)
      /\ \A s \in Sides, n \in Nodes : Kid(h, s, n) = Kid(t, s, n) /\ Kid(t, s, n) \in Nodes
  BY <1>0, <1>3, ShapeFacts DEF Painted
<1>5. Shape(h, u)
  <2>1. \A n \in Nodes : Red(t, n) => n \in u[Top(t)] BY <1>0, InTree, KeyFacts DEF Shape
  <2>2. \A n \in Nodes : Red(h, n) => n \in u[Top(t)] BY <1>0, <1>3, <2>1
  <2>3. QED BY <1>0, <1>3, <2>2, PaintedShape
<1>6. Turn(h, over, far, side, top, inner, p) /\ over \in u[Top(h)]
  <2>1. /\ top = Kid(h, side, over) /\ inner = Kid(h, far, top) /\ p = Up(h, over)
    BY <1>0, <1>1, <1>4 DEF inner, p
  <2>2. QED BY <1>0, <1>1, <1>4, <2>1 DEF Turn
<1>7. Rotated(h, q, over, far, side, top, inner, p) BY <1>5, <1>6, RotateFields
<1>8. PICK v : Shape(q, v) /\ v[Top(q)] = u[Top(h)] BY <1>5, <1>6, <1>7, RotateShape
<1>9. b \in [Nodes -> Nat] /\ b[nil] = 0 /\ (\A n \in Keys : Level(t, b, n)) /\ b[top] \in Nat
  BY <1>0, <1>1 DEF Weighed
<1>10. PICK c : Reweighed(b, c, over, b[top], top)
  <2>1. \E c : Reweighed(b, c, over, b[top], top) BY <1>1, <1>2, <1>9, Reweighing
  <2>2. QED BY <2>1
<1>11. /\ c \in [Nodes -> Nat] /\ c[over] = b[top] /\ c[top] = b[over]
       /\ \A n \in Nodes : n # over /\ n # top => c[n] = b[n]
  BY <1>10 DEF Reweighed
<1>12. /\ Kid(q, side, over) = inner /\ Kid(q, far, over) = uncle
       /\ Kid(q, far, top) = over /\ Kid(q, side, top) = child
       /\ \A n \in Nodes : Red(q, n) = Red(h, n)
       /\ \A s \in Sides, n \in Nodes \ {over, top} :
            /\ Kid(t, s, n) = over => Kid(q, s, n) = top
            /\ Kid(t, s, n) # over => Kid(q, s, n) = Kid(t, s, n)
       /\ Top(t) = over => Top(q) = top
       /\ Top(t) # over => Top(q) = Top(t)
  BY <1>0, <1>1, <1>4, <1>7 DEF Rotated, uncle
<1>13. /\ b[top] = b[inner] /\ b[child] = b[top] /\ b[over] = b[top] + 1 /\ b[over] = b[uncle] + 1
       /\ b[inner] \in Nat /\ b[uncle] \in Nat /\ b[over] \in Nat /\ b[child] \in Nat
  <2>1. Weight(t, top) = 0 /\ Weight(t, over) = 1 BY <1>0 DEF Weight
  <2>2. /\ b[top] = b[inner] + Weight(t, top) /\ b[top] = b[child] + Weight(t, top)
        /\ b[over] = b[top] + Weight(t, over) /\ b[over] = b[uncle] + Weight(t, over)
    BY <1>0, <1>1, <1>9 DEF Level, inner, uncle
  <2>3. QED BY <1>1, <1>9, <2>1, <2>2
<1>14. ASSUME NEW n \in Keys PROVE Level(q, c, n)
  <2>1. CASE n = over
    <3>1. Weight(q, over) = 0 BY <1>1, <1>3, <1>12 DEF Weight
    <3>2. c[inner] = b[inner] /\ c[uncle] = b[uncle] BY <1>1, <1>2, <1>11
    <3>3. ASSUME NEW s \in Sides PROVE c[over] = c[Kid(q, s, over)] + Weight(q, over)
      <4>1. CASE s = side BY <1>9, <1>11, <1>12, <1>13, <3>1, <3>2, <4>1
      <4>2. CASE s = far BY <1>9, <1>11, <1>12, <1>13, <3>1, <3>2, <4>2
      <4>3. QED BY <1>1, <4>1, <4>2
    <3>4. QED BY <2>1, <3>3 DEF Level
  <2>2. CASE n = top
    <3>1. Weight(q, top) = 1 BY <1>1, <1>3, <1>12 DEF Weight
    <3>2. c[child] = b[child] BY <1>1, <1>2, <1>11
    <3>3. ASSUME NEW s \in Sides PROVE c[top] = c[Kid(q, s, top)] + Weight(q, top)
      <4>1. CASE s = side BY <1>9, <1>11, <1>12, <1>13, <3>1, <3>2, <4>1
      <4>2. CASE s = far BY <1>9, <1>11, <1>12, <1>13, <3>1, <4>2
      <4>3. QED BY <1>1, <4>1, <4>2
    <3>4. QED BY <2>2, <3>3 DEF Level
  <2>3. CASE n # over /\ n # top
    <3>1. n \in Nodes /\ Weight(h, n) = Weight(t, n) BY <1>3, <2>3, KeyFacts DEF Weight
    <3>2. Level(h, b, n) BY <1>4, <1>9, <3>1 DEF Level
    <3>3. QED BY <1>5, <1>6, <1>7, <1>10, <2>3, <3>2, RotateLevel
  <2>4. QED BY <2>1, <2>2, <2>3
<1>15. Weighed(q, c, {}) BY <1>1, <1>9, <1>11, <1>14, KeyFacts DEF Weighed
<1>16. RedOk(q, {child}, {})
  <2>1. SUFFICES ASSUME NEW n \in Keys, NEW s \in Sides, Red(q, n), Red(q, Kid(q, s, n)),
                        Kid(q, s, n) # child
                 PROVE  FALSE
    BY DEF RedOk
  <2>2. n \in Nodes /\ Kid(q, s, n) \in Nodes /\ Kid(t, s, n) \in Nodes /\ n # top
    BY <1>3, <1>4, <1>8, <1>12, <2>1, KeyFacts, ShapeFacts
  <2>3. \A j \in Keys, r \in Sides : Red(t, j) /\ Red(t, Kid(t, r, j)) => Kid(t, r, j) = child
    BY <1>0 DEF RedOk
  <2>4. Kid(q, s, n) # top BY <1>1, <1>3, <1>12, <2>1
  <2>5. CASE n = over
    <3>1. Red(q, inner) => Red(t, inner) \/ inner = over BY <1>1, <1>2, <1>3, <1>12
    <3>3. ~Red(q, uncle) BY <1>0, <1>1, <1>2, <1>3, <1>12
    <3>4. ~Red(q, inner) BY <1>0, <1>1, <1>2, <2>3, <3>1 DEF inner
    <3>5. QED BY <1>1, <1>12, <2>1, <2>5, <3>3, <3>4
  <2>6. CASE n # over
    <3>1. Kid(t, s, n) # over /\ Kid(q, s, n) = Kid(t, s, n) BY <1>12, <2>2, <2>4, <2>6
    <3>2. Red(t, n) /\ Red(t, Kid(t, s, n)) BY <1>3, <1>12, <2>1, <2>2, <2>4, <2>6, <3>1
    <3>3. QED BY <2>1, <2>3, <3>1, <3>2
  <2>7. QED BY <2>5, <2>6
<1>17. Red(q, child) BY <1>0, <1>1, <1>2, <1>3, <1>12
<1>18. ~Red(q, Top(q)) BY <1>0, <1>1, <1>2, <1>3, <1>12
<1>19. Mend(q, v, c, child) BY <1>0, <1>4, <1>8, <1>15, <1>16, <1>17, <1>18 DEF Mend
<1>20. ~Red(q, Up(q, child))
  <2>1. Up(q, Kid(q, side, top)) = top BY <1>0, <1>8, <1>12 DEF Shape
  <2>2. QED BY <1>1, <1>3, <1>12, <2>1
<1>21. b[child] + 1 <= c[Top(q)]
  <2>1. c[top] = b[child] + 1 BY <1>11, <1>13
  <2>2. Top(q) \in Nodes BY <1>8, InTree
  <2>3. top \in v[Top(q)]
    <3>1. top \in u[Top(t)] BY <1>0, <1>1, InTree
    <3>2. QED BY <1>4, <1>8, <3>1
  <2>4. \A n \in Nodes : \A m \in v[n] : c[m] <= c[n] BY <1>8, <1>15, Outweighs
  <2>5. QED BY <2>1, <2>2, <2>3, <2>4
<1>22. QED BY <1>4, <1>8, <1>19, <1>20, <1>21

\* A black uncle and z between its parent and its grandparent: z comes up first, and
\* then there are three nodes in a line.
LEMMA TurnInner ==
  ASSUME NEW t, NEW u, NEW b, NEW z, Mend(t, u, b, z),
         NEW p, NEW g, NEW side, NEW far, NEW y, Grand(t, z, p, g, side, far, y), ~Red(t, y),
         z = Kid(t, far, p), NEW q, q = Rotate(t, p, side)
  PROVE  /\ Up(q, p) = z /\ Up(q, z) = g
         /\ \E v, c : Line(q, v, c, p, z, g, side, far) /\ v[Top(q)] = u[Top(t)] /\ c[p] = b[z]
<1> DEFINE inner == Kid(t, side, z)
<1>0. /\ t \in Trees /\ Shape(t, u) /\ z \in Keys /\ z \in Nodes /\ z # nil
      /\ p \in Keys /\ p \in Nodes /\ p # nil /\ p \in u[Top(t)] /\ p # z
      /\ g \in Keys /\ g \in Nodes /\ g # nil /\ g \in u[Top(t)] /\ g # p /\ g # z /\ ~Red(t, g)
      /\ side \in Sides /\ far \in Sides /\ far # side
      /\ (\A s \in Sides : s = side \/ s = far) /\ far = Opposite(side)
      /\ Kid(t, side, g) = p /\ Kid(t, far, g) = y /\ y \in Nodes /\ y # p /\ y # g /\ y # z
      /\ Up(t, z) = p /\ Up(t, p) = g /\ Red(t, p) /\ Red(t, z)
      /\ Top(t) # p /\ Top(t) # z /\ ~Red(t, Top(t))
  BY GrandFacts
<1>1. /\ Weighed(t, b, {}) /\ RedOk(t, {z}, {}) BY DEF Mend
<1>2. Turn(t, p, side, far, z, inner, g)
  <2>1. z = Kid(t, far, p) /\ g = Up(t, p) BY <1>0
  <2>2. QED BY <1>0, <2>1 DEF Turn
<1> HIDE DEF inner
<1>3. Rotated(t, q, p, side, far, z, inner, g) BY <1>0, <1>2, RotateFields
<1>4. PICK v : Shape(q, v) /\ v[Top(q)] = u[Top(t)] BY <1>0, <1>2, <1>3, RotateShape
<1>5. /\ inner \in Nodes /\ inner # z BY <1>0, <1>2, RotatePlaces
<1>6. b \in [Nodes -> Nat] /\ b[nil] = 0 /\ (\A n \in Keys : Level(t, b, n)) /\ b[p] \in Nat
  BY <1>0, <1>1 DEF Weighed
<1>7. PICK c : Reweighed(b, c, p, b[p], z)
  <2>1. \E c : Reweighed(b, c, p, b[p], z) BY <1>0, <1>6, Reweighing
  <2>2. QED BY <2>1
<1>8. /\ c \in [Nodes -> Nat] /\ c[p] = b[p] /\ c[z] = b[p]
      /\ \A n \in Nodes : n # p /\ n # z => c[n] = b[n]
  BY <1>7 DEF Reweighed
<1>9. /\ q \in Trees /\ Kid(q, far, p) = inner /\ Kid(q, side, p) = Kid(t, side, p)
      /\ Kid(q, side, z) = p /\ Kid(q, far, z) = Kid(t, far, z)
      /\ Up(q, p) = z /\ Up(q, z) = g
      /\ \A n \in Nodes : Red(q, n) = Red(t, n)
      /\ \A s \in Sides, n \in Nodes \ {p, z} :
           /\ Kid(t, s, n) = p => Kid(q, s, n) = z
           /\ Kid(t, s, n) # p => Kid(q, s, n) = Kid(t, s, n)
      /\ Top(q) = Top(t)
  BY <1>0, <1>3 DEF Rotated
<1>10. b[z] = b[p] /\ (\A s \in Sides : b[Kid(t, s, p)] = b[p] /\ b[Kid(t, s, z)] = b[p])
  <2>1. Weight(t, p) = 0 /\ Weight(t, z) = 0 BY <1>0 DEF Weight
  <2>2. \A s \in Sides : /\ b[p] = b[Kid(t, s, p)] + Weight(t, p)
                         /\ b[z] = b[Kid(t, s, z)] + Weight(t, z)
    BY <1>0, <1>6 DEF Level
  <2>3. \A s \in Sides : b[Kid(t, s, p)] \in Nat /\ b[Kid(t, s, z)] \in Nat
    BY <1>0, <1>6, ShapeFacts
  <2>4. \A s \in Sides : b[p] = b[Kid(t, s, p)] /\ b[z] = b[Kid(t, s, z)] BY <2>1, <2>2, <2>3
  <2>5. b[z] = b[p] BY <1>0, <2>4
  <2>6. QED BY <2>4, <2>5
\* The heights stay as they were.
<1>11. \A n \in Nodes : c[n] = b[n] BY <1>8, <1>10
<1>12. ASSUME NEW n \in Keys PROVE Level(q, c, n)
  <2>1. CASE n = p \/ n = z
    <3>1. Weight(q, n) = 0 BY <1>0, <1>9, <2>1 DEF Weight
    <3>2. ASSUME NEW s \in Sides PROVE c[n] = c[Kid(q, s, n)] + Weight(q, n)
      <4>1. Kid(q, s, n) \in Nodes BY <1>4, KeyFacts, ShapeFacts
      <4>2. Kid(q, s, n) \in {inner, p, Kid(t, side, p), Kid(t, far, z)} BY <1>0, <1>9, <2>1
      <4>3. b[inner] = b[p] BY <1>0, <1>10 DEF inner
      <4>4. b[Kid(q, s, n)] = b[p] BY <1>0, <1>10, <4>2, <4>3
      <4>5. c[n] = b[p] BY <1>8, <2>1
      <4>6. QED BY <1>6, <1>11, <3>1, <4>1, <4>4, <4>5
    <3>3. QED BY <3>2 DEF Level
  <2>2. CASE n # p /\ n # z BY <1>0, <1>2, <1>3, <1>6, <1>7, <2>2, RotateLevel
  <2>3. QED BY <2>1, <2>2
<1>13. Weighed(q, c, {}) BY <1>0, <1>6, <1>8, <1>12, KeyFacts DEF Weighed
<1>14. RedOk(q, {p}, {})
  <2>1. SUFFICES ASSUME NEW n \in Keys, NEW s \in Sides, Red(q, n), Red(q, Kid(q, s, n)),
                        Kid(q, s, n) # p
                 PROVE  FALSE
    BY DEF RedOk
  <2>2. \A j \in Keys, r \in Sides : Red(t, j) /\ Red(t, Kid(t, r, j)) => Kid(t, r, j) = z
    BY <1>1 DEF RedOk
  <2>3. n \in Nodes /\ Kid(q, s, n) \in Nodes /\ Kid(t, s, n) \in Nodes
    BY <1>0, <1>4, KeyFacts, ShapeFacts
  <2>4. Red(t, n) /\ Red(t, Kid(q, s, n)) BY <1>9, <2>1, <2>3
  <2>5. CASE n = p
    <3>1. ~Red(t, inner) BY <1>0, <1>5, <2>2 DEF inner
    <3>2. Kid(t, side, p) # z BY <1>0, ShapeFacts
    <3>3. ~Red(t, Kid(t, side, p)) BY <1>0, <2>2, <3>2
    <3>4. Kid(q, s, n) \in {inner, Kid(t, side, p)} BY <1>0, <1>9, <2>5
    <3>5. QED BY <2>4, <3>1, <3>3, <3>4
  <2>6. CASE n = z
    <3>1. Kid(t, far, z) # z BY <1>0, ShapeFacts
    <3>2. ~Red(t, Kid(t, far, z)) BY <1>0, <2>2, <3>1
    <3>3. Kid(q, s, n) \in {p, Kid(t, far, z)} BY <1>0, <1>9, <2>6
    <3>4. QED BY <2>1, <2>4, <3>2, <3>3
  <2>7. CASE n # p /\ n # z
    <3>1. CASE Kid(t, s, n) = p
      <4>1. n = g BY <1>0, <2>3, <3>1, InTree
      <4>2. QED BY <1>0, <2>4, <4>1
    <3>2. CASE Kid(t, s, n) # p
      <4>1. Kid(q, s, n) = Kid(t, s, n) BY <1>9, <2>3, <2>7, <3>2
      <4>2. Kid(t, s, n) = z BY <2>2, <2>4, <4>1
      <4>3. n = p BY <1>0, <2>3, <4>2, InTree
      <4>4. QED BY <2>7, <4>3
    <3>3. QED BY <3>1, <3>2
  <2>8. QED BY <2>5, <2>6, <2>7
<1>15. /\ Kid(q, side, g) = z /\ Kid(q, far, g) = y BY <1>0, <1>9
<1>16. Top(t) \in Nodes BY <1>0, InTree
<1>17. Line(q, v, c, p, z, g, side, far)
  BY <1>0, <1>4, <1>9, <1>13, <1>14, <1>15, <1>16 DEF Line
<1>18. c[p] = b[z] BY <1>8, <1>10
<1>19. QED BY <1>4, <1>9, <1>17, <1>18

\* InsertFixup in terms of the nodes it looks at.
Turned(t, child, top, over, far) ==
  [tree |-> Rotate(Exchanged(t, top, over), over, far), node |-> child]
Mended(t, z, p, g, side, far, y) ==
  IF t.red[y] THEN [tree |-> Recoloured(t, p, y, g), node |-> g]
  ELSE LET straight == IF z = t[far][p] THEN Rotate(t, p, side) ELSE t
           child == IF z = t[far][p] THEN p ELSE z
       IN  Turned(straight, child, straight.parent[child],
                  straight.parent[straight.parent[child]], far)
MendedAt(t, z, p, g, side, far) == Mended(t, z, p, g, side, far, t[far][g])
MendedSide(t, z, p, g, side) == MendedAt(t, z, p, g, side, Opposite(side))

\* The cases of an iteration.
LEMMA InsertFixupSteps ==
  ASSUME NEW t, NEW z
  PROVE  InsertFixup(t, z) = MendedSide(t, z, t.parent[z], t.parent[t.parent[z]],
                                        SideOf(t, t.parent[z], t.parent[t.parent[z]]))
BY DEF InsertFixup, MendedSide, MendedAt, Mended, Turned, Exchanged, Recoloured, SideOf

Between(t, z, far, p) == z = Kid(t, far, p)

\* The three cases: a red uncle, z between its parent and its grandparent, and a line.
LEMMA MendedRecolours ==
  ASSUME NEW t, NEW z, NEW p, NEW g, NEW side, NEW far, NEW y, Red(t, y)
  PROVE  Mended(t, z, p, g, side, far, y) = [tree |-> Recoloured(t, p, y, g), node |-> g]
BY ZenonT(60) DEF Mended, Red

LEMMA MendedInner ==
  ASSUME NEW t, NEW z, NEW p, NEW g, NEW side, NEW far, NEW y, ~Red(t, y), Between(t, z, far, p)
  PROVE  LET q == Rotate(t, p, side)
         IN  Mended(t, z, p, g, side, far, y) = Turned(q, p, Up(q, p), Up(q, Up(q, p)), far)
BY ZenonT(60) DEF Mended, Red, Up, Kid, Between

LEMMA MendedOuter ==
  ASSUME NEW t, NEW z, NEW p, NEW g, NEW side, NEW far, NEW y, ~Red(t, y), ~Between(t, z, far, p)
  PROVE  Mended(t, z, p, g, side, far, y) = Turned(t, z, Up(t, z), Up(t, Up(t, z)), far)
BY ZenonT(60) DEF Mended, Red, Up, Kid, Between

\* A rotation ends the repair, with one round more.
LEMMA RisenAtEnd ==
  ASSUME NEW t, NEW u, NEW b, NEW z, Mend(t, u, b, z), NEW r \in Nat, NEW m \in Nat, r <= m,
         ~Red(t, Up(t, z)), m + 1 <= b[Top(t)]
  PROVE  Risen(t, b, z, r + 1)
<1>1. b[Top(t)] \in Nat
  <2>1. Shape(t, u) /\ b \in [Nodes -> Nat] BY DEF Mend, Weighed
  <2>2. Top(t) \in Nodes BY <2>1, InTree
  <2>3. QED BY <2>1, <2>2
<1>2. r + 1 <= b[Top(t)] BY <1>1
<1>3. QED BY <1>2 DEF Risen

\* An iteration of InsertFixup leaves a tree that is being repaired at the next node.
LEMMA InsertFixupMends ==
  ASSUME NEW t, NEW u, NEW b, NEW z, Mend(t, u, b, z), Red(t, Up(t, z)),
         NEW r \in Nat, Risen(t, b, z, r), NEW next, next = InsertFixup(t, z)
  PROVE  \E v, c : /\ Mend(next.tree, v, c, next.node) /\ v[Top(next.tree)] = u[Top(t)]
                   /\ Risen(next.tree, c, next.node, r + 1)
<1> DEFINE p == Up(t, z)
           g == Up(t, p)
           side == SideOf(t, p, g)
           far == Opposite(side)
           y == Kid(t, far, g)
<1>1. Grand(t, z, p, g, side, far, y) BY Zenon DEF Grand
<1>2. next = Mended(t, z, p, g, side, far, y)
  BY InsertFixupSteps, Zenon DEF MendedSide, MendedAt, Up, Kid
<1> HIDE DEF p, g, side, far, y
<1>3. /\ Shape(t, u) /\ z \in Keys /\ z \in Nodes /\ z # nil
      /\ p \in Keys /\ p # nil /\ p # z
      /\ g \in Keys /\ g \in u[Top(t)] /\ ~Red(t, g)
      /\ side \in Sides /\ far = Opposite(side)
      /\ Kid(t, side, g) = p /\ Kid(t, far, g) = y
      /\ Up(t, z) = p /\ Up(t, p) = g
      /\ Red(t, p) /\ Red(t, z) /\ (Kid(t, side, p) = z \/ Kid(t, far, p) = z)
      /\ ~Red(t, Top(t))
  BY <1>1, GrandFacts
<1>4. Weighed(t, b, {}) /\ RedOk(t, {z}, {}) /\ z \in u[Top(t)] /\ b \in [Nodes -> Nat]
  BY DEF Mend, Weighed
<1>4a. r <= b[z] /\ b[z] \in Nat BY <1>3, <1>4 DEF Risen
<1>5. CASE Red(t, y)
  <2>1. next = [tree |-> Recoloured(t, p, y, g), node |-> g] BY <1>2, <1>5, MendedRecolours
  <2>2. next.tree = Recoloured(t, p, y, g) /\ next.node = g BY <2>1
  <2>3. Top(next.tree) = Top(t) /\ \E c : Mend(next.tree, u, c, g) /\ c[g] = b[z] + 1
    BY <1>1, <1>5, <2>2, RedUncle
  <2>4. PICK c : Mend(next.tree, u, c, g) /\ c[g] = b[z] + 1 BY <2>3
  <2>5. r + 1 <= c[g] BY <1>4a, <2>4
  <2>6. Risen(next.tree, c, g, r + 1) BY <2>5 DEF Risen
  <2>7. QED BY <2>2, <2>3, <2>4, <2>6
<1>6. CASE ~Red(t, y) /\ Between(t, z, far, p)
  <2> DEFINE q == Rotate(t, p, side)
  <2>1. q = Rotate(t, p, side) OBVIOUS
  <2>2. next = Turned(q, p, Up(q, p), Up(q, Up(q, p)), far) BY <1>2, <1>6, MendedInner
  <2> HIDE DEF q
  <2>3. /\ Up(q, p) = z /\ Up(q, z) = g
        /\ \E v, c : Line(q, v, c, p, z, g, side, far) /\ v[Top(q)] = u[Top(t)] /\ c[p] = b[z]
    BY <1>1, <1>6, <2>1, TurnInner DEF Between
  <2>4. PICK v, c : Line(q, v, c, p, z, g, side, far) /\ v[Top(q)] = u[Top(t)] /\ c[p] = b[z]
    BY <2>3
  <2>5. next = Turned(q, p, z, g, far) BY <2>2, <2>3
  <2>6. next.tree = Rotate(Exchanged(q, z, g), g, far) /\ next.node = p BY <2>5 DEF Turned
  <2>7. \E w, d : /\ Mend(next.tree, w, d, p) /\ w[Top(next.tree)] = v[Top(q)]
                  /\ ~Red(next.tree, Up(next.tree, p)) /\ c[p] + 1 <= d[Top(next.tree)]
    BY <2>4, <2>6, TurnLine
  <2>8. PICK w, d : /\ Mend(next.tree, w, d, p) /\ w[Top(next.tree)] = v[Top(q)]
                    /\ ~Red(next.tree, Up(next.tree, p)) /\ c[p] + 1 <= d[Top(next.tree)]
    BY <2>7
  <2>9. Risen(next.tree, d, p, r + 1) BY <1>4a, <2>4, <2>8, RisenAtEnd
  <2>10. QED BY <2>4, <2>6, <2>8, <2>9
<1>7. CASE ~Red(t, y) /\ ~Between(t, z, far, p)
  <2>1. next = Turned(t, z, Up(t, z), Up(t, Up(t, z)), far) BY <1>2, <1>7, MendedOuter
  <2>2. next = Turned(t, z, p, g, far) BY <1>3, <2>1
  <2>3. next.tree = Rotate(Exchanged(t, p, g), g, far) /\ next.node = z BY <2>2 DEF Turned
  <2>4. Line(t, u, b, z, p, g, side, far) BY <1>3, <1>4, <1>7 DEF Line, Between
  <2>5. \E w, d : /\ Mend(next.tree, w, d, z) /\ w[Top(next.tree)] = u[Top(t)]
                  /\ ~Red(next.tree, Up(next.tree, z)) /\ b[z] + 1 <= d[Top(next.tree)]
    BY <2>3, <2>4, TurnLine
  <2>6. PICK w, d : /\ Mend(next.tree, w, d, z) /\ w[Top(next.tree)] = u[Top(t)]
                    /\ ~Red(next.tree, Up(next.tree, z)) /\ b[z] + 1 <= d[Top(next.tree)]
    BY <2>5
  <2>7. Risen(next.tree, d, z, r + 1) BY <1>4a, <2>6, RisenAtEnd
  <2>8. QED BY <2>3, <2>6, <2>7
<1>8. QED BY <1>5, <1>6, <1>7

-----------------------------------------------------------------------------
(* The repair of an erasure *)

\* An erasure is being repaired at x, the child of p on side s: the ways down through it
\* pass one black node less.  Only at x may a red node have a red child.
Lacking(t, u, b, x, p, s) ==
  /\ Shape(t, u) /\ Weighed(t, b, {p}) /\ RedOk(t, {x}, {x}) /\ ~Red(t, Top(t))
  /\ p \in u[Top(t)] /\ s \in Sides /\ Kid(t, s, p) = x /\ Up(t, x) = p
  /\ b[Kid(t, Opposite(s), p)] = b[x] + 1
  /\ b[p] = b[x] + 1 + Weight(t, p)

\* The repair is done but for the colour of x, the root.
Whole(t, u, b, x) ==
  /\ Shape(t, u) /\ Weighed(t, b, {}) /\ RedOk(t, {x}, {x}) /\ x = Top(t)

\* After r rounds of the repair x is r black nodes up, or one less at its end, a red node.
Climbed(t, b, x, r) == r <= b[x] \/ (Red(t, x) /\ x # Top(t) /\ r <= b[x] + 1)

\* The sibling of x is a node, for it has a black node more below it than x, and the
\* nodes are different.
LEMMA LackingFacts ==
  ASSUME NEW t, NEW u, NEW b, NEW x, NEW p, NEW s, Lacking(t, u, b, x, p, s),
         NEW far, far = Opposite(s), NEW w, w = Kid(t, far, p)
  PROVE  /\ t \in Trees /\ Shape(t, u) /\ p \in u[Top(t)] /\ p \in Keys /\ p \in Nodes /\ p # nil
         /\ s \in Sides /\ far \in Sides /\ far # s /\ (\A r \in Sides : r = s \/ r = far)
         /\ Opposite(s) = far /\ Opposite(far) = s
         /\ Kid(t, s, p) = x /\ Kid(t, far, p) = w /\ Up(t, x) = p
         /\ w \in Keys /\ w \in Nodes /\ w # nil /\ w \in u[Top(t)] /\ Up(t, w) = p
         /\ x \in Nodes /\ x # w /\ x # p /\ w # p /\ w # Top(t) /\ Top(t) \in Nodes
         /\ b \in [Nodes -> Nat] /\ b[nil] = 0 /\ (\A n \in Keys : n # p => Level(t, b, n))
         /\ b[x] \in Nat /\ b[w] \in Nat /\ b[p] \in Nat
         /\ b[w] = b[x] + 1 /\ b[p] = b[x] + 1 + Weight(t, p)
         /\ SideOf(t, x, p) = s
<1>0. /\ Shape(t, u) /\ Weighed(t, b, {p})
      /\ p \in u[Top(t)] /\ s \in Sides /\ Kid(t, s, p) = x /\ Up(t, x) = p
      /\ b[w] = b[x] + 1 /\ b[p] = b[x] + 1 + Weight(t, p) /\ w = Kid(t, far, p) /\ far = Opposite(s)
  BY DEF Lacking
<1>1. /\ t \in Trees /\ p \in Keys /\ p \in Nodes /\ p # nil /\ Top(t) \in Nodes
  BY <1>0, InTree, KeyFacts DEF Shape
<1>2. /\ far \in Sides /\ far # s /\ (\A r \in Sides : r = s \/ r = far)
      /\ Opposite(s) = far /\ Opposite(far) = s
  BY <1>0, SideFacts
<1>3. x \in Nodes /\ w \in Nodes /\ x # p /\ w # p BY <1>0, <1>1, <1>2, ShapeFacts
<1>4. /\ b \in [Nodes -> Nat] /\ b[nil] = 0 /\ (\A n \in Keys : n # p => Level(t, b, n))
      /\ b[x] \in Nat /\ b[w] \in Nat /\ b[p] \in Nat
  BY <1>0, <1>1, <1>3 DEF Weighed
<1>5. w # nil BY <1>0, <1>4
<1>6. w \in Keys /\ w \in u[Top(t)] /\ Up(t, w) = p /\ w # Top(t)
  BY <1>0, <1>1, <1>2, <1>3, <1>5, InTree, KeyFacts
<1>7. x # w BY <1>0, <1>1, <1>2, <1>5, ShapeFacts
<1>8. SideOf(t, x, p) = s
  <2>1. Kid(t, "left", p) = t.left[p] /\ Kid(t, "right", p) = t.right[p] BY <1>1, TreeFields
  <2>2. CASE s = "left" BY <1>0, <2>1, <2>2 DEF SideOf
  <2>3. CASE s = "right"
    <3>1. far = "left" BY <1>0, <2>3, SideFacts
    <3>2. x # t.left[p] BY <1>0, <1>7, <2>1, <3>1
    <3>3. QED BY <2>3, <3>2 DEF SideOf
  <2>4. QED BY <1>0, <2>2, <2>3, SideFacts
<1>9. QED BY <1>0, <1>1, <1>2, <1>3, <1>4, <1>5, <1>6, <1>7, <1>8

\* A red sibling comes up: the sibling is black then.
LEMMA RedSibling ==
  ASSUME NEW t, NEW u, NEW b, NEW x, NEW p, NEW s, Lacking(t, u, b, x, p, s), ~Red(t, x),
         NEW far, far = Opposite(s), NEW w, w = Kid(t, far, p), Red(t, w),
         NEW h, h = Exchanged(t, w, p), NEW q, q = Rotate(h, p, s)
  PROVE  \E v, c : /\ Lacking(q, v, c, x, p, s) /\ v[Top(q)] = u[Top(t)]
                   /\ ~Red(q, x) /\ ~Red(q, Kid(q, far, p)) /\ c[x] = b[x]
<1> DEFINE inner == Kid(t, s, w)
           outer == Kid(t, far, w)
           g == Up(t, p)
<1>0. /\ t \in Trees /\ Shape(t, u) /\ p \in u[Top(t)] /\ p \in Keys /\ p \in Nodes /\ p # nil
      /\ s \in Sides /\ far \in Sides /\ far # s /\ (\A r \in Sides : r = s \/ r = far)
      /\ Opposite(s) = far /\ Opposite(far) = s
      /\ Kid(t, s, p) = x /\ Kid(t, far, p) = w /\ Up(t, x) = p
      /\ w \in Keys /\ w \in Nodes /\ w # nil /\ w \in u[Top(t)] /\ Up(t, w) = p
      /\ x \in Nodes /\ x # w /\ x # p /\ w # p /\ w # Top(t) /\ Top(t) \in Nodes
      /\ b \in [Nodes -> Nat] /\ b[nil] = 0 /\ (\A n \in Keys : n # p => Level(t, b, n))
      /\ b[x] \in Nat /\ b[w] \in Nat /\ b[p] \in Nat
      /\ b[w] = b[x] + 1 /\ b[p] = b[x] + 1 + Weight(t, p)
  BY LackingFacts
<1>1. \A n \in Keys, r \in Sides : Red(t, n) /\ Red(t, Kid(t, r, n)) => Kid(t, r, n) = x \/ n = x
  BY DEF Lacking, RedOk
<1>2. ~Red(t, p) /\ ~Red(t, Top(t))
  <2>1. ~Red(t, p) BY <1>0, <1>1
  <2>2. QED BY <2>1 DEF Lacking
<1>3. /\ Painted(t, h) /\ Red(h, p) /\ ~Red(h, w)
      /\ \A n \in Nodes : n # w /\ n # p => Red(h, n) = Red(t, n)
  BY <1>0, ExchangedFields
<1>4. /\ Top(h) = Top(t) /\ h \in Trees
      /\ \A n \in Nodes : Up(h, n) = Up(t, n)
      /\ \A r \in Sides, n \in Nodes : Kid(h, r, n) = Kid(t, r, n) /\ Kid(t, r, n) \in Nodes
  BY <1>0, <1>3, ShapeFacts DEF Painted
<1>5. Shape(h, u)
  <2>1. \A n \in Nodes : Red(t, n) => n \in u[Top(t)] BY <1>0, InTree, KeyFacts DEF Shape
  <2>2. \A n \in Nodes : Red(h, n) => n \in u[Top(t)] BY <1>0, <1>3, <2>1
  <2>3. QED BY <1>0, <1>3, <2>2, PaintedShape
<1>6. Turn(h, p, s, far, w, inner, g) /\ p \in u[Top(h)]
  <2>1. /\ w = Kid(h, far, p) /\ inner = Kid(h, s, w) /\ g = Up(h, p)
    BY <1>0, <1>4
  <2> HIDE DEF inner, g
  <2>2. QED BY <1>0, <1>4, <2>1 DEF Turn
<1> HIDE DEF g
<1>7. Rotated(h, q, p, s, far, w, inner, g) BY <1>5, <1>6, RotateFields
<1>8. PICK v : Shape(q, v) /\ v[Top(q)] = u[Top(h)] BY <1>5, <1>6, <1>7, RotateShape
<1>9. /\ inner \in Nodes /\ outer \in Nodes /\ inner # w /\ outer # w /\ inner # p /\ outer # p
      /\ (inner # nil => Up(t, inner) = w) /\ (outer # nil => Up(t, outer) = w)
      /\ x = nil \/ x # inner
  <2>1. inner \in Nodes /\ outer \in Nodes /\ inner # w /\ outer # w BY <1>0, ShapeFacts
  <2>2. (inner # nil => Up(t, inner) = w) /\ (outer # nil => Up(t, outer) = w) BY <1>0, InTree
  <2>3. inner # p /\ outer # p
    <3>1. u[inner] \subseteq u[w] /\ u[outer] \subseteq u[w] /\ p \notin u[w] /\ p \in u[p]
      BY <1>0, ShapeFacts
    <3>2. QED BY <3>1
  <2>4. x = nil \/ x # inner BY <1>0, <2>2
  <2>5. QED BY <2>1, <2>2, <2>3, <2>4
<1>10. b[inner] = b[x] + 1 /\ b[outer] = b[x] + 1 /\ b[p] = b[x] + 2
  <2>1. Weight(t, w) = 0 /\ Weight(t, p) = 1 BY <1>2 DEF Weight
  <2>2. b[w] = b[inner] + Weight(t, w) /\ b[w] = b[outer] + Weight(t, w) BY <1>0 DEF Level
  <2>3. b[inner] \in Nat /\ b[outer] \in Nat BY <1>0, <1>9
  <2>4. QED BY <1>0, <2>1, <2>2, <2>3
<1> HIDE DEF inner, outer
<1>11. PICK c : Reweighed(b, c, p, b[x] + 1, w)
  <2>1. b[x] + 1 \in Nat BY <1>0
  <2>2. \E c : Reweighed(b, c, p, b[x] + 1, w) BY <1>0, <2>1, Reweighing
  <2>3. QED BY <2>2
<1>12. /\ c \in [Nodes -> Nat] /\ c[p] = b[x] + 1 /\ c[w] = b[p]
       /\ \A n \in Nodes : n # p /\ n # w => c[n] = b[n]
  BY <1>11 DEF Reweighed
<1>13. /\ q \in Trees /\ Kid(q, far, p) = inner /\ Kid(q, s, p) = x
       /\ Kid(q, s, w) = p /\ Kid(q, far, w) = outer
       /\ \A n \in Nodes : Red(q, n) = Red(h, n)
       /\ \A r \in Sides, n \in Nodes \ {p, w} :
            /\ Kid(t, r, n) = p => Kid(q, r, n) = w
            /\ Kid(t, r, n) # p => Kid(q, r, n) = Kid(t, r, n)
       /\ Top(t) = p => Top(q) = w
       /\ Top(t) # p => Top(q) = Top(t)
       /\ \A n \in Nodes \ {p, w} : n # inner \/ n = nil => Up(q, n) = Up(h, n)
  BY <1>0, <1>4, <1>7 DEF Rotated, outer
<1>14. ASSUME NEW n \in Keys, n # p PROVE Level(q, c, n)
  <2>1. CASE n = w
    <3>1. Weight(q, w) = 1 BY <1>0, <1>3, <1>13 DEF Weight
    <3>2. c[outer] = b[x] + 1 BY <1>9, <1>10, <1>12
    <3>3. ASSUME NEW r \in Sides PROVE c[w] = c[Kid(q, r, w)] + Weight(q, w)
      <4>1. CASE r = s BY <1>0, <1>10, <1>12, <1>13, <3>1, <4>1
      <4>2. CASE r = far BY <1>0, <1>10, <1>12, <1>13, <3>1, <3>2, <4>2
      <4>3. QED BY <1>0, <4>1, <4>2
    <3>4. QED BY <2>1, <3>3 DEF Level
  <2>2. CASE n # w
    <3>1. n \in Nodes /\ Weight(h, n) = Weight(t, n) BY <1>3, <1>14, <2>2, KeyFacts DEF Weight
    <3>2. Level(h, b, n) BY <1>0, <1>4, <1>14, <3>1 DEF Level
    <3>3. QED BY <1>5, <1>6, <1>7, <1>11, <1>14, <2>2, <3>2, RotateLevel
  <2>3. QED BY <2>1, <2>2
<1>15. Weighed(q, c, {p}) BY <1>0, <1>12, <1>14, KeyFacts DEF Weighed
<1>16. ASSUME NEW n \in Keys, NEW r \in Sides, Red(q, n), Red(q, Kid(q, r, n))
       PROVE  Kid(q, r, n) = x \/ n = x
  <2>1. n \in Nodes /\ Kid(q, r, n) \in Nodes /\ Kid(t, r, n) \in Nodes
    BY <1>4, <1>8, KeyFacts, ShapeFacts
  <2>2. n # w /\ Kid(q, r, n) # w BY <1>0, <1>3, <1>13, <1>16
  <2>3. CASE n = p
    <3>1. Red(q, inner) => inner = x
      <4>1. Red(q, inner) => Red(t, inner) BY <1>3, <1>9, <1>13
      <4>2. Red(t, inner) => inner = x BY <1>0, <1>1 DEF inner
      <4>3. QED BY <4>1, <4>2
    <3>2. QED BY <1>0, <1>13, <1>16, <2>3, <3>1
  <2>4. CASE n # p
    <3>1. Kid(t, r, n) # p /\ Kid(q, r, n) = Kid(t, r, n) BY <1>13, <2>1, <2>2, <2>4
    <3>2. Red(t, n) /\ Red(t, Kid(t, r, n)) BY <1>3, <1>13, <1>16, <2>1, <2>2, <2>4, <3>1
    <3>3. QED BY <1>1, <3>1, <3>2
  <2>5. QED BY <2>3, <2>4
<1>17. RedOk(q, {x}, {x}) BY <1>16 DEF RedOk
<1>18. ~Red(q, x) /\ ~Red(q, inner)
  <2>1. ~Red(q, x) BY <1>0, <1>3, <1>13
  <2>2. ~Red(t, inner) BY <1>0, <1>1 DEF inner
  <2>3. QED BY <1>3, <1>9, <1>13, <2>1, <2>2
<1>19. ~Red(q, Top(q))
  <2>1. Top(t) # p => ~Red(q, Top(q)) BY <1>0, <1>2, <1>3, <1>13
  <2>2. QED BY <1>0, <1>3, <1>13, <2>1
<1>20. Up(q, x) = p BY <1>0, <1>4, <1>9, <1>13
<1>21. p \in v[Top(q)] /\ v[Top(q)] = u[Top(t)] BY <1>0, <1>4, <1>8
<1>22. c[Kid(q, Opposite(s), p)] = c[x] + 1 /\ c[p] = c[x] + 1 + Weight(q, p)
  <2>1. c[x] = b[x] /\ c[inner] = b[x] + 1 BY <1>0, <1>9, <1>10, <1>12
  <2>2. Weight(q, p) = 0 BY <1>0, <1>3, <1>13 DEF Weight
  <2>3. QED BY <1>0, <1>12, <1>13, <2>1, <2>2
<1>23. Lacking(q, v, c, x, p, s)
  BY <1>0, <1>8, <1>13, <1>15, <1>17, <1>19, <1>20, <1>21, <1>22 DEF Lacking
<1>24. c[x] = b[x] BY <1>0, <1>9, <1>12
<1>25. QED BY <1>13, <1>18, <1>21, <1>23, <1>24

\* An erasure is being repaired at x.
Short(t, u, b, x) == Whole(t, u, b, x) \/ \E p, s : Lacking(t, u, b, x, p, s)

\* A black sibling with black children takes the parent's part: the repair goes on there.
LEMMA BlackNephews ==
  ASSUME NEW t, NEW u, NEW b, NEW x, NEW p, NEW s, Lacking(t, u, b, x, p, s), ~Red(t, x),
         NEW far, far = Opposite(s), NEW w, w = Kid(t, far, p), ~Red(t, w),
         \A r \in Sides : ~Red(t, Kid(t, r, w)),
         NEW h, h = Redden(t, w), NEW k \in Nat, k <= b[x]
  PROVE  Top(h) = Top(t) /\ \E c : Short(h, u, c, p) /\ Climbed(h, c, p, k + 1)
<1> DEFINE c == [n \in Nodes |-> IF n = w THEN b[x] ELSE IF n = p THEN b[x] + Weight(t, p) ELSE b[n]]
<1>0. /\ t \in Trees /\ Shape(t, u) /\ p \in u[Top(t)] /\ p \in Keys /\ p \in Nodes /\ p # nil
      /\ s \in Sides /\ far \in Sides /\ far # s /\ (\A r \in Sides : r = s \/ r = far)
      /\ Opposite(s) = far /\ Opposite(far) = s
      /\ Kid(t, s, p) = x /\ Kid(t, far, p) = w /\ Up(t, x) = p
      /\ w \in Keys /\ w \in Nodes /\ w # nil /\ w \in u[Top(t)] /\ Up(t, w) = p
      /\ x \in Nodes /\ x # w /\ x # p /\ w # p /\ w # Top(t) /\ Top(t) \in Nodes
      /\ b \in [Nodes -> Nat] /\ b[nil] = 0 /\ (\A n \in Keys : n # p => Level(t, b, n))
      /\ b[x] \in Nat /\ b[w] \in Nat /\ b[p] \in Nat
      /\ b[w] = b[x] + 1 /\ b[p] = b[x] + 1 + Weight(t, p)
  BY LackingFacts
<1>1. /\ \A n \in Keys, r \in Sides : Red(t, n) /\ Red(t, Kid(t, r, n)) => Kid(t, r, n) = x \/ n = x
      /\ ~Red(t, Top(t))
  BY DEF Lacking, RedOk
<1>2. /\ h \in Trees /\ Top(h) = Top(t)
      /\ \A n \in Nodes : Up(h, n) = Up(t, n)
      /\ Red(h, w) /\ \A n \in Nodes : n # w => Red(h, n) = Red(t, n)
      /\ \A r \in Sides, n \in Nodes : Kid(h, r, n) = Kid(t, r, n)
  <2>1. t \in Trees /\ w \in Nodes BY <1>0
  <2>2. QED BY <2>1, SetRed
<1>3. \A r \in Sides, n \in Nodes : Kid(t, r, n) \in Nodes BY <1>0, ShapeFacts
<1>4. Shape(h, u)
  <2>1. \A n \in Nodes : Red(t, n) => n \in u[Top(t)] BY <1>0, InTree, KeyFacts DEF Shape
  <2>2. \A n \in Nodes : Red(h, n) => n \in u[Top(t)] BY <1>0, <1>2, <2>1
  <2>3. Painted(t, h) BY <1>2 DEF Painted
  <2>4. QED BY <1>0, <2>2, <2>3, PaintedShape
<1>5. Weight(t, p) \in Nat /\ Weight(t, w) = 1 /\ Weight(h, w) = 0
      /\ \A n \in Nodes : n # w => Weight(h, n) = Weight(t, n)
  BY <1>0, <1>2 DEF Weight
<1>6. /\ c \in [Nodes -> Nat] /\ c[w] = b[x] /\ c[p] = b[x] + Weight(t, p) /\ c[x] = b[x] /\ c[nil] = 0
      /\ \A n \in Nodes : n # w /\ n # p => c[n] = b[n]
  BY <1>0, <1>5, KeyFacts
<1> HIDE DEF c
\* Among the children, w is that of p.
<1>7. \A n \in Keys, r \in Sides : Kid(t, r, n) = w => n = p BY <1>0, KeyFacts, InTree
<1>8. ASSUME NEW n \in Keys, \A r \in Sides : Kid(t, r, n) # p PROVE Level(h, c, n)
  <2>1. SUFFICES ASSUME NEW r \in Sides PROVE c[n] = c[Kid(h, r, n)] + Weight(h, n)
    BY DEF Level
  <2>2. n \in Nodes /\ Kid(h, r, n) = Kid(t, r, n) /\ Kid(t, r, n) \in Nodes BY <1>2, <1>3, KeyFacts
  <2>3. CASE n = w
    <3>1. b[w] = b[Kid(t, r, w)] + 1 BY <1>0, <1>5 DEF Level
    <3>2. Kid(t, r, w) # w /\ Kid(t, r, w) # p BY <1>0, <1>8, <2>3, ShapeFacts
    <3>3. c[Kid(t, r, w)] = b[Kid(t, r, w)] /\ b[Kid(t, r, w)] \in Nat BY <1>0, <1>6, <2>2, <2>3, <3>2
    <3>4. QED BY <1>0, <1>5, <1>6, <2>2, <2>3, <3>1, <3>3
  <2>4. CASE n = p
    <3>1. Kid(t, r, n) = x \/ Kid(t, r, n) = w BY <1>0, <2>4
    <3>2. Weight(h, n) = Weight(t, p) BY <1>0, <1>5, <2>4
    <3>3. QED BY <1>6, <2>2, <2>4, <3>1, <3>2
  <2>5. CASE n # w /\ n # p
    <3>1. b[n] = b[Kid(t, r, n)] + Weight(t, n) BY <1>0, <2>5 DEF Level
    <3>2. Kid(t, r, n) # w /\ Kid(t, r, n) # p BY <1>7, <1>8, <2>5
    <3>3. QED BY <1>5, <1>6, <2>2, <2>5, <3>1, <3>2
  <2>6. QED BY <2>3, <2>4, <2>5
<1>9. RedOk(h, {p}, {p})
  <2>1. SUFFICES ASSUME NEW n \in Keys, NEW r \in Sides, Red(h, n), Red(h, Kid(h, r, n)), n # p
                 PROVE  FALSE
    BY DEF RedOk
  <2>2. n \in Nodes /\ Kid(h, r, n) = Kid(t, r, n) /\ Kid(t, r, n) \in Nodes BY <1>2, <1>3, KeyFacts
  <2>3. Kid(t, r, n) # w BY <1>7, <2>1
  <2>4. Red(t, Kid(t, r, n)) BY <1>2, <2>1, <2>2, <2>3
  <2>5. n # w BY <2>4
  <2>6. Red(t, n) BY <1>2, <2>1, <2>2, <2>5
  <2>7. QED BY <1>1, <2>4, <2>6
<1>9a. Climbed(h, c, p, k + 1)
  <2>1. CASE Red(t, p)
    <3>1. c[p] = b[x] BY <1>0, <1>6, <2>1 DEF Weight
    <3>2. Red(h, p) /\ p # Top(h) BY <1>0, <1>1, <1>2, <2>1
    <3>3. k + 1 <= c[p] + 1 BY <1>0, <3>1
    <3>4. QED BY <3>2, <3>3 DEF Climbed
  <2>2. CASE ~Red(t, p)
    <3>1. Weight(t, p) = 1 BY <2>2 DEF Weight
    <3>2. k + 1 <= c[p] BY <1>0, <1>6, <3>1
    <3>3. QED BY <3>2 DEF Climbed
  <2>3. QED BY <2>1, <2>2
<1>10. ASSUME p = Top(t) PROVE Short(h, u, c, p)
  <2>1. \A n \in Keys, r \in Sides : Kid(t, r, n) # p BY <1>0, <1>10, InTree, KeyFacts
  <2>2. Weighed(h, c, {}) BY <1>6, <1>8, <2>1 DEF Weighed
  <2>3. Whole(h, u, c, p) BY <1>2, <1>4, <1>9, <1>10, <2>2 DEF Whole
  <2>4. QED BY <2>3 DEF Short
<1>11. ASSUME p # Top(t) PROVE Short(h, u, c, p)
  <2>1. PICK g : /\ g = Up(t, p) /\ g \in u[Top(t)] /\ g # p /\ \E r \in Sides : Kid(t, r, g) = p
    BY <1>0, <1>11, InTree
  <2>2. PICK r \in Sides : Kid(t, r, g) = p BY <2>1
  <2>3. g \in Keys /\ g \in Nodes /\ Opposite(r) \in Sides BY <1>0, <2>1, InTree, KeyFacts, SideFacts
  <2>4. \A n \in Keys, i \in Sides : Kid(t, i, n) = p => n = g BY <1>0, <2>1, InTree, KeyFacts
  <2>5. Weighed(h, c, {g}) BY <1>6, <1>8, <2>4 DEF Weighed
  <2>6. Kid(h, r, g) = p /\ Up(h, p) = g /\ Kid(h, Opposite(r), g) = Kid(t, Opposite(r), g)
    BY <1>0, <1>2, <2>1, <2>2, <2>3
  <2> DEFINE o == Kid(t, Opposite(r), g)
  <2>7. o \in Nodes /\ o # p /\ o # w /\ g # w
    <3>1. o \in Nodes /\ o # p BY <1>0, <1>3, <2>2, <2>3, ShapeFacts
    <3>2. o # w BY <1>7, <2>1, <2>3
    <3>3. g # w
      <4>1. SUFFICES ASSUME g = w PROVE FALSE
        OBVIOUS
      <4>2. u[p] \subseteq u[w] /\ p \in u[p] BY <1>0, <2>2, <4>1, ShapeFacts
      <4>3. p \notin u[w] BY <1>0, ShapeFacts
      <4>4. QED BY <4>2, <4>3
    <3>4. QED BY <3>1, <3>2, <3>3
  <2>8. b[g] = b[p] + Weight(t, g) /\ b[g] = b[o] + Weight(t, g) /\ Weight(h, g) = Weight(t, g)
    BY <1>0, <1>5, <2>1, <2>2, <2>3, <2>7 DEF Level
  <2>9. c[o] = b[o] /\ c[g] = b[g] /\ b[o] \in Nat /\ Weight(t, g) \in {0, 1}
    BY <1>0, <1>6, <2>1, <2>3, <2>7 DEF Weight
  <2> HIDE DEF o
  <2>10. c[o] = c[p] + 1 /\ c[g] = c[p] + 1 + Weight(h, g)
    BY <1>0, <1>5, <1>6, <2>8, <2>9
  <2>11. ~Red(h, Top(h)) BY <1>0, <1>1, <1>2
  <2>12. g \in u[Top(h)] /\ c[Kid(h, Opposite(r), g)] = c[p] + 1 BY <1>2, <2>1, <2>6, <2>10 DEF o
  <2>13. Lacking(h, u, c, p, g, r)
    BY <1>4, <1>9, <2>2, <2>5, <2>6, <2>10, <2>11, <2>12 DEF Lacking
  <2>14. QED BY <2>13 DEF Short
<1>12. QED BY <1>2, <1>10, <1>11, <1>9a

\* Only the near child of a black sibling is red: it comes up and becomes the sibling,
\* whose far child is red.
LEMMA NearNephew ==
  ASSUME NEW t, NEW u, NEW b, NEW x, NEW p, NEW s, Lacking(t, u, b, x, p, s), ~Red(t, x),
         NEW far, far = Opposite(s), NEW w, w = Kid(t, far, p), ~Red(t, w),
         NEW near, near = Kid(t, s, w), Red(t, near), ~Red(t, Kid(t, far, w)),
         NEW h, h = Exchanged(t, near, w), NEW q, q = Rotate(h, w, far)
  PROVE  \E v, c : /\ Lacking(q, v, c, x, p, s) /\ v[Top(q)] = u[Top(t)] /\ ~Red(q, x)
                   /\ Kid(q, far, p) = near /\ ~Red(q, near) /\ Red(q, Kid(q, far, near))
                   /\ c[x] = b[x]
<1> DEFINE inner == Kid(t, far, near)
           outer == Kid(t, far, w)
           tip == Kid(t, s, near)
<1>0. /\ t \in Trees /\ Shape(t, u) /\ p \in u[Top(t)] /\ p \in Keys /\ p \in Nodes /\ p # nil
      /\ s \in Sides /\ far \in Sides /\ far # s /\ (\A r \in Sides : r = s \/ r = far)
      /\ Opposite(s) = far /\ Opposite(far) = s
      /\ Kid(t, s, p) = x /\ Kid(t, far, p) = w /\ Up(t, x) = p
      /\ w \in Keys /\ w \in Nodes /\ w # nil /\ w \in u[Top(t)] /\ Up(t, w) = p
      /\ x \in Nodes /\ x # w /\ x # p /\ w # p /\ w # Top(t) /\ Top(t) \in Nodes
      /\ b \in [Nodes -> Nat] /\ b[nil] = 0 /\ (\A n \in Keys : n # p => Level(t, b, n))
      /\ b[x] \in Nat /\ b[w] \in Nat /\ b[p] \in Nat
      /\ b[w] = b[x] + 1 /\ b[p] = b[x] + 1 + Weight(t, p)
  BY LackingFacts
<1>1. /\ \A n \in Keys, r \in Sides : Red(t, n) /\ Red(t, Kid(t, r, n)) => Kid(t, r, n) = x \/ n = x
      /\ ~Red(t, Top(t))
  BY DEF Lacking, RedOk
<1>2. near \in Nodes /\ near # nil /\ near \in Keys /\ near # w /\ Up(t, near) = w /\ near # Top(t)
      /\ outer # near
  <2>1. near \in Nodes /\ near # nil BY <1>0, ShapeFacts DEF Shape
  <2>2. QED BY <1>0, <2>1, ShapeFacts, InTree, KeyFacts
<1>3. /\ inner \in Nodes /\ outer \in Nodes /\ tip \in Nodes /\ near # p /\ near # x
      /\ inner # near /\ inner # w /\ inner # p /\ outer # w /\ outer # p /\ tip # near /\ tip # w
      /\ inner = nil \/ inner # x
  <2>1. inner \in Nodes /\ outer \in Nodes /\ tip \in Nodes /\ inner # near /\ outer # w /\ tip # near
    BY <1>0, <1>2, ShapeFacts
  <2>2. /\ u[near] \subseteq u[w] /\ u[outer] \subseteq u[w] /\ u[inner] \subseteq u[near]
        /\ p \notin u[w] /\ p \in u[p] /\ w \notin u[near] /\ w \in u[w] /\ near \in u[near]
        /\ u[tip] \subseteq u[near]
    BY <1>0, <1>2, ShapeFacts
  <2>3. inner = nil \/ inner # x
    <3>1. inner # nil => Up(t, inner) = near BY <1>0, <1>2, InTree
    <3>2. near # p BY <2>2
    <3>3. QED BY <1>0, <3>1, <3>2
  <2>4. near # p /\ inner # p /\ outer # p BY <2>2
  <2>5. inner # w /\ tip # w BY <2>2
  <2>6. near # x BY <1>0, <1>2
  <2>7. QED BY <2>1, <2>3, <2>4, <2>5, <2>6
<1>4. /\ Painted(t, h) /\ Red(h, w) /\ ~Red(h, near)
      /\ \A n \in Nodes : n # near /\ n # w => Red(h, n) = Red(t, n)
  BY <1>0, <1>2, ExchangedFields
<1>5. /\ Top(h) = Top(t) /\ h \in Trees
      /\ \A n \in Nodes : Up(h, n) = Up(t, n)
      /\ \A r \in Sides, n \in Nodes : Kid(h, r, n) = Kid(t, r, n) /\ Kid(t, r, n) \in Nodes
  BY <1>0, <1>4, ShapeFacts DEF Painted
<1>6. Shape(h, u)
  <2>1. \A n \in Nodes : Red(t, n) => n \in u[Top(t)] BY <1>0, InTree, KeyFacts DEF Shape
  <2>2. \A n \in Nodes : Red(h, n) => n \in u[Top(t)] BY <1>0, <1>4, <2>1
  <2>3. QED BY <1>0, <1>4, <2>2, PaintedShape
<1>7. Turn(h, w, far, s, near, inner, p) /\ w \in u[Top(h)]
  <2>1. /\ near = Kid(h, s, w) /\ inner = Kid(h, far, near) /\ p = Up(h, w)
    BY <1>0, <1>2, <1>5
  <2> HIDE DEF inner
  <2>2. QED BY <1>0, <1>2, <1>5, <2>1 DEF Turn
<1>8. Rotated(h, q, w, far, s, near, inner, p) BY <1>6, <1>7, RotateFields
<1>9. PICK v : Shape(q, v) /\ v[Top(q)] = u[Top(h)] BY <1>6, <1>7, <1>8, RotateShape
<1>10. /\ b[near] = b[x] /\ b[outer] = b[x] /\ b[inner] = b[x] /\ b[tip] = b[x]
  <2>1. Weight(t, w) = 1 /\ Weight(t, near) = 0 BY DEF Weight
  <2>2. /\ b[w] = b[near] + 1 /\ b[w] = b[outer] + 1 /\ b[near] = b[inner] + 0 /\ b[near] = b[tip] + 0
    BY <1>0, <1>2, <1>3, <2>1 DEF Level
  <2>3. b[near] \in Nat /\ b[inner] \in Nat /\ b[outer] \in Nat /\ b[tip] \in Nat BY <1>0, <1>2, <1>3
  <2>4. QED BY <1>0, <2>2, <2>3
<1>11. ~Red(t, inner) /\ ~Red(t, outer)
  <2>1. Red(t, inner) => inner = x \/ near = x BY <1>0, <1>1, <1>2
  <2>2. QED BY <1>3, <2>1
<1> HIDE DEF inner, outer, tip
<1>12. PICK c : Reweighed(b, c, w, b[near], near)
  <2>1. b[near] \in Nat BY <1>0, <1>2
  <2>2. \E c : Reweighed(b, c, w, b[near], near) BY <1>0, <1>2, <2>1, Reweighing
  <2>3. QED BY <2>2
<1>13. /\ c \in [Nodes -> Nat] /\ c[w] = b[x] /\ c[near] = b[x] + 1
       /\ \A n \in Nodes : n # w /\ n # near => c[n] = b[n]
  BY <1>0, <1>10, <1>12 DEF Reweighed
<1>14. /\ q \in Trees /\ Kid(q, s, w) = inner /\ Kid(q, far, w) = outer
       /\ Kid(q, far, near) = w /\ Kid(q, s, near) = tip
       /\ Kid(q, far, p) = near /\ Kid(q, s, p) = x
       /\ \A n \in Nodes : Red(q, n) = Red(h, n)
       /\ \A r \in Sides, n \in Nodes \ {w, near} :
            /\ Kid(t, r, n) = w => Kid(q, r, n) = near
            /\ Kid(t, r, n) # w => Kid(q, r, n) = Kid(t, r, n)
       /\ Top(q) = Top(t)
       /\ \A n \in Nodes \ {w, near} : n # inner \/ n = nil => Up(q, n) = Up(h, n)
  BY <1>0, <1>2, <1>3, <1>5, <1>8 DEF Rotated, outer, tip
<1>15. ASSUME NEW n \in Keys, n # p PROVE Level(q, c, n)
  <2>1. CASE n = w
    <3>1. Weight(q, w) = 0 BY <1>0, <1>4, <1>14 DEF Weight
    <3>2. c[inner] = b[x] /\ c[outer] = b[x]
      <4>1. outer # near BY <1>2
      <4>2. QED BY <1>3, <1>10, <1>13, <4>1
    <3>3. ASSUME NEW r \in Sides PROVE c[w] = c[Kid(q, r, w)] + Weight(q, w)
      <4>1. Kid(q, r, w) = inner \/ Kid(q, r, w) = outer BY <1>0, <1>14
      <4>2. QED BY <1>0, <1>13, <3>1, <3>2, <4>1
    <3>4. QED BY <2>1, <3>3 DEF Level
  <2>2. CASE n = near
    <3>1. Weight(q, near) = 1 BY <1>2, <1>4, <1>14 DEF Weight
    <3>2. c[tip] = b[x] BY <1>3, <1>10, <1>13
    <3>3. ASSUME NEW r \in Sides PROVE c[near] = c[Kid(q, r, near)] + Weight(q, near)
      <4>1. Kid(q, r, near) = w \/ Kid(q, r, near) = tip BY <1>0, <1>14
      <4>2. QED BY <1>0, <1>13, <3>1, <3>2, <4>1
    <3>4. QED BY <2>2, <3>3 DEF Level
  <2>3. CASE n # w /\ n # near
    <3>1. n \in Nodes /\ Weight(h, n) = Weight(t, n) BY <1>4, <2>3, KeyFacts DEF Weight
    <3>2. Level(h, b, n) BY <1>0, <1>5, <1>15, <3>1 DEF Level
    <3>3. QED BY <1>6, <1>7, <1>8, <1>12, <2>3, <3>2, RotateLevel
  <2>4. QED BY <2>1, <2>2, <2>3
<1>16. Weighed(q, c, {p}) BY <1>0, <1>2, <1>13, <1>15, KeyFacts DEF Weighed
<1>17. ASSUME NEW n \in Keys, NEW r \in Sides, Red(q, n), Red(q, Kid(q, r, n))
       PROVE  Kid(q, r, n) = x \/ n = x
  <2>1. n \in Nodes /\ Kid(q, r, n) \in Nodes /\ Kid(t, r, n) \in Nodes
    BY <1>5, <1>9, KeyFacts, ShapeFacts
  <2>2. n # near /\ Kid(q, r, n) # near BY <1>2, <1>4, <1>14, <1>17
  <2>3. n # w
    <3>1. SUFFICES ASSUME n = w PROVE FALSE
      OBVIOUS
    <3>2. Kid(q, r, w) = inner \/ Kid(q, r, w) = outer BY <1>0, <1>14
    <3>3. ~Red(q, inner) /\ ~Red(q, outer)
      <4>1. outer # near BY <1>2
      <4>2. QED BY <1>3, <1>4, <1>11, <1>14, <4>1
    <3>4. QED BY <1>17, <3>1, <3>2, <3>3
  <2>4. Kid(t, r, n) # w /\ Kid(q, r, n) = Kid(t, r, n) BY <1>14, <2>1, <2>2, <2>3
  <2>5. Red(t, n) /\ Red(t, Kid(t, r, n)) BY <1>4, <1>14, <1>17, <2>1, <2>2, <2>3, <2>4
  <2>6. QED BY <1>1, <2>4, <2>5
<1>18. RedOk(q, {x}, {x}) BY <1>17 DEF RedOk
<1>19. ~Red(q, x) /\ ~Red(q, Top(q)) /\ ~Red(q, near) /\ Red(q, Kid(q, far, near))
  <2>1. ~Red(q, x) BY <1>0, <1>3, <1>4, <1>14
  <2>2. ~Red(q, Top(q)) BY <1>0, <1>1, <1>2, <1>4, <1>14
  <2>3. ~Red(q, near) /\ Red(q, Kid(q, far, near)) BY <1>0, <1>2, <1>4, <1>14
  <2>4. QED BY <2>1, <2>2, <2>3
<1>20. Up(q, x) = p BY <1>0, <1>3, <1>5, <1>14
<1>21. p \in v[Top(q)] /\ v[Top(q)] = u[Top(t)] BY <1>0, <1>5, <1>9
<1>22. c[Kid(q, Opposite(s), p)] = c[x] + 1 /\ c[p] = c[x] + 1 + Weight(q, p)
  <2>1. c[x] = b[x] /\ c[p] = b[p] BY <1>0, <1>3, <1>13
  <2>2. Weight(q, p) = Weight(t, p) BY <1>0, <1>3, <1>4, <1>14 DEF Weight
  <2>3. QED BY <1>0, <1>13, <1>14, <2>1, <2>2
<1>23. Lacking(q, v, c, x, p, s)
  BY <1>0, <1>9, <1>14, <1>16, <1>18, <1>19, <1>20, <1>21, <1>22 DEF Lacking
<1>24. c[x] = b[x] BY <1>0, <1>3, <1>13
<1>25. QED BY <1>14, <1>19, <1>21, <1>23, <1>24

\* The last colours that DeleteFixup sets.
Inherit(t, v, p, f) == [t EXCEPT !.red = [@ EXCEPT ![v] = t.red[p], ![p] = FALSE, ![f] = FALSE]]

\* What they are then.
LEMMA InheritFields ==
  ASSUME NEW t \in Trees, NEW v \in Nodes, NEW p \in Nodes, NEW f \in Nodes, v # p, v # f,
         NEW h, h = Inherit(t, v, p, f)
  PROVE  /\ Painted(t, h) /\ Red(h, v) = Red(t, p) /\ ~Red(h, p) /\ ~Red(h, f)
         /\ \A n \in Nodes : n # v /\ n # p /\ n # f => Red(h, n) = Red(t, n)
BY DEF Inherit, Painted, Trees, Sides, Kid, Up, Red, Top

\* The far child of a black sibling is red: the sibling comes up, and nothing is left
\* to do.
LEMMA FarNephew ==
  ASSUME NEW t, NEW u, NEW b, NEW x, NEW p, NEW s, Lacking(t, u, b, x, p, s), ~Red(t, x),
         NEW far, far = Opposite(s), NEW w, w = Kid(t, far, p), ~Red(t, w),
         NEW outer, outer = Kid(t, far, w), Red(t, outer),
         NEW h, h = Inherit(t, w, p, outer), NEW q, q = Rotate(h, p, s)
  PROVE  \E v, c : Whole(q, v, c, Top(q)) /\ v[Top(q)] = u[Top(t)] /\ b[x] + 1 <= c[Top(q)]
<1> DEFINE inner == Kid(t, s, w)
           g == Up(t, p)
           e == [n \in Nodes |-> IF n = outer THEN b[n] + 1 ELSE b[n]]
<1>0. /\ t \in Trees /\ Shape(t, u) /\ p \in u[Top(t)] /\ p \in Keys /\ p \in Nodes /\ p # nil
      /\ s \in Sides /\ far \in Sides /\ far # s /\ (\A r \in Sides : r = s \/ r = far)
      /\ Opposite(s) = far /\ Opposite(far) = s
      /\ Kid(t, s, p) = x /\ Kid(t, far, p) = w /\ Up(t, x) = p
      /\ w \in Keys /\ w \in Nodes /\ w # nil /\ w \in u[Top(t)] /\ Up(t, w) = p
      /\ x \in Nodes /\ x # w /\ x # p /\ w # p /\ w # Top(t) /\ Top(t) \in Nodes
      /\ b \in [Nodes -> Nat] /\ b[nil] = 0 /\ (\A n \in Keys : n # p => Level(t, b, n))
      /\ b[x] \in Nat /\ b[w] \in Nat /\ b[p] \in Nat
      /\ b[w] = b[x] + 1 /\ b[p] = b[x] + 1 + Weight(t, p)
  BY LackingFacts
<1>1. /\ \A n \in Keys, r \in Sides : Red(t, n) /\ Red(t, Kid(t, r, n)) => Kid(t, r, n) = x \/ n = x
      /\ ~Red(t, Top(t))
  BY DEF Lacking, RedOk
<1>2. /\ outer \in Nodes /\ outer # nil /\ outer \in Keys /\ outer \in u[Top(t)] /\ outer # w
      /\ Up(t, outer) = w /\ outer # Top(t) /\ inner # outer
  <2>1. outer \in Nodes /\ outer # nil BY <1>0, ShapeFacts DEF Shape
  <2>2. QED BY <1>0, <2>1, ShapeFacts, InTree, KeyFacts
<1>3. /\ inner \in Nodes /\ inner # w /\ inner # p /\ outer # p /\ outer # x
      /\ inner # nil => Up(t, inner) = w
      /\ x = nil \/ x # inner
  <2>1. inner \in Nodes /\ inner # w BY <1>0, ShapeFacts
  <2>2. inner # nil => Up(t, inner) = w BY <1>0, InTree
  <2>3. u[inner] \subseteq u[w] /\ u[outer] \subseteq u[w] /\ p \notin u[w] /\ p \in u[p]
    BY <1>0, ShapeFacts
  <2>4. inner # p /\ outer # p BY <2>3
  <2>5. x = nil \/ x # inner BY <1>0, <2>2
  <2>6. outer # x BY <1>0, <1>2
  <2>7. QED BY <2>1, <2>2, <2>4, <2>5, <2>6
<1>4. /\ Painted(t, h) /\ Red(h, w) = Red(t, p) /\ ~Red(h, p) /\ ~Red(h, outer)
      /\ \A n \in Nodes : n # w /\ n # p /\ n # outer => Red(h, n) = Red(t, n)
  BY <1>0, <1>2, InheritFields
<1>5. /\ Top(h) = Top(t) /\ h \in Trees
      /\ \A n \in Nodes : Up(h, n) = Up(t, n)
      /\ \A r \in Sides, n \in Nodes : Kid(h, r, n) = Kid(t, r, n) /\ Kid(t, r, n) \in Nodes
  BY <1>0, <1>4, ShapeFacts DEF Painted
<1>6. Shape(h, u)
  <2>1. \A n \in Nodes : Red(t, n) => n \in u[Top(t)] BY <1>0, InTree, KeyFacts DEF Shape
  <2>2. \A n \in Nodes : Red(h, n) => n \in u[Top(t)] BY <1>0, <1>4, <2>1
  <2>3. QED BY <1>0, <1>4, <2>2, PaintedShape
<1>7. Turn(h, p, s, far, w, inner, g) /\ p \in u[Top(h)]
  <2>1. /\ w = Kid(h, far, p) /\ inner = Kid(h, s, w) /\ g = Up(h, p)
    BY <1>0, <1>5
  <2> HIDE DEF inner, g
  <2>2. QED BY <1>0, <1>5, <2>1 DEF Turn
<1> HIDE DEF g
<1>8. Rotated(h, q, p, s, far, w, inner, g) BY <1>6, <1>7, RotateFields
<1>9. PICK v : Shape(q, v) /\ v[Top(q)] = u[Top(h)] BY <1>6, <1>7, <1>8, RotateShape
<1>10. b[inner] = b[x] /\ b[outer] = b[x]
  <2>1. Weight(t, w) = 1 BY DEF Weight
  <2>2. b[w] = b[inner] + 1 /\ b[w] = b[outer] + 1 BY <1>0, <2>1 DEF Level
  <2>3. b[inner] \in Nat /\ b[outer] \in Nat BY <1>0, <1>2, <1>3
  <2>4. QED BY <1>0, <2>2, <2>3
<1>11. /\ e \in [Nodes -> Nat] /\ e[outer] = b[x] + 1 /\ e[p] = b[p] /\ e[w] = b[w]
       /\ \A n \in Nodes : n # outer => e[n] = b[n]
  <2>1. e \in [Nodes -> Nat] /\ \A n \in Nodes : n # outer => e[n] = b[n] BY <1>0
  <2>2. e[outer] = b[x] + 1 BY <1>2, <1>10
  <2>3. e[p] = b[p] /\ e[w] = b[w] BY <1>0, <1>2, <1>3
  <2>4. QED BY <2>1, <2>2, <2>3
<1> HIDE DEF inner, e
<1>12. PICK c : Reweighed(e, c, p, b[x] + 1, w)
  <2>1. b[x] + 1 \in Nat BY <1>0
  <2>2. \E c : Reweighed(e, c, p, b[x] + 1, w) BY <1>0, <1>11, <2>1, Reweighing
  <2>3. QED BY <2>2
<1>13. /\ c \in [Nodes -> Nat] /\ c[p] = b[x] + 1 /\ c[w] = b[p] /\ c[outer] = b[x] + 1
       /\ c[inner] = b[x] /\ c[x] = b[x] /\ c[nil] = 0
  <2>1. /\ c \in [Nodes -> Nat] /\ c[p] = b[x] + 1 /\ c[w] = e[p]
        /\ \A n \in Nodes : n # p /\ n # w => c[n] = e[n]
    BY <1>12 DEF Reweighed
  <2>2. c[outer] = b[x] + 1 BY <1>2, <1>3, <1>11, <2>1
  <2>3. inner # outer BY <1>2 DEF inner
  <2>4. c[inner] = b[x] BY <1>3, <1>10, <1>11, <2>1, <2>3
  <2>5. c[x] = b[x] /\ c[nil] = 0 BY <1>0, <1>2, <1>3, <1>11, <2>1, KeyFacts
  <2>6. QED BY <1>11, <2>1, <2>2, <2>4, <2>5
<1>14. /\ q \in Trees /\ Kid(q, far, p) = inner /\ Kid(q, s, p) = x
       /\ Kid(q, s, w) = p /\ Kid(q, far, w) = outer
       /\ \A n \in Nodes : Red(q, n) = Red(h, n)
       /\ \A r \in Sides, n \in Nodes \ {p, w} :
            /\ Kid(t, r, n) = p => Kid(q, r, n) = w
            /\ Kid(t, r, n) # p => Kid(q, r, n) = Kid(t, r, n)
  BY <1>0, <1>5, <1>8 DEF Rotated
\* Among the children, outer is that of w.
<1>15. \A n \in Keys, r \in Sides : Kid(t, r, n) = outer => n = w BY <1>0, <1>2, KeyFacts, InTree
<1>16. ASSUME NEW n \in Keys PROVE Level(q, c, n)
  <2>1. CASE n = p
    <3>1. Weight(q, p) = 1 BY <1>0, <1>4, <1>14 DEF Weight
    <3>2. ASSUME NEW r \in Sides PROVE c[p] = c[Kid(q, r, p)] + Weight(q, p)
      <4>1. Kid(q, r, p) = x \/ Kid(q, r, p) = inner BY <1>0, <1>14
      <4>2. QED BY <1>0, <1>13, <3>1, <4>1
    <3>3. QED BY <2>1, <3>2 DEF Level
  <2>2. CASE n = w
    <3>1. Weight(q, w) = Weight(t, p) BY <1>0, <1>4, <1>14 DEF Weight
    <3>2. ASSUME NEW r \in Sides PROVE c[w] = c[Kid(q, r, w)] + Weight(q, w)
      <4>1. Kid(q, r, w) = p \/ Kid(q, r, w) = outer BY <1>0, <1>14
      <4>2. QED BY <1>0, <1>13, <3>1, <4>1
    <3>3. QED BY <2>2, <3>2 DEF Level
  <2>3. CASE n # p /\ n # w
    <3>1. Level(h, e, n)
      <4>1. SUFFICES ASSUME NEW r \in Sides PROVE e[n] = e[Kid(h, r, n)] + Weight(h, n)
        BY DEF Level
      <4>2. n \in Nodes /\ Kid(h, r, n) = Kid(t, r, n) /\ Kid(t, r, n) \in Nodes BY <1>5, KeyFacts
      <4>3. b[n] = b[Kid(t, r, n)] + Weight(t, n) BY <1>0, <2>3 DEF Level
      <4>4. Kid(t, r, n) # outer BY <1>15, <2>3
      <4>5. e[Kid(h, r, n)] = b[Kid(t, r, n)] BY <1>11, <4>2, <4>4
      <4>6. CASE n = outer
        <5>1. Weight(t, n) = 0 /\ Weight(h, n) = 1 BY <1>4, <4>6 DEF Weight
        <5>2. e[n] = b[n] + 1 BY <1>10, <1>11, <4>6
        <5>3. b[Kid(t, r, n)] \in Nat BY <1>0, <4>2
        <5>4. QED BY <4>3, <4>5, <5>1, <5>2, <5>3
      <4>7. CASE n # outer
        <5>1. Weight(h, n) = Weight(t, n) BY <1>4, <2>3, <4>2, <4>7 DEF Weight
        <5>2. e[n] = b[n] BY <1>11, <4>2, <4>7
        <5>3. QED BY <4>3, <4>5, <5>1, <5>2
      <4>8. QED BY <4>6, <4>7
    <3>2. QED BY <1>6, <1>7, <1>8, <1>12, <2>3, <3>1, RotateLevel
  <2>4. QED BY <2>1, <2>2, <2>3
<1>17. Weighed(q, c, {}) BY <1>13, <1>16 DEF Weighed
<1>18. ASSUME NEW n \in Keys, NEW r \in Sides, Red(q, n), Red(q, Kid(q, r, n)) PROVE FALSE
  <2>1. n \in Nodes /\ Kid(q, r, n) \in Nodes /\ Kid(t, r, n) \in Nodes
    BY <1>5, <1>9, KeyFacts, ShapeFacts
  <2>2. n # p /\ n # outer /\ Kid(q, r, n) # p /\ Kid(q, r, n) # outer
    BY <1>0, <1>2, <1>4, <1>14, <1>18
  <2>3. n # w
    <3>1. Kid(q, r, w) = p \/ Kid(q, r, w) = outer BY <1>0, <1>14
    <3>2. QED BY <2>2, <3>1
  <2>4. Red(t, n) BY <1>4, <1>14, <1>18, <2>1, <2>2, <2>3
  <2>5. CASE Kid(t, r, n) = p
    <3>1. Kid(q, r, n) = w BY <1>14, <2>1, <2>2, <2>3, <2>5
    <3>2. Red(t, p) BY <1>0, <1>4, <1>14, <1>18, <3>1
    <3>3. p = x \/ n = x BY <1>1, <2>4, <2>5, <3>2
    <3>4. QED BY <1>0, <2>4, <3>3
  <2>6. CASE Kid(t, r, n) # p
    <3>1. Kid(q, r, n) = Kid(t, r, n) BY <1>14, <2>1, <2>2, <2>3, <2>6
    <3>2. Kid(t, r, n) # w BY <1>0, <2>1, <2>2, InTree
    <3>3. Red(t, Kid(t, r, n)) BY <1>4, <1>14, <1>18, <2>1, <2>2, <3>1, <3>2
    <3>4. QED BY <1>1, <2>4, <3>3
  <2>7. QED BY <2>5, <2>6
<1>19. RedOk(q, {Top(q)}, {Top(q)}) BY <1>18 DEF RedOk
<1>20. Whole(q, v, c, Top(q)) BY <1>9, <1>17, <1>19 DEF Whole
<1>21. v[Top(q)] = u[Top(t)] BY <1>5, <1>9
<1>22. b[x] + 1 <= c[Top(q)]
  <2>1. Weight(t, p) \in Nat BY DEF Weight
  <2>2. b[x] + 1 <= c[w] BY <1>0, <1>13, <2>1
  <2>3. Top(q) \in Nodes BY <1>9, InTree
  <2>4. c[w] <= c[Top(q)]
    <3>1. \A n \in Nodes : \A m \in v[n] : c[m] <= c[n] BY <1>9, <1>17, Outweighs
    <3>2. QED BY <1>0, <1>21, <2>3, <3>1
  <2>5. c[w] \in Nat /\ c[Top(q)] \in Nat BY <1>0, <1>13, <2>3
  <2>6. QED BY <1>0, <2>2, <2>4, <2>5
<1>23. QED BY <1>20, <1>21, <1>22

-----------------------------------------------------------------------------
(* An iteration of DeleteFixup *)

\* DeleteFixup in terms of the nodes it looks at.
Ended(t, p, side, far, v) ==
  [tree |-> Rotate(Inherit(t, v, p, t[far][v]), p, side),
   node |-> Rotate(Inherit(t, v, p, t[far][v]), p, side).root]
EndedAt(t, p, side, far) == Ended(t, p, side, far, t[far][p])
Restored(t, p, side, far, w) ==
  IF ~t.red[t.left[w]] /\ ~t.red[t.right[w]] THEN [tree |-> Redden(t, w), node |-> p]
  ELSE EndedAt(IF t.red[t[far][w]] THEN t ELSE Rotate(Exchanged(t, t[side][w], w), w, far),
               p, side, far)
RestoredAt(t, p, side, far) == Restored(t, p, side, far, t[far][p])
RestoredFrom(t, p, side, far, sibling) ==
  RestoredAt(IF t.red[sibling] THEN Rotate(Exchanged(t, sibling, p), p, side) ELSE t, p, side, far)
RestoredSide(t, p, side) == RestoredFrom(t, p, side, Opposite(side), t[Opposite(side)][p])

\* The cases of an iteration.
LEMMA DeleteFixupSteps ==
  ASSUME NEW t, NEW x
  PROVE  DeleteFixup(t, x) = RestoredSide(t, t.parent[x], SideOf(t, x, t.parent[x]))
BY DEF DeleteFixup, RestoredSide, RestoredFrom, RestoredAt, Restored, EndedAt, Ended,
       Inherit, Exchanged, Redden, SideOf

\* The cases: a red sibling first, then one without red children, one with a red child
\* on the near side only, and one with a red child on the far side.
LEMMA RestoredRed ==
  ASSUME NEW t, NEW p, NEW side, NEW far, NEW w, Red(t, w)
  PROVE  LET q == Rotate(Exchanged(t, w, p), p, side)
         IN  RestoredFrom(t, p, side, far, w) = Restored(q, p, side, far, Kid(q, far, p))
BY ZenonT(60) DEF RestoredFrom, RestoredAt, Red, Kid

LEMMA RestoredBlack ==
  ASSUME NEW t, NEW p, NEW side, NEW far, NEW w, ~Red(t, w)
  PROVE  RestoredFrom(t, p, side, far, w) = Restored(t, p, side, far, Kid(t, far, p))
BY ZenonT(60) DEF RestoredFrom, RestoredAt, Red, Kid

LEMMA RestoredReddens ==
  ASSUME NEW t, NEW p, NEW side, NEW far, NEW w,
         ~Red(t, Kid(t, "left", w)), ~Red(t, Kid(t, "right", w)), t \in Trees, w \in Nodes
  PROVE  Restored(t, p, side, far, w) = [tree |-> Redden(t, w), node |-> p]
<1>1. Kid(t, "left", w) = t.left[w] /\ Kid(t, "right", w) = t.right[w] BY TreeFields
<1>2. ~t.red[t.left[w]] /\ ~t.red[t.right[w]] BY <1>1 DEF Red
<1>3. QED BY <1>2, ZenonT(60) DEF Restored

LEMMA RestoredNear ==
  ASSUME NEW t, NEW p, NEW side, NEW far, NEW w, t \in Trees, w \in Nodes,
         Red(t, Kid(t, "left", w)) \/ Red(t, Kid(t, "right", w)), ~Red(t, Kid(t, far, w))
  PROVE  \A q : q = Rotate(Exchanged(t, Kid(t, side, w), w), w, far)
               => Restored(t, p, side, far, w) = Ended(q, p, side, far, Kid(q, far, p))
<1>1. Kid(t, "left", w) = t.left[w] /\ Kid(t, "right", w) = t.right[w] BY TreeFields
<1>2. ~(~t.red[t.left[w]] /\ ~t.red[t.right[w]]) BY <1>1 DEF Red
<1>3. QED BY <1>2, ZenonT(60) DEF Restored, EndedAt, Red, Kid

LEMMA RestoredFar ==
  ASSUME NEW t, NEW p, NEW side, NEW far, NEW w, t \in Trees, w \in Nodes,
         Red(t, Kid(t, "left", w)) \/ Red(t, Kid(t, "right", w)), Red(t, Kid(t, far, w))
  PROVE  Restored(t, p, side, far, w) = Ended(t, p, side, far, Kid(t, far, p))
<1>1. Kid(t, "left", w) = t.left[w] /\ Kid(t, "right", w) = t.right[w] BY TreeFields
<1>2. ~(~t.red[t.left[w]] /\ ~t.red[t.right[w]]) BY <1>1 DEF Red
<1>3. QED BY <1>2, ZenonT(60) DEF Restored, EndedAt, Red, Kid

\* What the last part assigns.
LEMMA EndedFields ==
  ASSUME NEW t, NEW p, NEW side, NEW far, NEW v
  PROVE  LET q == Rotate(Inherit(t, v, p, Kid(t, far, v)), p, side)
         IN  Ended(t, p, side, far, v) = [tree |-> q, node |-> Top(q)]
BY ZenonT(60) DEF Ended, Kid, Top

\* The last part of an iteration, with a sibling whose far child is red.
LEMMA EndedWhole ==
  ASSUME NEW t, NEW u, NEW b, NEW x, NEW p, NEW s, Lacking(t, u, b, x, p, s), ~Red(t, x),
         NEW far, far = Opposite(s), NEW w, w = Kid(t, far, p), ~Red(t, w), Red(t, Kid(t, far, w)),
         NEW k \in Nat, k <= b[x], NEW next, next = Ended(t, p, s, far, w)
  PROVE  \E v, c : /\ Short(next.tree, v, c, next.node) /\ v[Top(next.tree)] = u[Top(t)]
                   /\ Climbed(next.tree, c, next.node, k + 1)
<1> DEFINE outer == Kid(t, far, w)
           h == Inherit(t, w, p, outer)
           q == Rotate(h, p, s)
<1>1. next = [tree |-> q, node |-> Top(q)] BY EndedFields, Zenon
<1>2. outer = Kid(t, far, w) /\ h = Inherit(t, w, p, outer) /\ q = Rotate(h, p, s) OBVIOUS
<1> HIDE DEF outer, h, q
<1>3. next.tree = q /\ next.node = Top(q) BY <1>1
<1>4. Red(t, outer) BY <1>2
<1>5. \E v, c : Whole(q, v, c, Top(q)) /\ v[Top(q)] = u[Top(t)] /\ b[x] + 1 <= c[Top(q)]
  BY <1>2, <1>4, FarNephew
<1>6. PICK v, c : Whole(q, v, c, Top(q)) /\ v[Top(q)] = u[Top(t)] /\ b[x] + 1 <= c[Top(q)]
  BY <1>5
<1>7. k + 1 <= c[Top(q)]
  <2>1. b[x] \in Nat BY LackingFacts
  <2>2. Shape(q, v) /\ c \in [Nodes -> Nat] BY <1>6 DEF Whole, Weighed
  <2>3. c[Top(q)] \in Nat BY <2>2, InTree
  <2>4. QED BY <1>6, <2>1, <2>3
<1>8. Short(q, v, c, Top(q)) /\ Climbed(q, c, Top(q), k + 1) BY <1>6, <1>7 DEF Short, Climbed
<1>9. QED BY <1>3, <1>6, <1>8

\* The part of an iteration with a black sibling.
LEMMA RestoredShort ==
  ASSUME NEW t, NEW u, NEW b, NEW x, NEW p, NEW s, Lacking(t, u, b, x, p, s), ~Red(t, x),
         NEW far, far = Opposite(s), NEW w, w = Kid(t, far, p), ~Red(t, w),
         NEW k \in Nat, k <= b[x], NEW next, next = Restored(t, p, s, far, w)
  PROVE  \E v, c : /\ Short(next.tree, v, c, next.node) /\ v[Top(next.tree)] = u[Top(t)]
                   /\ Climbed(next.tree, c, next.node, k + 1)
<1>0. /\ t \in Trees /\ s \in Sides /\ far \in Sides /\ (\A r \in Sides : r = s \/ r = far)
      /\ w \in Nodes
  BY LackingFacts
<1>1. CASE \A r \in Sides : ~Red(t, Kid(t, r, w))
  <2>1. ~Red(t, Kid(t, "left", w)) /\ ~Red(t, Kid(t, "right", w)) BY <1>1, SideFacts
  <2>2. next = [tree |-> Redden(t, w), node |-> p] BY <1>0, <2>1, RestoredReddens
  <2>3. next.tree = Redden(t, w) /\ next.node = p BY <2>2
  <2>4. Top(next.tree) = Top(t) /\ \E c : Short(next.tree, u, c, p) /\ Climbed(next.tree, c, p, k + 1)
    BY <1>1, <2>3, BlackNephews
  <2>5. QED BY <2>3, <2>4
<1>2. CASE Red(t, Kid(t, far, w))
  <2>1. Red(t, Kid(t, "left", w)) \/ Red(t, Kid(t, "right", w)) BY <1>0, <1>2, SideFacts
  <2>2. next = Ended(t, p, s, far, w) BY <1>0, <1>2, <2>1, RestoredFar
  <2>3. QED BY <1>2, <2>2, EndedWhole
<1>3. CASE ~Red(t, Kid(t, far, w)) /\ \E r \in Sides : Red(t, Kid(t, r, w))
  <2>1. Red(t, Kid(t, "left", w)) \/ Red(t, Kid(t, "right", w)) BY <1>3, SideFacts
  <2>2. Red(t, Kid(t, s, w)) BY <1>0, <1>3
  <2> DEFINE near == Kid(t, s, w)
             h == Exchanged(t, near, w)
             q == Rotate(h, w, far)
  <2>3. near = Kid(t, s, w) /\ h = Exchanged(t, near, w) /\ q = Rotate(h, w, far) OBVIOUS
  <2>a. q = Rotate(Exchanged(t, Kid(t, s, w), w), w, far) OBVIOUS
  <2> HIDE DEF near, h, q
  <2>4. next = Ended(q, p, s, far, Kid(q, far, p))
    <3>1. ~Red(t, Kid(t, far, w)) BY <1>3
    <3>2. t \in Trees /\ w \in Nodes BY <1>0
    <3>3. Restored(t, p, s, far, w) = Ended(q, p, s, far, Kid(q, far, p))
      BY <2>1, <2>a, <3>1, <3>2, RestoredNear
    <3>4. QED BY <3>3
  <2>5. Red(t, near) BY <2>2, <2>3
  <2>6. \E v, c : /\ Lacking(q, v, c, x, p, s) /\ v[Top(q)] = u[Top(t)] /\ ~Red(q, x)
                  /\ Kid(q, far, p) = near /\ ~Red(q, near) /\ Red(q, Kid(q, far, near))
                  /\ c[x] = b[x]
    BY <1>3, <2>3, <2>5, NearNephew
  <2>7. PICK v, c : /\ Lacking(q, v, c, x, p, s) /\ v[Top(q)] = u[Top(t)] /\ ~Red(q, x)
                    /\ Kid(q, far, p) = near /\ ~Red(q, near) /\ Red(q, Kid(q, far, near))
                    /\ c[x] = b[x]
    BY <2>6
  <2>8. next = Ended(q, p, s, far, near) BY <2>4, <2>7
  <2>9. near = Kid(q, far, p) BY <2>7
  <2>9a. k <= c[x] BY <2>7
  <2>10. \E y, d : /\ Short(next.tree, y, d, next.node) /\ y[Top(next.tree)] = v[Top(q)]
                   /\ Climbed(next.tree, d, next.node, k + 1)
    BY <2>7, <2>8, <2>9, <2>9a, EndedWhole
  <2>11. QED BY <2>7, <2>10
<1>4. QED BY <1>1, <1>2, <1>3

\* An iteration of DeleteFixup leaves a tree that is being repaired at the next node.
LEMMA DeleteFixupRestores ==
  ASSUME NEW t, NEW u, NEW b, NEW x, Short(t, u, b, x), x # Top(t), ~Red(t, x),
         NEW k \in Nat, Climbed(t, b, x, k), NEW next, next = DeleteFixup(t, x)
  PROVE  \E v, c : /\ Short(next.tree, v, c, next.node) /\ v[Top(next.tree)] = u[Top(t)]
                   /\ Climbed(next.tree, c, next.node, k + 1)
<1>1. PICK p, s : Lacking(t, u, b, x, p, s) BY DEF Short, Whole
<1> DEFINE far == Opposite(s)
           w == Kid(t, far, p)
<1>2. Up(t, x) = p /\ SideOf(t, x, p) = s /\ w \in Nodes BY <1>1, LackingFacts
<1>3. next = RestoredFrom(t, p, s, far, w)
  <2>1. DeleteFixup(t, x) = RestoredSide(t, Up(t, x), SideOf(t, x, Up(t, x)))
    BY DeleteFixupSteps, Zenon DEF Up
  <2>2. DeleteFixup(t, x) = RestoredSide(t, p, s) BY <1>2, <2>1
  <2>3. QED BY <2>2, Zenon DEF RestoredSide, Kid
<1>3a. k <= b[x] BY DEF Climbed
<1>4. far = Opposite(s) /\ w = Kid(t, far, p) OBVIOUS
<1> HIDE DEF far, w
<1>5. CASE ~Red(t, w)
  <2>1. next = Restored(t, p, s, far, w) BY <1>3, <1>4, <1>5, RestoredBlack
  <2>2. QED BY <1>1, <1>3a, <1>4, <1>5, <2>1, RestoredShort
<1>6. CASE Red(t, w)
  <2> DEFINE h == Exchanged(t, w, p)
             q == Rotate(h, p, s)
  <2>1. h = Exchanged(t, w, p) /\ q = Rotate(h, p, s) OBVIOUS
  <2>2. next = Restored(q, p, s, far, Kid(q, far, p)) BY <1>3, <1>6, RestoredRed, Zenon
  <2> HIDE DEF h, q
  <2>3. PICK v, c : /\ Lacking(q, v, c, x, p, s) /\ v[Top(q)] = u[Top(t)]
                    /\ ~Red(q, x) /\ ~Red(q, Kid(q, far, p)) /\ c[x] = b[x]
    BY <1>1, <1>4, <1>6, <2>1, RedSibling
  <2> DEFINE y == Kid(q, far, p)
  <2>4. y = Kid(q, far, p) /\ ~Red(q, y) /\ next = Restored(q, p, s, far, y) BY <2>2, <2>3
  <2> HIDE DEF y
  <2>5. k <= c[x] BY <1>3a, <2>3
  <2>6. \E m, d : /\ Short(next.tree, m, d, next.node) /\ m[Top(next.tree)] = v[Top(q)]
                  /\ Climbed(next.tree, d, next.node, k + 1)
    BY <1>4, <2>3, <2>4, <2>5, RestoredShort
  <2>7. QED BY <2>3, <2>6
<1>7. QED BY <1>5, <1>6

\* The last colour is all that is missing: the tree is whole after it.
LEMMA LastColour ==
  ASSUME NEW t, NEW u, NEW b, NEW x, Short(t, u, b, x), x = Top(t) \/ Red(t, x), x \in Nodes,
         NEW h, h = Blacken(t, x)
  PROVE  /\ Shape(h, u) /\ Top(h) = Top(t) /\ ~Red(h, Top(h)) /\ RedOk(h, {}, {})
         /\ \E c : Weighed(h, c, {})
<1>0. Shape(t, u) /\ t \in Trees /\ RedOk(t, {x}, {x}) BY DEF Short, Whole, Lacking, Shape
<1>1. /\ h \in Trees /\ Top(h) = Top(t)
      /\ \A n \in Nodes : Up(h, n) = Up(t, n)
      /\ ~Red(h, x) /\ \A n \in Nodes : n # x => Red(h, n) = Red(t, n)
      /\ \A s \in Sides, n \in Nodes : Kid(h, s, n) = Kid(t, s, n) /\ Kid(t, s, n) \in Nodes
  BY <1>0, SetBlack, ShapeFacts
<1>2. Shape(h, u)
  <2>1. \A n \in Nodes : Red(t, n) => n \in u[Top(t)] BY <1>0, InTree, KeyFacts DEF Shape
  <2>2. \A n \in Nodes : Red(h, n) => n \in u[Top(t)] BY <1>1, <2>1
  <2>3. Painted(t, h) BY <1>1 DEF Painted
  <2>4. QED BY <1>0, <2>2, <2>3, PaintedShape
<1>3. RedOk(h, {}, {})
  <2>1. SUFFICES ASSUME NEW n \in Keys, NEW s \in Sides, Red(h, n), Red(h, Kid(h, s, n)) PROVE FALSE
    BY DEF RedOk
  <2>2. n # x /\ Kid(h, s, n) # x BY <1>1, <2>1
  <2>3. Red(t, n) /\ Red(t, Kid(t, s, n)) /\ Kid(t, s, n) # x BY <1>1, <2>1, <2>2, KeyFacts
  <2>4. QED BY <1>0, <2>2, <2>3 DEF RedOk
<1>4. ~Red(h, Top(h))
  <2>1. x # Top(t) => ~Red(t, Top(t)) BY DEF Short, Whole, Lacking
  <2>2. Top(t) \in Nodes BY <1>0, InTree
  <2>3. QED BY <1>1, <2>1, <2>2
\* Where x is black already, nothing is painted.
<1>5. \E c : Weighed(h, c, {})
  <2>1. CASE ~Red(t, x)
    <3>1. Weighed(t, b, {}) /\ x = Top(t)
      <4>1. \A p, s : Lacking(t, u, b, x, p, s) => x # Top(t)
        <5>1. SUFFICES ASSUME NEW p, NEW s, Lacking(t, u, b, x, p, s), x = Top(t) PROVE FALSE
          OBVIOUS
        <5>2. p \in Nodes /\ p # nil /\ s \in Sides /\ Kid(t, s, p) = x /\ Up(t, x) = p /\ p \in u[Top(t)] BY <5>1, LackingFacts
        <5>3. x # nil BY <1>0, <5>1, <5>2, InTree
        <5>4. QED BY <1>0, <5>1, <5>2, <5>3, InTree
      <4>2. QED BY <2>1, <4>1 DEF Short, Whole
    <3>2. ASSUME NEW n \in Keys PROVE Level(h, b, n)
      <4>1. Level(t, b, n) BY <3>1 DEF Weighed
      <4>2. Weight(h, n) = Weight(t, n) BY <1>1, <2>1, KeyFacts DEF Weight
      <4>3. QED BY <1>1, <4>1, <4>2, KeyFacts DEF Level
    <3>3. Weighed(h, b, {}) BY <3>1, <3>2 DEF Weighed
    <3>4. QED BY <3>3
  <2>2. CASE Red(t, x)
    <3> DEFINE c == [n \in Nodes |-> IF n = x THEN b[n] + 1 ELSE b[n]]
    <3>0. b \in [Nodes -> Nat] /\ b[nil] = 0 BY DEF Short, Whole, Lacking, Weighed
    <3>1. x # nil /\ x \in Keys /\ b \in [Nodes -> Nat] BY <1>0, <2>2, <3>0, KeyFacts DEF Shape
    <3>2. /\ c \in [Nodes -> Nat] /\ c[x] = b[x] + 1 /\ c[nil] = 0
          /\ \A n \in Nodes : n # x => c[n] = b[n]
      BY <3>0, <3>1, KeyFacts
    <3> HIDE DEF c
    <3>3. Weight(t, x) = 0 /\ Weight(h, x) = 1 /\ \A n \in Nodes : n # x => Weight(h, n) = Weight(t, n)
      BY <1>1, <2>2 DEF Weight
    <3>4. ASSUME NEW n \in Keys, NEW s \in Sides PROVE c[n] = c[Kid(h, s, n)] + Weight(h, n)
      <4>1. n \in Nodes /\ Kid(h, s, n) = Kid(t, s, n) /\ Kid(t, s, n) \in Nodes BY <1>1, KeyFacts
      <4>2. b[n] \in Nat /\ b[x] \in Nat /\ b[Kid(t, s, n)] \in Nat BY <3>1, <4>1
      <4>3. CASE Whole(t, u, b, x)
        <5>1. Level(t, b, n) BY <4>3 DEF Whole, Weighed
        <5>2. b[n] = b[Kid(t, s, n)] + Weight(t, n) BY <5>1 DEF Level
        <5>3. Kid(t, s, n) # x BY <1>0, <3>1, <4>1, <4>3, InTree DEF Whole
        <5>4. c[Kid(t, s, n)] = b[Kid(t, s, n)] BY <3>2, <4>1, <5>3
        <5>5. CASE n = x BY <3>2, <3>3, <4>1, <4>2, <5>2, <5>4, <5>5
        <5>6. CASE n # x BY <3>2, <3>3, <4>1, <4>2, <5>2, <5>4, <5>6
        <5>7. QED BY <5>5, <5>6
      <4>4. ASSUME NEW p, NEW r, Lacking(t, u, b, x, p, r)
            PROVE  c[n] = c[Kid(h, s, n)] + Weight(h, n)
        <5> DEFINE far == Opposite(r)
                   w == Kid(t, far, p)
        <5>0. /\ p \in Keys /\ r \in Sides /\ far \in Sides /\ (\A i \in Sides : i = r \/ i = far)
              /\ Kid(t, r, p) = x /\ Kid(t, far, p) = w /\ Up(t, x) = p
              /\ x # w /\ x # p /\ w \in Nodes
              /\ (\A m \in Keys : m # p => Level(t, b, m))
              /\ b[w] = b[x] + 1 /\ b[p] = b[x] + 1 + Weight(t, p)
          BY <4>4, LackingFacts
        <5> HIDE DEF far, w
        <5>1. CASE n = p
          <6>1. c[p] = b[p] /\ c[w] = b[w] /\ Weight(h, p) = Weight(t, p) BY <3>2, <3>3, <5>0, KeyFacts
          <6>2. Kid(t, s, n) = x \/ Kid(t, s, n) = w BY <5>0, <5>1
          <6>3. QED BY <3>2, <4>1, <5>0, <5>1, <6>1, <6>2
        <5>2. CASE n # p
          <6>1. b[n] = b[Kid(t, s, n)] + Weight(t, n) BY <5>0, <5>2 DEF Level
          <6>2. Kid(t, s, n) # x BY <1>0, <3>1, <4>1, <5>0, <5>2, InTree
          <6>3. c[Kid(t, s, n)] = b[Kid(t, s, n)] BY <3>2, <4>1, <6>2
          <6>4. CASE n = x BY <3>2, <3>3, <4>1, <4>2, <6>1, <6>3, <6>4
          <6>5. CASE n # x BY <3>2, <3>3, <4>1, <4>2, <6>1, <6>3, <6>5
          <6>6. QED BY <6>4, <6>5
        <5>3. QED BY <5>1, <5>2
      <4>5. QED BY <4>3, <4>4 DEF Short
    <3>5. Weighed(h, c, {}) BY <3>2, <3>4 DEF Weighed, Level
    <3>6. QED BY <3>5
  <2>3. QED BY <2>1, <2>2
<1>6. QED BY <1>1, <1>2, <1>3, <1>4, <1>5

-----------------------------------------------------------------------------
(* A node with one child is spliced out *)

\* A node out of the tree, as its destructor is called.
Freed(t, z) == [t EXCEPT !.left[z] = nil, !.right[z] = nil, !.parent[z] = nil, !.red[z] = FALSE]

\* What that resets, and what it leaves.
LEMMA FreedFields ==
  ASSUME NEW t \in Trees, NEW z \in Nodes, NEW h, h = Freed(t, z)
  PROVE  /\ h \in Trees /\ Top(h) = Top(t) /\ Up(h, z) = nil /\ ~Red(h, z)
         /\ \A s \in Sides : Kid(h, s, z) = nil
         /\ \A n \in Nodes : n # z => /\ Up(h, n) = Up(t, n) /\ Red(h, n) = Red(t, n)
                                      /\ \A s \in Sides : Kid(h, s, n) = Kid(t, s, n)
<1> DEFINE h1 == PutChild(t, "left", z, nil)
           h2 == PutChild(h1, "right", z, nil)
           h3 == PutParent(h2, z, nil)
<1>1. h = Blacken(h3, z)
  <2>1. Freed(t, z) = Blacken(PutParent(PutChild(PutChild(t, "left", z, nil), "right", z, nil), z, nil), z)
    BY ZenonT(60) DEF Freed, Blacken, PutParent, PutChild
  <2>2. QED BY <2>1, Zenon
<1>2. h1 = PutChild(t, "left", z, nil) OBVIOUS
<1>3. h2 = PutChild(h1, "right", z, nil) OBVIOUS
<1>4. h3 = PutParent(h2, z, nil) OBVIOUS
<1> HIDE DEF h1, h2, h3
<1>0. nil \in Nodes /\ "left" \in Sides /\ "right" \in Sides
      /\ (\A s \in Sides : s = "left" \/ s = "right")
  BY KeyFacts, SideFacts
<1>5. /\ h1 \in Trees /\ Top(h1) = Top(t)
      /\ (\A n \in Nodes : Up(h1, n) = Up(t, n)) /\ (\A n \in Nodes : Red(h1, n) = Red(t, n))
      /\ Kid(h1, "left", z) = nil
      /\ \A s \in Sides, n \in Nodes : s # "left" \/ n # z => Kid(h1, s, n) = Kid(t, s, n)
  BY <1>0, <1>2, SetChild
<1>6. /\ h2 \in Trees /\ Top(h2) = Top(h1)
      /\ (\A n \in Nodes : Up(h2, n) = Up(h1, n)) /\ (\A n \in Nodes : Red(h2, n) = Red(h1, n))
      /\ Kid(h2, "right", z) = nil
      /\ \A s \in Sides, n \in Nodes : s # "right" \/ n # z => Kid(h2, s, n) = Kid(h1, s, n)
  BY <1>0, <1>3, <1>5, SetChild
<1>7. /\ h3 \in Trees /\ Top(h3) = Top(h2) /\ (\A n \in Nodes : Red(h3, n) = Red(h2, n))
      /\ Up(h3, z) = nil /\ (\A n \in Nodes : n # z => Up(h3, n) = Up(h2, n))
      /\ \A s \in Sides, n \in Nodes : Kid(h3, s, n) = Kid(h2, s, n)
  BY <1>0, <1>4, <1>6, SetParent
<1>8. /\ h \in Trees /\ Top(h) = Top(h3)
      /\ \A n \in Nodes : Up(h, n) = Up(h3, n)
      /\ ~Red(h, z) /\ \A n \in Nodes : n # z => Red(h, n) = Red(h3, n)
      /\ \A s \in Sides, n \in Nodes : Kid(h, s, n) = Kid(h3, s, n)
  BY <1>1, <1>7, SetBlack
<1>9. \A s \in Sides : Kid(h, s, z) = nil
  <2>1. Kid(h, "left", z) = nil BY <1>0, <1>5, <1>6, <1>7, <1>8
  <2>2. Kid(h, "right", z) = nil BY <1>0, <1>6, <1>7, <1>8
  <2>3. QED BY <1>0, <2>1, <2>2
<1>10. ASSUME NEW n \in Nodes, n # z
       PROVE /\ Up(h, n) = Up(t, n) /\ Red(h, n) = Red(t, n)
             /\ \A s \in Sides : Kid(h, s, n) = Kid(t, s, n)
  BY <1>5, <1>6, <1>7, <1>8, <1>10
<1>11. QED BY <1>5, <1>6, <1>7, <1>8, <1>9, <1>10

\* Transplant hangs v in the place of x, and sets its parent, the sentinel's too.
LEMMA TransplantFields ==
  ASSUME NEW t \in Trees, NEW x \in Nodes, NEW v \in Nodes, NEW p, p = Up(t, x),
         OnlyKid(t, x, p), NEW h, h = Transplant(t, x, v)
  PROVE  /\ h \in Trees /\ (\A n \in Nodes : Red(h, n) = Red(t, n))
         /\ Up(h, v) = p /\ (\A n \in Nodes : n # v => Up(h, n) = Up(t, n))
         /\ p = nil => Top(h) = v
         /\ p # nil => Top(h) = Top(t)
         /\ \A s \in Sides, n \in Nodes :
              /\ n = p /\ p # nil /\ Kid(t, s, n) = x => Kid(h, s, n) = v
              /\ n # p \/ p = nil \/ Kid(t, s, n) # x => Kid(h, s, n) = Kid(t, s, n)
<1> DEFINE hung == Hang(t, x, v)
<1>1. h = PutParent(hung, v, p)
  <2>1. Transplant(t, x, v) = PutParent(Hang(t, x, v), v, Up(t, x))
    BY ZenonT(60) DEF Transplant, PutParent, Up
  <2>2. QED BY <2>1
<1>2. hung = Hang(t, x, v) OBVIOUS
<1> HIDE DEF hung
<1>3. Hung(t, hung, x, v, p) BY <1>2, HangFields
<1>4. p \in Nodes BY TreeFields
<1>5. /\ hung \in Trees /\ (\A n \in Nodes : Up(hung, n) = Up(t, n))
      /\ (\A n \in Nodes : Red(hung, n) = Red(t, n))
      /\ p = nil => Top(hung) = v
      /\ p # nil => Top(hung) = Top(t)
      /\ \A s \in Sides, n \in Nodes :
           /\ n = p /\ p # nil /\ Kid(t, s, n) = x => Kid(hung, s, n) = v
           /\ n # p \/ p = nil \/ Kid(t, s, n) # x => Kid(hung, s, n) = Kid(t, s, n)
  BY <1>3 DEF Hung
<1>6. /\ h \in Trees /\ Top(h) = Top(hung) /\ (\A n \in Nodes : Red(h, n) = Red(hung, n))
      /\ Up(h, v) = p /\ (\A n \in Nodes : n # v => Up(h, n) = Up(hung, n))
      /\ \A s \in Sides, n \in Nodes : Kid(h, s, n) = Kid(hung, s, n)
  <2>1. hung \in Trees BY <1>5
  <2>2. QED BY <1>1, <1>4, <2>1, SetParent, SMTT(60)
<1>7. QED BY <1>5, <1>6

\* How h is t without z, in whose place is its only child x, or the sentinel.
Spliced(t, h, z, x, p) ==
  /\ h \in Trees
  /\ Top(t) = z => Top(h) = x
  /\ Top(t) # z => Top(h) = Top(t)
  /\ Up(h, z) = nil /\ ~Red(h, z) /\ (\A s \in Sides : Kid(h, s, z) = nil)
  /\ Up(h, x) = p /\ (\A n \in Nodes : n # x /\ n # z => Up(h, n) = Up(t, n))
  /\ \A n \in Nodes : n # z => Red(h, n) = Red(t, n)
  /\ \A s \in Sides, n \in Nodes : n # z => /\ Kid(t, s, n) = z => Kid(h, s, n) = x
                                            /\ Kid(t, s, n) # z => Kid(h, s, n) = Kid(t, s, n)

\* z has at most one child, which is x.
Single(t, z, a, x, p) ==
  /\ a \in Sides /\ Kid(t, a, z) = nil /\ x = Kid(t, Opposite(a), z) /\ p = Up(t, z)

\* The nodes around it are different, and its child hangs on it.
LEMMA SingleFacts ==
  ASSUME NEW t, NEW u, Shape(t, u), NEW z \in u[Top(t)], NEW a, NEW x, NEW p, Single(t, z, a, x, p)
  PROVE  /\ t \in Trees /\ z \in Keys /\ z \in Nodes /\ z # nil /\ x \in Nodes /\ x # z /\ p \in Nodes
         /\ OnlyKid(t, z, p) /\ (p = nil <=> Top(t) = z) /\ p # z
         /\ x # nil => /\ x \in Keys /\ x \in u[Top(t)] /\ Up(t, x) = z /\ x # Top(t)
         /\ u[z] = {z} \cup u[x] /\ z \notin u[x]
         /\ \A s \in Sides, n \in Nodes : Kid(t, s, n) = z => n = p /\ p # nil
<1>0. a \in Sides /\ Kid(t, a, z) = nil /\ x = Kid(t, Opposite(a), z) /\ p = Up(t, z) BY DEF Single
<1>1. t \in Trees /\ z \in Keys /\ z \in Nodes /\ z # nil /\ Opposite(a) \in Sides
  BY <1>0, InTree, KeyFacts, SideFacts DEF Shape
<1>2. x \in Nodes /\ x # z /\ p \in Nodes BY <1>0, <1>1, ShapeFacts, TreeFields
<1>3. p = nil <=> Top(t) = z BY <1>0, InTree
<1>4. p # nil => p \in Keys /\ p # z /\ \E s \in Sides : Kid(t, s, p) = z
  BY <1>0, <1>3, InTree, KeyFacts
<1>5. OnlyKid(t, z, p)
  <2>1. SUFFICES ASSUME p # nil PROVE \E s \in Sides : Kid(t, s, p) = z /\ Kid(t, Opposite(s), p) # z
    BY DEF OnlyKid
  <2>2. PICK s \in Sides : Kid(t, s, p) = z BY <1>4, <2>1
  <2>3. Kid(t, Opposite(s), p) # z BY <1>1, <1>4, <2>1, <2>2, ShapeFacts
  <2>4. QED BY <2>2, <2>3
<1>6. x # nil => /\ x \in Keys /\ x \in u[Top(t)] /\ Up(t, x) = z /\ x # Top(t)
  BY <1>0, <1>1, InTree
<1>7. u[z] = {z} \cup u[x] /\ z \notin u[x]
  <2>1. u[z] = {z} \cup u[nil] \cup u[x] /\ z \notin u[x] BY <1>0, <1>1, ShapeFacts
  <2>2. u[nil] = {} BY DEF Shape
  <2>3. QED BY <2>1, <2>2
<1>8. \A s \in Sides, n \in Nodes : Kid(t, s, n) = z => n = p /\ p # nil
  <2>1. SUFFICES ASSUME NEW s \in Sides, NEW n \in Nodes, Kid(t, s, n) = z PROVE n = p /\ p # nil
    OBVIOUS
  <2>2. n \in u[Top(t)] /\ n = p BY <1>0, <1>1, <2>1, InTree
  <2>3. QED BY <2>2, InTree
<1>9. QED BY <1>1, <1>2, <1>3, <1>4, <1>5, <1>6, <1>7, <1>8, KeyFacts

\* The code does that.
LEMMA SpliceFields ==
  ASSUME NEW t, NEW u, Shape(t, u), NEW z \in u[Top(t)], NEW a, NEW x, NEW p, Single(t, z, a, x, p),
         NEW h, h = Freed(Transplant(t, z, x), z)
  PROVE  Spliced(t, h, z, x, p)
<1> DEFINE moved_ == Transplant(t, z, x)
<1>0. /\ t \in Trees /\ z \in Keys /\ z \in Nodes /\ z # nil /\ x \in Nodes /\ x # z /\ p \in Nodes
      /\ OnlyKid(t, z, p) /\ (p = nil <=> Top(t) = z)
      /\ \A s \in Sides, n \in Nodes : Kid(t, s, n) = z => n = p /\ p # nil
  BY SingleFacts
<1>1. p = Up(t, z) BY DEF Single
<1>2. moved_ = Transplant(t, z, x) OBVIOUS
<1> HIDE DEF moved_
<1>3. /\ moved_ \in Trees /\ (\A n \in Nodes : Red(moved_, n) = Red(t, n))
      /\ Up(moved_, x) = p /\ (\A n \in Nodes : n # x => Up(moved_, n) = Up(t, n))
      /\ p = nil => Top(moved_) = x
      /\ p # nil => Top(moved_) = Top(t)
      /\ \A s \in Sides, n \in Nodes :
           /\ n = p /\ p # nil /\ Kid(t, s, n) = z => Kid(moved_, s, n) = x
           /\ n # p \/ p = nil \/ Kid(t, s, n) # z => Kid(moved_, s, n) = Kid(t, s, n)
  BY <1>0, <1>1, <1>2, TransplantFields
<1>4. h = Freed(moved_, z) BY <1>2
<1>5. /\ h \in Trees /\ Top(h) = Top(moved_) /\ Up(h, z) = nil /\ ~Red(h, z)
      /\ \A s \in Sides : Kid(h, s, z) = nil
      /\ \A n \in Nodes : n # z => /\ Up(h, n) = Up(moved_, n) /\ Red(h, n) = Red(moved_, n)
                                   /\ \A s \in Sides : Kid(h, s, n) = Kid(moved_, s, n)
  BY <1>0, <1>3, <1>4, FreedFields
<1>6. QED BY <1>0, <1>3, <1>5 DEF Spliced

\* v is u without z, which is a node by itself.
Without(u, v, z) ==
  /\ v \in [Nodes -> SUBSET Keys] /\ v[z] = {z} /\ \A n \in Nodes : n # z => v[n] = u[n] \ {z}

\* The other nodes keep the nodes below them but z.
LEMMA SpliceShape ==
  ASSUME NEW t, NEW u, Shape(t, u), NEW z \in u[Top(t)], NEW a, NEW x, NEW p, Single(t, z, a, x, p),
         NEW h, Spliced(t, h, z, x, p)
  PROVE  \E v : Shape(h, v) /\ Without(u, v, z) /\ v[Top(h)] = u[Top(t)] \ {z}
<1> DEFINE v == [n \in Nodes |-> IF n = z THEN {z} ELSE u[n] \ {z}]
<1>0. /\ t \in Trees /\ z \in Keys /\ z \in Nodes /\ z # nil /\ x \in Nodes /\ x # z /\ p \in Nodes
      /\ (p = nil <=> Top(t) = z) /\ p # z
      /\ x # nil => /\ x \in Keys /\ x \in u[Top(t)] /\ Up(t, x) = z /\ x # Top(t)
      /\ u[z] = {z} \cup u[x] /\ z \notin u[x]
      /\ \A s \in Sides, n \in Nodes : Kid(t, s, n) = z => n = p /\ p # nil
  BY SingleFacts
<1>1. /\ h \in Trees
      /\ Top(t) = z => Top(h) = x
      /\ Top(t) # z => Top(h) = Top(t)
      /\ Up(h, z) = nil /\ ~Red(h, z) /\ (\A s \in Sides : Kid(h, s, z) = nil)
      /\ Up(h, x) = p /\ (\A n \in Nodes : n # x /\ n # z => Up(h, n) = Up(t, n))
      /\ \A n \in Nodes : n # z => Red(h, n) = Red(t, n)
      /\ \A s \in Sides, n \in Nodes : n # z => /\ Kid(t, s, n) = z => Kid(h, s, n) = x
                                                /\ Kid(t, s, n) # z => Kid(h, s, n) = Kid(t, s, n)
  BY DEF Spliced
<1>2. \A n \in Nodes : u[n] \in SUBSET Keys BY ShapeFacts
<1>3. Without(u, v, z) BY <1>0, <1>2 DEF Without
<1>4. /\ v \in [Nodes -> SUBSET Keys] /\ v[z] = {z} /\ \A n \in Nodes : n # z => v[n] = u[n] \ {z}
  BY <1>3 DEF Without
<1> HIDE DEF v
<1>5. v[nil] = {} /\ ~Red(h, nil) /\ \A s \in Sides : Kid(h, s, nil) = nil
  BY <1>0, <1>1, <1>4, KeyFacts DEF Shape
<1>6. ASSUME NEW s \in Sides, NEW n \in Nodes, n # z
      PROVE  Kid(h, s, n) \in Nodes /\ Kid(h, s, n) # z /\ v[Kid(h, s, n)] = u[Kid(t, s, n)] \ {z}
  <2>1. CASE Kid(t, s, n) = z
    <3>1. Kid(h, s, n) = x BY <1>1, <1>6, <2>1
    <3>2. v[x] = u[x] \ {z} BY <1>0, <1>4
    <3>3. QED BY <1>0, <2>1, <3>1, <3>2
  <2>2. CASE Kid(t, s, n) # z
    <3>1. Kid(h, s, n) = Kid(t, s, n) /\ Kid(t, s, n) \in Nodes BY <1>1, <1>6, <2>2, ShapeFacts
    <3>2. QED BY <1>4, <2>2, <3>1
  <2>3. QED BY <2>1, <2>2
<1>7. ASSUME NEW n \in Keys
      PROVE  v[n] = {n} \cup v[Kid(h, "left", n)] \cup v[Kid(h, "right", n)]
  <2>1. CASE n = z
    <3>1. Kid(h, "left", n) = nil /\ Kid(h, "right", n) = nil BY <1>1, <2>1, SideFacts
    <3>2. QED BY <1>4, <1>5, <2>1, <3>1
  <2>2. CASE n # z
    <3>1. u[n] = {n} \cup u[Kid(t, "left", n)] \cup u[Kid(t, "right", n)] BY DEF Shape
    <3>2. /\ v[Kid(h, "left", n)] = u[Kid(t, "left", n)] \ {z}
          /\ v[Kid(h, "right", n)] = u[Kid(t, "right", n)] \ {z}
      BY <1>6, <2>2, SideFacts, KeyFacts
    <3>3. v[n] = u[n] \ {z} BY <1>4, <2>2, KeyFacts
    <3>4. QED BY <2>2, <3>1, <3>2, <3>3
  <2>3. QED BY <2>1, <2>2
<1>8. ASSUME NEW n \in Keys, NEW s \in Sides, NEW m \in Keys, m \in v[Kid(h, s, n)]
      PROVE  Before(s, m, n)
  <2>1. n # z BY <1>1, <1>5, <1>8
  <2>2. m \in u[Kid(t, s, n)] BY <1>6, <1>8, <2>1, KeyFacts
  <2>3. QED BY <2>2 DEF Shape
<1>9. ASSUME NEW n \in Keys, NEW s \in Sides, Kid(h, s, n) # nil
      PROVE  Up(h, Kid(h, s, n)) = n
  <2>1. n # z /\ n \in Nodes BY <1>1, <1>9, KeyFacts
  <2>2. CASE Kid(t, s, n) = z
    <3>1. Kid(h, s, n) = x /\ n = p BY <1>0, <1>1, <2>1, <2>2
    <3>2. QED BY <1>1, <3>1
  <2>3. CASE Kid(t, s, n) # z
    <3>1. Kid(h, s, n) = Kid(t, s, n) /\ Kid(t, s, n) \in Nodes BY <1>1, <2>1, <2>3, ShapeFacts
    <3>2. Up(t, Kid(t, s, n)) = n BY <1>9, <2>1, <3>1, InTree
    <3>3. Kid(t, s, n) # x BY <1>0, <1>9, <2>1, <3>1, <3>2
    <3>4. QED BY <1>1, <2>3, <3>1, <3>2, <3>3
  <2>4. QED BY <2>2, <2>3
<1>10. Top(h) \in Nodes /\ v[Top(h)] = u[Top(t)] \ {z}
  <2>1. Top(t) \in Nodes BY InTree
  <2>2. CASE Top(t) = z
    <3>1. v[x] = u[x] \ {z} BY <1>0, <1>4
    <3>2. QED BY <1>0, <1>1, <2>2, <3>1
  <2>3. CASE Top(t) # z BY <1>1, <1>4, <2>1, <2>3
  <2>4. QED BY <2>2, <2>3
<1>11. Top(h) # nil => Up(h, Top(h)) = nil
  <2>1. CASE Top(t) = z BY <1>0, <1>1, <2>1
  <2>2. CASE Top(t) # z
    <3>1. Top(t) \in Nodes /\ Top(t) # nil /\ Top(t) # x BY <1>0, InTree
    <3>2. Up(t, Top(t)) = nil BY <3>1 DEF Shape
    <3>3. QED BY <1>1, <2>2, <3>1, <3>2
  <2>3. QED BY <2>1, <2>2
<1>12. ASSUME NEW n \in Keys \ v[Top(h)]
       PROVE  (\A s \in Sides : Kid(h, s, n) = nil) /\ Up(h, n) = nil /\ ~Red(h, n)
  <2>1. CASE n = z BY <1>1, <2>1
  <2>2. CASE n # z
    <3>1. n \in Keys \ u[Top(t)] /\ n \in Nodes /\ n # nil BY <1>10, <2>2, KeyFacts
    <3>2. (\A s \in Sides : Kid(t, s, n) = nil) /\ Up(t, n) = nil /\ ~Red(t, n) BY <3>1 DEF Shape
    <3>3. n # x BY <1>0, <3>1
    <3>4. QED BY <1>0, <1>1, <2>2, <3>1, <3>2, <3>3
  <2>3. QED BY <2>1, <2>2
<1>13. Shape(h, v) BY <1>1, <1>4, <1>5, <1>7, <1>8, <1>9, <1>11, <1>12 DEF Shape
<1>14. QED BY <1>3, <1>10, <1>13

\* A whole tree: every way down passes as many black nodes, and red nodes have black children.
Sound(t, u, b) == Shape(t, u) /\ Weighed(t, b, {}) /\ RedOk(t, {}, {}) /\ ~Red(t, Top(t))

\* What an unlinked node leaves, red or black, with x in its place.
Cut(t, u, b, x, red) ==
  /\ red => Sound(t, u, b)
  /\ ~red => Short(t, u, b, x)

\* If the node spliced out was red the tree is whole, else a repair begins at its child.
LEMMA SpliceCut ==
  ASSUME NEW t, NEW u, NEW b, Sound(t, u, b), NEW z \in u[Top(t)], NEW a, NEW x, NEW p,
         Single(t, z, a, x, p), NEW h, Spliced(t, h, z, x, p), NEW v, Shape(h, v),
         v[Top(h)] = u[Top(t)] \ {z}
  PROVE  \E c : Cut(h, v, c, x, Red(t, z))
<1> DEFINE c == [n \in Nodes |-> IF n = z THEN 1 ELSE b[n]]
<1>a. /\ Shape(t, u) /\ Weighed(t, b, {}) /\ ~Red(t, Top(t))
      /\ \A n \in Keys, s \in Sides : ~(Red(t, n) /\ Red(t, Kid(t, s, n)))
  BY DEF Sound, RedOk
<1>0. /\ t \in Trees /\ z \in Keys /\ z \in Nodes /\ z # nil /\ x \in Nodes /\ x # z /\ p \in Nodes
      /\ (p = nil <=> Top(t) = z) /\ p # z
      /\ x # nil => /\ x \in Keys /\ x \in u[Top(t)] /\ Up(t, x) = z /\ x # Top(t)
      /\ \A s \in Sides, n \in Nodes : Kid(t, s, n) = z => n = p /\ p # nil
  BY <1>a, SingleFacts
<1>1. /\ h \in Trees
      /\ Top(t) = z => Top(h) = x
      /\ Top(t) # z => Top(h) = Top(t)
      /\ ~Red(h, z) /\ (\A s \in Sides : Kid(h, s, z) = nil) /\ Up(h, x) = p
      /\ \A n \in Nodes : n # z => Red(h, n) = Red(t, n)
      /\ \A s \in Sides, n \in Nodes : n # z => /\ Kid(t, s, n) = z => Kid(h, s, n) = x
                                                /\ Kid(t, s, n) # z => Kid(h, s, n) = Kid(t, s, n)
  BY DEF Spliced
<1>2. b \in [Nodes -> Nat] /\ b[nil] = 0 /\ (\A n \in Keys : Level(t, b, n)) BY <1>a DEF Weighed
<1>3. /\ c \in [Nodes -> Nat] /\ c[z] = 1 /\ c[nil] = 0 /\ c[x] = b[x]
      /\ \A n \in Nodes : n # z => c[n] = b[n]
  BY <1>0, <1>2, KeyFacts
<1> HIDE DEF c
<1>4. b[z] = b[x] + Weight(t, z) /\ b[x] \in Nat /\ b[z] \in Nat
  <2>1. x = Kid(t, Opposite(a), z) /\ Opposite(a) \in Sides BY SideFacts DEF Single
  <2>2. QED BY <1>0, <1>2, <2>1 DEF Level
<1>5. \A n \in Nodes : n # z => Weight(h, n) = Weight(t, n) BY <1>1 DEF Weight
<1>6. ASSUME NEW n \in Keys, (\A s \in Sides : Kid(t, s, n) # z) \/ Red(t, z) PROVE Level(h, c, n)
  <2>1. SUFFICES ASSUME NEW s \in Sides PROVE c[n] = c[Kid(h, s, n)] + Weight(h, n)
    BY DEF Level
  <2>2. CASE n = z
    <3>1. Weight(h, n) = 1 BY <1>1, <2>2 DEF Weight
    <3>2. Kid(h, s, n) = nil BY <1>1, <2>2
    <3>3. QED BY <1>3, <2>2, <3>1, <3>2
  <2>3. CASE n # z
    <3>0. n \in Nodes /\ Kid(t, s, n) \in Nodes BY <1>a, KeyFacts, ShapeFacts
    <3>1. b[n] = b[Kid(t, s, n)] + Weight(t, n) BY <1>2 DEF Level
    <3>2. CASE Kid(t, s, n) = z
      <4>1. Weight(t, z) = 0 BY <1>6, <3>2 DEF Weight
      <4>2. Kid(h, s, n) = x BY <1>1, <2>3, <3>0, <3>2
      <4>3. QED BY <1>3, <1>4, <1>5, <2>3, <3>0, <3>1, <3>2, <4>1, <4>2
    <3>3. CASE Kid(t, s, n) # z BY <1>1, <1>3, <1>5, <2>3, <3>0, <3>1, <3>3
    <3>4. QED BY <3>2, <3>3
  <2>4. QED BY <2>2, <2>3
<1>7. ASSUME NEW n \in Keys, NEW s \in Sides, Red(h, n), Red(h, Kid(h, s, n))
      PROVE  Kid(t, s, n) = z /\ Kid(h, s, n) = x /\ Red(t, n)
  <2>1. n # z /\ n \in Nodes /\ Kid(h, s, n) # z BY <1>1, <1>7, KeyFacts
  <2>2. Red(t, n) BY <1>1, <1>7, <2>1
  <2>3. Kid(t, s, n) = z
    <3>1. SUFFICES ASSUME Kid(t, s, n) # z PROVE FALSE
      OBVIOUS
    <3>2. Kid(h, s, n) = Kid(t, s, n) /\ Kid(t, s, n) \in Nodes BY <1>a, <1>1, <2>1, <3>1, ShapeFacts
    <3>3. Red(t, Kid(t, s, n)) BY <1>1, <1>7, <3>1, <3>2
    <3>4. QED BY <1>a, <2>2, <3>3
  <2>4. QED BY <1>1, <2>1, <2>2, <2>3
<1>8. CASE Red(t, z)
  <2>1. Weighed(h, c, {}) BY <1>3, <1>6, <1>8 DEF Weighed
  <2>2. RedOk(h, {}, {}) BY <1>a, <1>7, <1>8 DEF RedOk
  <2>3. ~Red(h, Top(h))
    <3>1. Top(t) # z /\ Top(t) \in Nodes BY <1>a, <1>8, InTree
    <3>2. QED BY <1>a, <1>1, <3>1
  <2>4. Sound(h, v, c) BY <2>1, <2>2, <2>3 DEF Sound
  <2>5. QED BY <1>8, <2>4 DEF Cut
<1>9. CASE ~Red(t, z)
  <2>1. RedOk(h, {x}, {x}) BY <1>7 DEF RedOk
  <2>2. CASE Top(t) = z
    <3>1. \A n \in Keys, s \in Sides : Kid(t, s, n) # z BY <1>0, <2>2, KeyFacts
    <3>2. Weighed(h, c, {}) BY <1>3, <1>6, <3>1 DEF Weighed
    <3>3. Whole(h, v, c, x) BY <1>1, <2>1, <2>2, <3>2 DEF Whole
    <3>4. QED BY <1>9, <3>3 DEF Cut, Short
  <2>3. CASE Top(t) # z
    <3>1. p \in u[Top(t)] /\ \E s \in Sides : Kid(t, s, p) = z
      <4>1. p = Up(t, z) BY DEF Single
      <4>2. QED BY <1>a, <2>3, <4>1, InTree
    <3>2. PICK s \in Sides : Kid(t, s, p) = z BY <3>1
    <3>3. p \in Keys /\ Opposite(s) \in Sides BY <1>a, <3>1, InTree, SideFacts
    <3>4. \A n \in Keys : n # p => Level(h, c, n) BY <1>0, <1>6, KeyFacts
    <3>5. Weighed(h, c, {p}) BY <1>3, <3>4 DEF Weighed
    <3> DEFINE o == Kid(t, Opposite(s), p)
    <3>6. o \in Nodes /\ o # z BY <1>a, <1>0, <3>2, <3>3, ShapeFacts
    <3>7. Kid(h, s, p) = x /\ Kid(h, Opposite(s), p) = o BY <1>0, <1>1, <3>2, <3>3, <3>6
    <3>8. b[p] = b[z] + Weight(t, p) /\ b[p] = b[o] + Weight(t, p) BY <1>2, <3>2, <3>3 DEF Level
    <3>9. Weight(t, z) = 1 /\ Weight(h, p) = Weight(t, p) /\ Weight(t, p) \in {0, 1}
      BY <1>0, <1>5, <1>9 DEF Weight
    <3>10. c[o] = b[o] /\ c[p] = b[p] /\ b[o] \in Nat /\ b[p] \in Nat BY <1>0, <1>2, <1>3, <3>6
    <3> HIDE DEF o
    <3>11. c[o] = c[x] + 1 /\ c[p] = c[x] + 1 + Weight(h, p) BY <1>3, <1>4, <3>8, <3>9, <3>10
    <3>12. ~Red(h, Top(h))
      <4>1. Top(t) \in Nodes BY <1>a, InTree
      <4>2. QED BY <1>a, <1>1, <2>3, <4>1
    <3>13. p \in v[Top(h)] BY <1>0, <3>1
    <3>14. c[Kid(h, Opposite(s), p)] = c[x] + 1 BY <3>7, <3>11
    <3>15. Lacking(h, v, c, x, p, s) BY <1>1, <2>1, <3>5, <3>7, <3>11, <3>12, <3>13, <3>14 DEF Lacking
    <3>16. QED BY <1>9, <3>15 DEF Cut, Short
  <2>4. QED BY <2>2, <2>3
<1>10. QED BY <1>8, <1>9

-----------------------------------------------------------------------------
(* A node takes the place of another *)

\* How q is h with y, no node of it, in the place of z; x may be the sentinel.
Renamed(h, q, z, y, x) ==
  /\ q \in Trees
  /\ Top(h) = z => Top(q) = y
  /\ Top(h) # z => Top(q) = Top(h)
  /\ \A s \in Sides, n \in Nodes \ {z, y} : /\ Kid(h, s, n) = z => Kid(q, s, n) = y
                                            /\ Kid(h, s, n) # z => Kid(q, s, n) = Kid(h, s, n)
  /\ \A s \in Sides : Kid(q, s, y) = Kid(h, s, z) /\ Kid(q, s, z) = nil
  /\ Up(q, y) = Up(h, z) /\ Up(q, z) = nil
  /\ \A n \in Nodes \ {z, y} : n # nil \/ n = x => /\ Up(h, n) = z => Up(q, n) = y
                                                   /\ Up(h, n) # z => Up(q, n) = Up(h, n)
  /\ Red(q, y) = Red(h, z) /\ ~Red(q, z)
  /\ \A n \in Nodes \ {z, y} : Red(q, n) = Red(h, n)

\* y, no node of h, can take the place of z.
Suits(h, v, z, y) ==
  /\ z \in v[Top(h)] /\ y \in Keys /\ y \notin v[Top(h)]
  /\ \A n \in Keys, s \in Sides : z \in v[Kid(h, s, n)] => Before(s, y, n)
  /\ \A s \in Sides : \A m \in v[Kid(h, s, z)] : Before(s, m, y)

\* y is not in the tree.
LEMMA RenameFacts ==
  ASSUME NEW h, NEW v, Shape(h, v), NEW z, NEW y, Suits(h, v, z, y)
  PROVE  /\ h \in Trees /\ z \in Keys /\ z \in Nodes /\ z # nil /\ y \in Nodes /\ y # nil /\ y # z
         /\ Top(h) \in Nodes /\ Top(h) # y
         /\ \A s \in Sides, n \in Nodes : Kid(h, s, n) \in Nodes /\ Kid(h, s, n) # y
         /\ \A s \in Sides : Kid(h, s, z) # z
<1>0. z \in v[Top(h)] /\ y \in Keys /\ y \notin v[Top(h)] BY DEF Suits
<1>1. h \in Trees /\ z \in Keys /\ z \in Nodes /\ z # nil /\ y \in Nodes /\ y # nil /\ y # z
  BY <1>0, InTree, KeyFacts DEF Shape
<1>2. Top(h) \in Nodes /\ Top(h) # y BY <1>0, <1>1, InTree
<1>3. \A s \in Sides, n \in Nodes : Kid(h, s, n) \in Nodes /\ Kid(h, s, n) # y
  BY <1>0, <1>1, InTree, ShapeFacts
<1>4. \A s \in Sides : Kid(h, s, z) # z BY <1>1, ShapeFacts
<1>5. QED BY <1>1, <1>2, <1>3, <1>4

\* A tree with y in the place of z has a shape.
LEMMA RenameShape ==
  ASSUME NEW h, NEW v, Shape(h, v), NEW z, NEW y, Suits(h, v, z, y),
         NEW x, NEW q, Renamed(h, q, z, y, x)
  PROVE  \E w : Shape(q, w) /\ w[Top(q)] = (v[Top(h)] \ {z}) \cup {y}
<1> DEFINE w == [n \in Nodes |-> IF n = z THEN {z} ELSE IF n = y THEN (v[z] \ {z}) \cup {y}
                                 ELSE IF z \in v[n] THEN (v[n] \ {z}) \cup {y} ELSE v[n]]
<1>0. /\ h \in Trees /\ z \in Keys /\ z \in Nodes /\ z # nil /\ y \in Nodes /\ y # nil /\ y # z
      /\ Top(h) \in Nodes /\ Top(h) # y
      /\ \A s \in Sides, n \in Nodes : Kid(h, s, n) \in Nodes /\ Kid(h, s, n) # y
      /\ \A s \in Sides : Kid(h, s, z) # z
  BY RenameFacts
<1>a. /\ z \in v[Top(h)] /\ y \in Keys /\ y \notin v[Top(h)]
      /\ \A n \in Keys, s \in Sides : z \in v[Kid(h, s, n)] => Before(s, y, n)
      /\ \A s \in Sides : \A m \in v[Kid(h, s, z)] : Before(s, m, y)
  BY DEF Suits
<1>1. /\ q \in Trees
      /\ Top(h) = z => Top(q) = y
      /\ Top(h) # z => Top(q) = Top(h)
      /\ \A s \in Sides, n \in Nodes \ {z, y} : /\ Kid(h, s, n) = z => Kid(q, s, n) = y
                                                /\ Kid(h, s, n) # z => Kid(q, s, n) = Kid(h, s, n)
      /\ \A s \in Sides : Kid(q, s, y) = Kid(h, s, z) /\ Kid(q, s, z) = nil
      /\ Up(q, y) = Up(h, z) /\ Up(q, z) = nil
      /\ \A n \in Nodes \ {z, y} : n # nil \/ n = x => /\ Up(h, n) = z => Up(q, n) = y
                                                       /\ Up(h, n) # z => Up(q, n) = Up(h, n)
      /\ ~Red(q, z) /\ \A n \in Nodes \ {z, y} : Red(q, n) = Red(h, n)
  BY DEF Renamed
<1>2. \A n \in Nodes : v[n] \in SUBSET Keys BY ShapeFacts
<1>3. /\ w \in [Nodes -> SUBSET Keys] /\ w[z] = {z} /\ w[y] = (v[z] \ {z}) \cup {y}
      /\ \A n \in Nodes \ {z, y} : /\ z \in v[n] => w[n] = (v[n] \ {z}) \cup {y}
                                   /\ z \notin v[n] => w[n] = v[n]
  BY <1>0, <1>a, <1>2
<1> HIDE DEF w
<1>4. v[nil] = {} /\ ~Red(h, nil) /\ (\A s \in Sides : Kid(h, s, nil) = nil) BY DEF Shape
<1>5. w[nil] = {} /\ ~Red(q, nil) /\ \A s \in Sides : Kid(q, s, nil) = nil
  BY <1>0, <1>1, <1>3, <1>4, KeyFacts
<1>6. z \in v[z] BY <1>0, ShapeFacts
\* The nodes below the child of a node that keeps its place.
<1>7. ASSUME NEW s \in Sides, NEW n \in Nodes \ {z, y}
      PROVE  LET old == v[Kid(h, s, n)]
             IN  /\ z \in old => w[Kid(q, s, n)] = (old \ {z}) \cup {y}
                 /\ z \notin old => w[Kid(q, s, n)] = old
  <2>1. CASE Kid(h, s, n) = z
    <3>1. Kid(q, s, n) = y BY <1>1, <2>1
    <3>2. QED BY <1>3, <1>6, <2>1, <3>1
  <2>2. CASE Kid(h, s, n) # z
    <3>1. Kid(q, s, n) = Kid(h, s, n) /\ Kid(h, s, n) \in Nodes \ {z, y} BY <1>0, <1>1, <2>2
    <3>2. QED BY <1>3, <3>1
  <2>3. QED BY <2>1, <2>2
\* The nodes below the children of y.
<1>8. ASSUME NEW s \in Sides
      PROVE  /\ w[Kid(q, s, y)] = v[Kid(h, s, z)] /\ Kid(q, s, y) = Kid(h, s, z)
             /\ Kid(h, s, z) \in Nodes \ {z, y}
  <2>1. Kid(q, s, y) = Kid(h, s, z) /\ Kid(h, s, z) \in Nodes \ {z, y} BY <1>0, <1>1
  <2>2. z \notin v[Kid(h, s, z)] BY <1>0, ShapeFacts
  <2>3. QED BY <1>3, <2>1, <2>2
<1>9. ASSUME NEW n \in Keys
      PROVE  w[n] = {n} \cup w[Kid(q, "left", n)] \cup w[Kid(q, "right", n)]
  <2>0. "left" \in Sides /\ "right" \in Sides /\ n \in Nodes BY SideFacts, KeyFacts
  <2>1. CASE n = z
    <3>1. Kid(q, "left", n) = nil /\ Kid(q, "right", n) = nil BY <1>1, <2>0, <2>1
    <3>2. QED BY <1>3, <1>5, <2>1, <3>1
  <2>2. CASE n = y
    <3>1. v[z] = {z} \cup v[Kid(h, "left", z)] \cup v[Kid(h, "right", z)] BY <1>0 DEF Shape
    <3>2. z \notin v[Kid(h, "left", z)] /\ z \notin v[Kid(h, "right", z)] BY <1>0, <2>0, ShapeFacts
    <3>3. w[Kid(q, "left", y)] = v[Kid(h, "left", z)] /\ w[Kid(q, "right", y)] = v[Kid(h, "right", z)]
      BY <1>8, <2>0
    <3>4. QED BY <1>3, <2>2, <3>1, <3>2, <3>3
  <2>3. CASE n # z /\ n # y
    <3> DEFINE l == v[Kid(h, "left", n)]
               r == v[Kid(h, "right", n)]
    <3>1. v[n] = {n} \cup l \cup r BY DEF Shape
    <3>2. /\ z \in l => w[Kid(q, "left", n)] = (l \ {z}) \cup {y}
          /\ z \notin l => w[Kid(q, "left", n)] = l
          /\ z \in r => w[Kid(q, "right", n)] = (r \ {z}) \cup {y}
          /\ z \notin r => w[Kid(q, "right", n)] = r
      BY <1>7, <2>0, <2>3
    <3>3. /\ z \in v[n] => w[n] = (v[n] \ {z}) \cup {y}
          /\ z \notin v[n] => w[n] = v[n]
      BY <1>3, <2>0, <2>3
    <3> HIDE DEF l, r
    <3>4. CASE z \in v[n] BY <2>3, <3>1, <3>2, <3>3, <3>4
    <3>5. CASE z \notin v[n] BY <2>3, <3>1, <3>2, <3>3, <3>5
    <3>6. QED BY <3>4, <3>5
  <2>4. QED BY <2>1, <2>2, <2>3
<1>10. ASSUME NEW n \in Keys, NEW s \in Sides, NEW m \in Keys, m \in w[Kid(q, s, n)]
       PROVE  Before(s, m, n)
  <2>1. CASE n = z BY <1>1, <1>5, <1>10, <2>1
  <2>2. CASE n = y BY <1>a, <1>8, <1>10, <2>2
  <2>3. CASE n # z /\ n # y
    <3>1. m \in v[Kid(h, s, n)] \/ (m = y /\ z \in v[Kid(h, s, n)]) BY <1>7, <1>10, <2>3, KeyFacts
    <3>2. m \in v[Kid(h, s, n)] => Before(s, m, n) BY DEF Shape
    <3>3. QED BY <1>a, <3>1, <3>2
  <2>4. QED BY <2>1, <2>2, <2>3
<1>11. ASSUME NEW n \in Keys, NEW s \in Sides, Kid(q, s, n) # nil
       PROVE  Up(q, Kid(q, s, n)) = n
  <2>1. n # z BY <1>1, <1>11
  <2>2. CASE n = y
    <3>1. Up(h, Kid(h, s, z)) = z BY <1>0, <1>8, <1>11, <2>2, InTree
    <3>2. QED BY <1>1, <1>8, <1>11, <2>2, <3>1
  <2>3. CASE n # y
    <3>1. n \in Nodes \ {z, y} BY <2>1, <2>3, KeyFacts
    <3>2. CASE Kid(h, s, n) = z
      <4>1. Kid(q, s, n) = y /\ Up(h, z) = n BY <1>0, <1>1, <3>1, <3>2, InTree
      <4>2. QED BY <1>1, <4>1
    <3>3. CASE Kid(h, s, n) # z
      <4>1. Kid(q, s, n) = Kid(h, s, n) /\ Kid(h, s, n) \in Nodes \ {z, y} BY <1>0, <1>1, <3>1, <3>3
      <4>2. Up(h, Kid(h, s, n)) = n BY <1>11, <3>1, <4>1, InTree
      <4>3. QED BY <1>1, <1>11, <2>1, <4>1, <4>2
    <3>4. QED BY <3>2, <3>3
  <2>4. QED BY <2>2, <2>3
<1>12. w[Top(q)] = (v[Top(h)] \ {z}) \cup {y} BY <1>0, <1>a, <1>1, <1>3
<1>13. Top(q) # nil => Up(q, Top(q)) = nil
  <2>1. Top(h) # nil => Up(h, Top(h)) = nil BY DEF Shape
  <2>2. QED BY <1>0, <1>1, <2>1
<1>14. ASSUME NEW n \in Keys \ w[Top(q)]
       PROVE  (\A s \in Sides : Kid(q, s, n) = nil) /\ Up(q, n) = nil /\ ~Red(q, n)
  <2>1. CASE n = z BY <1>1, <2>1
  <2>2. CASE n # z
    <3>1. n \in Keys \ v[Top(h)] /\ n \in Nodes \ {z, y} /\ n # nil BY <1>12, <2>2, KeyFacts
    <3>2. (\A s \in Sides : Kid(h, s, n) = nil) /\ Up(h, n) = nil /\ ~Red(h, n) BY <3>1 DEF Shape
    <3>3. QED BY <1>0, <1>1, <3>1, <3>2
  <2>3. QED BY <2>1, <2>2
<1>15. Shape(q, w) BY <1>1, <1>3, <1>5, <1>9, <1>10, <1>11, <1>13, <1>14 DEF Shape
<1>16. QED BY <1>12, <1>15

\* Heights and colours stay with the places, so that nodes that were level are level.
LEMMA RenameParts ==
  ASSUME NEW h, NEW v, Shape(h, v), NEW z, NEW y, Suits(h, v, z, y),
         NEW x, x # z, NEW q, Renamed(h, q, z, y, x), NEW c \in [Nodes -> Nat], c[nil] = 0
  PROVE  \E d : /\ d \in [Nodes -> Nat] /\ d[nil] = 0 /\ d[y] = c[z]
                /\ \A n \in Nodes \ {z, y} : d[n] = c[n]
                /\ \A n \in Keys \ {z, y} : Level(h, c, n) => Level(q, d, n)
                /\ Level(h, c, z) => Level(q, d, y)
                /\ Level(q, d, z)
                /\ RedOk(h, {}, {}) => RedOk(q, {}, {})
                /\ RedOk(h, {x}, {x}) => RedOk(q, {x}, {x})
<1> DEFINE d == [n \in Nodes |-> IF n = y THEN c[z] ELSE IF n = z THEN 1 ELSE c[n]]
<1>0. /\ h \in Trees /\ z \in Keys /\ z \in Nodes /\ z # nil /\ y \in Nodes /\ y # nil /\ y # z
      /\ \A s \in Sides, n \in Nodes : Kid(h, s, n) \in Nodes /\ Kid(h, s, n) # y
      /\ \A s \in Sides : Kid(h, s, z) # z
  BY RenameFacts
<1>1. /\ \A s \in Sides, n \in Nodes \ {z, y} : /\ Kid(h, s, n) = z => Kid(q, s, n) = y
                                                /\ Kid(h, s, n) # z => Kid(q, s, n) = Kid(h, s, n)
      /\ \A s \in Sides : Kid(q, s, y) = Kid(h, s, z) /\ Kid(q, s, z) = nil
      /\ Red(q, y) = Red(h, z)
      /\ ~Red(q, z) /\ \A n \in Nodes \ {z, y} : Red(q, n) = Red(h, n)
  BY DEF Renamed
<1>2. /\ d \in [Nodes -> Nat] /\ d[nil] = 0 /\ d[y] = c[z] /\ d[z] = 1
      /\ \A n \in Nodes \ {z, y} : d[n] = c[n]
  BY <1>0, KeyFacts
<1> HIDE DEF d
<1>3. /\ Weight(q, y) = Weight(h, z) /\ Weight(q, z) = 1
      /\ \A n \in Nodes \ {z, y} : Weight(q, n) = Weight(h, n)
  BY <1>1 DEF Weight
<1>4. \A s \in Sides, n \in Nodes \ {z, y} : d[Kid(q, s, n)] = c[Kid(h, s, n)] BY <1>0, <1>1, <1>2
<1>5. ASSUME NEW n \in Keys \ {z, y}, Level(h, c, n) PROVE Level(q, d, n)
  <2>1. n \in Nodes \ {z, y} BY KeyFacts
  <2>2. \A s \in Sides : c[n] = c[Kid(h, s, n)] + Weight(h, n) BY <1>5 DEF Level
  <2>3. \A s \in Sides : d[n] = d[Kid(q, s, n)] + Weight(q, n) BY <1>2, <1>3, <1>4, <2>1, <2>2
  <2>4. QED BY <2>3 DEF Level
<1>6. ASSUME Level(h, c, z) PROVE Level(q, d, y)
  <2>1. \A s \in Sides : c[z] = c[Kid(h, s, z)] + Weight(h, z) BY <1>6 DEF Level
  <2>2. \A s \in Sides : d[Kid(q, s, y)] = c[Kid(h, s, z)] BY <1>0, <1>1, <1>2
  <2>3. \A s \in Sides : d[y] = d[Kid(q, s, y)] + Weight(q, y) BY <1>2, <1>3, <2>1, <2>2
  <2>4. QED BY <2>3 DEF Level
<1>7. Level(q, d, z)
  <2>1. \A s \in Sides : d[z] = d[Kid(q, s, z)] + Weight(q, z) BY <1>1, <1>2, <1>3
  <2>2. QED BY <2>1 DEF Level
\* Where a red node has a red child, the nodes in their places had the same.
<1>8. ASSUME NEW n \in Keys, NEW s \in Sides, Red(q, n), Red(q, Kid(q, s, n))
      PROVE  \E m \in Keys : /\ Red(h, m) /\ Red(h, Kid(h, s, m))
                             /\ (m = x => n = x) /\ (Kid(h, s, m) = x => Kid(q, s, n) = x)
  <2>1. n # z BY <1>1, <1>8
  <2>2. CASE n = y
    <3>1. Kid(q, s, n) = Kid(h, s, z) /\ Kid(h, s, z) \in Nodes \ {z, y} BY <1>0, <1>1, <2>2
    <3>2. Red(h, z) /\ Red(h, Kid(h, s, z)) BY <1>1, <1>8, <2>2, <3>1
    <3>3. QED BY <1>0, <3>1, <3>2
  <2>3. CASE n # y
    <3>1. n \in Nodes \ {z, y} /\ Kid(h, s, n) \in Nodes /\ Kid(h, s, n) # y BY <1>0, <2>1, <2>3, KeyFacts
    <3>2. Red(h, n) BY <1>1, <1>8, <3>1
    <3>3. CASE Kid(h, s, n) = z
      <4>1. Red(h, Kid(h, s, n)) BY <1>1, <1>8, <3>1, <3>3
      <4>2. QED BY <3>2, <3>3, <4>1
    <3>4. CASE Kid(h, s, n) # z
      <4>1. Kid(q, s, n) = Kid(h, s, n) BY <1>1, <3>1, <3>4
      <4>2. Red(h, Kid(h, s, n)) BY <1>1, <1>8, <3>1, <3>4, <4>1
      <4>3. QED BY <3>2, <4>1, <4>2
    <3>5. QED BY <3>3, <3>4
  <2>4. QED BY <2>2, <2>3
<1>9. RedOk(h, {}, {}) => RedOk(q, {}, {}) BY <1>8 DEF RedOk
<1>10. RedOk(h, {x}, {x}) => RedOk(q, {x}, {x})
  <2>1. SUFFICES ASSUME RedOk(h, {x}, {x}), NEW n \in Keys, NEW s \in Sides, Red(q, n), Red(q, Kid(q, s, n))
                 PROVE  Kid(q, s, n) = x \/ n = x
    BY DEF RedOk
  <2>2. PICK m \in Keys : /\ Red(h, m) /\ Red(h, Kid(h, s, m))
                          /\ (m = x => n = x) /\ (Kid(h, s, m) = x => Kid(q, s, n) = x)
    BY <1>8, <2>1
  <2>3. Kid(h, s, m) = x \/ m = x BY <2>1, <2>2 DEF RedOk
  <2>4. QED BY <2>2, <2>3
<1>11. QED BY <1>2, <1>5, <1>6, <1>7, <1>9, <1>10

\* What was true of the tree with z, whole or to be repaired, is true of it with y.
LEMMA RenameCut ==
  ASSUME NEW h, NEW v, NEW c, NEW x, NEW red, Cut(h, v, c, x, red), Shape(h, v), x \in Nodes,
         NEW z, NEW y, Suits(h, v, z, y), x # z, x # y,
         NEW q, Renamed(h, q, z, y, x), NEW w, Shape(q, w), w[Top(q)] = (v[Top(h)] \ {z}) \cup {y}
  PROVE  \E d : Cut(q, w, d, x, red)
<1>0. /\ h \in Trees /\ z \in Keys /\ z \in Nodes /\ z # nil /\ y \in Nodes /\ y # nil /\ y # z
      /\ Top(h) \in Nodes /\ Top(h) # y /\ y \in Keys
      /\ \A s \in Sides, n \in Nodes : Kid(h, s, n) \in Nodes /\ Kid(h, s, n) # y
      /\ \A s \in Sides : Kid(h, s, z) # z
  BY RenameFacts DEF Suits
<1>1. c \in [Nodes -> Nat] /\ c[nil] = 0 BY DEF Cut, Sound, Short, Whole, Lacking, Weighed
<1>2. PICK d : /\ d \in [Nodes -> Nat] /\ d[nil] = 0 /\ d[y] = c[z]
               /\ \A n \in Nodes \ {z, y} : d[n] = c[n]
               /\ \A n \in Keys \ {z, y} : Level(h, c, n) => Level(q, d, n)
               /\ Level(h, c, z) => Level(q, d, y)
               /\ Level(q, d, z)
               /\ RedOk(h, {}, {}) => RedOk(q, {}, {})
               /\ RedOk(h, {x}, {x}) => RedOk(q, {x}, {x})
  BY <1>1, RenameParts
<1>3. Weighed(h, c, {}) => Weighed(q, d, {})
  <2>1. SUFFICES ASSUME Weighed(h, c, {}) PROVE \A n \in Keys : Level(q, d, n)
    BY <1>2 DEF Weighed
  <2>2. \A n \in Keys : Level(h, c, n) BY <2>1 DEF Weighed
  <2>3. QED BY <1>0, <1>2, <2>2
<1>4. ~Red(h, Top(h)) => ~Red(q, Top(q)) BY <1>0 DEF Renamed
<1>5. Sound(h, v, c) => Sound(q, w, d) BY <1>2, <1>3, <1>4 DEF Sound
<1>6. Whole(h, v, c, x) => Whole(q, w, d, x)
  <2>1. x = Top(h) => x = Top(q) BY DEF Renamed
  <2>2. QED BY <1>2, <1>3, <2>1 DEF Whole
<1>7. ASSUME NEW p, NEW s, Lacking(h, v, c, x, p, s) PROVE \E r : Lacking(q, w, d, x, r, s)
  <2>1. /\ Weighed(h, c, {p}) /\ RedOk(h, {x}, {x}) /\ ~Red(h, Top(h))
        /\ p \in v[Top(h)] /\ s \in Sides /\ Kid(h, s, p) = x /\ Up(h, x) = p
        /\ c[Kid(h, Opposite(s), p)] = c[x] + 1
        /\ c[p] = c[x] + 1 + Weight(h, p)
    BY <1>7 DEF Lacking
  <2>2. /\ p \in Keys /\ p \in Nodes /\ p # y /\ Opposite(s) \in Sides
    BY <2>1, InTree, KeyFacts, SideFacts DEF Suits
  <2>3. \A n \in Keys : n # p => Level(h, c, n) BY <2>1 DEF Weighed
  <2>4. RedOk(q, {x}, {x}) /\ ~Red(q, Top(q)) BY <1>2, <1>4, <2>1
  <2>5. d[x] = c[x] BY <1>2
  <2>6. CASE p = z
    <3>1. Weighed(q, d, {y})
      <4>1. \A n \in Keys \ {y} : Level(q, d, n) BY <1>2, <2>3, <2>6
      <4>2. QED BY <1>2, <4>1 DEF Weighed
    <3>2. /\ Kid(q, s, y) = x /\ Up(q, x) = y /\ Weight(q, y) = Weight(h, z)
          /\ Kid(q, Opposite(s), y) = Kid(h, Opposite(s), z)
      BY <2>1, <2>2, <2>6 DEF Renamed, Weight
    <3>3. d[Kid(h, Opposite(s), z)] = c[Kid(h, Opposite(s), z)] BY <1>0, <1>2, <2>2
    <3>4. y \in w[Top(q)] OBVIOUS
    <3>5. d[Kid(q, Opposite(s), y)] = d[x] + 1 /\ d[y] = d[x] + 1 + Weight(q, y)
      BY <1>2, <2>1, <2>5, <2>6, <3>2, <3>3
    <3>6. Lacking(q, w, d, x, y, s) BY <2>1, <2>4, <3>1, <3>2, <3>4, <3>5 DEF Lacking
    <3>7. QED BY <3>6
  <2>7. CASE p # z
    <3>1. Weighed(q, d, {p})
      <4>1. \A n \in Keys \ {p} : Level(q, d, n) BY <1>0, <1>2, <2>2, <2>3, <2>7
      <4>2. QED BY <1>2, <4>1 DEF Weighed
    <3>2. Kid(q, s, p) = x /\ Up(q, x) = p /\ Weight(q, p) = Weight(h, p)
      BY <2>1, <2>2, <2>7 DEF Renamed, Weight
    <3>3. d[Kid(q, Opposite(s), p)] = c[Kid(h, Opposite(s), p)]
      <4>1. CASE Kid(h, Opposite(s), p) = z
        <5>1. Kid(q, Opposite(s), p) = y BY <2>2, <2>7, <4>1 DEF Renamed
        <5>2. QED BY <1>2, <4>1, <5>1
      <4>2. CASE Kid(h, Opposite(s), p) # z
        <5>1. Kid(q, Opposite(s), p) = Kid(h, Opposite(s), p) BY <2>2, <2>7, <4>2 DEF Renamed
        <5>2. QED BY <1>0, <1>2, <2>2, <4>2, <5>1
      <4>3. QED BY <4>1, <4>2
    <3>4. p \in w[Top(q)] BY <2>1, <2>7
    <3>5. d[p] = c[p] BY <1>2, <2>2, <2>7
    <3>6. Lacking(q, w, d, x, p, s)
      BY <2>1, <2>4, <2>5, <3>1, <3>2, <3>3, <3>4, <3>5 DEF Lacking
    <3>7. QED BY <3>6
  <2>8. QED BY <2>6, <2>7
<1>8. Short(h, v, c, x) => Short(q, w, d, x) BY <1>6, <1>7 DEF Short
<1>9. Cut(q, w, d, x, red) BY <1>5, <1>8 DEF Cut
<1>10. QED BY <1>9

=============================================================================
