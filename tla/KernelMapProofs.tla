-------------------------- MODULE KernelMapProofs --------------------------
(***************************************************************************)
(* The map of map.h over any finite set of keys: after every sequence of   *)
(* operations it holds the keys inserted and not erased, where the search  *)
(* goes, with pointers that agree, balanced, and iteration and bounds find *)
(* what they should.  A repair in its middle has taken no more rounds than *)
(* the logarithm of the size of the tree.                                  *)
(*                                                                         *)
(* KernelMapRepairs has what the iterations of the repairs do.  Here are   *)
(* the searches, which are functions computed from their values at the     *)
(* children and so exist in a tree with a shape, the node that Insert      *)
(* links where the search ended, and the one Erase unlinks: one with two   *)
(* children has its successor spliced out and put in its place.  The       *)
(* invariant of the map says what is true of the tree between operations   *)
(* and in the middle of a repair.                                          *)
(***************************************************************************)
EXTENDS KernelMapRepairs

-----------------------------------------------------------------------------
(* Minimum and Maximum *)

\* m is the outermost node on a side below n.
Extreme(u, side, n, m) == m \in u[n] /\ \A k \in u[n] : k = m \/ Before(side, m, k)

\* Down one side to the end.
Down(t, side, f) ==
  f = [n \in Nodes |-> IF t[side][n] = nil THEN n ELSE f[t[side][n]]]

\* Outermost goes down to the end.
LEMMA OutermostIs ==
  ASSUME NEW t, NEW side, NEW node
  PROVE  Outermost(t, side, node) = (CHOOSE f : Down(t, side, f))[node]
BY DEF Outermost, Down

\* There is an outermost node.
LEMMA ExtremeExists ==
  ASSUME NEW t, NEW u, Shape(t, u), NEW side \in Sides
  PROVE  /\ \A n \in Keys : Kid(t, side, n) = nil => Extreme(u, side, n, n)
         /\ \A n \in Keys : \A m : Kid(t, side, n) # nil /\ Extreme(u, side, Kid(t, side, n), m)
                               => Extreme(u, side, n, m)
         /\ \A n \in Keys : \E m \in Keys : Extreme(u, side, n, m)
         /\ \A n \in Keys : \A m, k : Extreme(u, side, n, m) /\ Extreme(u, side, n, k) => m = k
         /\ \A n \in Keys : \A m : Extreme(u, side, n, m) => m \in Keys
<1> DEFINE P == {n \in Nodes : n = nil \/ \E m \in Keys : Extreme(u, side, n, m)}
<1>0. /\ \A n \in Nodes : u[n] \in SUBSET Keys
      /\ \A n \in Keys : /\ u[n] = {n} \cup u[Kid(t, side, n)] \cup u[Kid(t, Opposite(side), n)]
                         /\ Kid(t, side, n) \in Nodes /\ Kid(t, Opposite(side), n) \in Nodes
                         /\ n \in Nodes /\ n # nil
      /\ u[nil] = {} /\ Opposite(side) \in Sides
  <2>1. Opposite(side) \in Sides BY SideFacts
  <2>2. u[nil] = {} BY DEF Shape
  <2>3. QED BY <2>1, <2>2, ShapeFacts, KeyFacts
<1>1. ASSUME NEW n \in Keys
      PROVE  /\ \A k \in u[Kid(t, side, n)] : k \in Keys /\ Before(side, k, n)
             /\ \A k \in u[Kid(t, Opposite(side), n)] : k \in Keys /\ Before(side, n, k)
  <2>1. \A k \in u[Kid(t, side, n)] : k \in Keys /\ Before(side, k, n) BY <1>0 DEF Shape
  <2>2. \A k \in u[Kid(t, Opposite(side), n)] : k \in Keys /\ Before(Opposite(side), k, n)
    BY <1>0 DEF Shape
  <2>3. QED BY <2>1, <2>2, BeforeFacts
<1>2. \A n \in Keys : \A m : Extreme(u, side, n, m) => m \in Keys BY <1>0 DEF Extreme
<1>3. ASSUME NEW n \in Keys, Kid(t, side, n) = nil PROVE Extreme(u, side, n, n)
  BY <1>0, <1>1, <1>3 DEF Extreme
<1>4. ASSUME NEW n \in Keys, NEW m, Kid(t, side, n) # nil, Extreme(u, side, Kid(t, side, n), m)
      PROVE  Extreme(u, side, n, m)
  <2>1. m \in u[Kid(t, side, n)] /\ \A k \in u[Kid(t, side, n)] : k = m \/ Before(side, m, k)
    BY <1>4 DEF Extreme
  <2>2. m \in Keys /\ Before(side, m, n) /\ m \in u[n] BY <1>0, <1>1, <2>1
  <2>3. ASSUME NEW k \in u[Kid(t, Opposite(side), n)] PROVE Before(side, m, k)
    <3>1. k \in Keys /\ Before(side, n, k) BY <1>1
    <3>2. QED BY <2>2, <3>1, BeforeFacts
  <2>4. QED BY <1>0, <2>1, <2>2, <2>3 DEF Extreme
<1>5. ASSUME NEW n \in Keys PROVE \A m, k : Extreme(u, side, n, m) /\ Extreme(u, side, n, k) => m = k
  <2>1. SUFFICES ASSUME NEW m, NEW k, Extreme(u, side, n, m), Extreme(u, side, n, k), m # k PROVE FALSE
    OBVIOUS
  <2>2. m \in Keys /\ k \in Keys /\ Before(side, m, k) /\ Before(side, k, m) BY <1>2, <2>1 DEF Extreme
  <2>3. QED BY <2>2, BeforeFacts
<1>6. nil \in P BY KeyFacts
<1>7. ASSUME NEW n \in Keys, \A s \in Sides : Kid(t, s, n) \in P PROVE n \in P
  <2>1. CASE Kid(t, side, n) = nil BY <1>0, <1>3, <2>1
  <2>2. CASE Kid(t, side, n) # nil
    <3>1. PICK m \in Keys : Extreme(u, side, Kid(t, side, n), m) BY <1>7, <2>2
    <3>2. Extreme(u, side, n, m) BY <1>4, <2>2, <3>1
    <3>3. QED BY <1>0, <3>2
  <2>3. QED BY <2>1, <2>2
<1> HIDE DEF P
<1>8. Nodes \subseteq P BY <1>6, <1>7, TreeInduction
<1>9. \A n \in Keys : \E m \in Keys : Extreme(u, side, n, m) BY <1>0, <1>8 DEF P
<1>10. QED BY <1>2, <1>3, <1>4, <1>5, <1>9

\* The way down ends there.
LEMMA DownFinds ==
  ASSUME NEW t, NEW u, Shape(t, u), NEW side \in Sides, NEW f, Down(t, side, f)
  PROVE  f[nil] = nil /\ \A n \in Keys : Extreme(u, side, n, f[n])
<1> DEFINE P == {n \in Nodes : n \in Keys => Extreme(u, side, n, f[n])}
<1>0. f = [n \in Nodes |-> IF Kid(t, side, n) = nil THEN n ELSE f[Kid(t, side, n)]]
  BY DEF Down, Kid
<1>1. \A n \in Nodes : /\ Kid(t, side, n) = nil => f[n] = n
                       /\ Kid(t, side, n) # nil => f[n] = f[Kid(t, side, n)]
  BY <1>0
<1>2. f[nil] = nil BY <1>1, KeyFacts DEF Shape
<1>3. nil \in P BY KeyFacts
<1>4. ASSUME NEW n \in Keys, \A s \in Sides : Kid(t, s, n) \in P PROVE n \in P
  <2>1. n \in Nodes /\ Kid(t, side, n) \in Nodes BY KeyFacts, ShapeFacts
  <2>2. CASE Kid(t, side, n) = nil BY <1>1, <2>1, <2>2, ExtremeExists
  <2>3. CASE Kid(t, side, n) # nil
    <3>1. Kid(t, side, n) \in Keys BY <2>1, <2>3, KeyFacts
    <3>2. Extreme(u, side, Kid(t, side, n), f[Kid(t, side, n)]) BY <1>4, <3>1
    <3>3. QED BY <1>1, <2>1, <2>3, <3>2, ExtremeExists
  <2>4. QED BY <2>2, <2>3
<1> HIDE DEF P
<1>5. Nodes \subseteq P BY <1>3, <1>4, TreeInduction
<1>6. QED BY <1>2, <1>5, KeyFacts DEF P

\* There is a way down.
LEMMA DownExists ==
  ASSUME NEW t, NEW u, Shape(t, u), NEW side \in Sides
  PROVE  \E f : Down(t, side, f)
<1> DEFINE f == [n \in Nodes |-> IF n = nil THEN nil ELSE CHOOSE m : Extreme(u, side, n, m)]
<1>1. f[nil] = nil BY KeyFacts
<1>2. \A n \in Keys : Extreme(u, side, n, f[n])
  <2>1. SUFFICES ASSUME NEW n \in Keys PROVE Extreme(u, side, n, f[n])
    OBVIOUS
  <2>2. f[n] = CHOOSE m : Extreme(u, side, n, m) BY KeyFacts
  <2>3. \E m : Extreme(u, side, n, m) BY ExtremeExists
  <2>4. QED BY <2>2, <2>3
<1>3. f = [n \in Nodes |-> f[n]] OBVIOUS
<1> HIDE DEF f
<1>4. ASSUME NEW n \in Nodes PROVE f[n] = IF Kid(t, side, n) = nil THEN n ELSE f[Kid(t, side, n)]
  <2>1. CASE n = nil
    <3>1. Kid(t, side, n) = nil BY <2>1 DEF Shape
    <3>2. QED BY <1>1, <2>1, <3>1
  <2>2. CASE n \in Keys
    <3>1. CASE Kid(t, side, n) = nil
      <4>1. Extreme(u, side, n, n) BY <2>2, <3>1, ExtremeExists
      <4>2. QED BY <1>2, <2>2, <3>1, <4>1, ExtremeExists
    <3>2. CASE Kid(t, side, n) # nil
      <4>1. Kid(t, side, n) \in Keys BY <2>2, <3>2, ShapeFacts
      <4>2. Extreme(u, side, n, f[Kid(t, side, n)]) BY <1>2, <2>2, <3>2, <4>1, ExtremeExists
      <4>3. QED BY <1>2, <2>2, <3>2, <4>2, ExtremeExists
    <3>3. QED BY <3>1, <3>2
  <2>3. QED BY <2>1, <2>2, KeyFacts
<1>5. f = [n \in Nodes |-> IF Kid(t, side, n) = nil THEN n ELSE f[Kid(t, side, n)]] BY <1>3, <1>4
<1>6. Down(t, side, f) BY <1>5 DEF Down, Kid
<1>7. QED BY <1>6

\* What Minimum and Maximum find.
LEMMA OutermostFinds ==
  ASSUME NEW t, NEW u, Shape(t, u), NEW side \in Sides
  PROVE  /\ Outermost(t, side, nil) = nil
         /\ \A n \in Keys : Extreme(u, side, n, Outermost(t, side, n))
<1> DEFINE f == CHOOSE f : Down(t, side, f)
<1>1. Down(t, side, f) BY DownExists
<1>2. \A n : Outermost(t, side, n) = f[n] BY OutermostIs
<1> HIDE DEF f
<1>3. QED BY <1>1, <1>2, DownFinds

\* Nothing lies beyond the outermost node.
LEMMA ExtremeEnds ==
  ASSUME NEW t, NEW u, Shape(t, u), NEW side \in Sides, NEW n \in Keys, NEW m, Extreme(u, side, n, m)
  PROVE  m \in Keys /\ m \in u[n] /\ Kid(t, side, m) = nil
<1>1. m \in u[n] /\ (\A k \in u[n] : k = m \/ Before(side, m, k)) /\ n \in Nodes
  BY KeyFacts DEF Extreme
<1>2. m \in Keys /\ u[m] \subseteq u[n] BY <1>1, Upward
<1>3. SUFFICES ASSUME Kid(t, side, m) # nil PROVE FALSE
  BY <1>1, <1>2
<1>4. /\ Kid(t, side, m) \in Keys /\ Kid(t, side, m) # m /\ Kid(t, side, m) \in u[Kid(t, side, m)]
      /\ u[Kid(t, side, m)] \subseteq u[m]
  BY <1>2, <1>3, ShapeFacts, KeyFacts
<1>5. Before(side, Kid(t, side, m), m) BY <1>2, <1>4 DEF Shape
<1>6. Before(side, m, Kid(t, side, m)) BY <1>1, <1>2, <1>4
<1>7. QED BY <1>2, <1>4, <1>5, <1>6, BeforeFacts

-----------------------------------------------------------------------------
(* The successor of a node with two children *)

\* Around a node z with two children: its successor y takes its place.
Twin(t, u, z, l, r, y, x, p, g) ==
  /\ z \in u[Top(t)] /\ l = Kid(t, "left", z) /\ r = Kid(t, "right", z) /\ l # nil /\ r # nil
  /\ y = Outermost(t, "left", r) /\ x = Kid(t, "right", y) /\ p = Up(t, y) /\ g = Up(t, z)

\* The successor lies below the right child and has no left one.
LEMMA TwinFacts ==
  ASSUME NEW t, NEW u, Shape(t, u), NEW z, NEW l, NEW r, NEW y, NEW x, NEW p, NEW g,
         Twin(t, u, z, l, r, y, x, p, g)
  PROVE  /\ t \in Trees /\ z \in Keys /\ z \in Nodes /\ z # nil /\ Top(t) \in Nodes
         /\ l \in Keys /\ l \in Nodes /\ l # nil /\ r \in Keys /\ r \in Nodes /\ r # nil /\ l # r
         /\ y \in Keys /\ y \in Nodes /\ y # nil /\ y \in u[Top(t)] /\ x \in Nodes
         /\ Kid(t, "left", y) = nil /\ Kid(t, "right", y) = x
         /\ p \in Nodes /\ p # nil /\ g \in Nodes
         /\ y # z /\ y # l /\ x # z /\ x # y /\ x # l /\ x # r /\ l # z /\ r # z /\ y # Top(t)
         /\ Up(t, l) = z /\ Up(t, r) = z /\ (x # nil => Up(t, x) = y)
         /\ (p = z => y = r) /\ (p # z => y # r) /\ p # y
         /\ y \in u[r] /\ (\A k \in u[r] : k \in Keys /\ (k = y \/ y < k))
         /\ g # z /\ g # y /\ g # p /\ (g = nil <=> Top(t) = z) /\ OnlyKid(t, z, g)
         /\ OnlyKid(t, y, p)
<1>0. /\ z \in u[Top(t)] /\ l = Kid(t, "left", z) /\ r = Kid(t, "right", z) /\ l # nil /\ r # nil
      /\ y = Outermost(t, "left", r) /\ x = Kid(t, "right", y) /\ p = Up(t, y) /\ g = Up(t, z)
  BY DEF Twin
<1>1. t \in Trees /\ z \in Keys /\ z \in Nodes /\ z # nil /\ Top(t) \in Nodes
  BY <1>0, InTree, KeyFacts DEF Shape
<1>2. "left" \in Sides /\ "right" \in Sides /\ Opposite("left") = "right" /\ Opposite("right") = "left"
  BY SideFacts
<1>3. /\ l \in Keys /\ r \in Keys /\ l # r /\ l # z /\ r # z
  BY <1>0, <1>1, <1>2, ShapeFacts
<1>4. l \in Nodes /\ r \in Nodes /\ Up(t, l) = z /\ Up(t, r) = z /\ r \in u[Top(t)]
  BY <1>0, <1>1, <1>2, <1>3, InTree, KeyFacts
<1>5. Extreme(u, "left", r, y) BY <1>0, <1>2, <1>3, OutermostFinds
<1>6. y \in Keys /\ y \in u[r] /\ Kid(t, "left", y) = nil BY <1>2, <1>3, <1>5, ExtremeEnds
<1>7. \A k \in u[r] : k \in Keys /\ (k = y \/ y < k)
  BY <1>4, <1>5, ShapeFacts DEF Extreme, Before
<1>8. u[r] \subseteq u[Top(t)] /\ u[r] \subseteq u[z] /\ z \notin u[r] /\ u[l] \cap u[r] = {} /\ l \in u[l] /\ r \in u[r]
  BY <1>0, <1>1, <1>2, <1>3, <1>4, Upward, ShapeFacts
<1>9. y \in Nodes /\ y # nil /\ y \in u[Top(t)] /\ y # z /\ y # l
  BY <1>6, <1>8, KeyFacts
<1>10. x \in Nodes /\ x # y /\ u[x] \subseteq u[y] BY <1>0, <1>2, <1>6, <1>9, ShapeFacts
<1>11. (x # nil => Up(t, x) = y) BY <1>0, <1>2, <1>9, InTree
<1>12. x # z /\ x # l /\ x # r
  <2>1. x # l /\ x # r BY <1>4, <1>9, <1>11, KeyFacts, <1>3
  <2>2. x # z
    <3>1. u[y] \subseteq u[r] /\ z \in u[z] BY <1>1, <1>4, <1>6, Upward, ShapeFacts
    <3>2. QED BY <1>8, <1>10, <3>1
  <2>3. QED BY <2>1, <2>2
<1>13. y # Top(t)
  <2>1. SUFFICES ASSUME y = Top(t) PROVE FALSE
    OBVIOUS
  <2>2. u[y] \subseteq u[r] BY <1>4, <1>6, Upward
  <2>3. QED BY <1>0, <1>8, <2>1, <2>2
<1>14. p \in u[Top(t)] /\ p # y /\ p \in Keys /\ \E s \in Sides : Kid(t, s, p) = y
  BY <1>0, <1>9, <1>13, InTree
<1>15. p = z => y = r
  <2>1. SUFFICES ASSUME p = z PROVE y = r
    OBVIOUS
  <2>2. PICK s \in Sides : Kid(t, s, z) = y BY <1>14, <2>1
  <2>3. y = l \/ y = r BY <1>0, <2>2, SideFacts
  <2>4. QED BY <1>9, <2>3
<1>16. p # z => y # r BY <1>0, <1>4
<1>17. g = nil <=> Top(t) = z BY <1>0, InTree
<1>18. g # nil => g \in u[Top(t)] /\ g \in Keys /\ g # z /\ \E s \in Sides : Kid(t, s, g) = z
  BY <1>0, <1>17, InTree
<1>19. g # z BY <1>1, <1>18
<1>20. p \in u[z]
  <2>1. CASE p = z BY <1>1, <2>1, ShapeFacts
  <2>2. CASE p # z
    <3>1. p \in u[r] BY <1>0, <1>4, <1>6, <1>16, <2>2, Upward
    <3>2. QED BY <1>8, <3>1
  <2>3. QED BY <2>1, <2>2
<1>21. g \notin u[z]
  <2>1. SUFFICES ASSUME g # nil PROVE g \notin u[z]
    BY <1>1, ShapeFacts, KeyFacts
  <2>2. PICK s \in Sides : Kid(t, s, g) = z BY <1>18, <2>1
  <2>3. QED BY <1>18, <2>1, <2>2, ShapeFacts
<1>22. g # p /\ g # y BY <1>6, <1>8, <1>20, <1>21
<1>23. OnlyKid(t, z, g)
  <2>1. SUFFICES ASSUME g # nil PROVE \E s \in Sides : Kid(t, s, g) = z /\ Kid(t, Opposite(s), g) # z
    BY DEF OnlyKid
  <2>2. PICK s \in Sides : Kid(t, s, g) = z BY <1>18, <2>1
  <2>3. Kid(t, Opposite(s), g) # z BY <1>1, <1>18, <2>1, <2>2, ShapeFacts
  <2>4. QED BY <2>2, <2>3
<1>24. OnlyKid(t, y, p)
  <2>1. PICK s \in Sides : Kid(t, s, p) = y BY <1>14
  <2>2. Kid(t, Opposite(s), p) # y BY <1>9, <1>14, <2>1, ShapeFacts
  <2>3. QED BY <2>1, <2>2 DEF OnlyKid
<1>25. p \in Nodes /\ p # nil /\ g \in Nodes BY <1>0, <1>1, <1>14, KeyFacts, TreeFields
<1>26. QED BY <1>0, <1>1, <1>3, <1>4, <1>6, <1>7, <1>9, <1>10, <1>11, <1>12, <1>13, <1>14, <1>15,
             <1>16, <1>17, <1>19, <1>22, <1>23, <1>24, <1>25

\* How d is t with x in the place of y, which took the right child of z.
Detached(t, d, z, y, x, p, r) ==
  /\ d \in Trees /\ Top(d) = Top(t) /\ (\A n \in Nodes : Red(d, n) = Red(t, n))
  /\ \A s \in Sides, n \in Nodes \ {z, y} : /\ Kid(t, s, n) = y => Kid(d, s, n) = x
                                            /\ Kid(t, s, n) # y => Kid(d, s, n) = Kid(t, s, n)
  /\ p = z => Kid(d, "right", y) = x
  /\ p # z => Kid(d, "right", y) = r
  /\ p = z => Up(d, x) = y
  /\ p # z => Up(d, x) = p
  /\ Up(d, z) = Up(t, z)
  /\ \A n \in Nodes \ {x, y, z, nil} : /\ n = r => Up(d, n) = y
                                       /\ n # r => Up(d, n) = Up(t, n)

\* How the code detaches y.
Lifted(up, y) == [up EXCEPT !.parent[up.right[y]] = y]
Apart(t, z, y, x) ==
  IF t.parent[y] = z THEN PutParent(t, x, y)
  ELSE Lifted(PutChild(Transplant(t, y, x), "right", y, t.right[z]), y)

\* The two ways in which the code detaches y.
LEMMA ApartNear ==
  ASSUME NEW t, NEW z, NEW y, NEW x, Up(t, y) = z
  PROVE  Apart(t, z, y, x) = PutParent(t, x, y)
BY DEF Apart, Up

LEMMA ApartFar ==
  ASSUME NEW t, NEW z, NEW y, NEW x, NEW p, p = Up(t, y), p # z
  PROVE  Apart(t, z, y, x) = Lifted(PutChild(Transplant(t, y, x), "right", y, Kid(t, "right", z)), y)
BY ZenonT(60) DEF Apart, Up, Kid

LEMMA LiftedIs ==
  ASSUME NEW t, NEW y, NEW r, Kid(t, "right", y) = r, t \in Trees, y \in Nodes
  PROVE  Lifted(t, y) = PutParent(t, r, y)
<1>1. t.right[y] = r BY TreeFields
<1>2. QED BY <1>1, ZenonT(60) DEF Lifted, PutParent

\* Either way y is detached.
LEMMA ApartDetached ==
  ASSUME NEW t, NEW u, Shape(t, u), NEW z, NEW l, NEW r, NEW y, NEW x, NEW p, NEW g,
         Twin(t, u, z, l, r, y, x, p, g), NEW d, d = Apart(t, z, y, x)
  PROVE  Detached(t, d, z, y, x, p, r)
<1>0. /\ t \in Trees /\ z \in Keys /\ z \in Nodes /\ z # nil /\ Top(t) \in Nodes
      /\ l \in Keys /\ l \in Nodes /\ l # nil /\ r \in Keys /\ r \in Nodes /\ r # nil /\ l # r
      /\ y \in Keys /\ y \in Nodes /\ y # nil /\ y \in u[Top(t)] /\ x \in Nodes
      /\ Kid(t, "left", y) = nil /\ Kid(t, "right", y) = x
      /\ p \in Nodes /\ p # nil
      /\ y # z /\ y # l /\ x # z /\ x # y /\ x # l /\ x # r /\ l # z /\ r # z /\ y # Top(t)
      /\ (p = z => y = r) /\ (p # z => y # r) /\ p # y
      /\ OnlyKid(t, y, p)
  BY TwinFacts
<1>a. t \in Trees /\ x \in Nodes /\ y \in Nodes /\ r \in Nodes /\ "right" \in Sides BY <1>0, SideFacts
<1>1. p = Up(t, y) /\ r = Kid(t, "right", z) /\ "right" \in Sides BY SideFacts DEF Twin
<1>2. \A s \in Sides, n \in Nodes : Kid(t, s, n) = y => n = p BY <1>0, <1>1, InTree
<1>3. CASE p = z
  <2>1. Up(t, y) = z BY <1>1, <1>3
  <2>2. d = PutParent(t, x, y) BY <2>1, ApartNear
  <2>3. /\ d \in Trees /\ Top(d) = Top(t) /\ (\A n \in Nodes : Red(d, n) = Red(t, n))
        /\ Up(d, x) = y /\ (\A n \in Nodes : n # x => Up(d, n) = Up(t, n))
        /\ \A s \in Sides, n \in Nodes : Kid(d, s, n) = Kid(t, s, n)
    BY <1>a, <2>2, SetParent, SMTT(60)
  <2>4. QED BY <1>0, <1>1, <1>2, <1>3, <2>3 DEF Detached
<1>4. CASE p # z
  <2> DEFINE d1 == Transplant(t, y, x)
             d2 == PutChild(d1, "right", y, r)
  <2>1. d1 = Transplant(t, y, x) OBVIOUS
  <2>2. d2 = PutChild(d1, "right", y, r) OBVIOUS
  <2>3. d = Lifted(d2, y)
    <3>1. d = Lifted(PutChild(Transplant(t, y, x), "right", y, Kid(t, "right", z)), y)
      BY <1>1, <1>4, ApartFar
    <3>2. QED BY <1>1, <3>1, Zenon
  <2> HIDE DEF d1, d2
  <2>4. /\ d1 \in Trees /\ (\A n \in Nodes : Red(d1, n) = Red(t, n))
        /\ Up(d1, x) = p /\ (\A n \in Nodes : n # x => Up(d1, n) = Up(t, n))
        /\ Top(d1) = Top(t)
        /\ \A s \in Sides, n \in Nodes :
             /\ n = p /\ Kid(t, s, n) = y => Kid(d1, s, n) = x
             /\ n # p \/ Kid(t, s, n) # y => Kid(d1, s, n) = Kid(t, s, n)
    BY <1>0, <1>1, <2>1, TransplantFields
  <2>5. /\ d2 \in Trees /\ Top(d2) = Top(d1)
        /\ (\A n \in Nodes : Up(d2, n) = Up(d1, n)) /\ (\A n \in Nodes : Red(d2, n) = Red(d1, n))
        /\ Kid(d2, "right", y) = r
        /\ \A s \in Sides, n \in Nodes : s # "right" \/ n # y => Kid(d2, s, n) = Kid(d1, s, n)
    <3>1. d1 \in Trees BY <2>4
    <3>2. QED BY <1>a, <2>2, <3>1, SetChild, SMTT(60)
  <2>6. d = PutParent(d2, r, y) BY <1>0, <2>3, <2>5, LiftedIs
  <2>7. /\ d \in Trees /\ Top(d) = Top(d2) /\ (\A n \in Nodes : Red(d, n) = Red(d2, n))
        /\ Up(d, r) = y /\ (\A n \in Nodes : n # r => Up(d, n) = Up(d2, n))
        /\ \A s \in Sides, n \in Nodes : Kid(d, s, n) = Kid(d2, s, n)
    <3>1. d2 \in Trees BY <2>5
    <3>2. QED BY <1>a, <2>6, <3>1, SetParent, SMTT(60)
  <2>8. ASSUME NEW s \in Sides, NEW n \in Nodes \ {z, y}
        PROVE  /\ Kid(t, s, n) = y => Kid(d, s, n) = x
               /\ Kid(t, s, n) # y => Kid(d, s, n) = Kid(t, s, n)
    BY <1>2, <2>4, <2>5, <2>7
  <2>9. Kid(d, "right", y) = r BY <1>0, <1>1, <2>5, <2>7
  <2>10. Up(d, x) = p /\ Up(d, z) = Up(t, z) BY <1>0, <2>4, <2>5, <2>7
  <2>11. ASSUME NEW n \in Nodes \ {x, y, z, nil}
         PROVE  (n = r => Up(d, n) = y) /\ (n # r => Up(d, n) = Up(t, n))
    BY <2>4, <2>5, <2>7
  <2>12. QED BY <1>4, <2>4, <2>5, <2>7, <2>8, <2>9, <2>10, <2>11 DEF Detached
<1>5. QED BY <1>3, <1>4

\* How the code seats y in the place of z.
Coloured(s, y, t, z) == [s EXCEPT !.red[y] = t.red[z]]
Seated(d, t, z, y) ==
  Coloured(PutParent(PutChild(Transplant(d, z, y), "left", y, t.left[z]), t.left[z], y), y, t, z)

\* Assignments to the parent and the colour of a node.
ParentPut(t, h, p, v) ==
  /\ h \in Trees /\ Top(h) = Top(t) /\ (\A n \in Nodes : Red(h, n) = Red(t, n))
  /\ Up(h, p) = v /\ (\A n \in Nodes : n # p => Up(h, n) = Up(t, n))
  /\ \A s \in Sides, n \in Nodes : Kid(h, s, n) = Kid(t, s, n)

ColourPut(s, h, y, t, z) ==
  /\ h \in Trees /\ Top(h) = Top(s)
  /\ \A n \in Nodes : Up(h, n) = Up(s, n)
  /\ Red(h, y) = Red(t, z) /\ (\A n \in Nodes : n # y => Red(h, n) = Red(s, n))
  /\ \A r \in Sides, n \in Nodes : Kid(h, r, n) = Kid(s, r, n)

\* What they set.
LEMMA ParentIsPut ==
  ASSUME NEW t \in Trees, NEW p \in Nodes, NEW v \in Nodes
  PROVE  ParentPut(t, PutParent(t, p, v), p, v)
<1> DEFINE h == PutParent(t, p, v)
<1>1. h = PutParent(t, p, v) OBVIOUS
<1> HIDE DEF h
<1>2. ParentPut(t, h, p, v) BY <1>1, SetParent DEF ParentPut
<1>3. QED BY <1>1, <1>2, Zenon

LEMMA ColourIsPut ==
  ASSUME NEW s \in Trees, NEW y \in Nodes, NEW t \in Trees, NEW z \in Nodes
  PROVE  ColourPut(s, Coloured(s, y, t, z), y, t, z)
<1> DEFINE h == Coloured(s, y, t, z)
<1>1. h = Coloured(s, y, t, z) OBVIOUS
<1> HIDE DEF h
<1>2. ColourPut(s, h, y, t, z)
  <2>1. /\ h \in Trees /\ Top(h) = Top(s)
        /\ \A n \in Nodes : Up(h, n) = Up(s, n)
        /\ Red(h, y) = Red(t, z) /\ (\A n \in Nodes : n # y => Red(h, n) = Red(s, n))
        /\ \A r \in Sides, n \in Nodes : Kid(h, r, n) = Kid(s, r, n)
    BY <1>1 DEF Trees, Sides, Coloured, Kid, Up, Red, Top
  <2>2. QED BY <2>1, Zenon DEF ColourPut
<1>3. QED BY <1>1, <1>2, Zenon

\* How a tree with y seated looks.
LEMMA SeatedFields ==
  ASSUME NEW t, NEW u, Shape(t, u), NEW z, NEW l, NEW r, NEW y, NEW x, NEW p, NEW g,
         Twin(t, u, z, l, r, y, x, p, g), NEW d, Detached(t, d, z, y, x, p, r),
         NEW q, q = Freed(Seated(d, t, z, y), z)
  PROVE  /\ q \in Trees
         /\ g = nil => Top(q) = y
         /\ g # nil => Top(q) = Top(t)
         /\ Up(q, z) = nil /\ ~Red(q, z) /\ (\A s \in Sides : Kid(q, s, z) = nil)
         /\ Up(q, y) = g /\ Up(q, l) = y
         /\ \A n \in Nodes \ {z, y, l} : Up(q, n) = Up(d, n)
         /\ Red(q, y) = Red(t, z) /\ \A n \in Nodes \ {z, y} : Red(q, n) = Red(t, n)
         /\ Kid(q, "left", y) = l /\ Kid(q, "right", y) = Kid(d, "right", y)
         /\ \A s \in Sides, n \in Nodes \ {z, y} : /\ Kid(t, s, n) = z => Kid(q, s, n) = y
                                                   /\ Kid(t, s, n) # z => Kid(q, s, n) = Kid(d, s, n)
<1> DEFINE d1 == Transplant(d, z, y)
           d2 == PutChild(d1, "left", y, l)
           d3 == PutParent(d2, l, y)
           d4 == Coloured(d3, y, t, z)
<1>0. /\ t \in Trees /\ z \in Keys /\ z \in Nodes /\ z # nil /\ Top(t) \in Nodes
      /\ l \in Keys /\ l \in Nodes /\ l # nil
      /\ y \in Keys /\ y \in Nodes /\ y # nil /\ x \in Nodes
      /\ p \in Nodes /\ p # nil /\ g \in Nodes
      /\ y # z /\ y # l /\ x # z /\ x # y /\ x # l /\ l # z
      /\ g # z /\ g # y /\ g # p /\ OnlyKid(t, z, g)
      /\ "left" \in Sides /\ "right" \in Sides /\ "left" # "right"
      /\ (\A s \in Sides : s = "left" \/ s = "right")
  BY TwinFacts, SideFacts
<1>a. /\ t \in Trees /\ y \in Nodes /\ z \in Nodes /\ l \in Nodes /\ "left" \in Sides /\ g \in Nodes
  BY <1>0
<1>b. l = Kid(t, "left", z) /\ g = Up(t, z) /\ p = Up(t, y) /\ z \in u[Top(t)] BY DEF Twin
<1>c. /\ d \in Trees /\ Top(d) = Top(t) /\ (\A n \in Nodes : Red(d, n) = Red(t, n))
      /\ \A s \in Sides, n \in Nodes \ {z, y} : /\ Kid(t, s, n) = y => Kid(d, s, n) = x
                                                /\ Kid(t, s, n) # y => Kid(d, s, n) = Kid(t, s, n)
      /\ Up(d, z) = Up(t, z)
  BY DEF Detached
<1>d. d1 = Transplant(d, z, y) OBVIOUS
<1>e. d2 = PutChild(d1, "left", y, l) OBVIOUS
<1>f. d3 = PutParent(d2, l, y) OBVIOUS
<1>g. d4 = Coloured(d3, y, t, z) OBVIOUS
<1>h. q = Freed(d4, z)
  <2>1. l = t.left[z] BY <1>0, <1>b, TreeFields
  <2>2. QED BY <2>1, Zenon DEF Seated
<1> HIDE DEF d1, d2, d3, d4
<1>i. /\ \A s \in Sides, n \in Nodes : Kid(t, s, n) = y => n = p
      /\ \A s \in Sides, n \in Nodes : Kid(t, s, n) = z => n = g /\ n # nil
  <2>1. \A s \in Sides, n \in Nodes : Kid(t, s, n) = y => n = p BY <1>0, <1>b, InTree
  <2>2. \A s \in Sides, n \in Nodes : Kid(t, s, n) = z => n = g /\ n # nil BY <1>0, <1>b, InTree, KeyFacts
  <2>3. QED BY <2>1, <2>2
<1>j. g = Up(d, z) /\ OnlyKid(d, z, g)
  <2>1. g = Up(d, z) BY <1>b, <1>c
  <2>2. g # nil => \A s \in Sides : Kid(d, s, g) = Kid(t, s, g) BY <1>0, <1>c, <1>i
  <2>3. OnlyKid(d, z, g) BY <1>0, <2>2, SideFacts DEF OnlyKid
  <2>4. QED BY <2>1, <2>3
<1>1. /\ d1 \in Trees /\ (\A n \in Nodes : Red(d1, n) = Red(d, n))
      /\ Up(d1, y) = g /\ (\A n \in Nodes : n # y => Up(d1, n) = Up(d, n))
      /\ g = nil => Top(d1) = y
      /\ g # nil => Top(d1) = Top(d)
      /\ \A s \in Sides, n \in Nodes :
           /\ n = g /\ g # nil /\ Kid(d, s, n) = z => Kid(d1, s, n) = y
           /\ n # g \/ g = nil \/ Kid(d, s, n) # z => Kid(d1, s, n) = Kid(d, s, n)
  BY <1>a, <1>c, <1>d, <1>j, TransplantFields
<1>2. /\ d2 \in Trees /\ Top(d2) = Top(d1)
      /\ (\A n \in Nodes : Up(d2, n) = Up(d1, n)) /\ (\A n \in Nodes : Red(d2, n) = Red(d1, n))
      /\ Kid(d2, "left", y) = l
      /\ \A s \in Sides, n \in Nodes : s # "left" \/ n # y => Kid(d2, s, n) = Kid(d1, s, n)
  <2>1. d1 \in Trees BY <1>1
  <2>2. QED BY <1>a, <1>e, <2>1, SetChild, SMTT(60)
<1>2a. d2 \in Trees BY <1>2
<1>3. /\ d3 \in Trees /\ Top(d3) = Top(d2) /\ (\A n \in Nodes : Red(d3, n) = Red(d2, n))
      /\ Up(d3, l) = y /\ (\A n \in Nodes : n # l => Up(d3, n) = Up(d2, n))
      /\ \A s \in Sides, n \in Nodes : Kid(d3, s, n) = Kid(d2, s, n)
  <2>1. ParentPut(d2, PutParent(d2, l, y), l, y) BY <1>a, <1>2a, ParentIsPut
  <2>2. ParentPut(d2, d3, l, y) BY <1>f, <2>1, Zenon
  <2>3. QED BY <2>2 DEF ParentPut
<1>3a. d3 \in Trees BY <1>3
<1>4. /\ d4 \in Trees /\ Top(d4) = Top(d3)
      /\ \A n \in Nodes : Up(d4, n) = Up(d3, n)
      /\ Red(d4, y) = Red(t, z) /\ \A n \in Nodes : n # y => Red(d4, n) = Red(d3, n)
      /\ \A r_ \in Sides, n \in Nodes : Kid(d4, r_, n) = Kid(d3, r_, n)
  <2>1. ColourPut(d3, Coloured(d3, y, t, z), y, t, z) BY <1>a, <1>3a, ColourIsPut
  <2>2. ColourPut(d3, d4, y, t, z) BY <1>g, <2>1, Zenon
  <2>3. QED BY <2>2 DEF ColourPut
<1>5. /\ q \in Trees /\ Top(q) = Top(d4) /\ Up(q, z) = nil /\ ~Red(q, z)
      /\ \A s \in Sides : Kid(q, s, z) = nil
      /\ \A n \in Nodes : n # z => /\ Up(q, n) = Up(d4, n) /\ Red(q, n) = Red(d4, n)
                                   /\ \A s \in Sides : Kid(q, s, n) = Kid(d4, s, n)
  <2>1. d4 \in Trees BY <1>4
  <2>2. z \in Nodes BY <1>a
  <2>3. QED BY <1>h, <2>1, <2>2, FreedFields, SMTT(60)
<1>6. /\ g = nil => Top(q) = y
      /\ g # nil => Top(q) = Top(t)
  BY <1>c, <1>1, <1>2, <1>3, <1>4, <1>5
<1>7. /\ Up(q, y) = g /\ Up(q, l) = y
      /\ \A n \in Nodes \ {z, y, l} : Up(q, n) = Up(d, n)
  BY <1>0, <1>1, <1>2, <1>3, <1>4, <1>5
<1>8. Red(q, y) = Red(t, z) /\ \A n \in Nodes \ {z, y} : Red(q, n) = Red(t, n)
  BY <1>0, <1>c, <1>1, <1>2, <1>3, <1>4, <1>5
<1>9. Kid(q, "left", y) = l /\ Kid(q, "right", y) = Kid(d, "right", y)
  <2>1. \A s \in Sides : Kid(d1, s, y) = Kid(d, s, y) BY <1>0, <1>1
  <2>2. QED BY <1>0, <1>2, <1>3, <1>4, <1>5, <2>1
<1>10. ASSUME NEW s \in Sides, NEW n \in Nodes \ {z, y}
       PROVE  /\ Kid(t, s, n) = z => Kid(q, s, n) = y
              /\ Kid(t, s, n) # z => Kid(q, s, n) = Kid(d, s, n)
  <2>1. Kid(q, s, n) = Kid(d1, s, n) BY <1>2, <1>3, <1>4, <1>5
  <2>2. CASE Kid(t, s, n) = z
    <3>1. n = g /\ g # nil BY <1>i, <2>2
    <3>2. Kid(d, s, n) = z BY <1>0, <1>c, <2>2
    <3>3. QED BY <1>1, <2>1, <2>2, <3>1, <3>2
  <2>3. CASE Kid(t, s, n) # z
    <3>1. Kid(d, s, n) # z BY <1>0, <1>c, <2>3
    <3>2. QED BY <1>1, <2>1, <2>3, <3>1
  <2>4. QED BY <2>2, <2>3
<1>11. QED BY <1>5, <1>6, <1>7, <1>8, <1>9, <1>10

\* To seat y in the place of z is to take y out and to give it the place of z.
LEMMA SeatedRenamed ==
  ASSUME NEW t, NEW u, Shape(t, u), NEW z, NEW l, NEW r, NEW y, NEW x, NEW p, NEW g,
         Twin(t, u, z, l, r, y, x, p, g), NEW d, Detached(t, d, z, y, x, p, r),
         NEW q, q = Freed(Seated(d, t, z, y), z), NEW h, Spliced(t, h, y, x, p)
  PROVE  Renamed(h, q, z, y, x)
<1>0. /\ t \in Trees /\ z \in Keys /\ z \in Nodes /\ z # nil /\ Top(t) \in Nodes
      /\ l \in Keys /\ l \in Nodes /\ l # nil /\ r \in Keys /\ r \in Nodes /\ r # nil /\ l # r
      /\ y \in Keys /\ y \in Nodes /\ y # nil /\ y \in u[Top(t)] /\ x \in Nodes
      /\ p \in Nodes /\ p # nil /\ g \in Nodes
      /\ y # z /\ y # l /\ x # z /\ x # y /\ x # l /\ x # r /\ l # z /\ r # z /\ y # Top(t)
      /\ Up(t, l) = z /\ Up(t, r) = z /\ (x # nil => Up(t, x) = y)
      /\ (p = z => y = r) /\ (p # z => y # r) /\ p # y
      /\ g # z /\ g # y /\ g # p /\ (g = nil <=> Top(t) = z)
      /\ "left" \in Sides /\ "right" \in Sides /\ "left" # "right"
      /\ (\A s \in Sides : s = "left" \/ s = "right")
  BY TwinFacts, SideFacts
<1>b. /\ l = Kid(t, "left", z) /\ r = Kid(t, "right", z) /\ g = Up(t, z) /\ p = Up(t, y) /\ z \in u[Top(t)]
  BY DEF Twin
<1>c. /\ \A s \in Sides, n \in Nodes \ {z, y} : /\ Kid(t, s, n) = y => Kid(d, s, n) = x
                                                /\ Kid(t, s, n) # y => Kid(d, s, n) = Kid(t, s, n)
      /\ p = z => Kid(d, "right", y) = x
      /\ p # z => Kid(d, "right", y) = r
      /\ p = z => Up(d, x) = y
      /\ p # z => Up(d, x) = p
      /\ \A n \in Nodes \ {x, y, z, nil} : /\ n = r => Up(d, n) = y
                                           /\ n # r => Up(d, n) = Up(t, n)
  BY DEF Detached
<1>1. /\ q \in Trees
      /\ g = nil => Top(q) = y
      /\ g # nil => Top(q) = Top(t)
      /\ Up(q, z) = nil /\ ~Red(q, z) /\ (\A s \in Sides : Kid(q, s, z) = nil)
      /\ Up(q, y) = g /\ Up(q, l) = y
      /\ \A n \in Nodes \ {z, y, l} : Up(q, n) = Up(d, n)
      /\ Red(q, y) = Red(t, z) /\ \A n \in Nodes \ {z, y} : Red(q, n) = Red(t, n)
      /\ Kid(q, "left", y) = l /\ Kid(q, "right", y) = Kid(d, "right", y)
      /\ \A s \in Sides, n \in Nodes \ {z, y} : /\ Kid(t, s, n) = z => Kid(q, s, n) = y
                                                /\ Kid(t, s, n) # z => Kid(q, s, n) = Kid(d, s, n)
  BY SeatedFields
<1>2. /\ Top(h) = Top(t)
      /\ Up(h, x) = p /\ (\A n \in Nodes : n # x /\ n # y => Up(h, n) = Up(t, n))
      /\ \A n \in Nodes : n # y => Red(h, n) = Red(t, n)
      /\ \A s \in Sides, n \in Nodes : n # y => /\ Kid(t, s, n) = y => Kid(h, s, n) = x
                                                /\ Kid(t, s, n) # y => Kid(h, s, n) = Kid(t, s, n)
  BY <1>0 DEF Spliced
<1>3. /\ Top(h) = z => Top(q) = y
      /\ Top(h) # z => Top(q) = Top(h)
  BY <1>0, <1>1, <1>2
<1>4. ASSUME NEW s \in Sides, NEW n \in Nodes \ {z, y}
      PROVE  /\ Kid(h, s, n) = z => Kid(q, s, n) = y
             /\ Kid(h, s, n) # z => Kid(q, s, n) = Kid(h, s, n)
  <2>1. CASE Kid(t, s, n) = y
    <3>1. Kid(h, s, n) = x /\ Kid(q, s, n) = x BY <1>0, <1>1, <1>2, <1>c, <2>1
    <3>2. QED BY <1>0, <3>1
  <2>2. CASE Kid(t, s, n) # y
    <3>1. Kid(h, s, n) = Kid(t, s, n) /\ Kid(d, s, n) = Kid(t, s, n) BY <1>2, <1>c, <2>2
    <3>2. QED BY <1>1, <3>1
  <2>3. QED BY <2>1, <2>2
<1>5. ASSUME NEW s \in Sides PROVE Kid(q, s, y) = Kid(h, s, z) /\ Kid(q, s, z) = nil
  <2>1. CASE s = "left"
    <3>1. Kid(h, "left", z) = l
      <4>1. Kid(t, "left", z) # y BY <1>0, <1>b
      <4>2. QED BY <1>0, <1>2, <1>b, <4>1
    <3>2. QED BY <1>1, <2>1, <3>1
  <2>2. CASE s = "right"
    <3>1. CASE p = z
      <4>1. Kid(t, "right", z) = y BY <1>0, <1>b, <3>1
      <4>2. Kid(h, "right", z) = x BY <1>0, <1>2, <4>1
      <4>3. QED BY <1>1, <1>c, <2>2, <3>1, <4>2
    <3>2. CASE p # z
      <4>1. Kid(t, "right", z) = r /\ r # y BY <1>0, <1>b, <3>2
      <4>2. Kid(h, "right", z) = r BY <1>0, <1>2, <4>1
      <4>3. QED BY <1>1, <1>c, <2>2, <3>2, <4>2
    <3>3. QED BY <3>1, <3>2
  <2>3. QED BY <1>0, <2>1, <2>2
<1>6. Up(q, y) = Up(h, z) /\ Up(q, z) = nil BY <1>0, <1>1, <1>2, <1>b
<1>7. ASSUME NEW n \in Nodes \ {z, y}, n # nil \/ n = x
      PROVE  /\ Up(h, n) = z => Up(q, n) = y
             /\ Up(h, n) # z => Up(q, n) = Up(h, n)
  <2>1. CASE n = x
    <3>1. Up(h, n) = p /\ Up(q, n) = Up(d, x) BY <1>0, <1>1, <1>2, <2>1
    <3>2. QED BY <1>c, <3>1
  <2>2. CASE n # x /\ n = l
    <3>1. Up(h, n) = z BY <1>0, <1>2, <2>2
    <3>2. QED BY <1>1, <2>2, <3>1
  <2>3. CASE n # x /\ n # l /\ n = r
    <3>1. Up(h, n) = z BY <1>0, <1>2, <2>3
    <3>2. Up(q, n) = y BY <1>0, <1>1, <1>7, <1>c, <2>3
    <3>3. QED BY <3>1, <3>2
  <2>4. CASE n # x /\ n # l /\ n # r
    <3>1. Up(h, n) = Up(t, n) /\ Up(q, n) = Up(t, n) BY <1>1, <1>2, <1>7, <1>c, <2>4
    <3>2. Up(t, n) # z
      <4>1. SUFFICES ASSUME Up(t, n) = z PROVE FALSE
        OBVIOUS
      <4>2. n \in Keys BY <1>7, <2>4, KeyFacts
      <4>3. n \in u[Top(t)] BY <1>0, <4>1, <4>2 DEF Shape
      <4>4. n # Top(t) BY <1>0, <4>1, <4>3, InTree
      <4>5. \E s \in Sides : Kid(t, s, z) = n BY <4>1, <4>3, <4>4, InTree
      <4>6. QED BY <1>0, <1>b, <2>4, <4>5
    <3>3. QED BY <3>1, <3>2
  <2>5. QED BY <2>1, <2>2, <2>3, <2>4
<1>8. Red(q, y) = Red(h, z) /\ ~Red(q, z) /\ \A n \in Nodes \ {z, y} : Red(q, n) = Red(h, n)
  BY <1>0, <1>1, <1>2
<1>9. QED BY <1>1, <1>3, <1>4, <1>5, <1>6, <1>7, <1>8 DEF Renamed

\* The successor of z, taken out, can take its place.
LEMMA TwinSuits ==
  ASSUME NEW t, NEW u, Shape(t, u), NEW z, NEW l, NEW r, NEW y, NEW x, NEW p, NEW g,
         Twin(t, u, z, l, r, y, x, p, g), NEW h, Spliced(t, h, y, x, p),
         NEW v, Shape(h, v), Without(u, v, y), v[Top(h)] = u[Top(t)] \ {y}
  PROVE  Suits(h, v, z, y)
<1>0. /\ t \in Trees /\ z \in Keys /\ z \in Nodes /\ z # nil
      /\ r \in Keys /\ y \in Keys /\ y \in Nodes /\ y # nil /\ x \in Nodes
      /\ y # z /\ x # y
      /\ y \in u[r] /\ (\A k \in u[r] : k \in Keys /\ (k = y \/ y < k))
      /\ Kid(t, "left", y) = nil /\ Kid(t, "right", y) = x
      /\ "left" \in Sides /\ "right" \in Sides /\ (\A s \in Sides : s = "left" \/ s = "right")
  BY TwinFacts, SideFacts
<1>b. /\ l = Kid(t, "left", z) /\ r = Kid(t, "right", z) /\ z \in u[Top(t)]
  BY DEF Twin
<1>1. /\ (\A s \in Sides : Kid(h, s, y) = nil)
      /\ \A s \in Sides, n \in Nodes : n # y => /\ Kid(t, s, n) = y => Kid(h, s, n) = x
                                                /\ Kid(t, s, n) # y => Kid(h, s, n) = Kid(t, s, n)
  BY DEF Spliced
<1>2. \A n \in Nodes : n # y => v[n] = u[n] \ {y} BY DEF Without
<1>3. ASSUME NEW s \in Sides, NEW n \in Nodes, n # y
      PROVE  v[Kid(h, s, n)] = u[Kid(t, s, n)] \ {y}
  <2>1. CASE Kid(t, s, n) = y
    <3>1. Kid(h, s, n) = x BY <1>1, <1>3, <2>1
    <3>2. u[y] = {y} \cup u[nil] \cup u[x] /\ u[nil] = {} BY <1>0 DEF Shape
    <3>3. v[x] = u[x] \ {y} BY <1>0, <1>2
    <3>4. QED BY <2>1, <3>1, <3>2, <3>3
  <2>2. CASE Kid(t, s, n) # y
    <3>1. Kid(h, s, n) = Kid(t, s, n) /\ Kid(t, s, n) \in Nodes BY <1>1, <1>3, <2>2, ShapeFacts
    <3>2. QED BY <1>2, <2>2, <3>1
  <2>3. QED BY <2>1, <2>2
<1>4. z \in v[Top(h)] /\ y \notin v[Top(h)] BY <1>0, <1>b
<1>5. ASSUME NEW n \in Keys, NEW s \in Sides, z \in v[Kid(h, s, n)] PROVE Before(s, y, n)
  <2>1. n # y
    <3>1. v[nil] = {} BY DEF Shape
    <3>2. QED BY <1>1, <1>5, <3>1
  <2>2. n \in Nodes /\ z \in u[Kid(t, s, n)] /\ Kid(t, s, n) \in Nodes BY <1>3, <1>5, <2>1, KeyFacts, ShapeFacts
  <2>3. u[z] \subseteq u[Kid(t, s, n)] BY <2>2, Upward
  <2>4. u[r] \subseteq u[z] BY <1>0, <1>b, ShapeFacts
  <2>5. y \in u[Kid(t, s, n)] BY <1>0, <2>3, <2>4
  <2>6. QED BY <1>0, <2>5 DEF Shape
<1>6. ASSUME NEW s \in Sides, NEW m \in v[Kid(h, s, z)] PROVE Before(s, m, y)
  <2>1. m \in u[Kid(t, s, z)] /\ m # y BY <1>0, <1>3
  <2>2. CASE s = "left"
    <3>1. m \in Keys /\ Before("left", m, z)
      <4>1. Kid(t, s, z) \in Nodes BY <1>0, ShapeFacts
      <4>2. m \in Keys BY <2>1, <4>1, ShapeFacts
      <4>3. QED BY <1>0, <2>1, <2>2, <4>2 DEF Shape
    <3>2. Before("right", y, z) BY <1>0, <1>b DEF Shape
    <3>3. m < z /\ z < y /\ m \in Int /\ z \in Int /\ y \in Int
      BY <1>0, <3>1, <3>2, KeyFacts DEF Before
    <3>4. QED BY <2>2, <3>3 DEF Before
  <2>3. CASE s = "right"
    <3>1. m \in u[r] BY <1>b, <2>1, <2>3
    <3>2. y < m BY <1>0, <2>1, <3>1
    <3>3. QED BY <1>0, <2>3, <3>2 DEF Before
  <2>4. QED BY <1>0, <2>2, <2>3
<1>7. QED BY <1>0, <1>4, <1>5, <1>6 DEF Suits

-----------------------------------------------------------------------------
(* Unlink *)

\* The tree without z, which has at most one child, x, or with y in the place of z.
UnlinkedOne(t, z, x) == [tree |-> Freed(Transplant(t, z, x), z), node |-> x, red |-> t.red[z]]
Closed(s, l, y, t, z) == [s EXCEPT !.parent[l] = y, !.red[y] = t.red[z]]
UnlinkedTwo(t, z, y, x) ==
  [tree |-> Freed(Closed(PutChild(Transplant(Apart(t, z, y, x), z, y), "left", y, t.left[z]),
                         t.left[z], y, t, z), z),
   node |-> x, red |-> t.red[y]]
UnlinkedFrom(t, z, y) == UnlinkedTwo(t, z, y, t.right[y])
UnlinkedCase(t, z) ==
  IF t.left[z] = nil THEN UnlinkedOne(t, z, t.right[z])
  ELSE IF t.right[z] = nil THEN UnlinkedOne(t, z, t.left[z])
  ELSE UnlinkedFrom(t, z, Minimum(t, t.right[z]))

\* Unlink is one of these.
LEMMA UnlinkCases ==
  ASSUME NEW t, NEW z
  PROVE  Unlink(t, z) = UnlinkedCase(t, z)
BY ZenonT(60) DEF Unlink, UnlinkedCase, UnlinkedFrom, UnlinkedTwo, UnlinkedOne, Closed, Freed,
   Apart, Lifted, PutChild, PutParent

LEMMA ClosedIs ==
  ASSUME NEW s, NEW l, NEW y, NEW t, NEW z
  PROVE  Closed(s, l, y, t, z) = Coloured(PutParent(s, l, y), y, t, z)
BY ZenonT(60) DEF Closed, Coloured, PutParent

\* What Unlink promises: S is what is left in the tree.
Unlinked(cut, S) ==
  \E v, c : /\ Shape(cut.tree, v) /\ v[Top(cut.tree)] = S
            /\ Cut(cut.tree, v, c, cut.node, cut.red)
            /\ cut.node \in S \cup {nil}

\* The three cases keep the promise.
LEMMA UnlinkOne ==
  ASSUME NEW t, NEW u, NEW b, Sound(t, u, b), NEW z \in u[Top(t)], NEW a, NEW x, NEW p,
         Single(t, z, a, x, p), NEW cut, cut = UnlinkedOne(t, z, x)
  PROVE  Unlinked(cut, u[Top(t)] \ {z})
<1> DEFINE h == Freed(Transplant(t, z, x), z)
<1>1. h = Freed(Transplant(t, z, x), z) OBVIOUS
<1>2. cut.tree = h /\ cut.node = x /\ cut.red = Red(t, z) BY DEF UnlinkedOne, Red
<1> HIDE DEF h
<1>3. Shape(t, u) BY DEF Sound
<1>4. Spliced(t, h, z, x, p) BY <1>1, <1>3, SpliceFields
<1>5. PICK v : Shape(h, v) /\ Without(u, v, z) /\ v[Top(h)] = u[Top(t)] \ {z}
  BY <1>3, <1>4, SpliceShape
<1>6. PICK c : Cut(h, v, c, x, Red(t, z)) BY <1>4, <1>5, SpliceCut
<1>7. x \in (u[Top(t)] \ {z}) \cup {nil} BY <1>3, SingleFacts
<1>8. QED BY <1>2, <1>5, <1>6, <1>7 DEF Unlinked

LEMMA UnlinkTwo ==
  ASSUME NEW t, NEW u, NEW b, Sound(t, u, b), NEW z, NEW l, NEW r, NEW y, NEW x, NEW p, NEW g,
         Twin(t, u, z, l, r, y, x, p, g), NEW cut, cut = UnlinkedTwo(t, z, y, x)
  PROVE  Unlinked(cut, u[Top(t)] \ {z})
<1> DEFINE d == Apart(t, z, y, x)
           s == PutChild(Transplant(d, z, y), "left", y, t.left[z])
           q == Freed(Seated(d, t, z, y), z)
           h == Freed(Transplant(t, y, x), y)
<1>0. Shape(t, u) BY DEF Sound
<1>1. d = Apart(t, z, y, x) OBVIOUS
<1>2. h = Freed(Transplant(t, y, x), y) OBVIOUS
<1>3. q = Freed(Seated(d, t, z, y), z) OBVIOUS
<1>4. s = PutChild(Transplant(d, z, y), "left", y, t.left[z]) OBVIOUS
<1>5. /\ cut.tree = Freed(Closed(s, t.left[z], y, t, z), z)
      /\ cut.node = x /\ cut.red = Red(t, y)
  BY ZenonT(60) DEF UnlinkedTwo, Red
<1> HIDE DEF d, s, q, h
<1>6. /\ t \in Trees /\ z \in Nodes /\ z \in u[Top(t)] /\ y \in Nodes /\ y \in u[Top(t)] /\ x \in Nodes
      /\ l \in Nodes /\ l = Kid(t, "left", z) /\ x # z /\ x # y /\ y # z
      /\ Kid(t, "left", y) = nil /\ Kid(t, "right", y) = x /\ p = Up(t, y) /\ g \in Nodes
  BY <1>0, TwinFacts DEF Twin
<1>7. Detached(t, d, z, y, x, p, r) BY <1>0, <1>1, ApartDetached
<1>8. Single(t, y, "left", x, p) BY <1>6, SideFacts DEF Single
<1>9. Spliced(t, h, y, x, p) BY <1>0, <1>2, <1>6, <1>8, SpliceFields
<1>10. PICK v : Shape(h, v) /\ Without(u, v, y) /\ v[Top(h)] = u[Top(t)] \ {y}
  BY <1>0, <1>6, <1>8, <1>9, SpliceShape
<1>11. PICK c : Cut(h, v, c, x, Red(t, y)) BY <1>6, <1>8, <1>9, <1>10, SpliceCut
<1>12. Suits(h, v, z, y) BY <1>0, <1>9, <1>10, TwinSuits
<1>13. Renamed(h, q, z, y, x) BY <1>0, <1>3, <1>7, <1>9, SeatedRenamed
<1>14. PICK w : Shape(q, w) /\ w[Top(q)] = (v[Top(h)] \ {z}) \cup {y} BY <1>10, <1>12, <1>13, RenameShape
<1>15. \E e : Cut(q, w, e, x, Red(t, y))
  BY <1>6, <1>10, <1>11, <1>12, <1>13, <1>14, RenameCut
<1>16. PICK e : Cut(q, w, e, x, Red(t, y)) BY <1>15
<1>18. cut.tree = q
  <2>2. Closed(s, t.left[z], y, t, z) = Coloured(PutParent(s, t.left[z], y), y, t, z)
    BY ClosedIs
  <2>3. Seated(d, t, z, y) = Coloured(PutParent(s, t.left[z], y), y, t, z) BY <1>4, Zenon DEF Seated
  <2>4. QED BY <1>3, <1>5, <2>2, <2>3, Zenon
<1>19. w[Top(q)] = u[Top(t)] \ {z} BY <1>6, <1>10, <1>14
<1>20. x \in (u[Top(t)] \ {z}) \cup {nil} BY <1>0, <1>6, <1>8, SingleFacts
<1>21. QED BY <1>5, <1>14, <1>16, <1>18, <1>19, <1>20 DEF Unlinked

LEMMA UnlinkSound ==
  ASSUME NEW t, NEW u, NEW b, Sound(t, u, b), NEW z \in u[Top(t)], NEW cut, cut = Unlink(t, z)
  PROVE  Unlinked(cut, u[Top(t)] \ {z})
<1> DEFINE l == Kid(t, "left", z)
           r == Kid(t, "right", z)
           p == Up(t, z)
           y == Outermost(t, "left", r)
<1>0. Shape(t, u) BY DEF Sound
<1>1. t \in Trees /\ z \in Keys /\ z \in Nodes BY <1>0, InTree, KeyFacts DEF Shape
<1>2. l = t.left[z] /\ r = t.right[z] /\ (\A n : Kid(t, "right", n) = t.right[n])
  BY <1>1, TreeFields DEF Kid
<1>3. y = Minimum(t, r) BY Zenon DEF Minimum
<1>4. cut = UnlinkedCase(t, z) BY UnlinkCases, Zenon
<1>5. CASE l = nil
  <2>1. Single(t, z, "left", r, p) BY <1>5, SideFacts DEF Single
  <2>2. cut = UnlinkedOne(t, z, r) BY <1>2, <1>4, <1>5 DEF UnlinkedCase
  <2>3. QED BY <2>1, <2>2, UnlinkOne
<1>6. CASE l # nil /\ r = nil
  <2>1. Single(t, z, "right", l, p) BY <1>6, SideFacts DEF Single
  <2>2. cut = UnlinkedOne(t, z, l) BY <1>2, <1>4, <1>6 DEF UnlinkedCase
  <2>3. QED BY <2>1, <2>2, UnlinkOne
<1>7. CASE l # nil /\ r # nil
  <2>1. Twin(t, u, z, l, r, y, Kid(t, "right", y), Up(t, y), p) BY <1>7 DEF Twin
  <2>2. cut = UnlinkedFrom(t, z, Minimum(t, r)) BY <1>2, <1>4, <1>7 DEF UnlinkedCase
  <2>3. cut = UnlinkedFrom(t, z, y) BY <1>3, <2>2
  <2>4. cut = UnlinkedTwo(t, z, y, Kid(t, "right", y)) BY <1>2, <2>3 DEF UnlinkedFrom
  <2>5. QED BY <2>1, <2>4, UnlinkTwo
<1>8. QED BY <1>5, <1>6, <1>7

-----------------------------------------------------------------------------
(* Functions computed from the children *)

\* f is computed from its values at the children.
Recursive(t, G, e, f) ==
  /\ f[nil] = e
  /\ \A n \in Keys : f[n] = G[<<n, f[Kid(t, "left", n)], f[Kid(t, "right", n)]>>]

\* A function of the nodes can be defined from its values at the children.
LEMMA TreeRecursion ==
  ASSUME NEW t, NEW u, Shape(t, u), NEW R, NEW e \in R, NEW G \in [Keys \X R \X R -> R]
  PROVE  \E f \in [Nodes -> R] : Recursive(t, G, e, f)
<1> DEFINE Fits(f, n) == f[n] = G[<<n, f[Kid(t, "left", n)], f[Kid(t, "right", n)]>>]
           Upto(k) == {n \in Keys : Cardinality(u[n]) <= k}
           S == {k \in Nat : \E f \in [Nodes -> R] : f[nil] = e /\ \A n \in Upto(k) : Fits(f, n)}
<1>0. /\ nil \in Nodes /\ nil \notin Keys /\ (\A n \in Nodes : n \in Keys \/ n = nil)
      /\ \A n \in Keys : /\ n \in Nodes /\ n # nil
                         /\ Kid(t, "left", n) \in Nodes /\ Kid(t, "right", n) \in Nodes
                         /\ Cardinality(u[n]) \in Nat
                         /\ Cardinality(u[Kid(t, "left", n)]) < Cardinality(u[n])
                         /\ Cardinality(u[Kid(t, "right", n)]) < Cardinality(u[n])
                         /\ Cardinality(u[Kid(t, "left", n)]) \in Nat
                         /\ Cardinality(u[Kid(t, "right", n)]) \in Nat
  <2>1. \A n \in Keys : n \in Nodes /\ n # nil BY KeyFacts
  <2>2. \A n \in Keys : Kid(t, "left", n) \in Nodes /\ Kid(t, "right", n) \in Nodes
    BY <2>1, SideFacts, ShapeFacts
  <2>3. \A n \in Nodes : Cardinality(u[n]) \in Nat BY ShapeFacts
  <2>4. \A n \in Keys : /\ Cardinality(u[Kid(t, "left", n)]) < Cardinality(u[n])
                        /\ Cardinality(u[Kid(t, "right", n)]) < Cardinality(u[n])
    BY SideFacts, ShapeFacts
  <2>5. nil \in Nodes /\ nil \notin Keys /\ (\A n \in Nodes : n \in Keys \/ n = nil) BY KeyFacts
  <2>6. QED BY <2>1, <2>2, <2>3, <2>4, <2>5
<1>1. 0 \in S
  <2>1. Upto(0) = {}
    <3>1. \A n \in Keys : ~(Cardinality(u[n]) <= 0) BY <1>0
    <3>2. QED BY <3>1
  <2>2. \E f \in [Nodes -> R] : f[nil] = e
    <3>1. [n \in Nodes |-> e] \in [Nodes -> R] /\ [n \in Nodes |-> e][nil] = e BY <1>0
    <3>2. QED BY <3>1
  <2>3. QED BY <2>1, <2>2
<1>2. ASSUME NEW k \in S PROVE k + 1 \in S
  <2>1. PICK f \in [Nodes -> R] : f[nil] = e /\ \A n \in Upto(k) : Fits(f, n) OBVIOUS
  <2> DEFINE h == [n \in Nodes |->
                    IF n = nil THEN e ELSE G[<<n, f[Kid(t, "left", n)], f[Kid(t, "right", n)]>>]]
  <2>2. h \in [Nodes -> R]
    <3>1. ASSUME NEW n \in Keys PROVE G[<<n, f[Kid(t, "left", n)], f[Kid(t, "right", n)]>>] \in R
      <4>1. f[Kid(t, "left", n)] \in R /\ f[Kid(t, "right", n)] \in R BY <1>0
      <4>2. <<n, f[Kid(t, "left", n)], f[Kid(t, "right", n)]>> \in Keys \X R \X R BY <4>1
      <4>3. QED BY <4>2
    <3>2. QED BY <1>0, <3>1
  <2>3. h[nil] = e /\ \A n \in Keys : h[n] = G[<<n, f[Kid(t, "left", n)], f[Kid(t, "right", n)]>>]
    BY <1>0
  <2> HIDE DEF h
  <2>4. \A m \in Nodes : m = nil \/ m \in Upto(k) => h[m] = f[m] BY <2>1, <2>3
  <2>5. ASSUME NEW n \in Upto(k + 1) PROVE Fits(h, n)
    <3>1. n \in Keys /\ Cardinality(u[n]) <= k + 1 /\ k \in Nat OBVIOUS
    <3>2. /\ Cardinality(u[Kid(t, "left", n)]) <= k
          /\ Cardinality(u[Kid(t, "right", n)]) <= k
      BY <1>0, <3>1
    <3>3. /\ h[Kid(t, "left", n)] = f[Kid(t, "left", n)]
          /\ h[Kid(t, "right", n)] = f[Kid(t, "right", n)]
      <4>1. \A m \in Nodes : Cardinality(u[m]) <= k => m = nil \/ m \in Upto(k) BY <1>0
      <4>2. QED BY <1>0, <2>4, <3>1, <3>2, <4>1
    <3>4. QED BY <2>3, <3>1, <3>3
  <2>6. k + 1 \in Nat OBVIOUS
  <2>7. QED BY <2>2, <2>3, <2>5, <2>6
<1>3. S = Nat
  <2> HIDE DEF S
  <2>1. S \in SUBSET Nat BY DEF S
  <2>2. QED BY <1>1, <1>2, <2>1, Ind
<1>4. /\ Cardinality(Keys) \in Nat
      /\ \A n \in Keys : Cardinality(u[n]) <= Cardinality(Keys)
  <2>1. IsFiniteSet(Keys) BY KeysAssumption
  <2>2. \A n \in Keys : u[n] \subseteq Keys BY <1>0, ShapeFacts
  <2>3. QED BY <2>1, <2>2, FS_CardinalityType, FS_Subset
<1>5. Cardinality(Keys) \in S BY <1>3, <1>4
<1>6. PICK f \in [Nodes -> R] : f[nil] = e /\ \A n \in Upto(Cardinality(Keys)) : Fits(f, n) BY <1>5
<1>7. \A n \in Keys : n \in Upto(Cardinality(Keys)) BY <1>4
<1>8. QED BY <1>6, <1>7 DEF Recursive

-----------------------------------------------------------------------------
(* Searching *)

\* y is the node below n that the search for k ends at: k itself, or where k would hang.
Leads(t, u, k, n, y) ==
  /\ y \in u[n]
  /\ k \in u[n] => y = k
  /\ k \notin u[n] =>
       /\ \A s \in Sides : Before(s, k, y) => Kid(t, s, y) = nil
       /\ \A m \in u[n], s \in Sides : y \in u[Kid(t, s, m)] => Before(s, k, m)

\* Where the search ends, and where it goes on.
LEMMA LeadsHere ==
  ASSUME NEW t, NEW u, Shape(t, u), NEW k \in Keys, NEW n \in Keys, NEW side \in Sides,
         n = k \/ (Before(side, k, n) /\ Kid(t, side, n) = nil)
  PROVE  Leads(t, u, k, n, n)
<1>1. /\ n \in u[n] /\ n \in Nodes /\ u[n] \subseteq Keys BY ShapeFacts, KeyFacts
<1>2. ASSUME NEW m \in u[n], NEW s \in Sides, n \in u[Kid(t, s, m)] PROVE FALSE
  <2>1. m \in Keys /\ m \in Nodes BY <1>1, KeyFacts
  <2>2. Before(s, n, m) BY <1>2, <2>1 DEF Shape
  <2>3. m # n BY <2>2, <2>1, BeforeFacts
  <2>4. Kid(t, s, m) \in Nodes BY <2>1, ShapeFacts
  <2>5. u[n] \subseteq u[Kid(t, s, m)] BY <1>2, <2>4, Upward
  <2>6. m \notin u[Kid(t, s, m)] BY <2>1, ShapeFacts
  <2>7. QED BY <2>5, <2>6
<1>3. CASE n = k BY <1>1, <1>3 DEF Leads
<1>4. CASE n # k
  <2>1. Before(side, k, n) /\ Kid(t, side, n) = nil BY <1>4
  <2>2. Opposite(side) \in Sides /\ \A s \in Sides : s = side \/ s = Opposite(side) BY SideFacts
  <2>3. ~Before(Opposite(side), k, n) BY <2>1, BeforeFacts
  <2>4. k \notin u[n]
    <3>1. SUFFICES ASSUME k \in u[n] PROVE FALSE
      OBVIOUS
    <3>2. k \in u[Kid(t, side, n)] \/ k \in u[Kid(t, Opposite(side), n)] BY <1>4, <3>1, ShapeFacts
    <3>3. u[nil] = {} BY DEF Shape
    <3>4. k \in u[Kid(t, Opposite(side), n)] BY <2>1, <3>2, <3>3
    <3>5. Before(Opposite(side), k, n) BY <2>2, <3>4 DEF Shape
    <3>6. QED BY <2>3, <3>5
  <2>5. \A s \in Sides : Before(s, k, n) => Kid(t, s, n) = nil BY <2>1, <2>2, <2>3
  <2>6. QED BY <1>1, <1>2, <2>4, <2>5 DEF Leads
<1>5. QED BY <1>3, <1>4

LEMMA LeadsOn ==
  ASSUME NEW t, NEW u, Shape(t, u), NEW k \in Keys, NEW n \in Keys, NEW side \in Sides,
         n # k, Before(side, k, n), NEW y, Leads(t, u, k, Kid(t, side, n), y)
  PROVE  Leads(t, u, k, n, y)
<1> DEFINE c == Kid(t, side, n)
           o == Kid(t, Opposite(side), n)
<1>0. /\ Opposite(side) \in Sides /\ (\A s \in Sides : s = side \/ s = Opposite(side))
      /\ c = Kid(t, side, n) /\ o = Kid(t, Opposite(side), n)
  BY SideFacts
<1> HIDE DEF c, o
<1>1. /\ n \in Nodes /\ c \in Nodes /\ o \in Nodes /\ u[n] = {n} \cup u[c] \cup u[o]
      /\ n \notin u[c] /\ n \notin u[o] /\ u[c] \cap u[o] = {} /\ u[n] \subseteq Keys
  <2>1. n \in Nodes BY KeyFacts
  <2>2. QED BY <1>0, <2>1, ShapeFacts
<1>2. /\ y \in u[c]
      /\ k \in u[c] => y = k
      /\ k \notin u[c] => /\ \A s \in Sides : Before(s, k, y) => Kid(t, s, y) = nil
                          /\ \A m \in u[c], s \in Sides : y \in u[Kid(t, s, m)] => Before(s, k, m)
  BY <1>0 DEF Leads
<1>3. k \notin u[o]
  <2>1. SUFFICES ASSUME k \in u[o] PROVE FALSE
    OBVIOUS
  <2>2. Before(Opposite(side), k, n) BY <1>0, <2>1 DEF Shape
  <2>3. QED BY <2>2, BeforeFacts
<1>4. k \in u[n] => k \in u[c] BY <1>1, <1>3
<1>5. ASSUME k \notin u[n], NEW m \in u[n], NEW s \in Sides, y \in u[Kid(t, s, m)]
      PROVE  Before(s, k, m)
  <2>1. k \notin u[c] BY <1>1, <1>5
  <2>2. CASE m = n
    <3>1. s = side
      <4>1. s = Opposite(side) => y \in u[o] BY <1>0, <1>5, <2>2
      <4>2. QED BY <1>0, <1>1, <1>2, <4>1
    <3>2. QED BY <2>2, <3>1
  <2>3. CASE m \in u[c] BY <1>2, <1>5, <2>1, <2>3
  <2>4. CASE m \in u[o]
    <3>1. u[m] \subseteq u[o] /\ m \in Keys /\ m \in Nodes BY <1>1, <2>4, Upward, KeyFacts
    <3>2. u[Kid(t, s, m)] \subseteq u[m] BY <3>1, ShapeFacts
    <3>3. QED BY <1>1, <1>2, <1>5, <3>1, <3>2
  <2>5. QED BY <1>1, <2>2, <2>3, <2>4
<1>6. QED BY <1>1, <1>2, <1>4, <1>5 DEF Leads

\* The side on which the search for k goes on at n.
Towards(k, n) == IF k < n THEN "left" ELSE "right"

\* It goes on at the side where the key belongs.
LEMMA TowardsFacts ==
  ASSUME NEW k \in Keys, NEW n \in Keys
  PROVE  Towards(k, n) \in Sides /\ (n # k => Before(Towards(k, n), k, n))
BY KeyFacts, SideFacts DEF Towards, Before

\* The search, as the code does it from each node.
Search(t, k, f) ==
  f = [n \in Nodes |-> IF n = k \/ (IF k < n THEN t.left[n] ELSE t.right[n]) = nil THEN n
                       ELSE f[IF k < n THEN t.left[n] ELSE t.right[n]]]

\* Descend is such a search from the root.
LEMMA DescendIs ==
  ASSUME NEW t, NEW k
  PROVE  /\ Top(t) = nil => Descend(t, k) = nil
         /\ Top(t) # nil => Descend(t, k) = (CHOOSE f : Search(t, k, f))[Top(t)]
BY DEF Descend, Search, Top

LEMMA SearchIs ==
  ASSUME NEW t, NEW u, Shape(t, u), NEW k \in Keys, NEW f
  PROVE  Search(t, k, f) <=>
           f = [n \in Nodes |-> IF n = k \/ Kid(t, Towards(k, n), n) = nil THEN n
                                ELSE f[Kid(t, Towards(k, n), n)]]
<1>1. \A n \in Nodes : (IF k < n THEN t.left[n] ELSE t.right[n]) = Kid(t, Towards(k, n), n)
  <2>1. t \in Trees BY DEF Shape
  <2>2. \A n \in Nodes : Kid(t, "left", n) = t.left[n] /\ Kid(t, "right", n) = t.right[n] BY <2>1, TreeFields
  <2>3. QED BY <2>2 DEF Towards
<1>2. QED BY <1>1 DEF Search

\* There is one, and it leads where the key belongs.
LEMMA SearchExists ==
  ASSUME NEW t, NEW u, Shape(t, u), NEW k \in Keys
  PROVE  \E f : Search(t, k, f)
<1> DEFINE G == [a \in Keys \X Nodes \X Nodes |->
                  IF a[1] = k \/ Kid(t, Towards(k, a[1]), a[1]) = nil THEN a[1]
                  ELSE IF k < a[1] THEN a[2] ELSE a[3]]
<1>0. nil \in Nodes /\ nil \notin Keys /\ (\A n \in Nodes : n \in Keys \/ n = nil)
      /\ (\A n \in Keys : n \in Nodes)
  BY KeyFacts
<1>1. G \in [Keys \X Nodes \X Nodes -> Nodes] BY <1>0
<1>2. \A n \in Keys, a, b \in Nodes :
        G[<<n, a, b>>] = IF n = k \/ Kid(t, Towards(k, n), n) = nil THEN n ELSE IF k < n THEN a ELSE b
  OBVIOUS
<1> HIDE DEF G
<1>3. PICK f \in [Nodes -> Nodes] :
        /\ f[nil] = nil
        /\ \A n \in Keys : f[n] = G[<<n, f[Kid(t, "left", n)], f[Kid(t, "right", n)]>>]
  <2>1. nil \in Nodes BY <1>0
  <2>2. \E f \in [Nodes -> Nodes] : Recursive(t, G, nil, f) BY <1>1, <2>1, TreeRecursion
  <2>3. QED BY <2>2, Zenon DEF Recursive
<1>4. \A n \in Keys : Kid(t, "left", n) \in Nodes /\ Kid(t, "right", n) \in Nodes
  BY <1>0, SideFacts, ShapeFacts
<1>5. ASSUME NEW n \in Keys
      PROVE  f[n] = IF n = k \/ Kid(t, Towards(k, n), n) = nil THEN n ELSE f[Kid(t, Towards(k, n), n)]
  <2>1. f[Kid(t, "left", n)] \in Nodes /\ f[Kid(t, "right", n)] \in Nodes BY <1>4
  <2>2. f[n] = IF n = k \/ Kid(t, Towards(k, n), n) = nil THEN n
               ELSE IF k < n THEN f[Kid(t, "left", n)] ELSE f[Kid(t, "right", n)]
    BY <1>2, <1>3, <2>1
  <2>3. CASE k < n BY <2>2, <2>3 DEF Towards
  <2>4. CASE ~(k < n) BY <2>2, <2>4 DEF Towards
  <2>5. QED BY <2>3, <2>4
<1>6. Kid(t, Towards(k, nil), nil) = nil
  <2>1. Towards(k, nil) \in Sides BY SideFacts DEF Towards
  <2>2. QED BY <2>1 DEF Shape
<1>7. f = [n \in Nodes |-> IF n = k \/ Kid(t, Towards(k, n), n) = nil THEN n
                           ELSE f[Kid(t, Towards(k, n), n)]]
  BY <1>0, <1>3, <1>5, <1>6
<1>8. Search(t, k, f) BY <1>7, SearchIs
<1>9. QED BY <1>8

LEMMA SearchLeads ==
  ASSUME NEW t, NEW u, Shape(t, u), NEW k \in Keys, NEW f, Search(t, k, f)
  PROVE  \A n \in Keys : Leads(t, u, k, n, f[n])
<1> DEFINE P == {n \in Nodes : n \in Keys => Leads(t, u, k, n, f[n])}
<1>0. \A n \in Nodes : f[n] = IF n = k \/ Kid(t, Towards(k, n), n) = nil THEN n
                              ELSE f[Kid(t, Towards(k, n), n)]
  <2>1. f = [n \in Nodes |-> IF n = k \/ Kid(t, Towards(k, n), n) = nil THEN n
                             ELSE f[Kid(t, Towards(k, n), n)]]
    BY SearchIs
  <2>2. QED BY <2>1
<1>1. nil \in P BY KeyFacts
<1>2. ASSUME NEW n \in Keys, \A s \in Sides : Kid(t, s, n) \in P PROVE n \in P
  <2>0. n \in Nodes /\ Towards(k, n) \in Sides /\ (n # k => Before(Towards(k, n), k, n))
    BY KeyFacts, TowardsFacts
  <2>1. CASE n = k \/ Kid(t, Towards(k, n), n) = nil
    <3>1. f[n] = n BY <1>0, <2>0, <2>1
    <3>2. Leads(t, u, k, n, n) BY <2>0, <2>1, LeadsHere
    <3>3. QED BY <2>0, <3>1, <3>2
  <2>2. CASE n # k /\ Kid(t, Towards(k, n), n) # nil
    <3>1. f[n] = f[Kid(t, Towards(k, n), n)] BY <1>0, <2>0, <2>2
    <3>2. Kid(t, Towards(k, n), n) \in Keys BY <2>0, <2>2, ShapeFacts
    <3>3. Leads(t, u, k, Kid(t, Towards(k, n), n), f[n]) BY <1>2, <2>0, <3>1, <3>2
    <3>4. Leads(t, u, k, n, f[n]) BY <2>0, <2>2, <3>3, LeadsOn
    <3>5. QED BY <2>0, <3>4
  <2>3. QED BY <2>1, <2>2
<1> HIDE DEF P
<1>3. Nodes \subseteq P BY <1>1, <1>2, TreeInduction
<1>4. QED BY <1>3, KeyFacts DEF P

\* So does Descend.
LEMMA DescendLeads ==
  ASSUME NEW t, NEW u, Shape(t, u), NEW k \in Keys
  PROVE  /\ Top(t) = nil => Descend(t, k) = nil
         /\ Top(t) # nil => Leads(t, u, k, Top(t), Descend(t, k))
<1>1. CASE Top(t) = nil BY <1>1, DescendIs
<1>2. CASE Top(t) # nil
  <2>1. Descend(t, k) = (CHOOSE f : Search(t, k, f))[Top(t)] BY <1>2, DescendIs
  <2>2. \E f : Search(t, k, f) BY SearchExists
  <2> DEFINE g == CHOOSE f : Search(t, k, f)
  <2>3. Search(t, k, g) BY <2>2, Zenon
  <2> HIDE DEF g
  <2>4. Top(t) \in Keys BY <1>2, InTree
  <2>5. Leads(t, u, k, Top(t), g[Top(t)]) BY <2>3, <2>4, SearchLeads
  <2>6. QED BY <1>2, <2>1, <2>5 DEF g
<1>3. QED BY <1>1, <1>2

\* Find finds the keys that are in the tree.
LEMMA FindFinds ==
  ASSUME NEW t, NEW u, Shape(t, u), NEW k \in Keys
  PROVE  /\ k \in u[Top(t)] => Find(t, k) = k
         /\ k \notin u[Top(t)] => Find(t, k) = nil
<1>0. k # nil /\ (Top(t) = nil <=> u[Top(t)] = {}) BY KeyFacts, InTree
<1>1. Find(t, k) = IF Descend(t, k) = k THEN k ELSE nil BY DEF Find
<1>2. CASE Top(t) = nil BY <1>0, <1>1, <1>2, DescendLeads
<1>3. CASE Top(t) # nil
  <2>1. Leads(t, u, k, Top(t), Descend(t, k)) BY <1>3, DescendLeads
  <2>2. /\ Descend(t, k) \in u[Top(t)] 
        /\ k \in u[Top(t)] => Descend(t, k) = k
    BY <2>1 DEF Leads
  <2>3. QED BY <1>1, <2>2
<1>4. QED BY <1>2, <1>3

-----------------------------------------------------------------------------
(* A node is linked *)

\* z, red and without children, below y.
Placed(t, y, z) == [t EXCEPT !.left[z] = nil, !.right[z] = nil, !.parent[z] = y, !.red[z] = TRUE]
LinkedAt(t, h, y, z, side) == IF y = nil THEN PutRoot(h, z) ELSE PutChild(h, side, y, z)

\* Link does that.
LEMMA LinkIs ==
  ASSUME NEW t, NEW y, NEW z
  PROVE  Link(t, y, z) = LinkedAt(t, Placed(t, y, z), y, z, Towards(z, y))
BY ZenonT(60) DEF Link, LinkedAt, Placed, Towards, PutRoot, PutChild

\* How a linked node looks.
Joined(t, h, y, z, side) ==
  /\ h \in Trees
  /\ y = nil => Top(h) = z
  /\ y # nil => Top(h) = Top(t)
  /\ Up(h, z) = y /\ Red(h, z) /\ (\A s \in Sides : Kid(h, s, z) = nil)
  /\ \A n \in Nodes : n # z => Up(h, n) = Up(t, n) /\ Red(h, n) = Red(t, n)
  /\ y # nil => Kid(h, side, y) = z
  /\ \A s \in Sides, n \in Nodes : n # z /\ (n # y \/ s # side \/ y = nil) => Kid(h, s, n) = Kid(t, s, n)

\* What it sets, and what it leaves.
LEMMA LinkFields ==
  ASSUME NEW t \in Trees, NEW y \in Nodes, NEW z \in Nodes, y # z, NEW h, h = Link(t, y, z)
  PROVE  Joined(t, h, y, z, Towards(z, y))
<1> DEFINE h1 == PutChild(t, "left", z, nil)
           h2 == PutChild(h1, "right", z, nil)
           h3 == PutParent(h2, z, y)
           h4 == Redden(h3, z)
           side == Towards(z, y)
<1>1. h = LinkedAt(t, h4, y, z, side)
  <2>1. Placed(t, y, z) = Redden(PutParent(PutChild(PutChild(t, "left", z, nil), "right", z, nil), z, y), z)
    BY ZenonT(60) DEF Placed, Redden, PutParent, PutChild
  <2>2. h = LinkedAt(t, Placed(t, y, z), y, z, side) BY LinkIs, Zenon
  <2>3. QED BY <2>1, <2>2, Zenon
<1>2. h1 = PutChild(t, "left", z, nil) OBVIOUS
<1>3. h2 = PutChild(h1, "right", z, nil) OBVIOUS
<1>4. h3 = PutParent(h2, z, y) OBVIOUS
<1>5. h4 = Redden(h3, z) OBVIOUS
<1>6. side \in Sides BY SideFacts DEF Towards
<1>7. side = Towards(z, y) OBVIOUS
<1> HIDE DEF h1, h2, h3, h4, side
<1>0. nil \in Nodes /\ "left" \in Sides /\ "right" \in Sides
      /\ (\A s \in Sides : s = "left" \/ s = "right")
  BY KeyFacts, SideFacts
<1>8. /\ h1 \in Trees /\ Top(h1) = Top(t)
      /\ (\A n \in Nodes : Up(h1, n) = Up(t, n)) /\ (\A n \in Nodes : Red(h1, n) = Red(t, n))
      /\ Kid(h1, "left", z) = nil
      /\ \A s \in Sides, n \in Nodes : s # "left" \/ n # z => Kid(h1, s, n) = Kid(t, s, n)
  BY <1>0, <1>2, SetChild, SMTT(60)
<1>9. /\ h2 \in Trees /\ Top(h2) = Top(h1)
      /\ (\A n \in Nodes : Up(h2, n) = Up(h1, n)) /\ (\A n \in Nodes : Red(h2, n) = Red(h1, n))
      /\ Kid(h2, "right", z) = nil
      /\ \A s \in Sides, n \in Nodes : s # "right" \/ n # z => Kid(h2, s, n) = Kid(h1, s, n)
  <2>1. h1 \in Trees /\ z \in Nodes BY <1>0, <1>8
  <2>2. QED BY <1>0, <1>3, <2>1, SetChild, SMTT(60)
<1>10. /\ h3 \in Trees /\ Top(h3) = Top(h2) /\ (\A n \in Nodes : Red(h3, n) = Red(h2, n))
       /\ Up(h3, z) = y /\ (\A n \in Nodes : n # z => Up(h3, n) = Up(h2, n))
       /\ \A s \in Sides, n \in Nodes : Kid(h3, s, n) = Kid(h2, s, n)
  <2>1. h2 \in Trees /\ z \in Nodes /\ y \in Nodes BY <1>0, <1>9
  <2>2. QED BY <1>4, <2>1, SetParent
<1>11. /\ h4 \in Trees /\ Top(h4) = Top(h3)
       /\ \A n \in Nodes : Up(h4, n) = Up(h3, n)
       /\ Red(h4, z) /\ \A n \in Nodes : n # z => Red(h4, n) = Red(h3, n)
       /\ \A s \in Sides, n \in Nodes : Kid(h4, s, n) = Kid(h3, s, n)
  BY <1>5, <1>10, SetRed
<1>12. \A s \in Sides : Kid(h4, s, z) = nil
  <2>1. Kid(h4, "left", z) = nil BY <1>0, <1>8, <1>9, <1>10, <1>11
  <2>2. Kid(h4, "right", z) = nil BY <1>0, <1>9, <1>10, <1>11
  <2>3. QED BY <1>0, <2>1, <2>2
<1>13. /\ h4 \in Trees /\ Top(h4) = Top(t) /\ Up(h4, z) = y /\ Red(h4, z)
       /\ \A n \in Nodes : n # z => Up(h4, n) = Up(t, n) /\ Red(h4, n) = Red(t, n)
       /\ \A s \in Sides, n \in Nodes : n # z => Kid(h4, s, n) = Kid(t, s, n)
  BY <1>8, <1>9, <1>10, <1>11
<1>14. CASE y = nil
  <2>1. h = PutRoot(h4, z) BY <1>1, <1>14 DEF LinkedAt
  <2>2. /\ h \in Trees /\ Top(h) = z /\ (\A n \in Nodes : Red(h, n) = Red(h4, n))
        /\ (\A n \in Nodes : Up(h, n) = Up(h4, n))
        /\ \A s \in Sides, n \in Nodes : Kid(h, s, n) = Kid(h4, s, n)
    BY <1>13, <2>1, SetRoot
  <2>3. Joined(t, h, y, z, side) BY <1>12, <1>13, <1>14, <2>2 DEF Joined
  <2>4. QED BY <1>7, <2>3
<1>15. CASE y # nil
  <2>1. h = PutChild(h4, side, y, z) BY <1>1, <1>15 DEF LinkedAt
  <2>2. /\ h \in Trees /\ Top(h) = Top(h4)
        /\ (\A n \in Nodes : Up(h, n) = Up(h4, n)) /\ (\A n \in Nodes : Red(h, n) = Red(h4, n))
        /\ Kid(h, side, y) = z
        /\ \A s \in Sides, n \in Nodes : s # side \/ n # y => Kid(h, s, n) = Kid(h4, s, n)
    BY <1>6, <1>13, <2>1, SetChild
  <2>3. Joined(t, h, y, z, side) BY <1>12, <1>13, <1>15, <2>2 DEF Joined
  <2>4. QED BY <1>7, <2>3
<1>16. QED BY <1>14, <1>15

\* y is where z belongs: the tree is empty and y nil, or z hangs on a free side of y.
Host(t, u, y, z, side) ==
  /\ z \in Keys /\ z \notin u[Top(t)] /\ side \in Sides
  /\ Top(t) = nil <=> y = nil
  /\ y # nil => /\ y \in u[Top(t)] /\ y \in Keys /\ Kid(t, side, y) = nil /\ Before(side, z, y)
                /\ \A m \in u[Top(t)], s \in Sides : y \in u[Kid(t, s, m)] => Before(s, z, m)

\* Descend ends where a new key belongs.
LEMMA DescendHosts ==
  ASSUME NEW t, NEW u, Shape(t, u), NEW z \in Keys, z \notin u[Top(t)], NEW y, y = Descend(t, z)
  PROVE  Host(t, u, y, z, Towards(z, y))
<1>0. Towards(z, y) \in Sides BY SideFacts DEF Towards
<1>1. CASE Top(t) = nil
  <2>1. y = nil BY <1>1, DescendLeads
  <2>2. QED BY <1>0, <1>1, <2>1 DEF Host
<1>2. CASE Top(t) # nil
  <2>1. Leads(t, u, z, Top(t), y) BY <1>2, DescendLeads
  <2>2. /\ y \in u[Top(t)] /\ (\A s \in Sides : Before(s, z, y) => Kid(t, s, y) = nil)
        /\ \A m \in u[Top(t)], s \in Sides : y \in u[Kid(t, s, m)] => Before(s, z, m)
    BY <2>1 DEF Leads
  <2>3. y \in Keys /\ y # nil /\ y # z BY <2>2, InTree, KeyFacts
  <2>4. Before(Towards(z, y), z, y) BY <2>3, TowardsFacts
  <2>5. QED BY <1>0, <1>2, <2>2, <2>3, <2>4 DEF Host
<1>3. QED BY <1>1, <1>2

\* What is around that place.
LEMMA HostFacts ==
  ASSUME NEW t, NEW u, Shape(t, u), NEW z, NEW y, NEW side, Host(t, u, y, z, side),
         NEW h, Joined(t, h, y, z, side)
  PROVE  /\ t \in Trees /\ h \in Trees /\ y \in Nodes /\ z \in Nodes /\ z \in Keys /\ z # nil /\ y # z
         /\ side \in Sides /\ Opposite(side) \in Sides /\ Opposite(side) # side
         /\ \A s \in Sides : s = side \/ s = Opposite(side)
         /\ Top(t) \in Nodes /\ Top(t) # z /\ u[z] = {z}
         /\ \A s \in Sides, n \in Nodes : /\ Kid(t, s, n) \in Nodes /\ Kid(t, s, n) # z
                                          /\ Kid(t, s, z) = nil
         /\ \A s \in Sides, n \in Nodes :
              /\ n = z => Kid(h, s, n) = nil
              /\ n = y /\ y # nil /\ s = side => Kid(h, s, n) = z /\ Kid(t, s, n) = nil
              /\ n # z /\ (n # y \/ y = nil \/ s # side) => Kid(h, s, n) = Kid(t, s, n)
<1>1. /\ z \in Keys /\ z \notin u[Top(t)] /\ side \in Sides
      /\ Top(t) = nil <=> y = nil
      /\ y # nil => y \in u[Top(t)] /\ y \in Keys /\ Kid(t, side, y) = nil
  BY DEF Host
<1>2. t \in Trees /\ Top(t) \in Nodes /\ z \in Nodes /\ z # nil /\ y \in Nodes /\ y # z
  BY <1>1, InTree, KeyFacts DEF Shape
<1>3. /\ Opposite(side) \in Sides /\ Opposite(side) # side
      /\ \A s \in Sides : s = side \/ s = Opposite(side)
  BY <1>1, SideFacts
<1>4. Top(t) # z BY <1>1, <1>2, InTree
<1>5. \A s \in Sides, n \in Nodes : /\ Kid(t, s, n) \in Nodes /\ Kid(t, s, n) # z
                                    /\ Kid(t, s, z) = nil
  BY <1>1, <1>2, InTree, ShapeFacts
<1>6. u[z] = {z}
  <2>1. u[nil] = {} BY DEF Shape
  <2>2. u[z] = {z} \cup u[Kid(t, side, z)] \cup u[Kid(t, Opposite(side), z)] BY <1>1, ShapeFacts
  <2>3. QED BY <1>1, <1>2, <1>3, <1>5, <2>1, <2>2
<1>7. /\ h \in Trees /\ (\A s \in Sides : Kid(h, s, z) = nil)
      /\ y # nil => Kid(h, side, y) = z
      /\ \A s \in Sides, n \in Nodes : n # z /\ (n # y \/ s # side \/ y = nil) => Kid(h, s, n) = Kid(t, s, n)
  BY DEF Joined
<1>8. ASSUME NEW s \in Sides, NEW n \in Nodes
      PROVE  /\ n = z => Kid(h, s, n) = nil
             /\ n = y /\ y # nil /\ s = side => Kid(h, s, n) = z /\ Kid(t, s, n) = nil
             /\ n # z /\ (n # y \/ y = nil \/ s # side) => Kid(h, s, n) = Kid(t, s, n)
  BY <1>1, <1>7
<1>9. QED BY <1>1, <1>2, <1>3, <1>4, <1>5, <1>6, <1>7, <1>8

\* The nodes above have one node more below them.
LEMMA LinkShape ==
  ASSUME NEW t, NEW u, Shape(t, u), NEW z, NEW y, NEW side, Host(t, u, y, z, side),
         NEW h, Joined(t, h, y, z, side)
  PROVE  \E v : Shape(h, v) /\ v[Top(h)] = u[Top(t)] \cup {z}
<1> DEFINE v == [n \in Nodes |-> IF y \in u[n] THEN u[n] \cup {z} ELSE u[n]]
<1>0. /\ t \in Trees /\ h \in Trees /\ y \in Nodes /\ z \in Nodes /\ z \in Keys /\ z # nil /\ y # z
      /\ side \in Sides /\ Opposite(side) \in Sides /\ Opposite(side) # side
      /\ \A s \in Sides : s = side \/ s = Opposite(side)
      /\ Top(t) \in Nodes /\ Top(t) # z /\ u[z] = {z}
      /\ nil \in Nodes /\ nil \notin Keys /\ "left" \in Sides /\ "right" \in Sides
      /\ u[nil] = {} /\ (\A n \in Nodes : u[n] \in SUBSET Keys)
      /\ \A n \in Keys : n \in Nodes /\ n # nil
  <2>1. /\ t \in Trees /\ h \in Trees /\ y \in Nodes /\ z \in Nodes /\ z \in Keys /\ z # nil /\ y # z
        /\ side \in Sides /\ Opposite(side) \in Sides /\ Opposite(side) # side
        /\ \A s \in Sides : s = side \/ s = Opposite(side)
        /\ Top(t) \in Nodes /\ Top(t) # z /\ u[z] = {z}
    BY HostFacts
  <2>2. u[nil] = {} BY DEF Shape
  <2>3. QED BY <2>1, <2>2, KeyFacts, SideFacts, ShapeFacts
<1>1. /\ \A s \in Sides, n \in Nodes : /\ Kid(t, s, n) \in Nodes /\ Kid(t, s, n) # z
                                       /\ Kid(t, s, z) = nil
      /\ \A s \in Sides, n \in Nodes :
           /\ n = z => Kid(h, s, n) = nil
           /\ n = y /\ y # nil /\ s = side => Kid(h, s, n) = z /\ Kid(t, s, n) = nil
           /\ n # z /\ (n # y \/ y = nil \/ s # side) => Kid(h, s, n) = Kid(t, s, n)
  BY HostFacts
<1>2. /\ z \notin u[Top(t)] /\ (Top(t) = nil <=> y = nil)
      /\ y # nil => /\ y \in u[Top(t)] /\ y \in Keys /\ Before(side, z, y)
                    /\ \A m \in u[Top(t)], s \in Sides : y \in u[Kid(t, s, m)] => Before(s, z, m)
  BY DEF Host
<1>3. /\ y = nil => Top(h) = z
      /\ y # nil => Top(h) = Top(t)
      /\ Up(h, z) = y /\ Red(h, z)
      /\ \A n \in Nodes : n # z => Up(h, n) = Up(t, n) /\ Red(h, n) = Red(t, n)
  BY DEF Joined
<1>4. v \in [Nodes -> SUBSET Keys] BY <1>0
<1>5. \A n \in Nodes : /\ y \in u[n] => v[n] = u[n] \cup {z}
                       /\ y \notin u[n] => v[n] = u[n]
  OBVIOUS
<1> HIDE DEF v
<1>6. v[nil] = {} /\ v[z] = {z} BY <1>0, <1>5
<1>7. v[Top(h)] = u[Top(t)] \cup {z}
  <2>1. CASE y = nil
    <3>1. u[Top(t)] = {} BY <1>0, <1>2, <2>1
    <3>2. QED BY <1>3, <1>6, <2>1, <3>1
  <2>2. CASE y # nil BY <1>0, <1>2, <1>3, <1>5, <2>2
  <2>3. QED BY <2>1, <2>2
<1>8. \A s \in Sides : Kid(h, s, nil) = nil
  <2>1. \A s \in Sides : Kid(t, s, nil) = nil BY DEF Shape
  <2>2. QED BY <1>0, <1>1, <2>1
<1>9. ~Red(h, nil)
  <2>1. ~Red(t, nil) BY DEF Shape
  <2>2. QED BY <1>0, <1>3, <2>1
<1>10. ASSUME NEW n \in Keys PROVE v[n] = {n} \cup v[Kid(h, side, n)] \cup v[Kid(h, Opposite(side), n)]
  <2>0. /\ n \in Nodes /\ n # nil
        /\ u[n] = {n} \cup u[Kid(t, side, n)] \cup u[Kid(t, Opposite(side), n)]
        /\ n \notin u[Kid(t, side, n)] /\ n \notin u[Kid(t, Opposite(side), n)]
    BY <1>0, ShapeFacts
  <2>1. CASE n = z
    <3>1. Kid(h, side, n) = nil /\ Kid(h, Opposite(side), n) = nil BY <1>0, <1>1, <2>0, <2>1
    <3>2. QED BY <1>6, <2>1, <3>1
  <2>2. CASE n = y
    <3>1. /\ Kid(h, side, n) = z /\ Kid(t, side, n) = nil
          /\ Kid(h, Opposite(side), n) = Kid(t, Opposite(side), n)
          /\ Kid(t, Opposite(side), n) \in Nodes
      BY <1>0, <1>1, <2>0, <2>2
    <3>2. v[n] = u[n] \cup {z} BY <1>5, <2>0, <2>2
    <3>3. v[Kid(h, Opposite(side), n)] = u[Kid(t, Opposite(side), n)] BY <1>5, <2>0, <2>2, <3>1
    <3>4. v[Kid(h, side, n)] = {z} /\ u[Kid(t, side, n)] = {} BY <1>0, <1>6, <3>1
    <3>5. QED BY <2>0, <3>2, <3>3, <3>4
  <2>3. CASE n # z /\ n # y
    <3>1. /\ Kid(h, side, n) = Kid(t, side, n) /\ Kid(h, Opposite(side), n) = Kid(t, Opposite(side), n)
          /\ Kid(t, side, n) \in Nodes /\ Kid(t, Opposite(side), n) \in Nodes
      BY <1>0, <1>1, <2>0, <2>3
    <3>2. y \in u[n] <=> y \in u[Kid(t, side, n)] \/ y \in u[Kid(t, Opposite(side), n)] BY <2>0, <2>3
    <3>3. /\ y \in u[n] => v[n] = u[n] \cup {z}
          /\ y \notin u[n] => v[n] = u[n]
          /\ y \in u[Kid(t, side, n)] => v[Kid(h, side, n)] = u[Kid(t, side, n)] \cup {z}
          /\ y \notin u[Kid(t, side, n)] => v[Kid(h, side, n)] = u[Kid(t, side, n)]
          /\ y \in u[Kid(t, Opposite(side), n)]
               => v[Kid(h, Opposite(side), n)] = u[Kid(t, Opposite(side), n)] \cup {z}
          /\ y \notin u[Kid(t, Opposite(side), n)]
               => v[Kid(h, Opposite(side), n)] = u[Kid(t, Opposite(side), n)]
      BY <1>5, <2>0, <3>1
    <3>4. CASE y \in u[n]
      <4>1. v[Kid(h, side, n)] \cup v[Kid(h, Opposite(side), n)]
              = u[Kid(t, side, n)] \cup u[Kid(t, Opposite(side), n)] \cup {z}
        BY <3>2, <3>3, <3>4
      <4>2. QED BY <2>0, <3>3, <3>4, <4>1
    <3>5. CASE y \notin u[n] BY <2>0, <3>2, <3>3, <3>5
    <3>6. QED BY <3>4, <3>5
  <2>4. QED BY <2>1, <2>2, <2>3
<1>11. \A n \in Keys : v[n] = {n} \cup v[Kid(h, "left", n)] \cup v[Kid(h, "right", n)]
  <2>1. CASE side = "left"
    <3>1. Opposite(side) = "right" BY <2>1, SideFacts
    <3>2. QED BY <1>10, <2>1, <3>1
  <2>2. CASE side = "right"
    <3>1. Opposite(side) = "left" BY <2>2, SideFacts
    <3>2. QED BY <1>10, <2>2, <3>1
  <2>3. QED BY <1>0, <2>1, <2>2, SideFacts
<1>12. ASSUME NEW n \in Keys, NEW s \in Sides, NEW m \in Keys, m \in v[Kid(h, s, n)]
       PROVE  Before(s, m, n)
  <2>0. n \in Nodes /\ n # nil BY <1>0
  <2>1. n # z BY <1>1, <1>6, <1>12, <2>0
  <2>2. CASE n = y /\ s = side
    <3>1. m = z BY <1>1, <1>6, <1>12, <2>0, <2>2
    <3>2. QED BY <1>2, <2>0, <2>2, <3>1
  <2>3. CASE ~(n = y /\ s = side)
    <3>1. Kid(h, s, n) = Kid(t, s, n) /\ Kid(t, s, n) \in Nodes BY <1>1, <2>0, <2>1, <2>3
    <3>2. CASE m \in u[Kid(t, s, n)] BY <3>2 DEF Shape
    <3>3. CASE m \notin u[Kid(t, s, n)]
      <4>1. m = z /\ y \in u[Kid(t, s, n)] BY <1>5, <1>12, <3>1, <3>3
      <4>2. y # nil /\ Kid(t, s, n) # nil BY <1>0, <3>1, <4>1
      <4>3. n \in u[Top(t)] BY <2>0, <4>2, InTree
      <4>4. QED BY <1>2, <4>1, <4>2, <4>3
    <3>4. QED BY <3>2, <3>3
  <2>4. QED BY <2>2, <2>3
<1>13. ASSUME NEW n \in Keys, NEW s \in Sides, Kid(h, s, n) # nil PROVE Up(h, Kid(h, s, n)) = n
  <2>0. n \in Nodes /\ n # nil /\ n # z BY <1>0, <1>1, <1>13
  <2>1. CASE n = y /\ s = side BY <1>1, <1>3, <2>0, <2>1
  <2>2. CASE ~(n = y /\ s = side)
    <3>1. /\ Kid(h, s, n) = Kid(t, s, n) /\ Kid(t, s, n) \in Nodes /\ Kid(t, s, n) # z
      BY <1>1, <2>0, <2>2
    <3>2. Up(t, Kid(t, s, n)) = n BY <1>13, <3>1 DEF Shape
    <3>3. QED BY <1>3, <3>1, <3>2
  <2>3. QED BY <2>1, <2>2
<1>14. Top(h) # nil => Up(h, Top(h)) = nil
  <2>1. Top(t) # nil => Up(t, Top(t)) = nil BY DEF Shape
  <2>2. QED BY <1>0, <1>2, <1>3, <2>1
<1>15. ASSUME NEW n \in Keys \ v[Top(h)]
       PROVE  (\A s \in Sides : Kid(h, s, n) = nil) /\ Up(h, n) = nil /\ ~Red(h, n)
  <2>1. n \in Keys /\ n \in Nodes /\ n # z /\ n # y /\ n \notin u[Top(t)] BY <1>0, <1>2, <1>7
  <2>2. (\A s \in Sides : Kid(t, s, n) = nil) /\ Up(t, n) = nil /\ ~Red(t, n) BY <2>1 DEF Shape
  <2>3. QED BY <1>1, <1>3, <2>1, <2>2
<1>16. Shape(h, v) BY <1>0, <1>4, <1>6, <1>8, <1>9, <1>11, <1>12, <1>13, <1>14, <1>15 DEF Shape
<1>17. QED BY <1>7, <1>16

\* The node linked is red, and the rest of the tree as before.
LEMMA LinkMends ==
  ASSUME NEW t, NEW u, NEW b, Sound(t, u, b), NEW z, NEW y, NEW side, Host(t, u, y, z, side),
         NEW h, Joined(t, h, y, z, side)
  PROVE  \E v, c : Mend(h, v, c, z) /\ v[Top(h)] = u[Top(t)] \cup {z}
<1> DEFINE c == [n \in Nodes |-> IF n = z THEN 0 ELSE b[n]]
<1>0. Shape(t, u) /\ Weighed(t, b, {}) /\ RedOk(t, {}, {}) /\ ~Red(t, Top(t)) BY DEF Sound
<1>1. PICK v : Shape(h, v) /\ v[Top(h)] = u[Top(t)] \cup {z} BY <1>0, LinkShape
<1>2. /\ t \in Trees /\ h \in Trees /\ y \in Nodes /\ z \in Nodes /\ z \in Keys /\ z # nil /\ y # z
      /\ side \in Sides /\ (\A n \in Keys : n \in Nodes /\ n # nil) /\ nil \in Nodes
      /\ Top(t) \in Nodes /\ Top(t) # z
  BY <1>0, HostFacts, KeyFacts
<1>3. /\ \A s \in Sides, n \in Nodes : Kid(t, s, n) \in Nodes /\ Kid(t, s, n) # z
      /\ \A s \in Sides, n \in Nodes :
           /\ n = z => Kid(h, s, n) = nil
           /\ n = y /\ y # nil /\ s = side => Kid(h, s, n) = z /\ Kid(t, s, n) = nil
           /\ n # z /\ (n # y \/ y = nil \/ s # side) => Kid(h, s, n) = Kid(t, s, n)
  BY <1>0, HostFacts
<1>4. /\ y = nil => Top(h) = z
      /\ y # nil => Top(h) = Top(t)
      /\ Red(h, z) /\ \A n \in Nodes : n # z => Red(h, n) = Red(t, n)
  BY DEF Joined
<1>5. b \in [Nodes -> Nat] /\ b[nil] = 0 /\ \A n \in Keys : Level(t, b, n) BY <1>0 DEF Weighed
<1>6. c \in [Nodes -> Nat] /\ c[z] = 0 /\ c[nil] = 0 /\ \A n \in Nodes : n # z => c[n] = b[n]
  BY <1>2, <1>5
<1> HIDE DEF c
<1>7. ASSUME NEW n \in Keys, NEW s \in Sides PROVE c[n] = c[Kid(h, s, n)] + Weight(h, n)
  <2>0. n \in Nodes /\ n # nil BY <1>2
  <2>1. CASE n = z
    <3>1. Kid(h, s, n) = nil BY <1>3, <2>0, <2>1
    <3>2. Weight(h, n) = 0 BY <1>2, <1>4, <2>1, RedType
    <3>3. QED BY <1>6, <2>1, <3>1, <3>2
  <2>2. CASE n # z
    <3>1. b[n] = b[Kid(t, s, n)] + Weight(t, n) BY <1>5 DEF Level
    <3>2. Weight(h, n) = Weight(t, n) BY <1>4, <2>0, <2>2 DEF Weight
    <3>3. c[Kid(h, s, n)] = b[Kid(t, s, n)]
      <4>1. CASE n = y /\ s = side BY <1>3, <1>5, <1>6, <2>0, <4>1
      <4>2. CASE ~(n = y /\ s = side)
        <5>1. Kid(h, s, n) = Kid(t, s, n) /\ Kid(t, s, n) \in Nodes /\ Kid(t, s, n) # z
          BY <1>3, <2>0, <2>2, <4>2
        <5>2. QED BY <1>6, <5>1
      <4>3. QED BY <4>1, <4>2
    <3>4. QED BY <1>6, <2>0, <2>2, <3>1, <3>2, <3>3
  <2>3. QED BY <2>1, <2>2
<1>8. Weighed(h, c, {}) BY <1>6, <1>7 DEF Weighed, Level
<1>9. ~Red(h, nil) BY <1>1 DEF Shape
<1>10. RedOk(h, {z}, {})
  <2>1. SUFFICES ASSUME NEW n \in Keys, NEW s \in Sides, Red(h, n), Red(h, Kid(h, s, n)), Kid(h, s, n) # z
                 PROVE  FALSE
    BY DEF RedOk
  <2>2. n \in Nodes /\ n # nil BY <1>2
  <2>3. n # z BY <1>3, <1>9, <2>1, <2>2
  <2>4. ~(n = y /\ s = side) BY <1>3, <2>1, <2>2
  <2>5. Kid(h, s, n) = Kid(t, s, n) /\ Kid(t, s, n) \in Nodes BY <1>3, <2>2, <2>3, <2>4
  <2>6. Red(t, n) /\ Red(t, Kid(t, s, n)) BY <1>4, <2>1, <2>2, <2>3, <2>5
  <2>7. QED BY <1>0, <2>6 DEF RedOk
<1>11. Red(h, Top(h)) => Top(h) = z BY <1>0, <1>2, <1>4
<1>12. Mend(h, v, c, z) BY <1>1, <1>4, <1>8, <1>10, <1>11 DEF Mend
<1>13. QED BY <1>1, <1>12

-----------------------------------------------------------------------------
(* Ends of the operations *)

\* InsertFixup ends when z's parent is black: only the root may then be red, and it is
\* blackened.
LEMMA InsertionEnds ==
  ASSUME NEW t, NEW u, NEW b, NEW z, Mend(t, u, b, z), ~Red(t, Up(t, z)),
         NEW h, h = Blacken(t, Top(t))
  PROVE  Top(h) = Top(t) /\ \E c : Sound(h, u, c)
<1>0. /\ Shape(t, u) /\ Weighed(t, b, {}) /\ RedOk(t, {z}, {}) /\ z \in u[Top(t)]
  BY DEF Mend
<1>1. RedOk(t, {Top(t)}, {Top(t)})
  <2>1. SUFFICES ASSUME NEW n \in Keys, NEW s \in Sides, Red(t, n), Red(t, Kid(t, s, n)) PROVE FALSE
    BY DEF RedOk
  <2>2. Kid(t, s, n) = z BY <1>0, <2>1 DEF RedOk
  <2>3. z # nil BY <1>0, InTree, KeyFacts
  <2>4. Up(t, z) = n BY <1>0, <2>2, <2>3 DEF Shape
  <2>5. QED BY <2>1, <2>4
<1>2. Whole(t, u, b, Top(t)) BY <1>0, <1>1 DEF Whole
<1>3. Short(t, u, b, Top(t)) BY <1>2 DEF Short
<1>4. Top(t) \in Nodes BY <1>0, InTree
<1>5. /\ Shape(h, u) /\ Top(h) = Top(t) /\ ~Red(h, Top(h)) /\ RedOk(h, {}, {})
      /\ \E c : Weighed(h, c, {})
  BY <1>3, <1>4, LastColour
<1>6. QED BY <1>5 DEF Sound

\* After the last round of DeleteFixup the node is made black.
LEMMA ErasureEnds ==
  ASSUME NEW t, NEW u, NEW b, NEW x, Short(t, u, b, x), x = Top(t) \/ Red(t, x), x \in Nodes,
         NEW h, h = Blacken(t, x)
  PROVE  Top(h) = Top(t) /\ \E c : Sound(h, u, c)
<1>1. /\ Shape(h, u) /\ Top(h) = Top(t) /\ ~Red(h, Top(h)) /\ RedOk(h, {}, {})
      /\ \E c : Weighed(h, c, {})
  BY LastColour
<1>2. QED BY <1>1 DEF Sound

\* Trees in the middle of a repair have shapes.
LEMMA ShortFacts ==
  ASSUME NEW t, NEW u, NEW b, NEW x, Short(t, u, b, x)
  PROVE  t \in Trees /\ x \in Nodes /\ Shape(t, u) /\ b[x] \in Nat
<1>1. CASE Whole(t, u, b, x)
  <2>1. Shape(t, u) /\ x = Top(t) BY <1>1 DEF Whole
  <2>2. x \in Nodes /\ b \in [Nodes -> Nat] BY <1>1, <2>1, InTree DEF Whole, Weighed
  <2>3. QED BY <2>1, <2>2 DEF Shape
<1>2. ASSUME NEW p, NEW s, Lacking(t, u, b, x, p, s) PROVE t \in Trees /\ x \in Nodes /\ Shape(t, u) /\ b[x] \in Nat
  BY <1>2, LackingFacts
<1>3. QED BY <1>1, <1>2 DEF Short

LEMMA MendFacts ==
  ASSUME NEW t, NEW u, NEW b, NEW z, Mend(t, u, b, z)
  PROVE  t \in Trees /\ Shape(t, u) /\ z \in Nodes /\ z \in Keys /\ z \in u[Top(t)]
<1>1. Shape(t, u) /\ z \in u[Top(t)] BY DEF Mend
<1>2. QED BY <1>1, InTree, KeyFacts DEF Shape

LEMMA SoundFacts ==
  ASSUME NEW t, NEW u, NEW b, Sound(t, u, b)
  PROVE  t \in Trees /\ Shape(t, u) /\ u[Top(t)] \in SUBSET Keys
<1>1. Shape(t, u) BY DEF Sound
<1>2. QED BY <1>1, InTree, ShapeFacts DEF Shape

\* The empty tree is whole.
LEMMA EmptySound ==
  ASSUME NEW h, h = EmptyTree
  PROVE  \E u, b : Sound(h, u, b) /\ u[Top(h)] = {}
<1> DEFINE u == [n \in Nodes |-> IF n = nil THEN {} ELSE {n}]
           b == [n \in Nodes |-> IF n = nil THEN 0 ELSE 1]
<1>0. /\ nil \in Nodes /\ nil \notin Keys /\ (\A n \in Nodes : n \in Keys \/ n = nil)
      /\ (\A n \in Keys : n \in Nodes /\ n # nil) /\ "left" \in Sides /\ "right" \in Sides
  BY KeyFacts, SideFacts
<1>1. /\ h \in Trees /\ Top(h) = nil
      /\ \A n \in Nodes : Up(h, n) = nil /\ ~Red(h, n)
      /\ \A s \in Sides, n \in Nodes : Kid(h, s, n) = nil
  BY <1>0 DEF EmptyTree, Trees, Kid, Up, Red, Top, Sides
<1>2. u \in [Nodes -> SUBSET Keys] /\ u[nil] = {} /\ \A n \in Keys : u[n] = {n} BY <1>0
<1>3. b \in [Nodes -> Nat] /\ b[nil] = 0 /\ \A n \in Keys : b[n] = 1 BY <1>0
<1> HIDE DEF u, b
<1>4. Shape(h, u) BY <1>0, <1>1, <1>2 DEF Shape
<1>5. \A n \in Keys : Weight(h, n) = 1 BY <1>0, <1>1, RedType
<1>6. Weighed(h, b, {}) BY <1>0, <1>1, <1>3, <1>5 DEF Weighed, Level
<1>7. RedOk(h, {}, {}) BY <1>0, <1>1 DEF RedOk
<1>8. ~Red(h, Top(h)) BY <1>0, <1>1
<1>9. Sound(h, u, b) BY <1>4, <1>6, <1>7, <1>8 DEF Sound
<1>10. QED BY <1>1, <1>2, <1>9

\* Below is what a shape has below each node.
Under(t, f) ==
  f = [n \in Nodes |-> IF n = nil THEN {} ELSE {n} \cup f[t.left[n]] \cup f[t.right[n]]]

\* Below is such a function.
LEMMA BelowDefined ==
  ASSUME NEW t, NEW node
  PROVE  Below(t, node) = (CHOOSE f : Under(t, f))[node]
BY DEF Below, Under

LEMMA BelowIs ==
  ASSUME NEW t, NEW u, Shape(t, u)
  PROVE  \A n \in Nodes : Below(t, n) = u[n]
<1> DEFINE g == CHOOSE f : Under(t, f)
           P == {n \in Nodes : g[n] = u[n]}
<1>0. /\ \A n \in Nodes : Kid(t, "left", n) = t.left[n] /\ Kid(t, "right", n) = t.right[n]
      /\ nil \in Nodes /\ nil \notin Keys /\ (\A n \in Nodes : n \in Keys \/ n = nil)
      /\ (\A n \in Keys : n \in Nodes /\ n # nil) /\ "left" \in Sides /\ "right" \in Sides
  BY TreeFields, KeyFacts, SideFacts DEF Shape
<1>1. /\ u \in [Nodes -> SUBSET Keys] /\ u[nil] = {}
      /\ \A n \in Keys : u[n] = {n} \cup u[Kid(t, "left", n)] \cup u[Kid(t, "right", n)]
  BY DEF Shape
<1>2. Under(t, u)
  <2>1. \A n \in Nodes : u[n] = IF n = nil THEN {} ELSE {n} \cup u[t.left[n]] \cup u[t.right[n]]
    BY <1>0, <1>1
  <2>2. QED BY <1>1, <2>1 DEF Under
<1>3. Under(t, g) BY <1>2, Zenon
<1> HIDE DEF g
<1>4. /\ g[nil] = {}
      /\ \A n \in Keys : g[n] = {n} \cup g[Kid(t, "left", n)] \cup g[Kid(t, "right", n)]
  <2>1. \A n \in Nodes : g[n] = IF n = nil THEN {} ELSE {n} \cup g[t.left[n]] \cup g[t.right[n]]
    BY <1>3 DEF Under
  <2>2. QED BY <1>0, <2>1
<1>5. nil \in P BY <1>0, <1>1, <1>4
<1>6. ASSUME NEW n \in Keys, \A s \in Sides : Kid(t, s, n) \in P PROVE n \in P
  <2>1. g[Kid(t, "left", n)] = u[Kid(t, "left", n)] /\ g[Kid(t, "right", n)] = u[Kid(t, "right", n)]
    BY <1>0, <1>6
  <2>2. g[n] = u[n] BY <1>1, <1>4, <2>1
  <2>3. QED BY <1>0, <2>2
<1> HIDE DEF P
<1>7. Nodes \subseteq P BY <1>5, <1>6, TreeInduction
<1>8. ASSUME NEW n \in Nodes PROVE Below(t, n) = u[n]
  <2>1. Below(t, n) = g[n] BY BelowDefined DEF g
  <2>2. QED BY <1>7, <2>1 DEF P
<1>9. QED BY <1>8

\* The black height, from its values at the children.
Blacks(t, f) ==
  f = [n \in Nodes |-> IF n = nil THEN 0
                       ELSE IF f[t.left[n]] = f[t.right[n]] /\ f[t.left[n]] >= 0
                            THEN f[t.left[n]] + IF t.red[n] THEN 0 ELSE 1 ELSE -1]

LEMMA BlackHeightDefined ==
  ASSUME NEW t
  PROVE  BlackHeight(t) = (CHOOSE f : Blacks(t, f))[Top(t)]
BY DEF BlackHeight, Blacks, Top

\* A tree that weighs the same on both sides has a black height.
LEMMA BlackHeightIs ==
  ASSUME NEW t, NEW u, Shape(t, u), NEW b, Weighed(t, b, {})
  PROVE  BlackHeight(t) = b[Top(t)] /\ BlackHeight(t) >= 0
<1> DEFINE g == CHOOSE f : Blacks(t, f)
           P == {n \in Nodes : g[n] = b[n]}
<1>0. /\ \A n \in Nodes : Kid(t, "left", n) = t.left[n] /\ Kid(t, "right", n) = t.right[n]
      /\ nil \in Nodes /\ nil \notin Keys /\ (\A n \in Nodes : n \in Keys \/ n = nil)
      /\ (\A n \in Keys : n \in Nodes /\ n # nil) /\ "left" \in Sides /\ "right" \in Sides
      /\ \A n \in Nodes : Kid(t, "left", n) \in Nodes /\ Kid(t, "right", n) \in Nodes
  BY TreeFields, KeyFacts, SideFacts DEF Shape
<1>1. /\ b \in [Nodes -> Nat] /\ b[nil] = 0
      /\ \A n \in Keys : /\ b[n] = b[Kid(t, "left", n)] + Weight(t, n)
                         /\ b[n] = b[Kid(t, "right", n)] + Weight(t, n)
      /\ \A n \in Keys : Weight(t, n) \in Nat
  <2>1. \A n \in Keys : Level(t, b, n) BY DEF Weighed
  <2>2. QED BY <1>0, <2>1 DEF Level, Weighed, Weight
<1>2. \A n \in Keys : /\ b[Kid(t, "left", n)] = b[Kid(t, "right", n)]
                      /\ b[Kid(t, "left", n)] \in Nat /\ b[Kid(t, "left", n)] >= 0
  <2>1. SUFFICES ASSUME NEW n \in Keys
                 PROVE  /\ b[Kid(t, "left", n)] = b[Kid(t, "right", n)]
                        /\ b[Kid(t, "left", n)] \in Nat /\ b[Kid(t, "left", n)] >= 0
    OBVIOUS
  <2>2. b[Kid(t, "left", n)] \in Nat /\ b[Kid(t, "right", n)] \in Nat /\ Weight(t, n) \in Nat
    BY <1>0, <1>1
  <2>3. b[Kid(t, "left", n)] + Weight(t, n) = b[Kid(t, "right", n)] + Weight(t, n) BY <1>1
  <2>4. QED BY <2>2, <2>3
<1>3. \A n \in Nodes : Weight(t, n) = IF t.red[n] THEN 0 ELSE 1 BY DEF Weight, Red
<1>4. Blacks(t, b)
  <2>1. \A n \in Nodes : b[n] = IF n = nil THEN 0
                                ELSE IF b[t.left[n]] = b[t.right[n]] /\ b[t.left[n]] >= 0
                                     THEN b[t.left[n]] + IF t.red[n] THEN 0 ELSE 1 ELSE -1
    BY <1>0, <1>1, <1>2, <1>3
  <2>2. QED BY <1>1, <2>1 DEF Blacks
<1>5. Blacks(t, g) BY <1>4, Zenon
<1> HIDE DEF g
<1>6. /\ g[nil] = 0
      /\ \A n \in Keys : g[Kid(t, "left", n)] = g[Kid(t, "right", n)] /\ g[Kid(t, "left", n)] >= 0
                           => g[n] = g[Kid(t, "left", n)] + Weight(t, n)
  <2>1. \A n \in Nodes : g[n] = IF n = nil THEN 0
                                ELSE IF g[t.left[n]] = g[t.right[n]] /\ g[t.left[n]] >= 0
                                     THEN g[t.left[n]] + IF t.red[n] THEN 0 ELSE 1 ELSE -1
    BY <1>5 DEF Blacks
  <2>2. QED BY <1>0, <1>3, <2>1
<1>7. nil \in P BY <1>0, <1>1, <1>6
<1>8. ASSUME NEW n \in Keys, \A s \in Sides : Kid(t, s, n) \in P PROVE n \in P
  <2>1. g[Kid(t, "left", n)] = b[Kid(t, "left", n)] /\ g[Kid(t, "right", n)] = b[Kid(t, "right", n)]
    BY <1>0, <1>8
  <2>2. g[n] = g[Kid(t, "left", n)] + Weight(t, n) BY <1>2, <1>6, <2>1
  <2>3. QED BY <1>0, <1>1, <2>1, <2>2
<1> HIDE DEF P
<1>9. Nodes \subseteq P BY <1>7, <1>8, TreeInduction
<1>10. Top(t) \in Nodes BY InTree
<1>11. g[Top(t)] = b[Top(t)] BY <1>9, <1>10 DEF P
<1>12. BlackHeight(t) = g[Top(t)] BY BlackHeightDefined DEF g
<1>13. QED BY <1>1, <1>10, <1>11, <1>12

-----------------------------------------------------------------------------
(* The map between and in the middle of operations *)

\* The tree with the nodes S, at rest, after r rounds of the repair at z, and after r
\* rounds of the repair at x.
Settled(t, S) == \E u, b : Sound(t, u, b) /\ u[Top(t)] = S
Mending(t, z, S, r) ==
  \E u, b : /\ Mend(t, u, b, z) /\ u[Top(t)] = S
            /\ r \in Nat /\ Risen(t, b, z, r)
Losing(t, x, S, r) ==
  \E u, b : /\ Short(t, u, b, x) /\ u[Top(t)] = S
            /\ r \in Nat /\ Climbed(t, b, x, r)

\* What that says of the tree.
LEMMA StateFacts ==
  ASSUME NEW t, NEW z, NEW S, NEW r
  PROVE  /\ Settled(t, S) => t \in Trees /\ S \in SUBSET Keys
         /\ Mending(t, z, S, r) => t \in Trees /\ z \in Nodes
         /\ Losing(t, z, S, r) => t \in Trees /\ z \in Nodes
<1>1. ASSUME Settled(t, S) PROVE t \in Trees /\ S \in SUBSET Keys
  BY <1>1, SoundFacts DEF Settled
<1>2. ASSUME Mending(t, z, S, r) PROVE t \in Trees /\ z \in Nodes
  BY <1>2, MendFacts DEF Mending
<1>3. ASSUME Losing(t, z, S, r) PROVE t \in Trees /\ z \in Nodes
  BY <1>3, ShortFacts DEF Losing
<1>4. QED BY <1>1, <1>2, <1>3

\* A key is found exactly if it is in the map.
LEMMA FoundSettled ==
  ASSUME NEW t, NEW S, Settled(t, S), NEW k \in Keys
  PROVE  /\ k \in S => Find(t, k) = k
         /\ k \notin S => Find(t, k) = nil
<1>1. PICK u, b : Sound(t, u, b) /\ u[Top(t)] = S BY DEF Settled
<1>2. QED BY <1>1, SoundFacts, FindFinds

\* The operations lead from one to the next.
LEMMA LinkedMending ==
  ASSUME NEW t, NEW S, Settled(t, S), NEW k \in Keys, Find(t, k) = nil,
         NEW h, h = Link(t, Descend(t, k), k)
  PROVE  k \notin S /\ Mending(h, k, S \cup {k}, 0)
<1>1. PICK u, b : Sound(t, u, b) /\ u[Top(t)] = S BY DEF Settled
<1>2. t \in Trees /\ Shape(t, u) BY <1>1, SoundFacts
<1>3. k \notin S /\ k \in Nodes BY FoundSettled, KeyFacts
<1> DEFINE y == Descend(t, k)
<1>4. y = Descend(t, k) /\ h = Link(t, y, k) OBVIOUS
<1> HIDE DEF y
<1>5. Host(t, u, y, k, Towards(k, y)) BY <1>1, <1>2, <1>3, <1>4, DescendHosts
<1>6. y \in Nodes /\ y # k
  <2>1. y # nil => y \in u[Top(t)] /\ y \in Keys BY <1>5 DEF Host
  <2>2. QED BY <1>1, <1>3, <2>1, KeyFacts
<1>7. Joined(t, h, y, k, Towards(k, y)) BY <1>2, <1>3, <1>4, <1>6, LinkFields
<1>8. PICK v, c : Mend(h, v, c, k) /\ v[Top(h)] = u[Top(t)] \cup {k} BY <1>1, <1>5, <1>7, LinkMends
<1>9. Risen(h, c, k, 0)
  <2>1. c[k] \in Nat BY <1>3, <1>8 DEF Mend, Weighed
  <2>2. QED BY <2>1 DEF Risen
<1>10. QED BY <1>1, <1>3, <1>8, <1>9 DEF Mending

LEMMA FixupMending ==
  ASSUME NEW t, NEW S, NEW z, NEW r, Mending(t, z, S, r), Red(t, Up(t, z)),
         NEW next, next = InsertFixup(t, z)
  PROVE  Mending(next.tree, next.node, S, r + 1)
<1>1. PICK u, b : /\ Mend(t, u, b, z) /\ u[Top(t)] = S
                  /\ r \in Nat /\ Risen(t, b, z, r)
  BY DEF Mending
<1>2. \E v, c : /\ Mend(next.tree, v, c, next.node) /\ v[Top(next.tree)] = u[Top(t)]
                /\ Risen(next.tree, c, next.node, r + 1)
  BY <1>1, InsertFixupMends
<1>3. r + 1 \in Nat BY <1>1
<1>4. QED BY <1>1, <1>2, <1>3 DEF Mending

LEMMA MendingEnds ==
  ASSUME NEW t, NEW S, NEW z, NEW r, Mending(t, z, S, r), ~Red(t, Up(t, z)),
         NEW h, h = Blacken(t, Top(t))
  PROVE  Settled(h, S)
<1>1. PICK u, b : /\ Mend(t, u, b, z) /\ u[Top(t)] = S
                  /\ r \in Nat /\ Risen(t, b, z, r)
  BY DEF Mending
<1>2. Top(h) = Top(t) /\ \E c : Sound(h, u, c) BY <1>1, InsertionEnds
<1>3. QED BY <1>1, <1>2 DEF Settled

LEMMA UnlinkSettled ==
  ASSUME NEW t, NEW S, Settled(t, S), NEW z \in S, NEW cut, cut = Unlink(t, z)
  PROVE  /\ cut.node \in Nodes /\ cut.node \in (S \ {z}) \cup {nil}
         /\ cut.red => Settled(cut.tree, S \ {z})
         /\ ~cut.red => Losing(cut.tree, cut.node, S \ {z}, 0)
<1>1. PICK u, b : Sound(t, u, b) /\ u[Top(t)] = S BY DEF Settled
<1>2. Unlinked(cut, S \ {z}) BY <1>1, UnlinkSound
<1>3. PICK v, c : /\ Shape(cut.tree, v) /\ v[Top(cut.tree)] = S \ {z}
                  /\ Cut(cut.tree, v, c, cut.node, cut.red)
                  /\ cut.node \in (S \ {z}) \cup {nil}
  BY <1>2 DEF Unlinked
<1>4. S \in SUBSET Keys BY StateFacts
<1>5. cut.node \in Nodes BY <1>3, <1>4, KeyFacts
<1>6. ASSUME ~cut.red PROVE Losing(cut.tree, cut.node, S \ {z}, 0)
  <2>1. Short(cut.tree, v, c, cut.node) BY <1>3, <1>6 DEF Cut
  <2>2. c[cut.node] \in Nat BY <1>5, <2>1, ShortFacts
  <2>3. Climbed(cut.tree, c, cut.node, 0) BY <2>2 DEF Climbed
  <2>4. QED BY <1>3, <2>1, <2>3 DEF Losing
<1>7. QED BY <1>3, <1>5, <1>6 DEF Cut, Settled

LEMMA FixupLosing ==
  ASSUME NEW t, NEW S, NEW x, NEW r, Losing(t, x, S, r), x # Top(t), ~Red(t, x),
         NEW next, next = DeleteFixup(t, x)
  PROVE  Losing(next.tree, next.node, S, r + 1)
<1>1. PICK u, b : /\ Short(t, u, b, x) /\ u[Top(t)] = S
                  /\ r \in Nat /\ Climbed(t, b, x, r)
  BY DEF Losing
<1>2. \E v, c : /\ Short(next.tree, v, c, next.node) /\ v[Top(next.tree)] = u[Top(t)]
                /\ Climbed(next.tree, c, next.node, r + 1)
  BY <1>1, DeleteFixupRestores
<1>3. r + 1 \in Nat BY <1>1
<1>4. QED BY <1>1, <1>2, <1>3 DEF Losing

LEMMA LosingEnds ==
  ASSUME NEW t, NEW S, NEW x, NEW r, Losing(t, x, S, r), x = Top(t) \/ Red(t, x),
         NEW h, h = Blacken(t, x)
  PROVE  Settled(h, S)
<1>1. PICK u, b : /\ Short(t, u, b, x) /\ u[Top(t)] = S
                  /\ r \in Nat /\ Climbed(t, b, x, r)
  BY DEF Losing
<1>2. x \in Nodes BY <1>1, ShortFacts
<1>3. Top(h) = Top(t) /\ \E c : Sound(h, u, c) BY <1>1, <1>2, ErasureEnds
<1>4. QED BY <1>1, <1>3 DEF Settled

-----------------------------------------------------------------------------
(* Powers of two and the size of a tree *)

\* How many subsets a set of n elements has.
Power(n) == 2 ^ n

\* There are finitely many subsets of 1 .. n, and Power(n) is their number.
LEMMA PowerIs ==
  ASSUME NEW n \in Nat
  PROVE  /\ IsFiniteSet(SUBSET (1 .. n)) /\ Cardinality(SUBSET (1 .. n)) = Power(n)
         /\ Power(n) \in Nat
<1>1. IsFiniteSet(1 .. n) /\ Cardinality(1 .. n) = n BY FS_Interval
<1>2. IsFiniteSet(SUBSET (1 .. n)) /\ Cardinality(SUBSET (1 .. n)) = 2 ^ Cardinality(1 .. n)
  BY <1>1, FS_SUBSET, Zenon
<1>3. Cardinality(SUBSET (1 .. n)) = Power(n) BY <1>1, <1>2, Zenon DEF Power
<1>4. Cardinality(SUBSET (1 .. n)) \in Nat BY <1>2, FS_CardinalityType
<1>5. QED BY <1>2, <1>3, <1>4

\* Half of the subsets have the last element.
LEMMA PowerDoubles == Power(0) = 1 /\ \A n \in Nat : Power(n + 1) = Power(n) + Power(n)
<1>1. Power(0) = 1
  <2>1. SUBSET (1 .. 0) = {{}} OBVIOUS
  <2>2. Cardinality({{}}) = 1 BY FS_Singleton
  <2>3. QED BY <2>1, <2>2, PowerIs
<1>2. ASSUME NEW n \in Nat PROVE Power(n + 1) = Power(n) + Power(n)
  <2> DEFINE A == SUBSET (1 .. n)
             B == {T \cup {n + 1} : T \in A}
             f == [T \in A |-> T \cup {n + 1}]
  <2>1. n + 1 \in Nat /\ n + 1 \notin 1 .. n /\ 1 .. n + 1 = (1 .. n) \cup {n + 1} OBVIOUS
  <2>2. SUBSET (1 .. n + 1) = A \cup B
    <3>1. ASSUME NEW T \in SUBSET (1 .. n + 1) PROVE T \in A \cup B
      <4>1. CASE n + 1 \in T
        <5>1. T \ {n + 1} \in A BY <2>1
        <5>2. T = (T \ {n + 1}) \cup {n + 1} BY <4>1
        <5>3. QED BY <5>1, <5>2
      <4>2. CASE n + 1 \notin T BY <2>1, <4>2
      <4>3. QED BY <4>1, <4>2
    <3>2. A \cup B \subseteq SUBSET (1 .. n + 1) BY <2>1
    <3>3. QED BY <3>1, <3>2
  <2>3. A \cap B = {} BY <2>1
  <2>4. IsFiniteSet(A) /\ Cardinality(A) = Power(n) /\ Power(n) \in Nat BY PowerIs
  <2>5. ExistsBijection(A, B)
    <3>1. f \in [A -> B] OBVIOUS
    <3>2. ASSUME NEW S \in A, NEW T \in A, f[S] = f[T] PROVE S = T
      <4>1. n + 1 \notin S /\ n + 1 \notin T BY <2>1
      <4>2. S \cup {n + 1} = T \cup {n + 1} BY <3>2
      <4>3. QED BY <4>1, <4>2
    <3>3. \A R \in B : \E T \in A : f[T] = R OBVIOUS
    <3>4. f \in Bijection(A, B) BY <3>1, <3>2, <3>3 DEF Bijection, Injection, Surjection, IsInjective
    <3>5. QED BY <3>4, Zenon DEF ExistsBijection
  <2> HIDE DEF A, B, f
  <2>6. IsFiniteSet(B) /\ Cardinality(B) = Power(n) BY <2>4, <2>5, FS_Bijection
  <2>7. Cardinality({}) = 0 BY FS_EmptySet
  <2>8. Cardinality(A \cup B) = Power(n) + Power(n) BY <2>3, <2>4, <2>6, <2>7, FS_Union
  <2>9. QED BY <2>1, <2>2, <2>8, PowerIs
<1>3. QED BY <1>1, <1>2

\* A number is less than its power.
LEMMA PowerAbove == \A n \in Nat : n < Power(n)
<1> DEFINE S == {n \in Nat : n < Power(n)}
<1>1. 0 \in S BY PowerDoubles
<1>2. ASSUME NEW n \in S PROVE n + 1 \in S
  <2>1. n \in Nat /\ n < Power(n) /\ Power(n) \in Nat BY PowerIs
  <2>2. Power(n + 1) = Power(n) + Power(n) BY <2>1, PowerDoubles
  <2>3. n + 1 < Power(n + 1) BY <2>1, <2>2
  <2>4. QED BY <2>1, <2>3
<1>3. S = Nat
  <2> HIDE DEF S
  <2>1. S \in SUBSET Nat BY DEF S
  <2>2. QED BY <1>1, <1>2, <2>1, Ind
<1>4. QED BY <1>3

\* The greatest of a set of numbers with a bound.
LEMMA GreatestExists ==
  ASSUME NEW m \in Nat, NEW S \in SUBSET (0 .. m), NEW k \in S
  PROVE  \E x \in S : \A y \in S : y <= x
<1> DEFINE I == {n \in Nat : \A T \in SUBSET (0 .. n) : T # {} => \E x \in T : \A y \in T : y <= x}
<1>1. 0 \in I
  <2>1. ASSUME NEW T \in SUBSET (0 .. 0), T # {} PROVE \E x \in T : \A y \in T : y <= x
    <3>1. \A y \in T : y = 0 OBVIOUS
    <3>2. PICK x : x \in T BY <2>1
    <3>3. x = 0 /\ \A y \in T : y <= x BY <3>1, <3>2
    <3>4. QED BY <3>2, <3>3
  <2>2. 0 \in Nat OBVIOUS
  <2>3. QED BY <2>1, <2>2
<1>2. ASSUME NEW n \in I PROVE n + 1 \in I
  <2>1. ASSUME NEW T \in SUBSET (0 .. n + 1), T # {} PROVE \E x \in T : \A y \in T : y <= x
    <3>1. CASE n + 1 \in T
      <4>1. \A y \in T : y <= n + 1 OBVIOUS
      <4>2. QED BY <3>1, <4>1
    <3>2. CASE n + 1 \notin T
      <4>1. T \in SUBSET (0 .. n) BY <3>2
      <4>2. QED BY <1>2, <2>1, <4>1
    <3>3. QED BY <3>1, <3>2
  <2>2. n \in Nat BY <1>2
  <2>3. QED BY <2>1, <2>2
<1>3. I = Nat
  <2> HIDE DEF I
  <2>1. I \in SUBSET Nat BY DEF I
  <2>2. QED BY <1>1, <1>2, <2>1, Ind
<1>4. m \in I BY <1>3
<1>5. QED BY <1>4

\* Logarithm is the greatest exponent.
LEMMA LogarithmAbove ==
  ASSUME NEW n \in Nat, NEW e \in Nat, Power(e) <= n
  PROVE  e <= Logarithm(n) /\ Logarithm(n) \in Nat
<1> DEFINE S == {d \in 0 .. n : 2 ^ d <= n}
<1>1. Logarithm(n) = Max(S) BY DEF Logarithm
<1>2. Power(e) \in Nat /\ e < Power(e) BY PowerIs, PowerAbove
<1>3. e \in 0 .. n BY <1>2
<1>4. 2 ^ e <= n BY DEF Power
<1>5. e \in S BY <1>3, <1>4
<1>6. S \in SUBSET (0 .. n) OBVIOUS
<1> HIDE DEF S
<1>7. \E x \in S : \A y \in S : y <= x BY <1>5, <1>6, GreatestExists
<1>8. PICK x \in S : \A y \in S : y <= x BY <1>7
<1>9. \A y \in S : x >= y BY <1>6, <1>8
<1>10. Max(S) = CHOOSE z \in S : \A y \in S : z >= y BY DEF Max
<1>11. Max(S) \in S /\ \A y \in S : Max(S) >= y BY <1>9, <1>10
<1> DEFINE l == Logarithm(n)
<1>12. l \in S /\ l >= e BY <1>1, <1>5, <1>11
<1> HIDE DEF l
<1>13. l \in Nat /\ e <= l BY <1>6, <1>12
<1>14. QED BY <1>13 DEF l
\* The next power is no more than twice as great.
LEMMA PowerStep ==
  ASSUME NEW i \in Nat, NEW w \in {0, 1}
  PROVE  Power(i) \in Nat /\ Power(i) >= 1 /\ Power(i + w) \in Nat /\ Power(i + w) <= 2 * Power(i)
<1>1. Power(i) \in Nat /\ i < Power(i) BY PowerIs, PowerAbove
<1>2. CASE w = 0
  <2>1. i + w = i BY <1>2
  <2>2. QED BY <1>1, <2>1
<1>3. CASE w = 1
  <2>1. i + w = i + 1 BY <1>3
  <2>2. Power(i + 1) = Power(i) + Power(i) BY PowerDoubles
  <2>3. QED BY <1>1, <2>1, <2>2
<1>4. QED BY <1>2, <1>3

\* Below a node that all ways down from are as heavy, there are as many keys as that takes.
LEMMA Heavy ==
  ASSUME NEW t, NEW u, NEW b, NEW D, Shape(t, u), Weighed(t, b, D)
  PROVE  \A n \in Nodes : D \cap u[n] = {} =>
           b[n] \in Nat /\ Power(b[n]) \in Nat /\ Power(b[n]) <= Cardinality(u[n]) + 1
<1> DEFINE P == {n \in Nodes : D \cap u[n] = {} => Power(b[n]) <= Cardinality(u[n]) + 1}
<1>1. /\ b \in [Nodes -> Nat] /\ b[nil] = 0 /\ \A n \in Keys \ D : Level(t, b, n)
      /\ u[nil] = {} /\ t \in Trees
  BY DEF Weighed, Shape
<1>2. nil \in P
  <2>1. Power(b[nil]) = 1 BY <1>1, PowerDoubles
  <2>2. Cardinality(u[nil]) = 0 BY <1>1, FS_EmptySet
  <2>3. QED BY <2>1, <2>2, KeyFacts
<1>3. ASSUME NEW n \in Keys, \A s \in Sides : Kid(t, s, n) \in P PROVE n \in P
  <2>0. n \in Nodes BY KeyFacts
  <2>1. SUFFICES ASSUME D \cap u[n] = {} PROVE Power(b[n]) <= Cardinality(u[n]) + 1
    BY <2>0
  <2> DEFINE l == Kid(t, "left", n)
             r == Kid(t, "right", n)
  <2>2. "left" \in Sides /\ "right" \in Sides /\ Opposite("left") = "right" BY SideFacts
  <2>3. /\ l \in Nodes /\ r \in Nodes /\ n \in u[n] /\ n \notin u[l] /\ n \notin u[r]
        /\ u[l] \cap u[r] = {} /\ u[n] = {n} \cup u[l] \cup u[r]
        /\ u[l] \subseteq u[n] /\ u[r] \subseteq u[n]
        /\ IsFiniteSet(u[l]) /\ IsFiniteSet(u[r])
        /\ Cardinality(u[l]) \in Nat /\ Cardinality(u[r]) \in Nat /\ Cardinality(u[n]) \in Nat
    BY <2>0, <2>2, ShapeFacts
  <2>4. b[n] = b[l] + Weight(t, n) /\ b[n] = b[r] + Weight(t, n)
    <3>1. Level(t, b, n) BY <1>1, <2>1, <2>3
    <3>2. QED BY <2>2, <3>1 DEF Level
  <2>5. Power(b[l]) <= Cardinality(u[l]) + 1 /\ Power(b[r]) <= Cardinality(u[r]) + 1
    <3>1. D \cap u[l] = {} /\ D \cap u[r] = {} BY <2>1, <2>3
    <3>2. l \in P /\ r \in P BY <1>3, <2>2
    <3>3. QED BY <3>1, <3>2
  <2>6. Cardinality(u[n]) = Cardinality(u[l]) + Cardinality(u[r]) + 1
    <3>1. /\ IsFiniteSet(u[l] \cup u[r])
          /\ Cardinality(u[l] \cup u[r]) = Cardinality(u[l]) + Cardinality(u[r])
      <4>1. Cardinality(u[l] \cap u[r]) = 0 BY <2>3, FS_EmptySet
      <4>2. /\ IsFiniteSet(u[l] \cup u[r])
            /\ Cardinality(u[l] \cup u[r]) =
                 Cardinality(u[l]) + Cardinality(u[r]) - Cardinality(u[l] \cap u[r])
        <5>1. IsFiniteSet(u[l]) /\ IsFiniteSet(u[r]) BY <2>3
        <5>2. QED BY <5>1, FS_Union
      <4>3. Cardinality(u[l]) \in Nat /\ Cardinality(u[r]) \in Nat BY <2>3
      <4>4. QED BY <4>1, <4>2, <4>3
    <3>2. n \notin u[l] \cup u[r] /\ u[n] = (u[l] \cup u[r]) \cup {n} BY <2>3
    <3>3. QED BY <3>1, <3>2, FS_AddElement
  <2>7. b[l] \in Nat /\ b[r] \in Nat /\ b[n] \in Nat /\ Weight(t, n) \in {0, 1}
    BY <1>1, <2>0, <2>3 DEF Weight
  <2> HIDE DEF l, r, P
  <2>8. b[r] = b[l] BY <2>4, <2>7
  <2>9. /\ Power(b[l]) \in Nat /\ Power(b[l]) >= 1 /\ Power(b[n]) \in Nat
        /\ Power(b[n]) <= 2 * Power(b[l])
    BY <2>4, <2>7, PowerStep
  <2>10. Power(b[l]) <= Cardinality(u[r]) + 1 BY <2>5, <2>8
  <2>11. QED BY <2>3, <2>5, <2>6, <2>9, <2>10
<1>4. Nodes \subseteq P
  <2> HIDE DEF P
  <2>1. QED BY <1>2, <1>3, TreeInduction
<1>5. QED BY <1>1, <1>4, PowerIs

\* Rounds that a node of the tree outweighs are no more than the logarithm.
LEMMA HeavyNode ==
  ASSUME NEW t, NEW u, NEW b, NEW D, Shape(t, u), Weighed(t, b, D),
         NEW n \in Nodes, D \cap u[n] = {}, u[n] \subseteq u[Top(t)], NEW r \in Nat, r <= b[n]
  PROVE  r <= Logarithm(Cardinality(u[Top(t)]) + 1)
<1> DEFINE m == Cardinality(u[Top(t)])
           l == Logarithm(m + 1)
<1>1. Top(t) \in Nodes BY InTree
<1>2. IsFiniteSet(u[Top(t)]) /\ m \in Nat /\ Cardinality(u[n]) \in Nat BY <1>1, ShapeFacts
<1>3. Cardinality(u[n]) <= m BY <1>2, FS_Subset
<1>4. b[n] \in Nat /\ Power(b[n]) \in Nat /\ Power(b[n]) <= Cardinality(u[n]) + 1 BY Heavy
<1> HIDE DEF m
<1>5. Power(b[n]) <= m + 1 /\ m + 1 \in Nat BY <1>2, <1>3, <1>4
<1>6. b[n] <= l /\ l \in Nat BY <1>4, <1>5, LogarithmAbove
<1> HIDE DEF l
<1>7. r <= l BY <1>4, <1>6
<1>8. QED BY <1>7 DEF l, m

\* The rounds of a repair are as few.
LEMMA MendingShort ==
  ASSUME NEW t, NEW z, NEW S, NEW r, Mending(t, z, S, r)
  PROVE  r <= Logarithm(Cardinality(Below(t, Top(t))) + 1)
<1>1. PICK u, b : Mend(t, u, b, z) /\ r \in Nat /\ Risen(t, b, z, r) BY DEF Mending
<1>2. Shape(t, u) /\ Weighed(t, b, {}) /\ z \in Nodes /\ z \in u[Top(t)] /\ Top(t) \in Nodes
  BY <1>1, MendFacts, InTree DEF Mend
<1>3. b[z] <= b[Top(t)] BY <1>2, Outweighs
<1>4. b[z] \in Nat /\ b[Top(t)] \in Nat BY <1>2 DEF Weighed
<1>5. r <= b[Top(t)] BY <1>1, <1>3, <1>4 DEF Risen
<1>6. r <= Logarithm(Cardinality(u[Top(t)]) + 1) BY <1>1, <1>2, <1>5, HeavyNode
<1>7. Below(t, Top(t)) = u[Top(t)] BY <1>2, BelowIs
<1>8. QED BY <1>6, <1>7

LEMMA LosingShort ==
  ASSUME NEW t, NEW x, NEW S, NEW r, Losing(t, x, S, r)
  PROVE  r <= Logarithm(Cardinality(Below(t, Top(t))) + 1)
<1>1. PICK u, b : Short(t, u, b, x) /\ r \in Nat /\ Climbed(t, b, x, r) BY DEF Losing
<1>2. Shape(t, u) /\ Top(t) \in Nodes BY <1>1, ShortFacts, InTree
<1>3. ASSUME Whole(t, u, b, x) PROVE r <= Logarithm(Cardinality(u[Top(t)]) + 1)
  <2>1. Weighed(t, b, {}) /\ x = Top(t) BY <1>3 DEF Whole
  <2>2. r <= b[Top(t)] BY <1>1, <2>1 DEF Climbed
  <2>3. QED BY <1>1, <1>2, <2>1, <2>2, HeavyNode
<1>4. ASSUME NEW p, NEW s, Lacking(t, u, b, x, p, s)
      PROVE  r <= Logarithm(Cardinality(u[Top(t)]) + 1)
  <2> DEFINE far == Opposite(s)
             w == Kid(t, far, p)
  <2>1. far = Opposite(s) /\ w = Kid(t, far, p) OBVIOUS
  <2> HIDE DEF far, w
  <2>2. /\ p \in Keys /\ p \in Nodes /\ p \in u[Top(t)] /\ s \in Sides /\ far \in Sides
        /\ Kid(t, s, p) = x /\ Kid(t, far, p) = w /\ x \in Nodes /\ w \in Nodes
        /\ b[x] \in Nat /\ b[w] = b[x] + 1
    BY <1>4, <2>1, LackingFacts
  <2>3. Weighed(t, b, {p}) BY <1>4 DEF Lacking
  <2>4. u[p] \subseteq u[Top(t)] BY <1>2, <2>2, Upward
  <2>5. /\ p \notin u[x] /\ p \notin u[w] /\ u[x] \subseteq u[Top(t)] /\ u[w] \subseteq u[Top(t)]
    BY <1>2, <2>2, <2>4, ShapeFacts
  <2>6. CASE r <= b[x]
    <3>1. {p} \cap u[x] = {} BY <2>5
    <3>2. QED BY <1>1, <1>2, <2>2, <2>3, <2>5, <2>6, <3>1, HeavyNode
\* A red node at the end is outweighed by its sibling.
  <2>7. CASE r <= b[x] + 1
    <3>1. {p} \cap u[w] = {} /\ r <= b[w] BY <2>2, <2>5, <2>7
    <3>2. QED BY <1>1, <1>2, <2>2, <2>3, <2>5, <3>1, HeavyNode
  <2>8. QED BY <1>1, <2>6, <2>7 DEF Climbed
<1>5. r <= Logarithm(Cardinality(u[Top(t)]) + 1) BY <1>1, <1>3, <1>4 DEF Short
<1>6. Below(t, Top(t)) = u[Top(t)] BY <1>2, BelowIs
<1>7. QED BY <1>5, <1>6

-----------------------------------------------------------------------------
(* The invariant *)

\* The parts of the invariant; Held is the one about the tree.
OpTypes == op \in [fix : {"none", "insert", "erase"}, node : Nodes, rounds : Nat,
                   returned : Nodes, last : Nodes \cup {Null}]
Flags == moved \in BOOLEAN /\ compares \in BOOLEAN /\ alive \in BOOLEAN
Counted ==
  /\ contents \subseteq Keys /\ size_ \in Nat
  /\ op.fix = "insert" => size_ + 1 = Cardinality(contents)
  /\ op.fix # "insert" => size_ = Cardinality(contents)
Returnable == op.returned \in contents \cup {nil}
Held ==
  /\ op.fix = "none" => Settled(tree, contents)
  /\ op.fix = "insert" => Mending(tree, op.node, contents, op.rounds)
  /\ op.fix = "erase" => Losing(tree, op.node, contents, op.rounds)

MapInv == OpTypes /\ Flags /\ Counted /\ Returnable /\ Held

\* No operation is under way.
LEMMA RestFacts ==
  /\ Rest.fix = "none" /\ Rest.node = nil /\ Rest.rounds = 0 /\ Rest.returned = nil /\ Rest.last = Null
  /\ Rest \in [fix : {"none", "insert", "erase"}, node : Nodes, rounds : Nat,
               returned : Nodes, last : Nodes \cup {Null}]
BY KeyFacts DEF Rest

\* One key more or less.
LEMMA CountFacts ==
  ASSUME NEW S \in SUBSET Keys
  PROVE  /\ IsFiniteSet(S) /\ Cardinality(S) \in Nat /\ Cardinality(S) <= Cardinality(Keys)
         /\ \A k \in Keys \ S : Cardinality(S \cup {k}) = Cardinality(S) + 1
         /\ \A k \in S : Cardinality(S \ {k}) = Cardinality(S) - 1
<1>1. IsFiniteSet(Keys) BY KeysAssumption
<1>2. IsFiniteSet(S) /\ Cardinality(S) <= Cardinality(Keys) BY <1>1, FS_Subset
<1>3. Cardinality(S) \in Nat BY <1>2, FS_CardinalityType
<1>4. \A k \in Keys \ S : Cardinality(S \cup {k}) = Cardinality(S) + 1 BY <1>2, FS_AddElement
<1>5. \A k \in S : Cardinality(S \ {k}) = Cardinality(S) - 1 BY <1>2, FS_RemoveElement
<1>6. QED BY <1>2, <1>3, <1>4, <1>5

\* A new map is empty.
LEMMA MapInvInit == Init => MapInv
<1>1. SUFFICES ASSUME Init PROVE MapInv
  OBVIOUS
<1>2. /\ tree = EmptyTree /\ size_ = 0 /\ contents = {} /\ moved = FALSE /\ compares \in BOOLEAN
      /\ op = Rest /\ alive = TRUE
  BY <1>1 DEF Init
<1>3. Settled(tree, contents) BY <1>2, EmptySound DEF Settled
<1>4. OpTypes /\ op.fix = "none" /\ Returnable BY <1>2, RestFacts DEF OpTypes, Returnable
<1>5. Held BY <1>3, <1>4 DEF Held
<1>6. Counted
  <2>1. Cardinality({}) = 0 BY FS_EmptySet
  <2>2. QED BY <1>2, <1>4, <2>1 DEF Counted
<1>7. Flags BY <1>2 DEF Flags
<1>8. QED BY <1>4, <1>5, <1>6, <1>7 DEF MapInv

\* Each action keeps the invariant.
LEMMA InvStutter ==
  ASSUME MapInv, UNCHANGED vars
  PROVE  MapInv'
BY DEF MapInv, OpTypes, Flags, Counted, Returnable, Held, vars

LEMMA InvCrash ==
  ASSUME MapInv, Crash
  PROVE  MapInv'
BY DEF Crash, MapInv, OpTypes, Flags, Counted, Returnable, Held

LEMMA InvInsertNew ==
  ASSUME MapInv, AtRest, NEW k \in Keys, InsertNew(k)
  PROVE  MapInv'
<1> DEFINE h == Link(tree, Descend(tree, k), k)
<1>1. /\ Find(tree, k) = nil /\ tree' = h /\ op' = [Rest EXCEPT !.fix = "insert", !.node = k]
      /\ size_' = size_ /\ moved' = moved /\ compares' = compares /\ alive' = alive
      /\ contents' = contents \cup {k}
  BY DEF InsertNew
<1>2. h = Link(tree, Descend(tree, k), k) OBVIOUS
<1> HIDE DEF h
<1>3. op.fix = "none" BY RestFacts DEF AtRest
<1>4. Settled(tree, contents) BY <1>3 DEF MapInv, Held
<1>5. k \notin contents /\ Mending(h, k, contents \cup {k}, 0) BY <1>1, <1>2, <1>4, LinkedMending
<1>6. /\ op'.fix = "insert" /\ op'.node = k /\ op'.rounds = 0 /\ op'.returned = nil
      /\ op' \in [fix : {"none", "insert", "erase"}, node : Nodes, rounds : Nat,
                  returned : Nodes, last : Nodes \cup {Null}]
  BY <1>1, KeyFacts DEF Rest
<1>7. Held' BY <1>1, <1>5, <1>6 DEF Held
<1>8. OpTypes' /\ Returnable' BY <1>6 DEF OpTypes, Returnable
<1>9. contents \subseteq Keys /\ size_ \in Nat /\ size_ = Cardinality(contents)
  BY <1>3 DEF MapInv, Counted
<1>10. Cardinality(contents \cup {k}) = size_ + 1 BY <1>5, <1>9, CountFacts
<1>11. Counted' BY <1>1, <1>6, <1>9, <1>10 DEF Counted
<1>12. Flags' BY <1>1 DEF MapInv, Flags
<1>13. QED BY <1>7, <1>8, <1>11, <1>12 DEF MapInv

\* A round of a repair counts, and goes on at another node.
LEMMA RoundTypes ==
  ASSUME NEW o \in [fix : {"none", "insert", "erase"}, node : Nodes, rounds : Nat,
                    returned : Nodes, last : Nodes \cup {Null}],
         NEW n \in Nodes, NEW q, q = [o EXCEPT !.node = n, !.rounds = @ + 1]
  PROVE  /\ q.fix = o.fix /\ q.node = n /\ q.rounds = o.rounds + 1 /\ q.returned = o.returned
         /\ q \in [fix : {"none", "insert", "erase"}, node : Nodes, rounds : Nat,
                   returned : Nodes, last : Nodes \cup {Null}]
<1>1. q = [fix |-> o.fix, node |-> n, rounds |-> o.rounds + 1, returned |-> o.returned, last |-> o.last]
  OBVIOUS
<1>2. o.rounds \in Nat OBVIOUS
<1>3. o.rounds + 1 \in Nat BY <1>2
<1>4. o.fix \in {"none", "insert", "erase"} /\ o.returned \in Nodes /\ o.last \in Nodes \cup {Null}
  OBVIOUS
<1>5. QED BY <1>1, <1>3, <1>4

LEMMA InvFixInsertion ==
  ASSUME MapInv, FixInsertion
  PROVE  MapInv'
<1> DEFINE next == InsertFixup(tree, op.node)
<1>1. /\ op.fix = "insert" /\ Red(tree, Up(tree, op.node))
      /\ tree' = next.tree /\ op' = [op EXCEPT !.node = next.node, !.rounds = @ + 1]
      /\ size_' = size_ /\ moved' = moved /\ compares' = compares /\ alive' = alive
      /\ contents' = contents
  BY DEF FixInsertion, Red, Up
<1>2. next = InsertFixup(tree, op.node) OBVIOUS
<1> HIDE DEF next
<1>3. Mending(tree, op.node, contents, op.rounds) BY <1>1 DEF MapInv, Held
<1>4. Mending(next.tree, next.node, contents, op.rounds + 1) BY <1>1, <1>2, <1>3, FixupMending
<1>5. next.node \in Nodes BY <1>4, StateFacts
<1>6. /\ op'.fix = "insert" /\ op'.node = next.node /\ op'.rounds = op.rounds + 1
      /\ op'.returned = op.returned
      /\ op' \in [fix : {"none", "insert", "erase"}, node : Nodes, rounds : Nat,
                  returned : Nodes, last : Nodes \cup {Null}]
  BY <1>1, <1>5, RoundTypes DEF MapInv, OpTypes
<1>7. Held' BY <1>1, <1>4, <1>6 DEF Held
<1>8. OpTypes' /\ Returnable' BY <1>1, <1>6 DEF MapInv, OpTypes, Returnable
<1>9. Flags' /\ Counted' BY <1>1, <1>6 DEF MapInv, Flags, Counted
<1>10. QED BY <1>7, <1>8, <1>9 DEF MapInv

LEMMA InvEndInsertion ==
  ASSUME MapInv, EndInsertion
  PROVE  MapInv'
<1> DEFINE h == Blacken(tree, Top(tree))
<1>1. /\ op.fix = "insert" /\ ~Red(tree, Up(tree, op.node))
      /\ tree' = h /\ op' = Rest /\ size_' = size_ + 1
      /\ contents' = contents
      /\ moved' = moved /\ compares' = compares /\ alive' = alive
  BY DEF EndInsertion, Blacken, Red, Up, Top
<1>2. h = Blacken(tree, Top(tree)) OBVIOUS
<1> HIDE DEF h
<1>3. Mending(tree, op.node, contents, op.rounds) BY <1>1 DEF MapInv, Held
<1>4. Settled(h, contents) BY <1>1, <1>2, <1>3, MendingEnds
<1>5. contents \subseteq Keys /\ size_ \in Nat /\ size_ + 1 = Cardinality(contents)
  BY <1>1 DEF MapInv, Counted
<1>6. Held' BY <1>1, <1>4, RestFacts DEF Held
<1>7. OpTypes' /\ Returnable' BY <1>1, RestFacts DEF OpTypes, Returnable
<1>8. Flags' /\ Counted' BY <1>1, <1>5, RestFacts DEF MapInv, Flags, Counted
<1>9. QED BY <1>6, <1>7, <1>8 DEF MapInv

\* The step of EraseNode, of what Unlink returns.
ErasedTo(cut, z, last) ==
  /\ tree' = cut.tree
  /\ size_' = size_ - 1
  /\ op' = [fix |-> IF cut.red THEN "none" ELSE "erase", node |-> cut.node,
            rounds |-> 0, returned |-> cut.node, last |-> last]
  /\ contents' = contents \ {z}
  /\ UNCHANGED <<moved, compares, alive>>

\* EraseNode is that step.
LEMMA EraseNodeIs ==
  ASSUME NEW z, NEW last, EraseNode(z, last)
  PROVE  ErasedTo(Unlink(tree, z), z, last)
BY DEF EraseNode, ErasedTo

LEMMA InvEraseNode ==
  ASSUME MapInv, op.fix = "none", NEW z \in contents, NEW last \in Nodes \cup {Null}, EraseNode(z, last)
  PROVE  MapInv'
<1> DEFINE cut == Unlink(tree, z)
<1>1. ErasedTo(cut, z, last) BY EraseNodeIs
<1>2. cut = Unlink(tree, z) OBVIOUS
<1> HIDE DEF cut
<1>3. /\ tree' = cut.tree /\ size_' = size_ - 1
      /\ op' = [fix |-> IF cut.red THEN "none" ELSE "erase", node |-> cut.node,
                rounds |-> 0, returned |-> cut.node, last |-> last]
      /\ contents' = contents \ {z} /\ moved' = moved /\ compares' = compares /\ alive' = alive
  BY <1>1 DEF ErasedTo
<1>4. Settled(tree, contents) BY DEF MapInv, Held
<1>5. /\ cut.node \in Nodes /\ cut.node \in (contents \ {z}) \cup {nil}
      /\ cut.red => Settled(cut.tree, contents \ {z})
      /\ ~cut.red => Losing(cut.tree, cut.node, contents \ {z}, 0)
  BY <1>2, <1>4, UnlinkSettled
<1>6. /\ op'.node = cut.node /\ op'.rounds = 0 /\ op'.returned = cut.node
      /\ cut.red => op'.fix = "none"
      /\ ~cut.red => op'.fix = "erase"
      /\ op' \in [fix : {"none", "insert", "erase"}, node : Nodes, rounds : Nat,
                  returned : Nodes, last : Nodes \cup {Null}]
  BY <1>3, <1>5
<1>7. Held' BY <1>3, <1>5, <1>6 DEF Held
<1>8. OpTypes' /\ Returnable' BY <1>3, <1>5, <1>6 DEF OpTypes, Returnable
<1>9. contents \subseteq Keys /\ size_ = Cardinality(contents) BY DEF MapInv, Counted
<1>10. Cardinality(contents \ {z}) = size_ - 1 /\ Cardinality(contents \ {z}) \in Nat
  BY <1>9, CountFacts
<1>11. op'.fix # "insert" BY <1>6
<1>12. Flags' /\ Counted' BY <1>3, <1>9, <1>10, <1>11 DEF MapInv, Flags, Counted
<1>13. QED BY <1>7, <1>8, <1>12 DEF MapInv

LEMMA InvFixErasure ==
  ASSUME MapInv, FixErasure
  PROVE  MapInv'
<1> DEFINE next == DeleteFixup(tree, op.node)
<1>1. /\ op.fix = "erase" /\ op.node # Top(tree) /\ ~Red(tree, op.node)
      /\ tree' = next.tree /\ op' = [op EXCEPT !.node = next.node, !.rounds = @ + 1]
      /\ size_' = size_ /\ moved' = moved /\ compares' = compares /\ alive' = alive
      /\ contents' = contents
  BY DEF FixErasure, ToFix, Red, Top
<1>2. next = DeleteFixup(tree, op.node) OBVIOUS
<1> HIDE DEF next
<1>3. Losing(tree, op.node, contents, op.rounds) BY <1>1 DEF MapInv, Held
<1>4. Losing(next.tree, next.node, contents, op.rounds + 1) BY <1>1, <1>2, <1>3, FixupLosing
<1>5. next.node \in Nodes BY <1>4, StateFacts
<1>6. /\ op'.fix = "erase" /\ op'.node = next.node /\ op'.rounds = op.rounds + 1
      /\ op'.returned = op.returned
      /\ op' \in [fix : {"none", "insert", "erase"}, node : Nodes, rounds : Nat,
                  returned : Nodes, last : Nodes \cup {Null}]
  BY <1>1, <1>5, RoundTypes DEF MapInv, OpTypes
<1>7. Held' BY <1>1, <1>4, <1>6 DEF Held
<1>8. OpTypes' /\ Returnable' BY <1>1, <1>6 DEF MapInv, OpTypes, Returnable
<1>9. Flags' /\ Counted' BY <1>1, <1>6 DEF MapInv, Flags, Counted
<1>10. QED BY <1>7, <1>8, <1>9 DEF MapInv

LEMMA InvEndErasure ==
  ASSUME MapInv, EndErasure
  PROVE  MapInv'
<1> DEFINE h == Blacken(tree, op.node)
<1>1. /\ op.fix = "erase" /\ (op.node = Top(tree) \/ Red(tree, op.node))
      /\ tree' = h /\ op' = [op EXCEPT !.fix = "none"]
      /\ size_' = size_ /\ moved' = moved /\ compares' = compares /\ alive' = alive
      /\ contents' = contents
  BY DEF EndErasure, ToFix, Red, Top, Blacken
<1>2. h = Blacken(tree, op.node) OBVIOUS
<1> HIDE DEF h
<1>3. Losing(tree, op.node, contents, op.rounds) BY <1>1 DEF MapInv, Held
<1>4. Settled(h, contents) BY <1>1, <1>2, <1>3, LosingEnds
<1>5. /\ op'.fix = "none" /\ op'.returned = op.returned
      /\ op' \in [fix : {"none", "insert", "erase"}, node : Nodes, rounds : Nat,
                  returned : Nodes, last : Nodes \cup {Null}]
  BY <1>1 DEF MapInv, OpTypes
<1>6. Held' BY <1>1, <1>4, <1>5 DEF Held
<1>7. OpTypes' /\ Returnable' BY <1>1, <1>5 DEF MapInv, OpTypes, Returnable
<1>8. Flags' /\ Counted' BY <1>1, <1>5 DEF MapInv, Flags, Counted
<1>9. QED BY <1>6, <1>7, <1>8 DEF MapInv

\* A step that only sets op, to no repair.
LEMMA InvIdle ==
  ASSUME MapInv, op.fix = "none", op'.fix = "none", OpTypes', Returnable',
         UNCHANGED <<tree, size_, moved, compares, alive, contents>>
  PROVE  MapInv'
<1>1. Held' BY DEF MapInv, Held
<1>2. Flags' /\ Counted' BY DEF MapInv, Flags, Counted
<1>3. QED BY <1>1, <1>2 DEF MapInv

\* The map is emptied.
LEMMA InvEmptied ==
  ASSUME MapInv, AtRest, tree' = EmptyTree, size_' = 0, contents' = {}, op' = op, Flags'
  PROVE  MapInv'
<1>1. Settled(tree', contents') BY EmptySound DEF Settled
<1>2. op' = Rest BY DEF AtRest
<1>3. Held' BY <1>1, <1>2, RestFacts DEF Held
<1>4. OpTypes' /\ Returnable' BY <1>2, RestFacts DEF OpTypes, Returnable
<1>5. Counted'
  <2>1. Cardinality({}) = 0 /\ op'.fix # "insert" BY <1>2, RestFacts, FS_EmptySet
  <2>2. QED BY <2>1 DEF Counted
<1>6. QED BY <1>3, <1>4, <1>5 DEF MapInv

-----------------------------------------------------------------------------
(* The invariant is kept *)

\* At rest the tree holds the contents.
LEMMA SettledContents ==
  ASSUME MapInv, op.fix = "none"
  PROVE  /\ contents \in SUBSET Keys /\ Settled(tree, contents)
         /\ \A k \in Keys : Find(tree, k) # nil => k \in contents
<1>1. Settled(tree, contents) /\ contents \in SUBSET Keys BY DEF MapInv, Held, Counted
<1>2. QED BY <1>1, FoundSettled

\* Whole operations.
LEMMA InvInsert ==
  ASSUME MapInv, NEW k \in Keys, Insert(k)
  PROVE  MapInv'
<1>1. AtRest /\ (Crash \/ InsertNew(k) \/ InsertPresent(k)) BY DEF Insert
<1>2. InsertPresent(k) => UNCHANGED vars BY DEF InsertPresent
<1>3. QED BY <1>1, <1>2, InvCrash, InvInsertNew, InvStutter

LEMMA InvErase ==
  ASSUME MapInv, NEW k \in Keys, Erase(k)
  PROVE  MapInv'
<1>1. AtRest /\ (Crash \/ UNCHANGED vars \/ (Find(tree, k) # nil /\ EraseNode(k, Null))) BY DEF Erase
<1>2. op.fix = "none" BY <1>1, RestFacts DEF AtRest
<1>3. Find(tree, k) # nil => k \in contents BY <1>2, SettledContents
<1>4. Null \in Nodes \cup {Null} OBVIOUS
<1>5. QED BY <1>1, <1>2, <1>3, <1>4, InvCrash, InvStutter, InvEraseNode

LEMMA InvEraseRange ==
  ASSUME MapInv, NEW first \in Nodes, NEW last \in Nodes, EraseRange(first, last)
  PROVE  MapInv'
<1>1. /\ AtRest /\ first \in contents /\ op' = [Rest EXCEPT !.returned = first, !.last = last]
      /\ UNCHANGED <<tree, size_, moved, compares, alive, contents>>
  BY DEF EraseRange
<1>2. op.fix = "none" BY <1>1, RestFacts DEF AtRest
<1>3. op'.fix = "none" /\ op'.returned = first /\ OpTypes'
  BY <1>1, KeyFacts DEF Rest, OpTypes
<1>4. Returnable' BY <1>1, <1>3 DEF Returnable
<1>5. QED BY <1>1, <1>2, <1>3, <1>4, InvIdle

LEMMA InvEraseReturns ==
  ASSUME MapInv, EraseReturns
  PROVE  MapInv'
<1>1. op.fix = "none" /\ op' = Rest /\ UNCHANGED <<tree, size_, moved, compares, alive, contents>>
  BY DEF EraseReturns
<1>2. op'.fix = "none" /\ OpTypes' /\ Returnable' BY <1>1, RestFacts DEF OpTypes, Returnable
<1>3. QED BY <1>1, <1>2, InvIdle

LEMMA InvEraseNext ==
  ASSUME MapInv, EraseNext
  PROVE  MapInv'
<1>1. op.fix = "none" BY DEF EraseNext
<1>2. CASE op' = Rest /\ UNCHANGED <<tree, size_, moved, compares, alive, contents>>
  <2>1. op'.fix = "none" /\ OpTypes' /\ Returnable' BY <1>2, RestFacts DEF OpTypes, Returnable
  <2>2. QED BY <1>1, <1>2, <2>1, InvIdle
<1>3. CASE Crash BY <1>3, InvCrash
<1>4. CASE op.returned # nil /\ EraseNode(op.returned, op.last)
  <2>1. op.returned \in contents BY <1>4 DEF MapInv, Returnable
  <2>2. op.last \in Nodes \cup {Null} BY DEF MapInv, OpTypes
  <2>3. QED BY <1>1, <1>4, <2>1, <2>2, InvEraseNode
<1>5. QED BY <1>2, <1>3, <1>4 DEF EraseNext

LEMMA InvWhole ==
  ASSUME MapInv, Clear \/ CopyTo \/ MoveTo \/ TakeNew \/ Begin
  PROVE  MapInv'
<1>0. Flags BY DEF MapInv
<1>1. CASE Clear
  <2>1. Flags' BY <1>0, <1>1 DEF Clear, Flags
  <2>2. QED BY <1>1, <2>1, InvEmptied DEF Clear
<1>2. CASE CopyTo BY <1>2, InvCrash, InvStutter DEF CopyTo
<1>3. CASE MoveTo
  <2>1. Flags' BY <1>0, <1>3 DEF MoveTo, Flags
  <2>2. QED BY <1>3, <2>1, InvEmptied DEF MoveTo
<1>4. CASE TakeNew
  <2>1. Flags' BY <1>0, <1>4 DEF TakeNew, Flags
  <2>2. QED BY <1>4, <2>1, InvEmptied DEF TakeNew
<1>5. CASE Begin BY <1>5, InvCrash, InvStutter DEF Begin
<1>6. QED BY <1>1, <1>2, <1>3, <1>4, <1>5

\* Every step keeps it.
LEMMA MapInvNext == MapInv /\ [Next]_vars => MapInv'
<1> SUFFICES ASSUME MapInv, [Next]_vars PROVE MapInv'
  OBVIOUS
<1>1. ASSUME NEW k \in Keys, Insert(k) PROVE MapInv' BY <1>1, InvInsert
<1>2. ASSUME NEW k \in Keys, Erase(k) PROVE MapInv' BY <1>2, InvErase
<1>3. ASSUME NEW first \in Nodes, NEW last \in Nodes, EraseRange(first, last) PROVE MapInv'
  BY <1>3, InvEraseRange
<1>4. CASE FixInsertion BY <1>4, InvFixInsertion
<1>5. CASE EndInsertion BY <1>5, InvEndInsertion
<1>6. CASE FixErasure BY <1>6, InvFixErasure
<1>7. CASE EndErasure BY <1>7, InvEndErasure
<1>8. CASE EraseReturns BY <1>8, InvEraseReturns
<1>9. CASE EraseNext BY <1>9, InvEraseNext
<1>10. CASE Clear \/ CopyTo \/ MoveTo \/ TakeNew \/ Begin BY <1>10, InvWhole
<1>11. CASE UNCHANGED vars BY <1>11, InvStutter
<1>12. QED BY <1>1, <1>2, <1>3, <1>4, <1>5, <1>6, <1>7, <1>8, <1>9, <1>10, <1>11 DEF Next, Repair

\* The invariant that the properties follow from: between the operations the tree is
\* a red-black tree of the contents, and in the middle of a repair it is one but for
\* what that repair is after.
THEOREM MapInvariant == Spec => []MapInv
<1>1. Init => MapInv BY MapInvInit
<1>2. MapInv /\ [Next]_vars => MapInv' BY MapInvNext
<1>3. QED BY <1>1, <1>2, PTL DEF Spec

\* Every variable keeps its type, in a map over any finite set of keys.
THEOREM MapTypes == Spec => []TypeOK
<1>1. MapInv => TypeOK
  <2>1. SUFFICES ASSUME MapInv PROVE TypeOK
    OBVIOUS
  <2>2. op \in [fix : {"none", "insert", "erase"}, node : Nodes, rounds : Nat,
                returned : Nodes, last : Nodes \cup {Null}]
    BY <2>1 DEF MapInv, OpTypes
  <2>3. tree \in Trees BY <2>1, <2>2, StateFacts DEF MapInv, Held
  <2>4. contents \subseteq Keys /\ size_ \in Nat BY <2>1 DEF MapInv, Counted
  <2>5. size_ \in 0 .. Cardinality(Keys)
    <3>1. IsFiniteSet(Keys) BY KeysAssumption
    <3>2. Cardinality(Keys) \in Nat BY <3>1, FS_CardinalityType
    <3>3. size_ + 1 = Cardinality(contents) \/ size_ = Cardinality(contents)
      BY <2>1 DEF MapInv, Counted
    <3>4. Cardinality(contents) \in Nat /\ Cardinality(contents) <= Cardinality(Keys)
      BY <2>4, CountFacts
    <3>5. QED BY <2>4, <3>2, <3>3, <3>4
  <2>6. /\ tree.root \in Nodes
        /\ tree.left \in [Nodes -> Nodes] /\ tree.right \in [Nodes -> Nodes]
        /\ tree.parent \in [Nodes -> Nodes] /\ tree.red \in [Nodes -> BOOLEAN]
    BY <2>3 DEF Trees
  <2>7. QED BY <2>1, <2>2, <2>4, <2>5, <2>6 DEF MapInv, Flags, TypeOK
<1>2. QED BY <1>1, MapInvariant, PTL

\* Between the operations pointers up and down agree, the sentinel is a black leaf,
\* and the size is the number of keys.
THEOREM PointersAgree == Spec => []Linked
<1>1. MapInv => Linked
  <2>1. SUFFICES ASSUME MapInv, op.fix = "none" PROVE Linked
    BY DEF Linked
  <2>2. PICK u, b : Sound(tree, u, b) /\ u[Top(tree)] = contents
    BY <2>1 DEF MapInv, Held, Settled
  <2>3. tree \in Trees /\ Shape(tree, u) /\ contents \in SUBSET Keys BY <2>2, SoundFacts
  <2>4. size_ = Cardinality(contents) BY <2>1 DEF MapInv, Counted
  <2>5. tree.root # nil => tree.parent[tree.root] = nil BY <2>3 DEF Shape, Top, Up
  <2>6. ASSUME NEW n \in contents, NEW side \in Sides, tree[side][n] # nil
        PROVE  tree.parent[tree[side][n]] = n
    <3>1. n \in Keys BY <2>3
    <3>2. Kid(tree, side, n) # nil => Up(tree, Kid(tree, side, n)) = n BY <2>3, <3>1 DEF Shape
    <3>3. QED BY <2>6, <3>2 DEF Kid, Up
  <2>7. tree.left[nil] = nil /\ tree.right[nil] = nil /\ ~tree.red[nil]
    <3>1. (\A side \in Sides : Kid(tree, side, nil) = nil) /\ ~Red(tree, nil) BY <2>3 DEF Shape
    <3>2. Kid(tree, "left", nil) = tree.left[nil] /\ Kid(tree, "right", nil) = tree.right[nil]
      BY <2>3, TreeFields, KeyFacts
    <3>3. QED BY <3>1, <3>2, SideFacts DEF Red
  <2>8. QED BY <2>4, <2>5, <2>6, <2>7 DEF Linked
<1>2. QED BY <1>1, MapInvariant, PTL

\* Between the operations the nodes of the tree are the keys inserted and not erased,
\* each where the search for it goes.
THEOREM ContentsOrdered == Spec => []Ordered
<1>1. MapInv => Ordered
  <2>1. SUFFICES ASSUME MapInv, op.fix = "none" PROVE Ordered
    BY DEF Ordered
  <2>2. PICK u, b : Sound(tree, u, b) /\ u[Top(tree)] = contents
    BY <2>1 DEF MapInv, Held, Settled
  <2>3. tree \in Trees /\ Shape(tree, u) /\ contents \in SUBSET Keys BY <2>2, SoundFacts
  <2>4. tree.root \in Nodes /\ Top(tree) = tree.root BY <2>3, TreeFields DEF Top
  <2>5. Below(tree, tree.root) = contents BY <2>2, <2>3, <2>4, BelowIs
  <2>6. ASSUME NEW n \in contents
        PROVE  /\ \A m \in Below(tree, tree.left[n]) : m < n
               /\ \A m \in Below(tree, tree.right[n]) : n < m
    <3>1. n \in Keys /\ n \in Nodes BY <2>3, KeyFacts
    <3>2. /\ Kid(tree, "left", n) = tree.left[n] /\ Kid(tree, "right", n) = tree.right[n]
          /\ tree.left[n] \in Nodes /\ tree.right[n] \in Nodes
      BY <2>3, <3>1, TreeFields, SideFacts
    <3>3. /\ Below(tree, tree.left[n]) = u[Kid(tree, "left", n)]
          /\ Below(tree, tree.right[n]) = u[Kid(tree, "right", n)]
      BY <2>3, <3>2, BelowIs
    <3>4. /\ u[Kid(tree, "left", n)] \in SUBSET Keys
          /\ u[Kid(tree, "right", n)] \in SUBSET Keys
      BY <2>3, <3>2, ShapeFacts
    <3>5. /\ \A m \in u[Kid(tree, "left", n)] : Before("left", m, n)
          /\ \A m \in u[Kid(tree, "right", n)] : Before("right", m, n)
      BY <2>3, <3>1, <3>4, SideFacts DEF Shape
    <3>6. QED BY <3>3, <3>5 DEF Before
  <2>7. QED BY <2>5, <2>6 DEF Ordered
<1>2. QED BY <1>1, MapInvariant, PTL

\* Between the operations a red node has black children, and every way down passes as
\* many black nodes.
THEOREM StaysBalanced == Spec => []Balanced
<1>1. MapInv => Balanced
  <2>1. SUFFICES ASSUME MapInv, op.fix = "none" PROVE Balanced
    BY DEF Balanced
  <2>2. PICK u, b : Sound(tree, u, b) /\ u[Top(tree)] = contents
    BY <2>1 DEF MapInv, Held, Settled
  <2>3. tree \in Trees /\ Shape(tree, u) /\ contents \in SUBSET Keys BY <2>2, SoundFacts
  <2>4. Weighed(tree, b, {}) /\ RedOk(tree, {}, {}) /\ ~Red(tree, Top(tree)) BY <2>2 DEF Sound
  <2>5. BlackHeight(tree) >= 0 BY <2>3, <2>4, BlackHeightIs
  <2>6. ASSUME NEW n \in contents, tree.red[n]
        PROVE  ~tree.red[tree.left[n]] /\ ~tree.red[tree.right[n]]
    <3>1. n \in Keys /\ n \in Nodes BY <2>3, KeyFacts
    <3>2. Kid(tree, "left", n) = tree.left[n] /\ Kid(tree, "right", n) = tree.right[n]
      BY <2>3, <3>1, TreeFields
    <3>3. \A s \in Sides : ~Red(tree, Kid(tree, s, n)) BY <2>4, <2>6, <3>1 DEF RedOk, Red
    <3>4. QED BY <3>2, <3>3, SideFacts DEF Red
  <2>7. ~tree.red[tree.root] BY <2>4 DEF Red, Top
  <2>8. QED BY <2>5, <2>6, <2>7 DEF Balanced
<1>2. QED BY <1>1, MapInvariant, PTL

\* A repair takes no more rounds than the logarithm of the number of keys: each round
\* that goes on has a node that one more black node is below, and a tree with so many
\* black nodes on the way down has a power of two of keys.
THEOREM RepairsEnd == Spec => []RepairsShort
<1>1. MapInv => RepairsShort
  <2>1. SUFFICES ASSUME MapInv, op.fix # "none"
                 PROVE  op.rounds <= Logarithm(Cardinality(Below(tree, tree.root)) + 1)
    BY DEF RepairsShort
  <2>2. op.fix = "insert" \/ op.fix = "erase" BY <2>1 DEF MapInv, OpTypes
  <2>3. Top(tree) = tree.root BY DEF Top
  <2>4. op.fix = "insert" => Mending(tree, op.node, contents, op.rounds) BY <2>1 DEF MapInv, Held
  <2>5. op.fix = "erase" => Losing(tree, op.node, contents, op.rounds) BY <2>1 DEF MapInv, Held
  <2>6. op.rounds <= Logarithm(Cardinality(Below(tree, Top(tree))) + 1)
    BY <2>2, <2>4, <2>5, MendingShort, LosingShort
  <2>7. QED BY <2>3, <2>6
<1>2. QED BY <1>1, MapInvariant, PTL

-----------------------------------------------------------------------------
(* Bounds *)

\* m is the node of S that is furthest on a side, or nil if there is none.
Furthest(side, S, m) ==
  /\ S = {} => m = nil
  /\ S # {} => m \in S /\ \A k \in S : k = m \/ Before(side, m, k)

\* There is only one such node.
LEMMA OneFurthest ==
  ASSUME NEW side \in Sides, NEW S \in SUBSET Keys, NEW m, NEW k,
         Furthest(side, S, m), Furthest(side, S, k)
  PROVE  m = k
<1>1. CASE S = {} BY <1>1 DEF Furthest
<1>2. CASE S # {}
  <2>1. SUFFICES ASSUME m # k PROVE FALSE
    OBVIOUS
  <2>2. m \in S /\ k \in S /\ Before(side, m, k) /\ Before(side, k, m) BY <1>2, <2>1 DEF Furthest
  <2>3. QED BY <2>2, BeforeFacts
<1>3. QED BY <1>1, <1>2

\* It is the least, or the greatest.
LEMMA FurthestIs ==
  ASSUME NEW S \in SUBSET Keys, NEW m
  PROVE  /\ Furthest("left", S, m) => LeastOf(S) = m
         /\ Furthest("right", S, m) => GreatestOf(S) = m
<1>0. \A k \in S : k \in Int BY KeyFacts
<1>1. CASE S = {} BY <1>1 DEF Furthest, LeastOf, GreatestOf
<1>2. ASSUME S # {}, Furthest("left", S, m) PROVE LeastOf(S) = m
  <2>1. m \in S /\ m \in Int /\ (\A k \in S : k = m \/ m < k) BY <1>0, <1>2 DEF Furthest, Before
  <2>2. LeastOf(S) = CHOOSE k \in S : \A j \in S : k <= j BY <1>2 DEF LeastOf, Min
  <2>3. \A j \in S : m <= j BY <1>0, <2>1
  <2>4. \A k \in S : (\A j \in S : k <= j) => k = m BY <1>0, <2>1
  <2>5. QED BY <2>1, <2>2, <2>3, <2>4
<1>3. ASSUME S # {}, Furthest("right", S, m) PROVE GreatestOf(S) = m
  <2>1. m \in S /\ m \in Int /\ (\A k \in S : k = m \/ k < m) BY <1>0, <1>3 DEF Furthest, Before
  <2>2. GreatestOf(S) = CHOOSE k \in S : \A j \in S : k >= j BY <1>3 DEF GreatestOf, Max
  <2>3. \A j \in S : m >= j BY <1>0, <2>1
  <2>4. \A k \in S : (\A j \in S : k >= j) => k = m BY <1>0, <2>1
  <2>5. QED BY <2>1, <2>2, <2>3, <2>4
<1>4. QED BY <1>1, <1>2, <1>3

\* The outermost nodes of the tree are its least and its greatest one.
LEMMA OutermostFurthest ==
  ASSUME NEW t, NEW u, Shape(t, u), NEW side \in Sides
  PROVE  Furthest(side, u[Top(t)], Outermost(t, side, Top(t)))
<1>1. CASE Top(t) = nil
  <2>1. u[Top(t)] = {} BY <1>1, InTree
  <2>2. QED BY <1>1, <2>1, OutermostFinds DEF Furthest
<1>2. CASE Top(t) # nil
  <2>1. Top(t) \in Keys BY <1>2, InTree
  <2>2. Extreme(u, side, Top(t), Outermost(t, side, Top(t))) BY <2>1, OutermostFinds
  <2>3. QED BY <2>2 DEF Furthest, Extreme
<1>3. QED BY <1>1, <1>2

\* Bound, from its values at the children.
Bounding(t, above, f) ==
  f = [n \in Nodes |-> IF n = nil THEN nil
                       ELSE IF n \in above THEN IF f[t.left[n]] = nil THEN n ELSE f[t.left[n]]
                       ELSE f[t.right[n]]]

\* Bound is the value at the root of a function of this kind.
LEMMA BoundDefined ==
  ASSUME NEW t, NEW above
  PROVE  Bound(t, above) = (CHOOSE f : Bounding(t, above, f))[Top(t)]
BY DEF Bound, Bounding, Top

\* In a tree with a shape there is one.
LEMMA BoundingExists ==
  ASSUME NEW t, NEW u, Shape(t, u), NEW above
  PROVE  \E f : Bounding(t, above, f)
<1> DEFINE G == [a \in Keys \X Nodes \X Nodes |->
                  IF a[1] \in above THEN IF a[2] = nil THEN a[1] ELSE a[2] ELSE a[3]]
<1>0. nil \in Nodes /\ nil \notin Keys /\ (\A n \in Nodes : n \in Keys \/ n = nil)
      /\ (\A n \in Keys : n \in Nodes)
  BY KeyFacts
<1>1. G \in [Keys \X Nodes \X Nodes -> Nodes] BY <1>0
<1>2. \A n \in Keys, a, b \in Nodes :
        G[<<n, a, b>>] = IF n \in above THEN IF a = nil THEN n ELSE a ELSE b
  OBVIOUS
<1> HIDE DEF G
<1>3. PICK f \in [Nodes -> Nodes] :
        /\ f[nil] = nil
        /\ \A n \in Keys : f[n] = G[<<n, f[Kid(t, "left", n)], f[Kid(t, "right", n)]>>]
  <2>1. nil \in Nodes BY <1>0
  <2>2. \E f \in [Nodes -> Nodes] : Recursive(t, G, nil, f) BY <1>1, <2>1, TreeRecursion
  <2>3. QED BY <2>2, Zenon DEF Recursive
<1>4. \A n \in Keys : /\ Kid(t, "left", n) \in Nodes /\ Kid(t, "right", n) \in Nodes
                      /\ Kid(t, "left", n) = t.left[n] /\ Kid(t, "right", n) = t.right[n]
  BY <1>0, SideFacts, ShapeFacts, TreeFields DEF Shape
<1>5. ASSUME NEW n \in Keys
      PROVE  f[n] = IF n \in above THEN IF f[t.left[n]] = nil THEN n ELSE f[t.left[n]]
                    ELSE f[t.right[n]]
  <2>1. f[Kid(t, "left", n)] \in Nodes /\ f[Kid(t, "right", n)] \in Nodes BY <1>4
  <2>2. f[n] = IF n \in above THEN IF f[Kid(t, "left", n)] = nil THEN n ELSE f[Kid(t, "left", n)]
               ELSE f[Kid(t, "right", n)]
    BY <1>2, <1>3, <2>1
  <2>3. QED BY <1>4, <2>2
<1>6. Bounding(t, above, f) BY <1>0, <1>3, <1>5 DEF Bounding
<1>7. QED BY <1>6

\* At each node it gives the least of the keys below that are above the bound.
LEMMA BoundingFinds ==
  ASSUME NEW t, NEW u, Shape(t, u), NEW above \in SUBSET Keys,
         \A m \in above : \A k \in Keys : m < k => k \in above,
         NEW f, Bounding(t, above, f)
  PROVE  \A n \in Nodes : Furthest("left", u[n] \cap above, f[n])
<1> DEFINE P == {n \in Nodes : Furthest("left", u[n] \cap above, f[n])}
<1>0. /\ nil \in Nodes /\ nil \notin Keys /\ "left" \in Sides /\ "right" \in Sides
      /\ u[nil] = {} /\ (\A n \in Nodes : u[n] \in SUBSET Keys)
  BY KeyFacts, SideFacts, ShapeFacts DEF Shape
<1>1. f[nil] = nil /\ \A n \in Keys :
        f[n] = IF n \in above THEN IF f[Kid(t, "left", n)] = nil THEN n ELSE f[Kid(t, "left", n)]
               ELSE f[Kid(t, "right", n)]
  <2>1. \A n \in Nodes : Kid(t, "left", n) = t.left[n] /\ Kid(t, "right", n) = t.right[n]
    BY TreeFields DEF Shape
  <2>2. \A n \in Nodes : f[n] = IF n = nil THEN nil
                                ELSE IF n \in above THEN IF f[t.left[n]] = nil THEN n ELSE f[t.left[n]]
                                ELSE f[t.right[n]]
    BY DEF Bounding
  <2>3. QED BY <1>0, <2>1, <2>2, KeyFacts
<1>2. nil \in P BY <1>0, <1>1 DEF Furthest
<1>3. ASSUME NEW n \in Keys, \A s \in Sides : Kid(t, s, n) \in P PROVE n \in P
  <2> DEFINE l == Kid(t, "left", n)
             r == Kid(t, "right", n)
  <2>0. l = Kid(t, "left", n) /\ r = Kid(t, "right", n) OBVIOUS
  <2> HIDE DEF l, r
  <2>1. /\ n \in Nodes /\ n # nil /\ n \in Int /\ l \in Nodes /\ r \in Nodes
        /\ u[n] = {n} \cup u[l] \cup u[r]
        /\ Furthest("left", u[l] \cap above, f[l]) /\ Furthest("left", u[r] \cap above, f[r])
    <3>1. n \in Nodes /\ n # nil /\ n \in Int BY KeyFacts
    <3>2. l \in P /\ r \in P BY <1>0, <1>3, <2>0
    <3>3. u[n] = {n} \cup u[l] \cup u[r] BY <2>0 DEF Shape
    <3>4. QED BY <3>1, <3>2, <3>3
  <2>2. \A m \in u[l] : m \in Keys /\ m \in Int /\ m < n
    <3>1. \A m \in u[l] : m \in Keys BY <1>0, <2>1
    <3>2. \A m \in u[l] : Before("left", m, n) BY <1>0, <2>0, <3>1 DEF Shape
    <3>3. QED BY <3>1, <3>2, KeyFacts DEF Before
  <2>3. \A m \in u[r] : m \in Keys /\ m \in Int /\ n < m
    <3>1. \A m \in u[r] : m \in Keys BY <1>0, <2>1
    <3>2. \A m \in u[r] : Before("right", m, n) BY <1>0, <2>0, <3>1, SideFacts DEF Shape
    <3>3. QED BY <3>1, <3>2, KeyFacts, SideFacts DEF Before
  <2>4. CASE n \in above
    <3>1. CASE u[l] \cap above = {}
      <4>1. f[l] = nil BY <2>1, <3>1 DEF Furthest
      <4>2. f[n] = n BY <1>1, <2>0, <2>4, <4>1
      <4>3. \A k \in u[n] \cap above : k = n \/ n < k BY <2>1, <2>3, <3>1
      <4>4. n \in u[n] \cap above BY <2>1, <2>4
      <4>5. Furthest("left", u[n] \cap above, n) BY <4>3, <4>4 DEF Furthest, Before
      <4>6. QED BY <2>1, <4>2, <4>5
    <3>2. CASE u[l] \cap above # {}
      <4>1. f[l] \in u[l] \cap above /\ \A k \in u[l] \cap above : k = f[l] \/ f[l] < k
        BY <2>1, <3>2 DEF Furthest, Before
      <4>2. f[l] # nil /\ f[l] < n /\ f[l] \in Int BY <1>0, <2>2, <4>1
      <4>3. f[n] = f[l] BY <1>1, <2>0, <2>4, <4>2
      <4>4. \A k \in u[r] : f[l] < k BY <2>1, <2>3, <4>2
      <4>5. \A k \in u[n] \cap above : k = f[l] \/ f[l] < k BY <2>1, <4>1, <4>2, <4>4
      <4>6. f[l] \in u[n] \cap above BY <2>1, <4>1
      <4>7. Furthest("left", u[n] \cap above, f[l]) BY <4>5, <4>6 DEF Furthest, Before
      <4>8. QED BY <2>1, <4>3, <4>7
    <3>3. QED BY <3>1, <3>2
  <2>5. CASE n \notin above
    <3>1. f[n] = f[r] BY <1>1, <2>0, <2>5
    <3>2. u[l] \cap above = {} BY <2>2, <2>5
    <3>3. u[n] \cap above = u[r] \cap above BY <2>1, <2>5, <3>2
    <3>4. QED BY <2>1, <3>1, <3>3
  <2>6. QED BY <2>4, <2>5
<1> HIDE DEF P
<1>4. Nodes \subseteq P BY <1>2, <1>3, TreeInduction
<1>5. QED BY <1>4 DEF P

\* Bound finds the least key of the tree that is above the bound.
LEMMA BoundFinds ==
  ASSUME NEW t, NEW u, Shape(t, u), NEW above \in SUBSET Keys,
         \A m \in above : \A k \in Keys : m < k => k \in above
  PROVE  Furthest("left", u[Top(t)] \cap above, Bound(t, above))
<1> DEFINE g == CHOOSE f : Bounding(t, above, f)
<1>1. \E f : Bounding(t, above, f) BY BoundingExists
<1>2. Bounding(t, above, g) BY <1>1, Zenon
<1> HIDE DEF g
<1>3. Top(t) \in Nodes BY InTree
<1>4. Furthest("left", u[Top(t)] \cap above, g[Top(t)]) BY <1>2, <1>3, BoundingFinds
<1>5. Bound(t, above) = g[Top(t)] BY BoundDefined DEF g
<1>6. QED BY <1>4, <1>5

-----------------------------------------------------------------------------
(* Neighbours *)

\* A node that is not below n is on the same side of all that is.
LEMMA Convex ==
  ASSUME NEW t, NEW u, Shape(t, u), NEW n \in u[Top(t)], NEW m \in u[Top(t)] \ u[n],
         NEW a \in u[n], NEW b \in u[n], NEW s \in Sides, Before(s, a, m)
  PROVE  Before(s, b, m)
<1> DEFINE P == {k \in Nodes : n \in u[k] /\ m \in u[k] => Before(s, b, m)}
<1>0. /\ n \in Keys /\ n \in Nodes /\ n # nil /\ m \in Keys /\ m \in Nodes /\ Top(t) \in Nodes
      /\ a \in Keys /\ b \in Keys /\ nil \in Nodes /\ u[nil] = {} /\ n \in u[n]
  <2>1. Top(t) \in Nodes /\ n \in Keys /\ m \in Keys BY InTree
  <2>2. n \in Nodes /\ n # nil /\ m \in Nodes /\ nil \in Nodes BY <2>1, KeyFacts
  <2>3. u[n] \in SUBSET Keys /\ n \in u[n] BY <2>1, <2>2, ShapeFacts
  <2>4. u[nil] = {} BY DEF Shape
  <2>5. QED BY <2>1, <2>2, <2>3, <2>4
<1>1. nil \in P BY <1>0
<1>2. ASSUME NEW k \in Keys, \A r \in Sides : Kid(t, r, k) \in P PROVE k \in P
  <2>1. SUFFICES ASSUME n \in u[k], m \in u[k] PROVE Before(s, b, m)
    BY KeyFacts
  <2>2. k # n BY <2>1
  <2>3. PICK r \in Sides : n \in u[Kid(t, r, k)]
    <3>1. n \in u[Kid(t, "left", k)] \/ n \in u[Kid(t, "right", k)] BY <2>1, <2>2 DEF Shape
    <3>2. QED BY <3>1, SideFacts
  <2> DEFINE o == Opposite(r)
             c == Kid(t, r, k)
             d == Kid(t, o, k)
  <2>4. o \in Sides /\ o = Opposite(r) /\ c = Kid(t, r, k) /\ d = Kid(t, o, k) BY SideFacts
  <2> HIDE DEF o, c, d
  <2>5. /\ k \in Nodes /\ c \in Nodes /\ d \in Nodes /\ u[k] = {k} \cup u[c] \cup u[d]
        /\ u[c] \in SUBSET Keys /\ u[d] \in SUBSET Keys
    <3>1. k \in Nodes BY KeyFacts
    <3>2. c \in Nodes /\ d \in Nodes BY <2>4, <3>1, ShapeFacts
    <3>3. QED BY <2>4, <3>1, <3>2, ShapeFacts
  <2>6. u[n] \subseteq u[c] BY <1>0, <2>3, <2>4, <2>5, Upward
  <2>7. Before(r, a, k) /\ Before(r, b, k)
    <3>1. a \in u[Kid(t, r, k)] /\ b \in u[Kid(t, r, k)] BY <2>4, <2>6
    <3>2. QED BY <1>0, <3>1 DEF Shape
  <2>8. CASE m \in u[c]
    <3>1. c \in P BY <1>2, <2>4
    <3>2. QED BY <2>3, <2>4, <2>8, <3>1
  <2>9. CASE m = k
    <3>1. s = r
      <4>1. Before(r, a, m) /\ Before(s, a, m) BY <2>7, <2>9
      <4>2. s = r \/ s = Opposite(r) BY SideFacts
      <4>3. QED BY <1>0, <4>1, <4>2, BeforeFacts
    <3>2. QED BY <2>7, <2>9, <3>1
  <2>10. CASE m \in u[d]
    <3>1. Before(o, m, k) BY <1>0, <2>4, <2>10 DEF Shape
    <3>2. Before(r, k, m) BY <1>0, <2>4, <3>1, BeforeFacts
    <3>3. Before(r, a, m) /\ Before(r, b, m) BY <1>0, <2>7, <3>2, BeforeFacts
    <3>4. s = r
      <4>1. s = r \/ s = Opposite(r) BY SideFacts
      <4>2. QED BY <1>0, <3>3, <4>1, BeforeFacts
    <3>5. QED BY <3>3, <3>4
  <2>11. QED BY <2>1, <2>5, <2>8, <2>9, <2>10
<1> HIDE DEF P
<1>3. Nodes \subseteq P BY <1>1, <1>2, TreeInduction
<1>4. Top(t) \in P BY <1>0, <1>3
<1>5. QED BY <1>4 DEF P

\* The nodes not below n that are on a side of it.
Away(t, u, side, n) == {m \in u[Top(t)] \ u[n] : Before(side, m, n)}

\* The root has no such nodes.
LEMMA AwayTop ==
  ASSUME NEW t, NEW u, NEW side
  PROVE  Furthest(Opposite(side), Away(t, u, side, Top(t)), nil)
BY DEF Away, Furthest

\* A child on the same side has those of its parent; for a child on the other side the
\* parent is the nearest of them.
LEMMA AwayBelow ==
  ASSUME NEW t, NEW u, Shape(t, u), NEW side \in Sides, NEW n \in u[Top(t)], NEW r \in Sides,
         NEW c, c = Kid(t, r, n), c # nil
  PROVE  /\ r = side => Away(t, u, side, c) = Away(t, u, side, n)
         /\ r # side => Furthest(Opposite(side), Away(t, u, side, c), n)
<1> DEFINE o == Opposite(r)
           d == Kid(t, o, n)
           S == u[Top(t)]
<1>0. /\ o \in Sides /\ o = Opposite(r) /\ d = Kid(t, o, n) /\ Opposite(o) = r /\ S = u[Top(t)]
      /\ Opposite(side) \in Sides /\ (r # side => o = side /\ Opposite(side) = r)
  BY SideFacts
<1> HIDE DEF o, d, S
<1>1. n \in Keys /\ n \in Nodes /\ n # nil /\ S \subseteq Keys /\ Top(t) \in Nodes
  BY <1>0, InTree, KeyFacts
<1>2. /\ u[n] = {n} \cup u[c] \cup u[d] /\ c \in Nodes /\ d \in Nodes /\ n \notin u[c] /\ n \notin u[d]
      /\ u[c] \cap u[d] = {} /\ u[n] \subseteq S
  <2>1. c \in Nodes /\ d \in Nodes BY <1>0, <1>1, ShapeFacts
  <2>2. u[n] \subseteq S BY <1>0, <1>1, Upward
  <2>3. QED BY <1>0, <1>1, <2>1, <2>2, ShapeFacts
<1>3. c \in Keys /\ c \in u[c] /\ c \in u[n] /\ c \in S BY <1>2, KeyFacts, ShapeFacts
<1>4. Before(r, c, n) /\ Before(o, n, c)
  <2>1. Before(r, c, n) BY <1>1, <1>3 DEF Shape
  <2>2. QED BY <1>0, <1>1, <1>3, <2>1, BeforeFacts
<1>5. ASSUME NEW m \in u[d] PROVE m \in Keys /\ Before(o, m, n) /\ Before(o, m, c)
  <2>1. m \in Keys BY <1>1, <1>2
  <2>2. Before(o, m, n) BY <1>0, <1>1, <2>1 DEF Shape
  <2>3. QED BY <1>0, <1>1, <1>3, <1>4, <2>1, <2>2, BeforeFacts
<1>6. ASSUME NEW m \in S \ u[n] PROVE Before(side, m, n) <=> Before(side, m, c)
  <2>1. m \in Keys /\ m \in u[Top(t)] \ u[n] /\ n \in u[n] /\ c \in u[n] /\ n \in u[Top(t)]
    BY <1>0, <1>1, <1>2, <1>3
  <2>2. Before(Opposite(side), n, m) <=> Before(side, m, n) BY <1>1, <2>1, BeforeFacts
  <2>3. Before(Opposite(side), c, m) <=> Before(side, m, c) BY <1>3, <2>1, BeforeFacts
  <2>4. Before(Opposite(side), n, m) => Before(Opposite(side), c, m) BY <1>0, <2>1, Convex
  <2>5. Before(Opposite(side), c, m) => Before(Opposite(side), n, m) BY <1>0, <2>1, Convex
  <2>6. QED BY <2>2, <2>3, <2>4, <2>5
<1>7. \A m : m \in Away(t, u, side, n) <=> m \in S /\ m \notin u[n] /\ Before(side, m, n)
  BY <1>0 DEF Away
<1>8. \A m : m \in Away(t, u, side, c) <=> m \in S /\ m \notin u[c] /\ Before(side, m, c)
  BY <1>0 DEF Away
<1>9. CASE r = side
  <2>1. ASSUME NEW m PROVE m \in Away(t, u, side, c) <=> m \in Away(t, u, side, n)
    <3>1. CASE m \in u[n]
      <4>1. m = n => ~Before(side, m, c)
        <5>1. ~(Before(r, c, n) /\ Before(r, n, c)) BY <1>1, <1>3, BeforeFacts
        <5>2. QED BY <1>4, <1>9, <5>1
      <4>2. m \in u[d] => ~Before(side, m, c)
        <5>1. SUFFICES ASSUME m \in u[d], Before(r, m, c) PROVE FALSE
          BY <1>9
        <5>2. m \in Keys /\ Before(Opposite(r), m, c) BY <1>0, <1>5, <5>1
        <5>3. Before(r, c, m) BY <1>3, <5>2, BeforeFacts
        <5>4. QED BY <1>3, <5>1, <5>2, <5>3, BeforeFacts
      <4>3. QED BY <1>2, <1>7, <1>8, <3>1, <4>1, <4>2
    <3>2. CASE m \notin u[n]
      <4>1. m \notin u[c] BY <1>2, <3>2
      <4>2. QED BY <1>6, <1>7, <1>8, <3>2, <4>1
    <3>3. QED BY <3>1, <3>2
  <2>2. Away(t, u, side, c) = Away(t, u, side, n) BY <2>1
  <2>3. QED BY <1>9, <2>2
<1>10. CASE r # side
  <2>1. o = side /\ Opposite(side) = r BY <1>0, <1>10
  <2>2. n \in Away(t, u, side, c) BY <1>0, <1>2, <1>4, <1>8, <2>1
  <2>3. ASSUME NEW k \in Away(t, u, side, c) PROVE k = n \/ Before(r, n, k)
    <3>1. k \in S /\ k \in Keys /\ k \notin u[c] /\ Before(side, k, c) BY <1>1, <1>8
    <3>2. CASE k \in u[n]
      <4>1. SUFFICES ASSUME k # n PROVE Before(r, n, k)
        OBVIOUS
      <4>2. k \in u[d] BY <1>2, <3>1, <3>2, <4>1
      <4>3. Before(side, k, n) BY <1>5, <2>1, <4>2
      <4>4. QED BY <1>1, <2>1, <3>1, <4>3, BeforeFacts
    <3>3. CASE k \notin u[n]
      <4>1. Before(side, k, n) BY <1>6, <3>1, <3>3
      <4>2. QED BY <1>1, <2>1, <3>1, <4>1, BeforeFacts
    <3>4. QED BY <3>2, <3>3
  <2>4. Furthest(Opposite(side), Away(t, u, side, c), n) BY <2>1, <2>2, <2>3 DEF Furthest
  <2>5. QED BY <1>10, <2>4
<1>11. QED BY <1>9, <1>10

\* What holds of the root, and of the children of each node that it holds of, holds of all nodes.
LEMMA Downward ==
  ASSUME NEW t, NEW u, Shape(t, u), NEW Q, Top(t) # nil => Top(t) \in Q,
         \A n \in u[Top(t)], r \in Sides : n \in Q /\ Kid(t, r, n) # nil => Kid(t, r, n) \in Q
  PROVE  u[Top(t)] \subseteq Q
<1> DEFINE P == {n \in Nodes : n \in Q /\ n \in u[Top(t)] => u[n] \subseteq Q}
<1>0. Top(t) \in Nodes /\ nil \in Nodes /\ u[nil] = {} /\ (Top(t) # nil => Top(t) \in u[Top(t)])
  BY InTree, KeyFacts DEF Shape
<1>1. nil \in P BY <1>0
<1>2. ASSUME NEW n \in Keys, \A s \in Sides : Kid(t, s, n) \in P PROVE n \in P
  <2>1. n \in Nodes BY KeyFacts
  <2>2. SUFFICES ASSUME n \in Q, n \in u[Top(t)] PROVE u[n] \subseteq Q
    BY <2>1
  <2>3. ASSUME NEW s \in Sides PROVE u[Kid(t, s, n)] \subseteq Q
    <3>1. CASE Kid(t, s, n) = nil BY <1>0, <3>1
    <3>2. CASE Kid(t, s, n) # nil
      <4>1. Kid(t, s, n) \in u[Top(t)] BY <2>1, <3>2, InTree
      <4>2. Kid(t, s, n) \in Q BY <2>2, <3>2
      <4>3. Kid(t, s, n) \in P BY <1>2
      <4>4. QED BY <4>1, <4>2, <4>3
    <3>3. QED BY <3>1, <3>2
  <2>4. u[n] = {n} \cup u[Kid(t, "left", n)] \cup u[Kid(t, "right", n)] BY DEF Shape
  <2>5. QED BY <2>2, <2>3, <2>4, SideFacts
<1> HIDE DEF P
<1>3. Nodes \subseteq P BY <1>1, <1>2, TreeInduction
<1>4. QED BY <1>0, <1>3 DEF P

\* The way up from a node, as long as it is a child on a side.
Climbing(t, side, f) ==
  f = [n \in Nodes |-> IF t.parent[n] # nil /\ n = t[side][t.parent[n]] THEN f[t.parent[n]]
                       ELSE t.parent[n]]

\* Neighbour goes up that way if there is nothing below.
LEMMA NeighbourDefined ==
  ASSUME NEW t, NEW side, NEW node
  PROVE  /\ Kid(t, side, node) # nil =>
              Neighbour(t, side, node) = Outermost(t, Opposite(side), Kid(t, side, node))
         /\ Kid(t, side, node) = nil =>
              Neighbour(t, side, node) = (CHOOSE f : Climbing(t, side, f))[node]
BY DEF Neighbour, Climbing, Kid

LEMMA ClimbingIs ==
  ASSUME NEW t, NEW side, NEW f
  PROVE  Climbing(t, side, f) <=>
           f = [n \in Nodes |-> IF Up(t, n) # nil /\ n = Kid(t, side, Up(t, n)) THEN f[Up(t, n)] ELSE Up(t, n)]
BY DEF Climbing, Up, Kid

\* What the way up finds.
LEMMA AwayFound ==
  ASSUME NEW t, NEW u, Shape(t, u), NEW side \in Sides
  PROVE  \A n \in u[Top(t)] : \E m : Furthest(Opposite(side), Away(t, u, side, n), m)
<1> DEFINE Q == {n \in Nodes : \E m : Furthest(Opposite(side), Away(t, u, side, n), m)}
<1>0. Top(t) \in Nodes BY InTree
<1>1. Top(t) \in Q BY <1>0, AwayTop
<1>2. ASSUME NEW n \in u[Top(t)], NEW r \in Sides, n \in Q, Kid(t, r, n) # nil
      PROVE  Kid(t, r, n) \in Q
  <2>1. n \in Nodes BY InTree, KeyFacts
  <2>2. Kid(t, r, n) \in Nodes BY <2>1, ShapeFacts
  <2>3. /\ r = side => Away(t, u, side, Kid(t, r, n)) = Away(t, u, side, n)
        /\ r # side => Furthest(Opposite(side), Away(t, u, side, Kid(t, r, n)), n)
    BY <1>2, AwayBelow
  <2>4. PICK m : Furthest(Opposite(side), Away(t, u, side, n), m) BY <1>2
  <2>5. \E k : Furthest(Opposite(side), Away(t, u, side, Kid(t, r, n)), k)
    <3>1. CASE r = side
      <4>1. Furthest(Opposite(side), Away(t, u, side, Kid(t, r, n)), m) BY <2>3, <2>4, <3>1
      <4>2. QED BY <4>1
    <3>2. CASE r # side BY <2>3, <3>2
    <3>3. QED BY <3>1, <3>2
  <2>6. QED BY <2>2, <2>5
<1> HIDE DEF Q
<1>3. u[Top(t)] \subseteq Q BY <1>1, <1>2, Downward
<1>4. QED BY <1>3 DEF Q

LEMMA AwayKeys ==
  ASSUME NEW t, NEW u, Shape(t, u), NEW side \in Sides
  PROVE  \A n : Away(t, u, side, n) \in SUBSET Keys
BY InTree DEF Away

LEMMA ClimbingFinds ==
  ASSUME NEW t, NEW u, Shape(t, u), NEW side \in Sides, NEW f, Climbing(t, side, f)
  PROVE  \A n \in u[Top(t)] : Furthest(Opposite(side), Away(t, u, side, n), f[n])
<1> DEFINE Q == {n \in Nodes : Furthest(Opposite(side), Away(t, u, side, n), f[n])}
<1>0. /\ Top(t) \in Nodes /\ (Top(t) # nil => Up(t, Top(t)) = nil)
      /\ \A n \in Nodes : f[n] = IF Up(t, n) # nil /\ n = Kid(t, side, Up(t, n)) THEN f[Up(t, n)]
                                 ELSE Up(t, n)
  <2>1. f = [n \in Nodes |-> IF Up(t, n) # nil /\ n = Kid(t, side, Up(t, n)) THEN f[Up(t, n)] ELSE Up(t, n)]
    BY ClimbingIs
  <2>2. Top(t) \in Nodes /\ (Top(t) # nil => Up(t, Top(t)) = nil) BY InTree DEF Shape
  <2>3. QED BY <2>1, <2>2
<1>1. ASSUME Top(t) # nil PROVE Top(t) \in Q
  <2>1. f[Top(t)] = nil BY <1>0, <1>1
  <2>2. QED BY <1>0, <2>1, AwayTop
<1>2. ASSUME NEW n \in u[Top(t)], NEW r \in Sides, n \in Q, Kid(t, r, n) # nil
      PROVE  Kid(t, r, n) \in Q
  <2> DEFINE c == Kid(t, r, n)
  <2>0. c = Kid(t, r, n) /\ c # nil BY <1>2
  <2> HIDE DEF c
  <2>1. n \in Nodes /\ n \in Keys /\ n # nil BY InTree, KeyFacts
  <2>2. c \in Nodes /\ Up(t, c) = n BY <2>0, <2>1, InTree, ShapeFacts
  <2>3. /\ r = side => Away(t, u, side, c) = Away(t, u, side, n)
        /\ r # side => Furthest(Opposite(side), Away(t, u, side, c), n)
    BY <2>0, AwayBelow
  <2>4. CASE r = side
    <3>1. f[c] = f[n] BY <1>0, <2>0, <2>1, <2>2, <2>4
    <3>2. Furthest(Opposite(side), Away(t, u, side, n), f[n]) BY <1>2
    <3>3. Furthest(Opposite(side), Away(t, u, side, c), f[c]) BY <2>3, <2>4, <3>1, <3>2
    <3>4. QED BY <2>0, <2>2, <3>3
  <2>5. CASE r # side
    <3>1. c # Kid(t, side, n)
      <4>1. r = Opposite(side) BY <2>5, SideFacts
      <4>2. Opposite(r) = side BY <4>1, SideFacts
      <4>3. QED BY <2>0, <2>1, <4>2, ShapeFacts
    <3>2. f[c] = n BY <1>0, <2>2, <3>1
    <3>3. Furthest(Opposite(side), Away(t, u, side, c), f[c]) BY <2>3, <2>5, <3>2
    <3>4. QED BY <2>0, <2>2, <3>3
  <2>6. QED BY <2>4, <2>5
<1> HIDE DEF Q
<1>3. u[Top(t)] \subseteq Q BY <1>1, <1>2, Downward
<1>4. QED BY <1>3 DEF Q

\* There is such a way.
LEMMA ClimbingExists ==
  ASSUME NEW t, NEW u, Shape(t, u), NEW side \in Sides
  PROVE  \E f : Climbing(t, side, f)
<1> DEFINE W(n) == CHOOSE m : Furthest(Opposite(side), Away(t, u, side, n), m)
           g == [n \in Nodes |-> IF n \in u[Top(t)] THEN W(n) ELSE nil]
           f == [n \in Nodes |-> IF n # nil THEN g[n]
                                 ELSE IF Up(t, nil) # nil /\ nil = Kid(t, side, Up(t, nil))
                                      THEN g[Up(t, nil)] ELSE Up(t, nil)]
<1>0. /\ nil \in Nodes /\ Top(t) \in Nodes /\ Opposite(side) \in Sides
      /\ (\A n \in Nodes : Up(t, n) \in Nodes) /\ (\A n \in u[Top(t)] : n \in Nodes /\ n \in Keys /\ n # nil)
  BY InTree, KeyFacts, TreeFields, SideFacts DEF Shape
<1>1. ASSUME NEW n \in u[Top(t)] PROVE Furthest(Opposite(side), Away(t, u, side, n), W(n))
  <2>1. \E m : Furthest(Opposite(side), Away(t, u, side, n), m) BY AwayFound
  <2>2. QED BY <2>1, Zenon
<1>2. ASSUME NEW n \in u[Top(t)], NEW m, Furthest(Opposite(side), Away(t, u, side, n), m)
      PROVE  W(n) = m
  <2>1. Furthest(Opposite(side), Away(t, u, side, n), W(n)) BY <1>1
  <2>2. Away(t, u, side, n) \in SUBSET Keys BY AwayKeys
  <2> HIDE DEF W
  <2>3. QED BY <1>0, <1>2, <2>1, <2>2, OneFurthest
<1> HIDE DEF W
<1>3. /\ \A n \in u[Top(t)] : g[n] = W(n)
      /\ \A n \in Nodes \ u[Top(t)] : g[n] = nil
  BY <1>0
<1>4. /\ \A n \in Nodes : n # nil => f[n] = g[n]
      /\ f[nil] = IF Up(t, nil) # nil /\ nil = Kid(t, side, Up(t, nil)) THEN g[Up(t, nil)] ELSE Up(t, nil)
  BY <1>0
<1>5. DOMAIN f = Nodes /\ f = [n \in Nodes |-> f[n]] OBVIOUS
<1> HIDE DEF f, g
<1>6. ASSUME NEW n \in Nodes
      PROVE  f[n] = IF Up(t, n) # nil /\ n = Kid(t, side, Up(t, n)) THEN f[Up(t, n)] ELSE Up(t, n)
  <2>1. CASE n = nil
    <3>1. Up(t, nil) # nil => f[Up(t, nil)] = g[Up(t, nil)] BY <1>0, <1>4
    <3>2. QED BY <1>4, <2>1, <3>1
  <2>2. CASE n # nil /\ n \notin u[Top(t)]
    <3>1. n \in Keys BY <2>2, KeyFacts
    <3>2. Up(t, n) = nil BY <2>2, <3>1 DEF Shape
    <3>3. f[n] = nil BY <1>3, <1>4, <2>2
    <3>4. QED BY <3>2, <3>3
  <2>3. CASE n \in u[Top(t)] /\ n = Top(t)
    <3>1. Up(t, n) = nil BY <2>3, InTree
    <3>2. W(n) = nil BY <1>2, <2>3, AwayTop
    <3>3. f[n] = nil BY <1>0, <1>3, <1>4, <2>3, <3>2
    <3>4. QED BY <3>1, <3>3
  <2>4. CASE n \in u[Top(t)] /\ n # Top(t)
    <3> DEFINE p == Up(t, n)
    <3>0. p = Up(t, n) OBVIOUS
    <3> HIDE DEF p
    <3>1. p \in u[Top(t)] /\ p \in Nodes /\ p # nil /\ p \in Keys /\ \E r \in Sides : Kid(t, r, p) = n
      BY <1>0, <2>4, <3>0, InTree
    <3>2. PICK r \in Sides : Kid(t, r, p) = n BY <3>1
    <3>3. f[n] = W(n) /\ f[p] = W(p) /\ n # nil BY <1>0, <1>3, <1>4, <2>4, <3>1
    <3>4. /\ r = side => Away(t, u, side, n) = Away(t, u, side, p)
          /\ r # side => Furthest(Opposite(side), Away(t, u, side, n), p)
      BY <3>1, <3>2, <3>3, AwayBelow
    <3>5. CASE r = side
      <4>1. Furthest(Opposite(side), Away(t, u, side, n), W(p)) BY <1>1, <3>1, <3>4, <3>5
      <4>2. W(n) = W(p) BY <1>2, <2>4, <4>1
      <4>3. QED BY <3>0, <3>1, <3>2, <3>3, <3>5, <4>2
    <3>6. CASE r # side
      <4>1. W(n) = p BY <1>2, <2>4, <3>4, <3>6
      <4>2. n # Kid(t, side, p)
        <5>1. r = Opposite(side) BY <3>6, SideFacts
        <5>2. Opposite(r) = side BY <5>1, SideFacts
        <5>3. QED BY <3>1, <3>2, <3>3, <5>2, ShapeFacts
      <4>3. QED BY <3>0, <3>3, <4>1, <4>2
    <3>7. QED BY <3>5, <3>6
  <2>5. QED BY <2>1, <2>2, <2>3, <2>4
<1>7. f = [n \in Nodes |-> IF Up(t, n) # nil /\ n = Kid(t, side, Up(t, n)) THEN f[Up(t, n)] ELSE Up(t, n)]
  BY <1>5, <1>6
<1>8. Climbing(t, side, f) BY <1>7, ClimbingIs
<1>9. QED BY <1>8

\* The neighbour on a side is the next of the nodes on that side.
LEMMA NeighbourFinds ==
  ASSUME NEW t, NEW u, Shape(t, u), NEW side \in Sides, NEW n \in u[Top(t)]
  PROVE  Furthest(Opposite(side), {m \in u[Top(t)] : Before(side, m, n)}, Neighbour(t, side, n))
<1> DEFINE S == u[Top(t)]
           B == {m \in S : Before(side, m, n)}
           o == Opposite(side)
           c == Kid(t, side, n)
           d == Kid(t, o, n)
           A == Away(t, u, side, n)
<1>0. /\ S = u[Top(t)] /\ B = {m \in S : Before(side, m, n)} /\ o = Opposite(side)
      /\ c = Kid(t, side, n) /\ d = Kid(t, o, n) /\ A = {m \in S \ u[n] : Before(side, m, n)}
      /\ o \in Sides /\ Opposite(o) = side
  BY SideFacts DEF Away
<1>a. A = Away(t, u, side, n) OBVIOUS
<1> HIDE DEF S, B, o, c, d, A
<1>1. /\ n \in Keys /\ n \in Nodes /\ n # nil /\ S \subseteq Keys /\ Top(t) \in Nodes /\ n \in S
  BY <1>0, InTree, KeyFacts
<1>2. /\ u[n] = {n} \cup u[c] \cup u[d] /\ c \in Nodes /\ d \in Nodes /\ u[n] \subseteq S
      /\ u[c] \subseteq u[n] /\ n \in u[n] /\ u[nil] = {}
  <2>1. c \in Nodes /\ d \in Nodes BY <1>0, <1>1, ShapeFacts
  <2>2. u[n] \subseteq S BY <1>0, <1>1, Upward
  <2>3. u[nil] = {} BY DEF Shape
  <2>4. QED BY <1>0, <1>1, <2>1, <2>2, <2>3, ShapeFacts
<1>3. \A m \in u[c] : m \in Keys /\ Before(side, m, n)
  <2>1. \A m \in u[c] : m \in Keys BY <1>1, <1>2
  <2>2. QED BY <1>0, <1>1, <2>1 DEF Shape
<1>4. \A m \in u[d] : m \in Keys /\ ~Before(side, m, n)
  <2>1. \A m \in u[d] : m \in Keys BY <1>1, <1>2
  <2>2. \A m \in u[d] : Before(o, m, n) BY <1>0, <1>1, <2>1 DEF Shape
  <2>3. QED BY <1>0, <1>1, <2>1, <2>2, BeforeFacts
<1>5. ~Before(side, n, n) BY <1>1, BeforeFacts
<1>6. B = A \cup u[c] BY <1>0, <1>2, <1>3, <1>4, <1>5
<1>7. CASE c # nil
  <2> DEFINE y == Outermost(t, o, c)
  <2>0. y = Outermost(t, o, c) OBVIOUS
  <2> HIDE DEF y
  <2>1. Neighbour(t, side, n) = y BY <1>0, <1>7, <2>0, NeighbourDefined
  <2>2. c \in Keys BY <1>2, <1>7, KeyFacts
  <2>3. Extreme(u, o, c, y) BY <1>0, <2>0, <2>2, OutermostFinds
  <2>4. y \in u[c] /\ (\A k \in u[c] : k = y \/ Before(o, y, k)) BY <2>3 DEF Extreme
  <2>5. ASSUME NEW k \in A PROVE Before(o, y, k)
    <3>1. k \in u[Top(t)] \ u[n] /\ k \in Keys /\ Before(side, k, n) BY <1>0, <1>1
    <3>2. Before(o, n, k) BY <1>0, <1>1, <3>1, BeforeFacts
    <3>3. n \in u[Top(t)] /\ y \in u[n] BY <1>2, <2>4
    <3>4. QED BY <1>0, <1>2, <3>1, <3>2, <3>3, Convex
  <2>6. Furthest(o, B, y) BY <1>6, <2>4, <2>5 DEF Furthest
  <2>7. QED BY <1>0, <2>1, <2>6
<1>8. CASE c = nil
  <2> DEFINE g == CHOOSE f : Climbing(t, side, f)
  <2>1. \E f : Climbing(t, side, f) BY ClimbingExists
  <2>2. Climbing(t, side, g) BY <2>1, Zenon
  <2>3. Neighbour(t, side, n) = g[n] BY <1>0, <1>8, NeighbourDefined
  <2> HIDE DEF g
  <2>4. Furthest(Opposite(side), Away(t, u, side, n), g[n]) BY <2>2, ClimbingFinds
  <2>5. B = Away(t, u, side, n) BY <1>2, <1>6, <1>8, <1>a
  <2>6. QED BY <1>0, <2>3, <2>4, <2>5
<1>9. QED BY <1>7, <1>8

-----------------------------------------------------------------------------
(* Iteration *)

\* Iteration in both directions visits the keys in order, lower and upper bounds are
\* the least keys that are not less, or greater, and Find finds exactly the keys.
THEOREM IterationInOrder == Spec => []Traversable
<1>1. MapInv => Traversable
  <2>1. SUFFICES ASSUME MapInv, op.fix = "none" PROVE Traversable
    BY DEF Traversable
  <2>2. PICK u, b : Sound(tree, u, b) /\ u[Top(tree)] = contents
    BY <2>1 DEF MapInv, Held, Settled
  <2>3. tree \in Trees /\ Shape(tree, u) /\ contents \in SUBSET Keys BY <2>2, SoundFacts
  <2>4. "left" \in Sides /\ "right" \in Sides /\ Opposite("left") = "right" /\ Opposite("right") = "left"
    BY SideFacts
  <2>5. ASSUME NEW n \in contents
        PROVE  /\ Successor(tree, n) = LeastOf({m \in contents : m > n})
               /\ Predecessor(tree, n) = GreatestOf({m \in contents : m < n})
    <3>1. n \in u[Top(tree)] /\ n \in Int /\ (\A m \in contents : m \in Int) BY <2>2, <2>3, KeyFacts
    <3>2. Furthest("left", {m \in contents : Before("right", m, n)}, Neighbour(tree, "right", n))
      BY <2>2, <2>3, <2>4, <3>1, NeighbourFinds
    <3>3. Furthest("right", {m \in contents : Before("left", m, n)}, Neighbour(tree, "left", n))
      BY <2>2, <2>3, <2>4, <3>1, NeighbourFinds
    <3>4. /\ {m \in contents : Before("right", m, n)} = {m \in contents : m > n}
          /\ {m \in contents : Before("left", m, n)} = {m \in contents : m < n}
      BY <3>1 DEF Before
    <3>5. /\ {m \in contents : m > n} \in SUBSET Keys
          /\ {m \in contents : m < n} \in SUBSET Keys
      BY <2>3
    <3>6. Neighbour(tree, "right", n) = LeastOf({m \in contents : m > n})
      BY <3>2, <3>4, <3>5, FurthestIs
    <3>7. Neighbour(tree, "left", n) = GreatestOf({m \in contents : m < n})
      BY <3>3, <3>4, <3>5, FurthestIs
    <3>8. QED BY <3>6, <3>7, Zenon DEF Successor, Predecessor
  <2>6. Minimum(tree, tree.root) = LeastOf(contents) /\ Maximum(tree, tree.root) = GreatestOf(contents)
    <3>1. /\ Furthest("left", contents, Outermost(tree, "left", Top(tree)))
          /\ Furthest("right", contents, Outermost(tree, "right", Top(tree)))
      BY <2>2, <2>3, <2>4, OutermostFurthest
    <3>2. /\ Outermost(tree, "left", Top(tree)) = LeastOf(contents)
          /\ Outermost(tree, "right", Top(tree)) = GreatestOf(contents)
      BY <2>3, <3>1, FurthestIs
    <3>3. QED BY <3>2, Zenon DEF Minimum, Maximum, Top
  <2>7. ASSUME NEW k \in Keys
        PROVE  /\ LowerBound(tree, k) = LeastOf({m \in contents : m >= k})
               /\ UpperBound(tree, k) = LeastOf({m \in contents : m > k})
               /\ Find(tree, k) = IF k \in contents THEN k ELSE nil
    <3> DEFINE notless == {n \in Keys : n >= k}
               greater == {n \in Keys : n > k}
    <3>0. k \in Int /\ (\A n \in Keys : n \in Int) BY KeyFacts
    <3>1. /\ notless \in SUBSET Keys /\ greater \in SUBSET Keys
          /\ \A m \in notless : \A j \in Keys : m < j => j \in notless
          /\ \A m \in greater : \A j \in Keys : m < j => j \in greater
      BY <3>0
    <3>2. /\ contents \cap notless = {m \in contents : m >= k}
          /\ contents \cap greater = {m \in contents : m > k}
      BY <2>3
    <3>3. /\ LowerBound(tree, k) = Bound(tree, notless)
          /\ UpperBound(tree, k) = Bound(tree, greater)
      BY Zenon DEF LowerBound, UpperBound
    <3> HIDE DEF notless, greater
    <3>4. Furthest("left", contents \cap notless, Bound(tree, notless)) BY <2>2, <2>3, <3>1, BoundFinds
    <3>5. Furthest("left", contents \cap greater, Bound(tree, greater)) BY <2>2, <2>3, <3>1, BoundFinds
    <3>6. contents \cap notless \in SUBSET Keys /\ contents \cap greater \in SUBSET Keys BY <2>3
    <3>7. LeastOf(contents \cap notless) = Bound(tree, notless) BY <3>4, <3>6, FurthestIs
    <3>8. LeastOf(contents \cap greater) = Bound(tree, greater) BY <3>5, <3>6, FurthestIs
    <3>9. Find(tree, k) = IF k \in contents THEN k ELSE nil BY <2>2, <2>3, FindFinds
    <3>10. QED BY <3>2, <3>3, <3>7, <3>8, <3>9
  <2>8. QED BY <2>5, <2>6, <2>7 DEF Traversable
<1>2. QED BY <1>1, MapInvariant, PTL

=============================================================================
