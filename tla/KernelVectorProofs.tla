------------------------- MODULE KernelVectorProofs -------------------------
(* Proofs about KernelVector, for vectors of any size and values of any kind. *)
EXTENDS KernelVector, SequenceTheorems, TLAPS

\* All but Clear keep the storage and its recorded size together.
Honest(v) == DOMAIN elements[v] = 1 .. space[v]

IInv == TypeOK /\ SizeWithinSpace

-----------------------------------------------------------------------------
(* Storage *)

LEMMA CellFacts == Default \in Cell /\ Raw \in Cell /\ Values \subseteq Cell
  BY ValuesAssumption DEF Cell

\* Storage is a function on the positions up to some number.
LEMMA StorageIsSequence ==
  ASSUME NEW n \in Nat, NEW storage \in [1 .. n -> Cell]
  PROVE  storage \in Seq(Cell)
  BY SeqDef

LEMMA SequenceIsStorage ==
  ASSUME NEW storage \in Seq(Cell)
  PROVE  \E n \in Nat : storage \in [1 .. n -> Cell]
  BY SeqDef

LEMMA AtType == ASSUME TypeOK, NEW v \in Vectors, NEW i PROVE At(v, i) \in Cell
<1>1. PICK n \in Nat : elements[v] \in [1 .. n -> Cell]
  BY SequenceIsStorage DEF TypeOK
<1> QED
  BY <1>1, CellFacts DEF At

\* Overwriting storage leaves its positions as they are.
LEMMA OverwrittenStorage ==
  ASSUME NEW storage \in Seq(Cell), NEW new, \A i \in DOMAIN new : new[i] \in Cell
  PROVE  /\ Overwritten(storage, new) \in Seq(Cell)
         /\ DOMAIN Overwritten(storage, new) = DOMAIN storage
<1>1. PICK n \in Nat : storage \in [1 .. n -> Cell]
  BY SequenceIsStorage
<1>2. Overwritten(storage, new) \in [1 .. n -> Cell]
  BY <1>1 DEF Overwritten
<1> QED
  BY <1>1, <1>2, StorageIsSequence

\* Reserve leaves storage of the larger of the two sizes.
LEMMA RoomStorage ==
  ASSUME TypeOK, NEW v \in Vectors, NEW n \in Nat
  PROVE  /\ Room(v, n) \in Seq(Cell)
         /\ Larger(space[v], n) \in Nat
         /\ Honest(v) => DOMAIN Room(v, n) = 1 .. Larger(space[v], n)
<1>1. space[v] \in Nat /\ elements[v] \in Seq(Cell)
  BY DEF TypeOK
<1>2. CASE n <= space[v]
  BY <1>1, <1>2 DEF Room, Larger, Honest
<1>3. CASE ~ (n <= space[v])
  <2> DEFINE storage == [i \in 1 .. n |-> IF i <= size[v] THEN At(v, i) ELSE Raw]
  <2>1. storage \in [1 .. n -> Cell]
    BY AtType, CellFacts
  <2>2. Room(v, n) = storage /\ Larger(space[v], n) = n
    BY <1>1, <1>3 DEF Room, Larger
  <2> QED
    BY <2>1, <2>2, StorageIsSequence
<1> QED
  BY <1>2, <1>3

LEMMA ElementsStorage ==
  ASSUME TypeOK, NEW v \in Vectors
  PROVE  Elements(v) \in Seq(Cell) /\ DOMAIN Elements(v) = 1 .. size[v]
<1>1. size[v] \in Nat
  BY SizesAssumption DEF TypeOK
<1>2. Elements(v) \in [1 .. size[v] -> Cell]
  BY AtType DEF Elements
<1> QED
  BY <1>1, <1>2, StorageIsSequence

-----------------------------------------------------------------------------
(* Operations *)

\* What an operation that goes by its space, and allocates what it says, keeps.
LEMMA BecomeKeeps ==
  ASSUME IInv, NEW v \in Vectors, NEW m \in Nat, NEW n \in Nat,
         NEW storage \in Seq(Cell), m <= n, Become(v, m, n, storage)
  PROVE  /\ IInv'
         /\ CapacityAllocated /\ DOMAIN storage = 1 .. n => CapacityAllocated'
<1>1. size'[v] = m /\ space'[v] = n /\ elements'[v] = storage
  BY DEF Become, IInv, TypeOK
<1>2. \A w \in Vectors \ {v} : /\ size'[w] = size[w] /\ space'[w] = space[w]
                               /\ elements'[w] = elements[w]
  BY DEF Become, IInv, TypeOK
<1>3. TypeOK'
  BY SizesAssumption DEF Become, IInv, TypeOK
<1>4. SizeWithinSpace'
  BY <1>1, <1>2 DEF IInv, SizeWithinSpace
<1>5. CapacityAllocated /\ DOMAIN storage = 1 .. n => CapacityAllocated'
  BY <1>1, <1>2, <1>4 DEF CapacityAllocated
<1> QED
  BY <1>3, <1>4, <1>5 DEF IInv

\* What every step but Clear keeps
Kept == IInv' /\ (CapacityAllocated => CapacityAllocated')

\* An operation that keeps the space and overwrites elements in place
LEMMA InPlaceKeeps ==
  ASSUME IInv, NEW v \in Vectors, NEW m \in Nat, m <= space[v],
         NEW new, \A i \in DOMAIN new : new[i] \in Cell,
         Become(v, m, space[v], Overwritten(elements[v], new))
  PROVE  Kept
<1>1. space[v] \in Nat /\ elements[v] \in Seq(Cell)
  BY DEF IInv, TypeOK
<1>2. /\ Overwritten(elements[v], new) \in Seq(Cell)
      /\ DOMAIN Overwritten(elements[v], new) = DOMAIN elements[v]
  BY <1>1, OverwrittenStorage
<1>3. CapacityAllocated => DOMAIN elements[v] = 1 .. space[v]
  BY DEF CapacityAllocated
<1> HIDE DEF Overwritten
<1> QED
  BY <1>1, <1>2, <1>3, BecomeKeeps DEF Kept

\* An operation that first makes room for n elements
LEMMA RoomKeeps ==
  ASSUME IInv, NEW v \in Vectors, NEW m \in Nat, NEW n \in Nat,
         m <= Larger(space[v], n), NEW new, \A i \in DOMAIN new : new[i] \in Cell,
         Become(v, m, Larger(space[v], n), Overwritten(Room(v, n), new))
  PROVE  Kept
<1>1. /\ Room(v, n) \in Seq(Cell)
      /\ Larger(space[v], n) \in Nat
      /\ Honest(v) => DOMAIN Room(v, n) = 1 .. Larger(space[v], n)
  BY RoomStorage DEF IInv
<1>2. /\ Overwritten(Room(v, n), new) \in Seq(Cell)
      /\ DOMAIN Overwritten(Room(v, n), new) = DOMAIN Room(v, n)
  BY <1>1, OverwrittenStorage
<1>3. CapacityAllocated => Honest(v)
  BY DEF CapacityAllocated, Honest
<1> QED
  BY <1>1, <1>2, <1>3, BecomeKeeps DEF Kept

\* An operation that leaves a vector with storage that was allocated for it
LEMMA AnewKeeps ==
  ASSUME IInv, NEW v \in Vectors, NEW m \in Nat, NEW n \in Nat, m <= n,
         NEW storage \in [1 .. n -> Cell], Become(v, m, n, storage)
  PROVE  Kept
<1>1. storage \in Seq(Cell) /\ DOMAIN storage = 1 .. n
  BY StorageIsSequence
<1> QED
  BY <1>1, BecomeKeeps DEF Kept

LEMMA SizeFacts == ASSUME IInv, NEW v \in Vectors
                   PROVE  /\ size[v] \in Nat /\ space[v] \in Nat /\ size[v] <= space[v]
                          /\ elements[v] \in Seq(Cell)
  BY SizesAssumption DEF IInv, TypeOK, SizeWithinSpace

LEMMA ConstructKeeps == ASSUME IInv, NEW v \in Vectors, NEW n \in Nat, Construct(v, n)
                        PROVE  Kept
<1>1. Blank(1 .. n) \in [1 .. n -> Cell]
  BY CellFacts DEF Blank
<1> QED
  BY <1>1, AnewKeeps DEF Construct

LEMMA ElementsAnew == ASSUME IInv, NEW w \in Vectors
                      PROVE  Elements(w) \in [1 .. size[w] -> Cell]
  BY AtType DEF Elements, IInv

LEMMA CopyKeeps == ASSUME IInv, NEW v \in Vectors, NEW w \in Vectors, Copy(v, w)
                   PROVE  Kept
<1>1. Become(v, size[w], size[w], Elements(w))
  BY DEF Copy
<1>2. size[w] \in Nat /\ size[w] <= size[w]
  BY SizeFacts
<1> QED
  BY <1>1, <1>2, ElementsAnew, AnewKeeps

LEMMA AssignKeeps == ASSUME IInv, NEW v \in Vectors, NEW w \in Vectors, Assign(v, w)
                     PROVE  Kept
<1>1. CASE AssignAnew(v, w)
  <2>1. Become(v, size[w], size[w], Elements(w))
    BY <1>1 DEF AssignAnew
  <2>2. size[w] \in Nat /\ size[w] <= size[w]
    BY SizeFacts
  <2> QED
    BY <2>1, <2>2, ElementsAnew, AnewKeeps
<1>2. CASE AssignInPlace(v, w)
  <2> DEFINE new == [i \in {1} |-> At(w, i)]
  <2>1. \A i \in DOMAIN new : new[i] \in Cell
    BY AtType DEF IInv
  <2>2. size[w] \in Nat /\ size[w] <= space[v]
    BY <1>2, SizeFacts DEF AssignInPlace
  <2>3. Become(v, size[w], space[v], Overwritten(elements[v], new))
    BY <1>2 DEF AssignInPlace
  <2> HIDE DEF new
  <2> QED
    BY <2>1, <2>2, <2>3, InPlaceKeeps
<1> QED
  BY <1>1, <1>2 DEF Assign

LEMMA ReserveKeeps == ASSUME IInv, NEW v \in Vectors, NEW n \in Nat, Reserve(v, n)
                      PROVE  Kept
<1>1. /\ Room(v, n) \in Seq(Cell)
      /\ Larger(space[v], n) \in Nat
      /\ Honest(v) => DOMAIN Room(v, n) = 1 .. Larger(space[v], n)
  BY RoomStorage DEF IInv
<1>2. size[v] \in Nat /\ size[v] <= Larger(space[v], n)
  BY SizeFacts DEF Larger
<1>3. CapacityAllocated => Honest(v)
  BY DEF CapacityAllocated, Honest
<1> QED
  BY <1>1, <1>2, <1>3, BecomeKeeps DEF Kept, Reserve

LEMMA ResizeKeeps ==
  ASSUME IInv, NEW v \in Vectors, NEW n \in Nat, NEW val, Resize(v, n, val)
  PROVE  Kept
<1> DEFINE new == Blank(size[v] + 1 .. n)
<1>1. \A i \in DOMAIN new : new[i] \in Cell
  BY CellFacts DEF Blank
<1>2. n <= Larger(space[v], n)
  BY SizeFacts DEF Larger
<1>3. Become(v, n, Larger(space[v], n), Overwritten(Room(v, n), new))
  BY DEF Resize
<1> HIDE DEF new
<1> QED
  BY <1>1, <1>2, <1>3, RoomKeeps

LEMMA PushBackKeeps ==
  ASSUME IInv, NEW v \in Vectors, NEW d \in Cell, PushBack(v, d)
  PROVE  Kept
<1> DEFINE needed == IF space[v] = 0 THEN FirstSpace
                     ELSE IF size[v] = space[v] THEN 2 * space[v] ELSE space[v]
           new == [i \in {size[v] + 1} |-> d]
<1>1. needed \in Nat /\ Larger(space[v], needed) = needed /\ size[v] + 1 <= needed
  BY SizeFacts, SizesAssumption DEF Larger
<1>2. \A i \in DOMAIN new : new[i] \in Cell
  BY CellFacts
<1>3. Become(v, size[v] + 1, needed, Overwritten(Room(v, needed), new))
  BY DEF PushBack
<1>4. size[v] + 1 \in Nat
  BY SizeFacts
<1> HIDE DEF new, needed
<1> QED
  BY <1>1, <1>2, <1>3, <1>4, RoomKeeps

LEMMA PushBackOwnKeeps ==
  ASSUME IInv, NEW v \in Vectors, NEW i, PushBackOwn(v, i)
  PROVE  Kept
<1>1. At(v, i) \in Cell
  BY AtType DEF IInv
<1>2. \E d \in Cell : PushBack(v, d)
  BY <1>1 DEF PushBackOwn
<1> QED
  BY <1>2, PushBackKeeps

LEMMA PopBackKeeps == ASSUME IInv, NEW v \in Vectors, PopBack(v)
                      PROVE  Kept
<1> DEFINE new == Blank({size[v]})
<1>1. \A i \in DOMAIN new : new[i] \in Cell
  BY CellFacts DEF Blank
<1>2. size[v] - 1 \in Nat /\ size[v] - 1 <= space[v]
  BY SizeFacts DEF PopBack
<1>3. Become(v, size[v] - 1, space[v], Overwritten(elements[v], new))
  BY DEF PopBack
<1> HIDE DEF new
<1> QED
  BY <1>1, <1>2, <1>3, InPlaceKeeps

LEMMA AppendAllKeeps ==
  ASSUME IInv, NEW v \in Vectors, NEW w \in Vectors, AppendAll(v, w)
  PROVE  Kept
<1> DEFINE sum == size[v] + size[w]
           needed == 2 * Larger(size[w], size[v])
           new == [i \in size[v] + 1 .. sum |-> At(w, i - size[v])]
<1>1. sum \in Nat /\ needed \in Nat /\ sum <= Larger(space[v], needed)
  BY SizeFacts DEF Larger
<1>2. \A i \in DOMAIN new : new[i] \in Cell
  BY AtType DEF IInv
<1>3. Become(v, sum, Larger(space[v], needed), Overwritten(Room(v, needed), new))
  BY DEF AppendAll
<1> HIDE DEF sum, needed, new
<1> QED
  BY <1>1, <1>2, <1>3, RoomKeeps

LEMMA PlusKeeps ==
  ASSUME IInv, NEW u \in Vectors, NEW v \in Vectors, NEW w \in Vectors, Plus(u, v, w)
  PROVE  Kept
<1> DEFINE sum == size[v] + size[w]
           needed == 2 * Larger(size[w], size[v])
           storage == [i \in 1 .. needed |-> IF i <= size[v] THEN At(v, i)
                                             ELSE IF i <= sum THEN At(w, i - size[v]) ELSE Raw]
<1>1. sum \in Nat /\ needed \in Nat /\ sum <= needed
  BY SizeFacts DEF Larger
<1>2. storage \in [1 .. needed -> Cell]
  BY AtType, CellFacts DEF IInv
<1>3. Become(u, sum, needed, storage)
  BY DEF Plus
<1> HIDE DEF sum, needed, storage
<1> QED
  BY <1>1, <1>2, <1>3, AnewKeeps

LEMMA SwapKeeps ==
  ASSUME IInv, NEW v \in Vectors, NEW i, NEW j, Swap(v, i, j)
  PROVE  Kept
<1> DEFINE new == [k \in {i, j} |-> At(v, IF k = i THEN j ELSE i)]
<1>1. \A k \in DOMAIN new : new[k] \in Cell
  BY AtType DEF IInv
<1>2. Become(v, size[v], space[v], Overwritten(elements[v], new))
  BY DEF Swap
<1> HIDE DEF new
<1> QED
  BY <1>1, <1>2, SizeFacts, InPlaceKeeps

LEMMA EraseKeeps ==
  ASSUME IInv, NEW v \in Vectors, NEW i \in Nat \ {0}, Erase(v, i)
  PROVE  Kept
<1> DEFINE new == [k \in (i .. size[v] - 2) \cup {size[v]} |->
                      IF k = size[v] THEN Default ELSE At(v, k + 1)]
<1>1. \A k \in DOMAIN new : new[k] \in Cell
  BY AtType, CellFacts DEF IInv
<1>2. size[v] - 1 \in Nat /\ size[v] - 1 <= space[v]
  BY SizeFacts DEF Erase
<1>3. Become(v, size[v] - 1, space[v], Overwritten(elements[v], new))
  BY DEF Erase
<1> HIDE DEF new
<1> QED
  BY <1>1, <1>2, <1>3, InPlaceKeeps

LEMMA EraseUnorderedKeeps ==
  ASSUME IInv, NEW v \in Vectors, NEW i \in Nat \ {0}, EraseUnordered(v, i)
  PROVE  Kept
<1> DEFINE new == [k \in {i, size[v]} |->
                      IF k = size[v] THEN Default ELSE At(v, size[v])]
<1>1. \A k \in DOMAIN new : new[k] \in Cell
  BY AtType, CellFacts DEF IInv
<1>2. size[v] - 1 \in Nat /\ size[v] - 1 <= space[v]
  BY SizeFacts DEF EraseUnordered
<1>3. Become(v, size[v] - 1, space[v], Overwritten(elements[v], new))
  BY DEF EraseUnordered
<1> HIDE DEF new
<1> QED
  BY <1>1, <1>2, <1>3, InPlaceKeeps

\* Clear keeps the size within the space, and that is all.
LEMMA ClearKeeps == ASSUME IInv, NEW v \in Vectors, Clear(v)
                    PROVE  IInv'
<1> DEFINE storage == Overwritten(elements[v], Blank(1 .. size[v]))
<1>1. \A k \in DOMAIN Blank(1 .. size[v]) : Blank(1 .. size[v])[k] \in Cell
  BY CellFacts DEF Blank
<1>2. storage \in Seq(Cell)
  BY <1>1, SizeFacts, OverwrittenStorage
<1>3. Become(v, 0, space[v] + size[v], storage)
  BY DEF Clear
<1>4. space[v] + size[v] \in Nat /\ 0 <= space[v] + size[v]
  BY SizeFacts
<1> HIDE DEF storage
<1> QED
  BY <1>2, <1>3, <1>4, BecomeKeeps

\* What one step does
LEMMA StepKeeps ==
  ASSUME IInv, [Next]_vars
  PROVE  /\ IInv'
         /\ Kept \/ \E v \in Vectors : Clear(v)
<1>0. \A n \in 0 .. MaxSize : n \in Nat
  BY SizesAssumption
<1>1. CASE UNCHANGED vars
  <2>1. IInv'
    BY <1>1 DEF vars, IInv, TypeOK, SizeWithinSpace
  <2>2. CapacityAllocated => CapacityAllocated'
    BY <1>1 DEF vars, CapacityAllocated, SizeWithinSpace
  <2> QED
    BY <2>1, <2>2 DEF Kept
<1>2. ASSUME NEW v \in Vectors, ~ Clear(v),
             \/ \E n \in 0 .. MaxSize : Construct(v, n) \/ Reserve(v, n)
             \/ \E n \in 0 .. MaxSize, val \in Values : Resize(v, n, val)
             \/ \E w \in Vectors : Copy(v, w) \/ Assign(v, w) \/ AppendAll(v, w)
             \/ \E u, w \in Vectors : Plus(u, v, w)
             \/ \E d \in Values : PushBack(v, d)
             \/ PopBack(v) \/ Clear(v)
             \/ \E i, j \in 1 .. MaxSize : Swap(v, i, j)
             \/ \E i \in 1 .. MaxSize : PushBackOwn(v, i) \/ Erase(v, i) \/ EraseUnordered(v, i)
      PROVE  Kept
  <2>1. \A i \in 1 .. MaxSize : i \in Nat \ {0}
    BY SizesAssumption
  <2>2. \A d \in Values : d \in Cell
    BY CellFacts
  <2> QED
    BY <1>0, <1>2, <2>1, <2>2, ConstructKeeps, ReserveKeeps, ResizeKeeps, CopyKeeps,
       AssignKeeps, AppendAllKeeps, PlusKeeps, PushBackKeeps, PushBackOwnKeeps,
       PopBackKeeps, SwapKeeps, EraseKeeps, EraseUnorderedKeeps
<1>3. Kept => IInv'
  BY DEF Kept
<1> QED
  BY <1>1, <1>2, <1>3, ClearKeeps DEF Next

-----------------------------------------------------------------------------
(* Sequences *)

content == [v \in Vectors |-> Elements(v)]

\* The sequence in a vector whose storage is what its space says
LEMMA ContentFacts ==
  ASSUME IInv, CapacityAllocated, NEW v \in Vectors
  PROVE  /\ content[v] \in Seq(Cell) /\ Len(content[v]) = size[v] /\ size[v] \in Nat
         /\ \A i \in 1 .. size[v] : /\ i \in DOMAIN elements[v] /\ At(v, i) = elements[v][i]
                                    /\ content[v][i] = elements[v][i]
<1>1. content[v] = Elements(v) BY DEF content
<1>2. Elements(v) \in Seq(Cell) /\ DOMAIN Elements(v) = 1 .. size[v]
  BY ElementsStorage DEF IInv
<1>3. size[v] \in Nat /\ space[v] \in Nat /\ size[v] <= space[v] BY SizeFacts
<1>4. Len(Elements(v)) = size[v] BY <1>2, <1>3
<1>5. ASSUME NEW i \in 1 .. size[v]
      PROVE  i \in DOMAIN elements[v] /\ At(v, i) = elements[v][i] /\ Elements(v)[i] = At(v, i)
  <2>1. i \in DOMAIN elements[v] BY <1>3 DEF CapacityAllocated
  <2>2. At(v, i) = elements[v][i] BY <2>1 DEF At
  <2>3. Elements(v)[i] = At(v, i) BY DEF Elements
  <2> QED
    BY <2>1, <2>2, <2>3
<1> QED
  BY <1>1, <1>2, <1>3, <1>4, <1>5

\* A vector whose new storage begins with the elements of a sequence becomes it.
LEMMA BecomesSequence ==
  ASSUME IInv, NEW v \in Vectors, NEW m, NEW n, NEW storage, Become(v, m, n, storage),
         NEW s \in Seq(Cell), Len(s) = m,
         \A i \in 1 .. m : i \in DOMAIN storage /\ storage[i] = s[i]
  PROVE  Sequence!Become(v, s)
<1>1. size'[v] = m /\ elements'[v] = storage /\ m <= MaxSize /\ m \in Nat
  BY DEF Become, IInv, TypeOK
<1>2. \A w \in Vectors \ {v} : size'[w] = size[w] /\ elements'[w] = elements[w]
  BY DEF Become, IInv, TypeOK
<1>3. Elements(v)' = s
  <2>1. Elements(v)' = [i \in 1 .. m |-> IF i \in DOMAIN storage THEN storage[i] ELSE Raw]
    BY <1>1 DEF Elements, At
  <2>2. s = [i \in 1 .. m |-> s[i]]
    BY <1>1
  <2>3. \A i \in 1 .. m : (IF i \in DOMAIN storage THEN storage[i] ELSE Raw) = s[i]
    OBVIOUS
  <2> QED
    BY <2>1, <2>2, <2>3
<1>4. \A w \in Vectors \ {v} : Elements(w)' = Elements(w)
  BY <1>2 DEF Elements, At
<1>5. content' = [content EXCEPT ![v] = s]
  BY <1>3, <1>4 DEF content
<1> QED
  BY <1>1, <1>5 DEF Sequence!Become, content

\* The elements are where they were when there is room for more.
LEMMA RoomContent ==
  ASSUME IInv, CapacityAllocated, NEW v \in Vectors, NEW n \in Nat
  PROVE  /\ DOMAIN Room(v, n) = 1 .. Larger(space[v], n)
         /\ Larger(space[v], n) \in Nat /\ size[v] <= Larger(space[v], n)
         /\ n <= Larger(space[v], n)
         /\ \A i \in 1 .. size[v] : Room(v, n)[i] = content[v][i]
<1>1. DOMAIN Room(v, n) = 1 .. Larger(space[v], n)
  BY RoomStorage DEF IInv, CapacityAllocated, Honest
<1>2. size[v] \in Nat /\ space[v] \in Nat /\ size[v] <= space[v] BY SizeFacts
<1>3. Larger(space[v], n) \in Nat /\ size[v] <= Larger(space[v], n) /\ n <= Larger(space[v], n)
  BY <1>2 DEF Larger
<1>4. ASSUME NEW i \in 1 .. size[v] PROVE Room(v, n)[i] = content[v][i]
  <2>1. content[v][i] = elements[v][i] /\ At(v, i) = elements[v][i] BY ContentFacts
  <2>2. CASE n <= space[v]
    BY <2>1, <2>2 DEF Room
  <2>3. CASE ~ (n <= space[v])
    <3>1. i \in 1 .. n /\ i <= size[v] BY <1>2, <2>3
    <3>2. Room(v, n) = [k \in 1 .. n |-> IF k <= size[v] THEN At(v, k) ELSE Raw]
      BY <2>3 DEF Room
    <3> QED
      BY <2>1, <3>1, <3>2
  <2> QED
    BY <2>2, <2>3
<1> QED
  BY <1>1, <1>3, <1>4

LEMMA ConstructExact ==
  ASSUME IInv, NEW v \in Vectors, NEW n \in Nat, Construct(v, n)
  PROVE  Sequence!Construct(v, n)
<1> DEFINE s == [i \in 1 .. n |-> Default]
<1>1. s \in [1 .. n -> Cell]
  BY CellFacts
<1>2. s \in Seq(Cell) /\ Len(s) = n /\ Blank(1 .. n) = s
  BY <1>1, StorageIsSequence DEF Blank
<1>3. Become(v, n, n, s)
  BY <1>2 DEF Construct
<1>4. DOMAIN s = 1 .. n OBVIOUS
<1> HIDE DEF s
<1>5. Sequence!Become(v, s)
  BY <1>2, <1>3, <1>4, BecomesSequence
<1> QED
  BY <1>5 DEF Sequence!Construct, s

LEMMA ReserveExact ==
  ASSUME IInv, CapacityAllocated, NEW v \in Vectors, NEW n \in Nat, Reserve(v, n)
  PROVE  UNCHANGED Elements(v)
<1>1. Become(v, size[v], Larger(space[v], n), Room(v, n))
  BY DEF Reserve
<1>2. size'[v] = size[v] /\ elements'[v] = Room(v, n)
  BY <1>1 DEF Become, IInv, TypeOK
<1>3. ASSUME NEW i \in 1 .. size[v] PROVE At(v, i)' = At(v, i)
  <2> DEFINE top == Larger(space[v], n)
  <2>0. /\ DOMAIN Room(v, n) = 1 .. top /\ top \in Nat
        /\ size[v] <= top /\ n <= top
        /\ \A k \in 1 .. size[v] : Room(v, n)[k] = content[v][k]
    BY RoomContent
  <2> HIDE DEF top
  <2>1. i \in DOMAIN Room(v, n) /\ Room(v, n)[i] = content[v][i]
    BY <2>0, SizeFacts
  <2>2. content[v][i] = At(v, i) BY ContentFacts
  <2> QED
    BY <1>2, <2>1, <2>2 DEF At
<1> QED
  BY <1>2, <1>3 DEF Elements

LEMMA ResizeExact ==
  ASSUME IInv, CapacityAllocated, NEW v \in Vectors, NEW n \in Nat, Resize(v, n, Default)
  PROVE  Sequence!Resize(v, n, Default)
<1> DEFINE s == [i \in 1 .. n |-> IF i <= Len(content[v]) THEN content[v][i] ELSE Default]
           storage == Overwritten(Room(v, n), Blank(size[v] + 1 .. n))
<1>1. content[v] \in Seq(Cell) /\ Len(content[v]) = size[v] /\ size[v] \in Nat
  BY ContentFacts
<1>2. s \in [1 .. n -> Cell]
  BY <1>1, CellFacts
<1>3. s \in Seq(Cell) /\ Len(s) = n
  BY <1>2, StorageIsSequence
<1>4. Become(v, n, Larger(space[v], n), storage)
  BY DEF Resize
<1>5. ASSUME NEW i \in 1 .. n PROVE i \in DOMAIN storage /\ storage[i] = s[i]
  <2> DEFINE top == Larger(space[v], n)
  <2>0. /\ DOMAIN Room(v, n) = 1 .. top /\ top \in Nat
        /\ size[v] <= top /\ n <= top
        /\ \A k \in 1 .. size[v] : Room(v, n)[k] = content[v][k]
    BY RoomContent
  <2> HIDE DEF top
  <2>1. i \in DOMAIN Room(v, n) /\ (i <= size[v] => Room(v, n)[i] = content[v][i])
    BY <1>1, <2>0
  <2>2. i <= size[v] \/ i \in size[v] + 1 .. n
    BY <1>1
  <2> QED
    BY <1>1, <2>1, <2>2 DEF Overwritten, Blank
<1> HIDE DEF storage, s
<1>6. Sequence!Become(v, s)
  BY <1>3, <1>4, <1>5, BecomesSequence
<1> QED
  BY <1>6 DEF Sequence!Resize, s, content

LEMMA PushBackExact ==
  ASSUME IInv, CapacityAllocated, NEW v \in Vectors, NEW d \in Cell, PushBack(v, d)
  PROVE  Sequence!PushBack(v, d)
<1> DEFINE needed == IF space[v] = 0 THEN FirstSpace
                     ELSE IF size[v] = space[v] THEN 2 * space[v] ELSE space[v]
           storage == Overwritten(Room(v, needed), [i \in {size[v] + 1} |-> d])
           s == Append(content[v], d)
<1>1. content[v] \in Seq(Cell) /\ Len(content[v]) = size[v] /\ size[v] \in Nat /\ d \in Cell
  BY ContentFacts, CellFacts
<1>2. s \in Seq(Cell) /\ Len(s) = size[v] + 1 /\ s[size[v] + 1] = d
      /\ \A i \in 1 .. size[v] : s[i] = content[v][i]
  BY <1>1
<1>3. needed \in Nat /\ size[v] + 1 <= needed
  BY SizeFacts, SizesAssumption
<1>4. Become(v, size[v] + 1, needed, storage)
  BY DEF PushBack
<1> HIDE DEF s, needed
<1>5. ASSUME NEW i \in 1 .. size[v] + 1 PROVE i \in DOMAIN storage /\ storage[i] = s[i]
  <2> DEFINE top == Larger(space[v], needed)
  <2>0. /\ DOMAIN Room(v, needed) = 1 .. top /\ top \in Nat
        /\ size[v] <= top /\ needed <= top
        /\ \A k \in 1 .. size[v] : Room(v, needed)[k] = content[v][k]
    BY <1>3, RoomContent
  <2> HIDE DEF top
  <2>1. i \in DOMAIN Room(v, needed) /\ (i <= size[v] => Room(v, needed)[i] = content[v][i])
    BY <1>1, <1>3, <2>0
  <2>2. i \in 1 .. size[v] \/ i = size[v] + 1
    BY <1>1
  <2> QED
    BY <1>1, <1>2, <2>1, <2>2 DEF Overwritten
<1> HIDE DEF storage
<1>6. Sequence!Become(v, s)
  BY <1>2, <1>4, <1>5, BecomesSequence
<1> QED
  BY <1>6 DEF Sequence!PushBack, s, content

LEMMA PushBackOwnExact ==
  ASSUME IInv, CapacityAllocated, NEW v \in Vectors, NEW i \in 1 .. size[v],
         size[v] < space[v], PushBackOwn(v, i)
  PROVE  Sequence!PushBack(v, At(v, i))
<1>1. size[v] # space[v]
  BY SizeFacts
<1>2. PushBack(v, At(v, i))
  BY <1>1 DEF PushBackOwn
<1>3. At(v, i) \in Cell
  BY AtType DEF IInv
<1> QED
  BY <1>2, <1>3, PushBackExact

LEMMA PopBackExact ==
  ASSUME IInv, CapacityAllocated, NEW v \in Vectors, PopBack(v)
  PROVE  Sequence!PopBack(v)
<1> DEFINE storage == Overwritten(elements[v], Blank({size[v]}))
           s == SubSeq(content[v], 1, Len(content[v]) - 1)
<1>1. content[v] \in Seq(Cell) /\ Len(content[v]) = size[v] /\ size[v] \in Nat \ {0}
  BY ContentFacts DEF PopBack
<1>2. s \in Seq(Cell) /\ Len(s) = size[v] - 1
      /\ \A i \in 1 .. size[v] - 1 : s[i] = content[v][i]
  BY <1>1
<1>3. Become(v, size[v] - 1, space[v], storage)
  BY DEF PopBack
<1> HIDE DEF s
<1>4. ASSUME NEW i \in 1 .. size[v] - 1 PROVE i \in DOMAIN storage /\ storage[i] = s[i]
  <2>1. i \in 1 .. size[v] /\ i # size[v]
    BY <1>1
  <2>2. i \in DOMAIN elements[v] /\ content[v][i] = elements[v][i]
    BY <2>1, ContentFacts
  <2> QED
    BY <1>2, <2>1, <2>2 DEF Overwritten, Blank
<1> HIDE DEF storage
<1>5. Sequence!Become(v, s)
  BY <1>2, <1>3, <1>4, BecomesSequence
<1> QED
  BY <1>5 DEF Sequence!PopBack, s, content

LEMMA ClearExact ==
  ASSUME IInv, NEW v \in Vectors, Clear(v)
  PROVE  Sequence!Construct(v, 0)
<1> DEFINE s == [i \in 1 .. 0 |-> Default]
           storage == Overwritten(elements[v], Blank(1 .. size[v]))
<1>1. s \in Seq(Cell) /\ Len(s) = 0
  BY CellFacts
<1>2. Become(v, 0, space[v] + size[v], storage)
  BY DEF Clear
<1>3. \A i \in 1 .. 0 : FALSE OBVIOUS
<1> HIDE DEF s, storage
<1>4. Sequence!Become(v, s)
  BY <1>1, <1>2, <1>3, BecomesSequence
<1> QED
  BY <1>4 DEF Sequence!Construct, s

LEMMA SwapExact ==
  ASSUME IInv, CapacityAllocated, NEW v \in Vectors,
         NEW i \in 1 .. size[v], NEW j \in 1 .. size[v], Swap(v, i, j)
  PROVE  Sequence!Swap(v, i, j)
<1> DEFINE storage == Overwritten(elements[v], [k \in {i, j} |-> At(v, IF k = i THEN j ELSE i)])
           s == [content[v] EXCEPT ![i] = content[v][j], ![j] = content[v][i]]
<1>1. content[v] \in Seq(Cell) /\ Len(content[v]) = size[v] /\ size[v] \in Nat
      /\ \A k \in 1 .. size[v] : /\ k \in DOMAIN elements[v] /\ At(v, k) = elements[v][k]
                                 /\ content[v][k] = elements[v][k]
  BY ContentFacts
<1>2. s \in Seq(Cell) /\ Len(s) = size[v]
      /\ \A k \in 1 .. size[v] : s[k] = IF k = j THEN content[v][i]
                                       ELSE IF k = i THEN content[v][j] ELSE content[v][k]
  BY <1>1
<1>3. Become(v, size[v], space[v], storage)
  BY DEF Swap
<1> HIDE DEF s
<1>4. ASSUME NEW k \in 1 .. size[v] PROVE k \in DOMAIN storage /\ storage[k] = s[k]
  BY <1>1, <1>2 DEF Overwritten
<1> HIDE DEF storage
<1>5. Sequence!Become(v, s)
  BY <1>2, <1>3, <1>4, BecomesSequence
<1> QED
  BY <1>5 DEF Sequence!Swap, s, content

LEMMA EraseUnorderedExact ==
  ASSUME IInv, CapacityAllocated, NEW v \in Vectors, NEW i \in 1 .. size[v],
         EraseUnordered(v, i)
  PROVE  Sequence!EraseUnordered(v, i)
<1> DEFINE n == size[v]
           storage == Overwritten(elements[v], [k \in {i, n} |->
                                                   IF k = n THEN Default ELSE At(v, n)])
           s == [k \in 1 .. Len(content[v]) - 1 |->
                    content[v][IF k = i THEN Len(content[v]) ELSE k]]
<1>1. content[v] \in Seq(Cell) /\ Len(content[v]) = n /\ n \in Nat \ {0}
      /\ \A k \in 1 .. n : /\ k \in DOMAIN elements[v] /\ At(v, k) = elements[v][k]
                           /\ content[v][k] = elements[v][k]
  BY ContentFacts
<1>2. s \in [1 .. n - 1 -> Cell] /\ n - 1 \in Nat
  BY <1>1
<1>3. s \in Seq(Cell) /\ Len(s) = n - 1
  <2> HIDE DEF s, n
  <2>1. s \in Seq(Cell)
    BY <1>2, StorageIsSequence
  <2> QED
    BY <1>2, <2>1
<1>4. Become(v, n - 1, space[v], storage)
  BY DEF EraseUnordered
<1>5. ASSUME NEW k \in 1 .. n - 1 PROVE k \in DOMAIN storage /\ storage[k] = s[k]
  <2>1. k \in 1 .. n /\ k # n /\ n \in 1 .. n BY <1>1
  <2> QED
    BY <1>1, <2>1 DEF Overwritten
<1> HIDE DEF s, storage
<1>6. Sequence!Become(v, s)
  BY <1>3, <1>4, <1>5, BecomesSequence
<1> QED
  BY <1>6 DEF Sequence!EraseUnordered, s, content

LEMMA AssignExact ==
  ASSUME IInv, CapacityAllocated, NEW v \in Vectors, NEW w \in Vectors,
         Copy(v, w) \/ AssignAnew(v, w)
  PROVE  Sequence!Assign(v, w)
<1>1. Become(v, size[w], size[w], Elements(w))
  BY DEF Copy, AssignAnew
<1>2. content[w] \in Seq(Cell) /\ Len(content[w]) = size[w] /\ Elements(w) = content[w]
  BY ContentFacts DEF content
<1>3. DOMAIN Elements(w) = 1 .. size[w]
  BY DEF Elements
<1>4. Sequence!Become(v, content[w])
  BY <1>1, <1>2, <1>3, BecomesSequence
<1> QED
  BY <1>4 DEF Sequence!Assign, content

LEMMA ConcatFacts ==
  ASSUME NEW S, NEW p \in Seq(S), NEW q \in Seq(S)
  PROVE  /\ p \o q \in Seq(S) /\ Len(p \o q) = Len(p) + Len(q)
         /\ \A i \in 1 .. Len(p) : (p \o q)[i] = p[i]
         /\ \A i \in Len(p) + 1 .. Len(p) + Len(q) : (p \o q)[i] = q[i - Len(p)]
OBVIOUS

\* Two sequences in storage, one behind the other
BothIn(storage, p, q) ==
  \A i \in 1 .. Len(p) + Len(q) : /\ i \in DOMAIN storage
                                  /\ i <= Len(p) => storage[i] = p[i]
                                  /\ i > Len(p) => storage[i] = q[i - Len(p)]
OneIn(storage, s) == \A i \in 1 .. Len(s) : i \in DOMAIN storage /\ storage[i] = s[i]

LEMMA Joined ==
  ASSUME NEW S, NEW p \in Seq(S), NEW q \in Seq(S), NEW storage, BothIn(storage, p, q)
  PROVE  OneIn(storage, p \o q)
<1> SUFFICES ASSUME NEW i \in 1 .. Len(p) + Len(q) PROVE storage[i] = (p \o q)[i]
  BY DEF BothIn, OneIn
<1>1. CASE i <= Len(p)
  <2>1. i \in 1 .. Len(p) BY <1>1
  <2>2. storage[i] = p[i] BY <1>1 DEF BothIn
  <2> QED
    BY <2>1, <2>2, ConcatFacts
<1>2. CASE i > Len(p)
  <2>1. i \in Len(p) + 1 .. Len(p) + Len(q) BY <1>2
  <2>2. storage[i] = q[i - Len(p)] BY <1>2 DEF BothIn
  <2> QED
    BY <2>1, <2>2, ConcatFacts
<1> QED
  BY <1>1, <1>2

LEMMA AppendAllExact ==
  ASSUME IInv, CapacityAllocated, NEW v \in Vectors, NEW w \in Vectors, AppendAll(v, w)
  PROVE  Sequence!Join(v, v, w)
<1> DEFINE sum == size[v] + size[w]
           needed == 2 * Larger(size[w], size[v])
           storage == Overwritten(Room(v, needed),
                                  [i \in size[v] + 1 .. sum |-> At(w, i - size[v])])
<1>1. sum \in Nat /\ needed \in Nat /\ sum <= needed /\ size[v] \in Nat /\ size[w] \in Nat
  BY SizeFacts DEF Larger
<1>2. Become(v, sum, Larger(space[v], needed), storage)
  BY DEF AppendAll
<1> HIDE DEF needed
<1> DEFINE top == Larger(space[v], needed)
<1>3. /\ DOMAIN Room(v, needed) = 1 .. top /\ top \in Nat /\ needed <= top
      /\ \A k \in 1 .. size[v] : Room(v, needed)[k] = content[v][k]
  BY <1>1, RoomContent
<1> HIDE DEF top
<1>4. \A i \in 1 .. sum : /\ i \in DOMAIN storage
                          /\ i <= size[v] => storage[i] = content[v][i]
                          /\ i > size[v] => storage[i] = At(w, i - size[v])
  <2> TAKE i \in 1 .. sum
  <2>1. i \in DOMAIN Room(v, needed) /\ (i <= size[v] => Room(v, needed)[i] = content[v][i])
    BY <1>1, <1>3
  <2>2. i > size[v] <=> i \in size[v] + 1 .. sum
    BY <1>1
  <2> QED
    BY <1>1, <2>1, <2>2 DEF Overwritten
<1> HIDE DEF storage
<1> DEFINE p == content[v]
           q == content[w]
           s == p \o q
<1>5. s \in Seq(Cell) /\ Len(s) = sum
      /\ \A i \in 1 .. sum : i \in DOMAIN storage /\ storage[i] = s[i]
  <2>1. p \in Seq(Cell) /\ Len(p) = size[v] BY ContentFacts
  <2>2. q \in Seq(Cell) /\ Len(q) = size[w] /\ \A i \in 1 .. size[w] : q[i] = At(w, i)
    BY ContentFacts
  <2> HIDE DEF p, q
  <2>3. s \in Seq(Cell) /\ Len(s) = sum BY <2>1, <2>2
  <2>4. BothIn(storage, p, q)
    <3> SUFFICES ASSUME NEW i \in 1 .. sum
                 PROVE  /\ i \in DOMAIN storage
                        /\ i <= size[v] => storage[i] = p[i]
                        /\ i > size[v] => storage[i] = q[i - size[v]]
      BY <2>1, <2>2 DEF BothIn
    <3>1. i > size[v] => i - size[v] \in 1 .. size[w] BY <1>1
    <3> QED
      BY <1>4, <2>2, <3>1 DEF p
  <2>5. OneIn(storage, s)
    BY <2>1, <2>2, <2>4, Joined
  <2> HIDE DEF s
  <2> QED
    BY <2>3, <2>5 DEF OneIn
<1> HIDE DEF s, sum
<1>6. Sequence!Become(v, s)
  BY <1>2, <1>5, BecomesSequence
<1> QED
  BY <1>6 DEF Sequence!Join, s, p, q, content

LEMMA PlusExact ==
  ASSUME IInv, CapacityAllocated, NEW u \in Vectors, NEW v \in Vectors, NEW w \in Vectors,
         Plus(u, v, w)
  PROVE  Sequence!Join(u, v, w)
<1> DEFINE sum == size[v] + size[w]
           needed == 2 * Larger(size[w], size[v])
           storage == [i \in 1 .. needed |-> IF i <= size[v] THEN At(v, i)
                                             ELSE IF i <= sum THEN At(w, i - size[v]) ELSE Raw]
<1>1. sum \in Nat /\ needed \in Nat /\ sum <= needed /\ size[v] \in Nat /\ size[w] \in Nat
  BY SizeFacts DEF Larger
<1>2. Become(u, sum, needed, storage)
  BY DEF Plus
<1> HIDE DEF needed
<1>3. \A i \in 1 .. size[v] : At(v, i) = content[v][i]
  BY ContentFacts
<1>4. \A i \in 1 .. sum : /\ i \in DOMAIN storage
                          /\ i <= size[v] => storage[i] = content[v][i]
                          /\ i > size[v] => storage[i] = At(w, i - size[v])
  <2> TAKE i \in 1 .. sum
  <2>1. i \in 1 .. needed /\ (i > size[v] <=> ~ (i <= size[v])) /\ i <= sum
        /\ (i <= size[v] => i \in 1 .. size[v])
    BY <1>1
  <2> QED
    BY <1>3, <2>1
<1> HIDE DEF storage
<1> DEFINE p == content[v]
           q == content[w]
           s == p \o q
<1>5. s \in Seq(Cell) /\ Len(s) = sum
      /\ \A i \in 1 .. sum : i \in DOMAIN storage /\ storage[i] = s[i]
  <2>1. p \in Seq(Cell) /\ Len(p) = size[v] BY ContentFacts
  <2>2. q \in Seq(Cell) /\ Len(q) = size[w] /\ \A i \in 1 .. size[w] : q[i] = At(w, i)
    BY ContentFacts
  <2> HIDE DEF p, q
  <2>3. s \in Seq(Cell) /\ Len(s) = sum BY <2>1, <2>2
  <2>4. BothIn(storage, p, q)
    <3> SUFFICES ASSUME NEW i \in 1 .. sum
                 PROVE  /\ i \in DOMAIN storage
                        /\ i <= size[v] => storage[i] = p[i]
                        /\ i > size[v] => storage[i] = q[i - size[v]]
      BY <2>1, <2>2 DEF BothIn
    <3>1. i > size[v] => i - size[v] \in 1 .. size[w] BY <1>1
    <3> QED
      BY <1>4, <2>2, <3>1 DEF p
  <2>5. OneIn(storage, s)
    BY <2>1, <2>2, <2>4, Joined
  <2> HIDE DEF s
  <2> QED
    BY <2>3, <2>5 DEF OneIn
<1> HIDE DEF s, sum
<1>6. Sequence!Become(u, s)
  BY <1>2, <1>5, BecomesSequence
<1> QED
  BY <1>6 DEF Sequence!Join, s, p, q, content

LEMMA AllExact == ASSUME IInv, CapacityAllocated, NEW v \in Vectors
                  PROVE  Exact(v)
<1>1. \A n \in 0 .. MaxSize : n \in Nat
  BY SizesAssumption
<1>2. \A n \in 0 .. MaxSize : /\ Construct(v, n) => Sequence!Construct(v, n)
                              /\ Reserve(v, n) => UNCHANGED Elements(v)
                              /\ Resize(v, n, Default) => Sequence!Resize(v, n, Default)
  BY <1>1, ConstructExact, ReserveExact, ResizeExact
<1>3. \A d \in Values : PushBack(v, d) => Sequence!PushBack(v, d)
  BY CellFacts, PushBackExact
<1>4. PopBack(v) => Sequence!PopBack(v)
  BY PopBackExact
<1>5. Clear(v) => Sequence!Construct(v, 0)
  BY ClearExact
<1>6. \A i, j \in 1 .. size[v] : Swap(v, i, j) => Sequence!Swap(v, i, j)
  BY SwapExact
<1>7. \A i \in 1 .. size[v] : EraseUnordered(v, i) => Sequence!EraseUnordered(v, i)
  BY EraseUnorderedExact
<1>8. \A w \in Vectors : Copy(v, w) \/ AssignAnew(v, w) => Sequence!Assign(v, w)
  BY AssignExact
<1>9. \A w \in Vectors : AppendAll(v, w) => Sequence!Join(v, v, w)
  BY AppendAllExact
<1>10. \A w, x \in Vectors : Plus(v, w, x) => Sequence!Join(v, w, x)
  BY PlusExact
<1>11. \A i \in 1 .. size[v] :
          size[v] < space[v] /\ PushBackOwn(v, i) => Sequence!PushBack(v, At(v, i))
  BY PushBackOwnExact
<1> QED
  BY <1>2, <1>3, <1>4, <1>5, <1>6, <1>7, <1>8, <1>9, <1>10, <1>11 DEF Exact

-----------------------------------------------------------------------------
(* Theorems *)

LEMMA InitIInv == Init => IInv /\ CapacityAllocated
<1> SUFFICES ASSUME Init PROVE IInv /\ CapacityAllocated
  OBVIOUS
<1>1. << >> \in Seq(Cell) /\ DOMAIN << >> = 1 .. 0
  OBVIOUS
<1> QED
  BY <1>1, SizesAssumption DEF Init, IInv, TypeOK, SizeWithinSpace, CapacityAllocated

\* Whatever operations are used, a vector keeps its type, and its size stays
\* within the space by which vector.h decides whether to allocate.
THEOREM Invariance == Spec => []IInv
<1>1. IInv /\ [Next]_vars => IInv'
  BY StepKeeps
<1>2. Init => IInv
  BY InitIInv
<1> QED
  BY <1>1, <1>2, PTL DEF Spec

\* Sizes, spaces and storage keep their types (vector.h:162-165).
THEOREM TypeCorrect == Spec => []TypeOK
<1>1. IInv => TypeOK
  BY DEF IInv
<1> QED
  BY <1>1, Invariance, PTL

\* No operation of vector.h takes size_ beyond space_.
THEOREM SpaceSuffices == Spec => []SizeWithinSpace
<1>1. IInv => SizeWithinSpace
  BY DEF IInv
<1> QED
  BY <1>1, Invariance, PTL

\* Clear alone makes the recorded space differ from the allocated one: without it
\* no operation would read or write outside of the storage of its vectors.
THEOREM StorageHonest == Spec => StorageKept
<1>1. IInv /\ [Next]_vars =>
        [CapacityAllocated /\ ~ (\E v \in Vectors : Clear(v)) => CapacityAllocated']_vars
  BY StepKeeps DEF Kept
<1> QED
  BY <1>1, Invariance, PTL DEF Spec, StorageKept

\* While the space of every vector is what was allocated for it, the operations do to
\* vectors of any size what they do to sequences, when they have to allocate and when
\* a vector is appended or added to itself, too; but for AssignInPlace, Erase, Resize
\* with a val of its own, and PushBack of an own element without room for one more.
THEOREM VectorsAreSequences == Spec => OperationsExact
<1>1. IInv /\ [Next]_vars =>
        [CapacityAllocated => \A v \in Vectors : Untouched(v) \/ Exact(v)]_vars
  BY AllExact
<1> QED
  BY <1>1, Invariance, PTL DEF Spec, OperationsExact
=============================================================================
