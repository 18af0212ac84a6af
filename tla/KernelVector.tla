---------------------------- MODULE KernelVector ----------------------------
(***************************************************************************)
(* driver/std/vector/vector.h: the vectors of the driver and the storage   *)
(* they allocate.  A vector has one user at a time.  Positions count from  *)
(* 1; an access outside the storage reads Raw and writes nowhere.          *)
(***************************************************************************)
EXTENDS Integers, Sequences

CONSTANTS Vectors,      \* the vectors
          Values,       \* the values of the element type
          Default,      \* T()
          Raw,          \* what is in storage that has not been written
          FirstSpace,   \* the space of the first PushBack, 8 in the code
          MaxSize,      \* bound on the size of a vector
          MaxSpace      \* bound on the space that Clear records

ASSUME ValuesAssumption == Default \in Values /\ Raw \notin Values
ASSUME SizesAssumption == FirstSpace \in Nat \ {0} /\ MaxSize \in Nat

VARIABLES size,      \* size_
          space,     \* space_
          elements   \* what elements_ points to

vars == <<size, space, elements>>

Cell == Values \cup {Raw}

TypeOK == /\ size \in [Vectors -> 0 .. MaxSize]
          /\ space \in [Vectors -> Nat]
          /\ elements \in [Vectors -> Seq(Cell)]

Init == /\ size = [v \in Vectors |-> 0]
        /\ space = [v \in Vectors |-> 0]
        /\ elements = [v \in Vectors |-> << >>]

At(v, i) == IF i \in DOMAIN elements[v] THEN elements[v][i] ELSE Raw

Elements(v) == [i \in 1 .. size[v] |-> At(v, i)]

Blank(positions) == [i \in positions |-> Default]

\* The storage with some positions overwritten
Overwritten(storage, new) ==
    [i \in DOMAIN storage |-> IF i \in DOMAIN new THEN new[i] ELSE storage[i]]

Larger(m, n) == IF m < n THEN n ELSE m

\* Mutant of Room: the last element is not copied.
RoomShort(v, n) == IF n <= space[v] THEN elements[v]
                   ELSE [i \in 1 .. n |-> IF i < size[v] THEN At(v, i) ELSE Raw]

\* The storage after Reserve(n)
Room(v, n) == IF n <= space[v] THEN elements[v]
              ELSE [i \in 1 .. n |-> IF i <= size[v] THEN At(v, i) ELSE Raw]

Become(v, newSize, newSpace, storage) ==
    /\ newSize <= MaxSize
    /\ size' = [size EXCEPT ![v] = newSize]
    /\ space' = [space EXCEPT ![v] = newSpace]
    /\ elements' = [elements EXCEPT ![v] = storage]
-----------------------------------------------------------------------------
(* Construction and assignment *)

\* Vector(n); Vector() is Vector(0).
Construct(v, n) == Become(v, n, n, Blank(1 .. n))

Copy(v, w) == v # w /\ Become(v, size[w], size[w], Elements(w))

\* With enough space, assignment returns after the first round of its loop, ...
AssignInPlace(v, w) ==
    /\ v # w
    /\ size[w] \in 1 .. space[v]
    /\ Become(v, size[w], space[v], Overwritten(elements[v], [i \in {1} |-> At(w, i)]))

\* ... unless there is none; then, or without space, there is new storage.
AssignAnew(v, w) == /\ v # w
                    /\ size[w] \notin 1 .. space[v]
                    /\ Become(v, size[w], size[w], Elements(w))

Assign(v, w) == AssignInPlace(v, w) \/ AssignAnew(v, w)
-----------------------------------------------------------------------------
(* Size and capacity *)

\* Mutant of Reserve: the space is recorded also when there is enough.
ReserveRecorded(v, n) == Become(v, size[v], n, Room(v, n))

Reserve(v, n) == Become(v, size[v], Larger(space[v], n), Room(v, n))

\* The new elements are T(), whatever val is: the parameter is not used.
Resize(v, n, val) ==
    Become(v, n, Larger(space[v], n),
           Overwritten(Room(v, n), Blank(size[v] + 1 .. n)))

\* The size is added to the space.
Clear(v) == /\ space[v] + size[v] <= MaxSpace
            /\ Become(v, 0, space[v] + size[v],
                      Overwritten(elements[v], Blank(1 .. size[v])))
-----------------------------------------------------------------------------
(* Elements *)

PushBack(v, d) ==
    LET needed == IF space[v] = 0 THEN FirstSpace
                  ELSE IF size[v] = space[v] THEN 2 * space[v] ELSE space[v]
    IN  Become(v, size[v] + 1, needed,
               Overwritten(Room(v, needed), [i \in {size[v] + 1} |-> d]))

\* PushBack of a reference to an element of the vector itself: it is read after Reserve,
\* which has freed the storage it is in if there was no room, and may be anything then.
PushBackOwn(v, i) ==
    /\ i <= size[v]
    /\ \E d \in IF size[v] = space[v] THEN Cell ELSE {At(v, i)} : PushBack(v, d)

\* Mutant of PopBack: an empty vector is not left alone.
PopBackAlways(v) == Become(v, size[v] - 1, space[v],
                           Overwritten(elements[v], Blank({size[v]})))

PopBack(v) == /\ size[v] > 0
              /\ Become(v, size[v] - 1, space[v],
                        Overwritten(elements[v], Blank({size[v]})))

\* Mutant of AppendAll: room for the larger of the two only.
AppendTight(v, w) ==
    LET sum == size[v] + size[w]
        needed == Larger(size[w], size[v])
    IN  Become(v, sum, Larger(space[v], needed),
               Overwritten(Room(v, needed), [i \in size[v] + 1 .. sum |-> At(w, i - size[v])]))

\* Append and +=; a vector may be appended to itself.
AppendAll(v, w) ==
    LET sum == size[v] + size[w]
        needed == 2 * Larger(size[w], size[v])
    IN  Become(v, sum, Larger(space[v], needed),
               Overwritten(Room(v, needed), [i \in size[v] + 1 .. sum |-> At(w, i - size[v])]))

\* u is the result of v + w.
Plus(u, v, w) ==
    LET sum == size[v] + size[w]
        needed == 2 * Larger(size[w], size[v])
    IN  /\ u \notin {v, w}
        /\ Become(u, sum, needed,
                  [i \in 1 .. needed |-> IF i <= size[v] THEN At(v, i)
                                         ELSE IF i <= sum THEN At(w, i - size[v]) ELSE Raw])

Swap(v, i, j) ==
    /\ i <= size[v] /\ j <= size[v]
    /\ Become(v, size[v], space[v],
              Overwritten(elements[v], [k \in {i, j} |-> At(v, IF k = i THEN j ELSE i)]))

\* The loop ends one element early.
Erase(v, i) ==
    /\ i <= size[v]
    /\ Become(v, size[v] - 1, space[v],
              Overwritten(elements[v],
                          [k \in (i .. size[v] - 2) \cup {size[v]} |->
                              IF k = size[v] THEN Default ELSE At(v, k + 1)]))

EraseUnordered(v, i) ==
    /\ i <= size[v]
    /\ Become(v, size[v] - 1, space[v],
              Overwritten(elements[v], [k \in {i, size[v]} |->
                                           IF k = size[v] THEN Default ELSE At(v, size[v])]))
-----------------------------------------------------------------------------
Next == \E v \in Vectors :
           \/ \E n \in 0 .. MaxSize : Construct(v, n) \/ Reserve(v, n)
           \/ \E n \in 0 .. MaxSize, val \in Values : Resize(v, n, val)
           \/ \E w \in Vectors : Copy(v, w) \/ Assign(v, w) \/ AppendAll(v, w)
           \/ \E u, w \in Vectors : Plus(u, v, w)
           \/ \E d \in Values : PushBack(v, d)
           \/ PopBack(v) \/ Clear(v)
           \/ \E i, j \in 1 .. MaxSize : Swap(v, i, j)
           \/ \E i \in 1 .. MaxSize : PushBackOwn(v, i) \/ Erase(v, i) \/ EraseUnordered(v, i)

Spec == Init /\ [][Next]_vars
-----------------------------------------------------------------------------
(* Properties *)

\* No operation takes the size beyond the space it has on record, by which all of
\* them decide whether to allocate.
SizeWithinSpace == \A v \in Vectors : size[v] <= space[v]

\* space_, which Capacity returns, is the number of elements that have been
\* allocated ("Returns size of allocated storate capacity", vector.h:56).
CapacityAllocated == \A v \in Vectors : DOMAIN elements[v] = 1 .. space[v]

\* Clear alone makes the recorded space differ from the allocated one.
StorageKept ==
    [][CapacityAllocated /\ ~ (\E v \in Vectors : Clear(v)) => CapacityAllocated']_vars

\* As long as they agree, the operations do to the vectors what they do to sequences,
\* also when they have to allocate and when a vector is appended or added to itself.
\* This is not claimed where the code does otherwise: of AssignInPlace and Erase, of
\* Resize with a val other than T() ("for custom values when resizing", vector.h:65), and
\* of PushBack with an element of the vector when there is no room for one more.
Sequence == INSTANCE VectorSequence WITH content <- [v \in Vectors |-> Elements(v)]

Untouched(v) == UNCHANGED <<size[v], space[v], elements[v]>>

Exact(v) ==
    /\ \A n \in 0 .. MaxSize : /\ Construct(v, n) => Sequence!Construct(v, n)
                               /\ Reserve(v, n) => UNCHANGED Elements(v)
                               /\ Resize(v, n, Default) => Sequence!Resize(v, n, Default)
    /\ \A d \in Values : PushBack(v, d) => Sequence!PushBack(v, d)
    /\ \A i \in 1 .. size[v] :
          size[v] < space[v] /\ PushBackOwn(v, i) => Sequence!PushBack(v, At(v, i))
    /\ PopBack(v) => Sequence!PopBack(v)
    /\ Clear(v) => Sequence!Construct(v, 0)
    /\ \A i, j \in 1 .. size[v] : Swap(v, i, j) => Sequence!Swap(v, i, j)
    /\ \A i \in 1 .. size[v] : EraseUnordered(v, i) => Sequence!EraseUnordered(v, i)
    /\ \A w \in Vectors : /\ Copy(v, w) \/ AssignAnew(v, w) => Sequence!Assign(v, w)
                          /\ AppendAll(v, w) => Sequence!Join(v, v, w)
                          /\ \A x \in Vectors : Plus(v, w, x) => Sequence!Join(v, w, x)

OperationsExact ==
    [][CapacityAllocated => \A v \in Vectors : Untouched(v) \/ Exact(v)]_vars
=============================================================================
