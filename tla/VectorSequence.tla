--------------------------- MODULE VectorSequence ---------------------------
(***************************************************************************)
(* What vector.h promises of its vectors: each is a sequence.              *)
(***************************************************************************)
EXTENDS Integers, Sequences

CONSTANTS Vectors,   \* the vectors
          Values,    \* what they hold
          Default,   \* the value of T()
          MaxSize    \* bound on the size of a vector

VARIABLE content    \* the sequence in each vector

TypeOK == content \in [Vectors -> Seq(Values)]

Become(v, s) == Len(s) <= MaxSize /\ content' = [content EXCEPT ![v] = s]

Init == content = [v \in Vectors |-> << >>]

Construct(v, n) == Become(v, [i \in 1 .. n |-> Default])

\* A vector is copied or assigned.
Assign(v, w) == Become(v, content[w])

\* New elements are val.
Resize(v, n, val) ==
    Become(v, [i \in 1 .. n |-> IF i <= Len(content[v]) THEN content[v][i] ELSE val])

PushBack(v, d) == Become(v, Append(content[v], d))

PopBack(v) == Become(v, SubSeq(content[v], 1, Len(content[v]) - 1))

\* v + w, and v += w when u is v
Join(u, v, w) == Become(u, content[v] \o content[w])

Swap(v, i, j) == Become(v, [content[v] EXCEPT ![i] = content[v][j], ![j] = content[v][i]])

\* The elements after the i-th move one position down ...
Erase(v, i) == Become(v, SubSeq(content[v], 1, i - 1)
                         \o SubSeq(content[v], i + 1, Len(content[v])))

\* ... or the last one takes its place.
EraseUnordered(v, i) ==
    Become(v, [k \in 1 .. Len(content[v]) - 1 |->
                  content[v][IF k = i THEN Len(content[v]) ELSE k]])
=============================================================================
