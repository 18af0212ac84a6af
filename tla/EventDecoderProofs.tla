------------------------- MODULE EventDecoderProofs -------------------------
(***************************************************************************)
(* Properties are found where the kernel wrote them, and records hold what *)
(* they say, for every layout of EventSchema, every way WMI describes it,  *)
(* strings and SIDs of every length and DWORDs of every width above 1024.  *)
(*                                                                         *)
(* The argument goes from a property to an event.  A place is the sum of   *)
(* the sizes before it; the walk gets that sum right up to the first size  *)
(* that is not understood, and then ends.  No string or SID lies before a  *)
(* property whose offset is kept, in any of the layouts and in nothing     *)
(* WMI may say of them: so what a constructor learns at one event of a     *)
(* type is true of all of them.                                            *)
(***************************************************************************)
EXTENDS EventDecoder, FiniteSetTheorems, TLAPS

-----------------------------------------------------------------------------
(* Properties and their sizes *)

\* The kinds the layouts use, and two that no size is known of.
Kinds == {"uint8", "uint16", "sint16", "uint32", "uint64", "Port", "IPAddr", "IPAddrV6",
          "ansi", "wide", "Sid", "pointer", "counted", "object"}
\* The names of properties.
AllNames == {"Undocumented"} \cup UNION {Names(l) : l \in Layouts}

\* A property as WMI lists it: only a number is ever an array.
Properties == {p \in [name : AllNames, kind : Kinds, count : 0 .. 2, id : Nat] :
                 p.count # 1 => p.kind = "uint32"}

\* The lengths that fit a USHORT.
AnyLength == 0 .. LengthModulus - 1

LEMMA LengthsFit ==
  /\ LengthModulus \in Nat \ {0}
  /\ \A n \in AnyLength : n \in Nat /\ n < LengthModulus
  /\ {0} \cup Lengths \subseteq AnyLength
<1>1. LengthModulus \in Nat \ {0} /\ Lengths \subseteq 0 .. LengthModulus - 1 BY DecoderAssumption
<1>2. QED BY <1>1 DEF AnyLength

\* A size the walk understands.
Sized(p) == p.kind \notin Unsized /\ p.count > 0

\* The sizes the code knows by heart.
LEMMA Scalars ==
  /\ DOMAIN ScalarSize = {"boolean", "uint8", "guid", "uint16", "sint16", "uint32", "uint64"}
  /\ DOMAIN ObjectSize = {"Port", "IPAddr", "IPAddrV6", "Guid"}
  /\ ScalarSize["uint8"] = 1 /\ ScalarSize["uint16"] = 2 /\ ScalarSize["sint16"] = 2
  /\ ScalarSize["uint32"] = 4 /\ ScalarSize["uint64"] = 8
  /\ ObjectSize["Port"] = 2 /\ ObjectSize["IPAddr"] = 4 /\ ObjectSize["IPAddrV6"] = 16
BY DEF ScalarSize, ObjectSize

\* A DWORD is wide enough for the offsets of these classes.
LEMMA Moduli == OffsetModulus \in Nat /\ OffsetModulus > 1024
BY DecoderAssumption

\* What the walk takes a property for is what the kernel wrote, or 0; numbers take
\* at most 16 bytes, whatever the event.
LEMMA Sizes ==
  ASSUME NEW p \in Properties, NEW n \in AnyLength
  PROVE  /\ EncodedSize(p, n) \in Nat \ {0}
         /\ GetEventPropertyValue(p, n) = IF Sized(p) THEN EncodedSize(p, n) ELSE 0
         /\ Sized(p) /\ p.kind \notin Variable =>
              /\ EncodedSize(p, n) <= 16
              /\ \A k \in AnyLength : EncodedSize(p, k) = EncodedSize(p, n)
<1>1. n \in Nat /\ n < LengthModulus BY LengthsFit
<1>2. AsLength(n) = n
  <2>1. LengthModulus \in Nat \ {0} BY LengthsFit
  <2>2. QED BY <1>1, <2>1 DEF AsLength
<1>3. p.kind \in Kinds /\ p.count \in 0 .. 2 /\ (p.count # 1 => p.kind = "uint32")
  BY DEF Properties
<1>4. \A k : EncodedSize(p, k) = IF p.kind \in Unsized THEN 2 + k
                               ELSE IF p.count = 0 THEN 4 ELSE ValueSize(p.kind, k) * p.count
  BY DEF EncodedSize, Unsized
<1>5. CASE p.kind = "uint32"
  <2>1. \A k : ValueSize(p.kind, k) = 4 BY <1>5 DEF ValueSize
  <2>2. GetEventPropertyValue(p, n) = 4 * p.count
    <3>1. CASE p.count = 0 BY <1>5, <3>1 DEF GetEventPropertyValue
    <3>2. CASE p.count > 0 BY <1>5, <3>2, Scalars DEF GetEventPropertyValue
    <3>3. QED BY <1>3, <3>1, <3>2
  <2>3. p.kind \notin Unsized BY <1>5 DEF Unsized
  <2>4. QED BY <1>3, <1>4, <2>1, <2>2, <2>3 DEF Sized
<1>6. CASE p.kind \in {"uint8", "uint16", "sint16", "uint64"}
  <2>1. p.count = 1 /\ p.kind \notin Unsized BY <1>3, <1>6 DEF Unsized
  <2>2. \A k : ValueSize(p.kind, k) = ScalarSize[p.kind] BY <1>6, Scalars DEF ValueSize
  <2>3. GetEventPropertyValue(p, n) = ScalarSize[p.kind] * p.count
    BY <1>6, <2>1, Scalars DEF GetEventPropertyValue
  <2>4. ScalarSize[p.kind] \in 1 .. 8 BY <1>6, Scalars
  <2>5. QED BY <1>4, <2>1, <2>2, <2>3, <2>4 DEF Sized
<1>7. CASE p.kind \in {"Port", "IPAddr", "IPAddrV6"}
  <2>1. p.count = 1 /\ p.kind \notin Unsized BY <1>3, <1>7 DEF Unsized
  <2>2. \A k : ValueSize(p.kind, k) = ObjectSize[p.kind] BY <1>7, Scalars DEF ValueSize
  <2>3. GetEventPropertyValue(p, n) = ObjectSize[p.kind]
    <3>1. ObjectSize[p.kind] \in 1 .. 16 BY <1>7, Scalars
    <3>2. GetEventPropertyValue(p, n) = ObjectSize[p.kind] * p.count * p.count
      BY <1>7, <2>1, Scalars DEF GetEventPropertyValue
    <3>3. QED BY <2>1, <3>1, <3>2
  <2>4. ObjectSize[p.kind] \in 1 .. 16 BY <1>7, Scalars
  <2>5. QED BY <1>4, <2>1, <2>2, <2>3, <2>4 DEF Sized
<1>8. CASE p.kind = "pointer"
  <2>1. p.count = 1 /\ p.kind \notin Unsized BY <1>3, <1>8 DEF Unsized
  <2>2. \A k : ValueSize(p.kind, k) = PointerSize BY <1>8 DEF ValueSize
  <2>3. GetEventPropertyValue(p, n) = PointerSize
    BY <1>8, <2>1, Scalars DEF GetEventPropertyValue
  <2>4. PointerSize \in {4, 8} BY DecoderAssumption
  <2>5. QED BY <1>4, <2>1, <2>2, <2>3, <2>4 DEF Sized
<1>9. CASE p.kind \in Variable
  <2>1. p.count = 1 /\ p.kind \notin Unsized BY <1>3, <1>9 DEF Variable, Unsized
  <2>2. PointerSize \in {4, 8} BY DecoderAssumption
  <2>3. GetEventPropertyValue(p, n) = ValueSize(p.kind, n) /\ ValueSize(p.kind, n) \in Nat \ {0}
    <3>1. CASE p.kind = "ansi"
      BY <1>1, <1>2, <2>1, <3>1, Scalars DEF GetEventPropertyValue, ValueSize
    <3>2. CASE p.kind = "wide"
      BY <1>1, <1>2, <2>1, <3>2, Scalars DEF GetEventPropertyValue, ValueSize
    <3>3. CASE p.kind = "Sid"
      BY <1>1, <2>1, <2>2, <3>3, Scalars DEF GetEventPropertyValue, ValueSize
    <3>4. QED BY <1>9, <3>1, <3>2, <3>3 DEF Variable
  <2>4. QED BY <1>4, <1>9, <2>1, <2>3 DEF Sized
<1>10. CASE p.kind \in Unsized
  <2>1. GetEventPropertyValue(p, n) = 0
    BY <1>3, <1>10, Scalars DEF GetEventPropertyValue, Unsized
  <2>2. QED BY <1>1, <1>4, <1>10, <2>1 DEF Sized
<1>11. QED
  <2>1. p.kind \in {"uint32", "pointer"} \cup {"uint8", "uint16", "sint16", "uint64"}
                   \cup {"Port", "IPAddr", "IPAddrV6"} \cup Variable \cup Unsized
    BY <1>3 DEF Kinds, Variable, Unsized
  <2>2. QED BY <1>5, <1>6, <1>7, <1>8, <1>9, <1>10, <2>1

-----------------------------------------------------------------------------
(* Where properties begin *)

\* Induction over the naturals, for a set of them: a set of the numbers up to one that
\* is missing would be mapped into itself without 0, one to one.
LEMMA Ind ==
  ASSUME NEW S \in SUBSET Nat, 0 \in S, \A n \in S : n + 1 \in S
  PROVE  S = Nat
<1>1. SUFFICES ASSUME NEW n \in Nat \ S PROVE FALSE
  OBVIOUS
<1> DEFINE A == S \cap (0 .. n)
           B == A \ {0}
           up == [x \in A |-> x + 1]
<1>2. IsFiniteSet(0 .. n) BY FS_Interval
<1>3. IsFiniteSet(A) BY <1>2, FS_Subset
<1>0. 0 \in A OBVIOUS
<1>5. up \in [A -> B]
  BY <1>1
<1>6. \A x, y \in A : x # y => up[x] # up[y]
  OBVIOUS
<1> HIDE DEF up, A
<1>4a. Cardinality(A) \in Nat BY <1>3, FS_CardinalityType
<1>4. Cardinality(B) = Cardinality(A) - 1 /\ IsFiniteSet(B)
  BY <1>3, <1>0, FS_RemoveElement
<1> HIDE DEF B
<1>8. Cardinality(B) < Cardinality(A) BY <1>4, <1>4a
<1>7. \E x, y \in A : x # y /\ up[x] = up[y] BY <1>3, <1>4, <1>5, <1>8, FS_PigeonHole
<1>9. QED BY <1>6, <1>7

\* Where properties of given sizes begin.
Begin(size, n, at) ==
  /\ at \in [1 .. n -> Nat]
  /\ \A i \in 1 .. n : at[i] = IF i = 1 THEN 0 ELSE at[i - 1] + size[i - 1]

\* There is such a sequence of places, ...
LEMMA BeginExists ==
  ASSUME NEW size, NEW n \in Nat, \A i \in 1 .. n : size[i] \in Nat
  PROVE  \E at : Begin(size, n, at)
<1> DEFINE S == {k \in Nat : k <= n => \E at : Begin(size, k, at)}
<1>1. 0 \in S
  <2>1. Begin(size, 0, <<>>) BY DEF Begin
  <2>2. QED BY <2>1
<1>2. ASSUME NEW k \in S PROVE k + 1 \in S
  <2>1. SUFFICES ASSUME k + 1 <= n PROVE \E at : Begin(size, k + 1, at)
    OBVIOUS
  <2>2. PICK at : Begin(size, k, at) BY <2>1
  <2> DEFINE new == [i \in 1 .. k + 1 |-> IF i <= k THEN at[i] ELSE
                       IF i = 1 THEN 0 ELSE at[i - 1] + size[i - 1]]
  <2>3. Begin(size, k + 1, new)
    <3>1. new \in [1 .. k + 1 -> Nat]
      BY <2>1, <2>2 DEF Begin
    <3>2. ASSUME NEW i \in 1 .. k + 1 PROVE new[i] = IF i = 1 THEN 0 ELSE new[i - 1] + size[i - 1]
      <4>1. CASE i <= k BY <4>1, <2>2 DEF Begin
      <4>2. CASE i = k + 1 BY <4>2
      <4>3. QED BY <4>1, <4>2
    <3>3. QED BY <3>1, <3>2 DEF Begin
  <2>4. QED BY <2>3
<1>3. S = Nat BY <1>1, <1>2, Ind
<1>4. QED BY <1>3

\* ... and it rises where no size is 0.
LEMMA BeginRises ==
  ASSUME NEW size, NEW n \in Nat, \A i \in 1 .. n : size[i] \in Nat \ {0},
         NEW at, Begin(size, n, at)
  PROVE  \A i, j \in 1 .. n : i < j => at[i] < at[j]
<1> DEFINE S == {k \in Nat : \A i, j \in 1 .. n : i < j /\ j <= k => at[i] < at[j]}
<1>1. 0 \in S OBVIOUS
<1>2. ASSUME NEW k \in S PROVE k + 1 \in S
  <2>1. SUFFICES ASSUME NEW i \in 1 .. n, k + 1 \in 1 .. n, i < k + 1 PROVE at[i] < at[k + 1]
    OBVIOUS
  <2>2. at[k + 1] = at[k] + size[k] /\ size[k] \in Nat \ {0} /\ at[k] \in Nat /\ at[i] \in Nat
    BY <2>1 DEF Begin
  <2>3. i = k \/ at[i] < at[k] BY <2>1
  <2>4. QED BY <2>2, <2>3
<1>3. S = Nat BY <1>1, <1>2, Ind
<1>4. ASSUME NEW i \in 1 .. n, NEW j \in 1 .. n, i < j PROVE at[i] < at[j]
  <2>1. j \in Nat BY <1>4
  <2> HIDE DEF S
  <2>2. j \in S BY <1>3, <2>1
  <2>3. QED BY <1>4, <2>2 DEF S
<1>5. QED BY <1>4

\* The bytes of each property in an event.
SizesOf(s, lengths) == [i \in 1 .. Len(s) |-> EncodedSize(s[i], lengths[i])]

\* One more place.
Extended(s, lengths, v, i) ==
  Append(v, IF i = 1 THEN 0 ELSE v[i - 1] + EncodedSize(s[i - 1], lengths[i - 1]))

\* The recursive function Starts gives these places.
LEMMA StartsBegin ==
  ASSUME NEW s \in Seq(Properties), NEW lengths, \A i \in 1 .. Len(s) : lengths[i] \in AnyLength
  PROVE  Begin(SizesOf(s, lengths), Len(s), Starts(s, lengths))
<1> DEFINE n == Len(s)
           size == SizesOf(s, lengths)
           Grown(u) == [i \in 0 .. n |->
                          IF i = 0 THEN <<>> ELSE Extended(s, lengths, u[i - 1], i)]
<1>0. n \in Nat OBVIOUS
<1>1. ASSUME NEW i \in 1 .. n
      PROVE  size[i] = EncodedSize(s[i], lengths[i]) /\ size[i] \in Nat
  <2>1. s[i] \in Properties /\ lengths[i] \in AnyLength OBVIOUS
  <2>2. EncodedSize(s[i], lengths[i]) \in Nat BY <2>1, Sizes
  <2>3. QED BY <2>2 DEF SizesOf
<1>6. Starts(s, lengths) = (CHOOSE u : u = Grown(u))[n]
  BY DEF Starts, Extended
<1> HIDE DEF n, size
<1>2. PICK at : Begin(size, n, at) BY <1>1, <1>0, BeginExists
<1> DEFINE h == [i \in 0 .. n |-> [k \in 1 .. i |-> at[k]]]
<1>3. h = Grown(h)
  <2>1. ASSUME NEW i \in 0 .. n PROVE h[i] = Grown(h)[i]
    <3>1. CASE i = 0 BY <3>1
    <3>2. CASE i # 0
      <4>0. i - 1 \in 0 .. n /\ \A k \in 1 .. i : at[k] \in Nat
        BY <3>2, <1>2, <1>0 DEF Begin
      <4> DEFINE v == h[i - 1]
      <4>1. v = [k \in 1 .. i - 1 |-> at[k]] BY <4>0
      <4>2. h[i] = [k \in 1 .. i |-> at[k]] OBVIOUS
      <4>3. Grown(h)[i] = Extended(s, lengths, v, i) BY <3>2
      <4> HIDE DEF v, h, Grown
      <4>4. v \in Seq(Nat) /\ Len(v) = i - 1 BY <3>2, <4>0, <4>1
      <4>5. at[i] = IF i = 1 THEN 0 ELSE v[i - 1] + EncodedSize(s[i - 1], lengths[i - 1])
        <5>1. CASE i = 1 BY <5>1, <1>2 DEF Begin
        <5>2. CASE i # 1
          <6>1. i - 1 \in 1 .. i - 1 /\ i - 1 \in 1 .. n BY <5>2, <3>2, <1>0
          <6>2. v[i - 1] = at[i - 1] BY <6>1, <4>1
          <6>3. size[i - 1] = EncodedSize(s[i - 1], lengths[i - 1]) BY <6>1, <1>1
          <6>4. at[i] = at[i - 1] + size[i - 1] BY <5>2, <3>2, <1>2 DEF Begin
          <6>5. QED BY <5>2, <6>2, <6>3, <6>4
        <5>3. QED BY <5>1, <5>2
      <4>6. Append(v, at[i]) = [k \in 1 .. i |-> at[k]] BY <3>2, <4>0, <4>1, <4>4
      <4>7. Extended(s, lengths, v, i) = Append(v, at[i]) BY <4>5 DEF Extended
      <4>8. QED BY <4>2, <4>3, <4>6, <4>7
    <3>3. QED BY <3>1, <3>2
  <2>2. h = [i \in 0 .. n |-> h[i]] OBVIOUS
  <2>3. Grown(h) = [i \in 0 .. n |-> Grown(h)[i]] OBVIOUS
  <2> HIDE DEF h, Grown
  <2>4. QED BY <2>1, <2>2, <2>3
<1>4. ASSUME NEW u, u = Grown(u) PROVE u = h
  <2> HIDE DEF h
  <2> DEFINE S == {i \in Nat : i <= n => u[i] = h[i]}
  <2>1. \A i \in 0 .. n : u[i] = Grown(u)[i] /\ h[i] = Grown(h)[i] BY <1>3, <1>4
  <2>0. \A i \in 0 .. n : \A w :
          Grown(w)[i] = IF i = 0 THEN <<>> ELSE Extended(s, lengths, w[i - 1], i)
    OBVIOUS
  <2>6. u = [i \in 0 .. n |-> u[i]] BY <1>4
  <2> HIDE DEF Grown
  <2>2. 0 \in S
    <3>1. 0 \in 0 .. n BY <1>0
    <3>4. QED BY <3>1, <2>1, <2>0
  <2>3. ASSUME NEW i \in S PROVE i + 1 \in S
    <3>1. SUFFICES ASSUME i + 1 <= n PROVE u[i + 1] = h[i + 1]
      OBVIOUS
    <3>2. i \in Nat /\ u[i] = h[i] /\ i + 1 \in 0 .. n /\ i + 1 # 0 /\ i + 1 - 1 = i
      BY <3>1, <1>0
    <3> HIDE DEF S
    <3>4. QED BY <3>2, <2>0, <2>1
  <2>4. S = Nat BY <2>2, <2>3, Ind
  <2>5. \A i \in 0 .. n : u[i] = h[i] BY <2>4, <1>0
  <2>7. h = [i \in 0 .. n |-> h[i]] BY DEF h
  <2>8. QED BY <2>5, <2>6, <2>7
<1>5. h = CHOOSE u : u = Grown(u)
  <2> HIDE DEF Grown, h
  <2>1. QED BY <1>3, <1>4
<1>7. Starts(s, lengths) = h[n] BY <1>5, <1>6
<1>8. h[n] = at BY <1>2, <1>0 DEF h, Begin
<1>9. QED BY <1>2, <1>7, <1>8 DEF n, size

\* A set of naturals has a least element.
LEMMA Least ==
  ASSUME NEW S \in SUBSET Nat, S # {}
  PROVE  \E n \in S : \A k \in S : n <= k
<1> DEFINE A == {n \in Nat : \A k \in S : n <= k}
<1>1. SUFFICES ASSUME \A n \in S : \E k \in S : ~(n <= k) PROVE FALSE
  OBVIOUS
<1>2. 0 \in A OBVIOUS
<1>3. ASSUME NEW n \in A PROVE n + 1 \in A
  BY <1>1
<1>4. A = Nat BY <1>2, <1>3, Ind
<1>5. PICK n \in S : TRUE OBVIOUS
<1>6. n + 1 \in A BY <1>4
<1>7. QED BY <1>6

LEMMA MaxSingle == ASSUME NEW x \in Int PROVE Max({x}) = x /\ Min({x}) = x
BY DEF Max, Min

\* The lengths of an event.
LengthsOf(s) == [1 .. Len(s) -> AnyLength]

\* No property takes 0 bytes.
LEMMA Encoded ==
  ASSUME NEW s \in Seq(Properties), NEW lengths \in LengthsOf(s), NEW i \in 1 .. Len(s)
  PROVE  /\ s[i] \in Properties /\ lengths[i] \in AnyLength /\ lengths[i] \in Nat
         /\ EncodedSize(s[i], lengths[i]) \in Nat \ {0}
         /\ SizesOf(s, lengths)[i] = EncodedSize(s[i], lengths[i])
<1>1. s[i] \in Properties /\ lengths[i] \in AnyLength BY DEF LengthsOf
<1>2. EncodedSize(s[i], lengths[i]) \in Nat \ {0} BY <1>1, Sizes
<1>3. lengths[i] \in Nat BY <1>1, LengthsFit
<1>4. QED BY <1>1, <1>2, <1>3 DEF SizesOf

\* Every property begins at a place of its own, behind the one before it.
LEMMA StartsFacts ==
  ASSUME NEW s \in Seq(Properties), NEW lengths \in LengthsOf(s)
  PROVE  LET starts == Starts(s, lengths)
         IN  /\ starts \in [1 .. Len(s) -> Nat]
             /\ \A i \in 1 .. Len(s) :
                  starts[i] = IF i = 1 THEN 0
                              ELSE starts[i - 1] + EncodedSize(s[i - 1], lengths[i - 1])
             /\ \A i, j \in 1 .. Len(s) : starts[i] = starts[j] => i = j
<1> DEFINE starts == Starts(s, lengths)
           n == Len(s)
           size == SizesOf(s, lengths)
<1>0. n \in Nat OBVIOUS
<1>1. \A i \in 1 .. n : lengths[i] \in AnyLength BY DEF LengthsOf
<1>2. Begin(size, n, starts) BY <1>1, StartsBegin
<1>3. \A i \in 1 .. n : /\ size[i] \in Nat \ {0}
                        /\ size[i] = EncodedSize(s[i], lengths[i])
  BY Encoded
<1> HIDE DEF starts, n, size
<1>4. \A i, j \in 1 .. n : i < j => starts[i] < starts[j] BY <1>2, <1>3, <1>0, BeginRises
<1>5. starts \in [1 .. n -> Nat] BY <1>2 DEF Begin
<1>6. ASSUME NEW i \in 1 .. n
      PROVE  starts[i] = IF i = 1 THEN 0 ELSE starts[i - 1] + EncodedSize(s[i - 1], lengths[i - 1])
  <2>1. starts[i] = IF i = 1 THEN 0 ELSE starts[i - 1] + size[i - 1] BY <1>2 DEF Begin
  <2>2. i # 1 => i - 1 \in 1 .. n BY <1>0
  <2>3. QED BY <2>1, <2>2, <1>3
<1>7. ASSUME NEW i \in 1 .. n, NEW j \in 1 .. n, starts[i] = starts[j] PROVE i = j
  <2>1. ~(i < j) /\ ~(j < i) BY <1>4, <1>5, <1>7
  <2>2. QED BY <2>1, <1>0
<1>8. QED BY <1>5, <1>6, <1>7 DEF n, starts

\* The length found where a property begins is its own.
LEMMA LengthThere ==
  ASSUME NEW s \in Seq(Properties), NEW lengths \in LengthsOf(s), NEW i \in 1 .. Len(s)
  PROVE  LengthAt(Starts(s, lengths), lengths, Starts(s, lengths)[i]) = lengths[i]
<1> DEFINE starts == Starts(s, lengths)
           here == {j \in DOMAIN starts : starts[j] = starts[i]}
<1>1. DOMAIN starts = 1 .. Len(s) /\ \A j \in 1 .. Len(s) : starts[i] = starts[j] => i = j
  BY StartsFacts
<1>2. here = {i} BY <1>1
<1>3. Max(here) = i BY <1>2, MaxSingle
<1> HIDE DEF starts
<1>4. QED BY <1>2, <1>3 DEF LengthAt, starts

-----------------------------------------------------------------------------
(* The walk *)

\* The walk ends with property m: the first whose size is not understood, or the last.
EndsAt(s, m) ==
  /\ m \in 0 .. Len(s)
  /\ \A k \in 1 .. m - 1 : Sized(s[k])
  /\ m < Len(s) => m >= 1 /\ ~Sized(s[m])

\* There is such a property.
LEMMA Ends ==
  ASSUME NEW s \in Seq(Properties)
  PROVE  \E m : EndsAt(s, m)
<1> DEFINE S == {k \in 1 .. Len(s) : ~Sized(s[k])}
<1>1. CASE S = {}
  <2>1. EndsAt(s, Len(s)) BY <1>1 DEF EndsAt
  <2>2. QED BY <2>1
<1>2. CASE S # {}
  <2>1. S \in SUBSET Nat OBVIOUS
  <2>2. PICK m \in S : \A k \in S : m <= k
    <3> HIDE DEF S
    <3>1. QED BY <1>2, <2>1, Least
  <2>3. ASSUME NEW k \in 1 .. m - 1 PROVE Sized(s[k])
    <3>1. k \in 1 .. Len(s) /\ k < m OBVIOUS
    <3>2. k \notin S BY <3>1, <2>2
    <3>3. QED BY <3>1, <3>2
  <2>4. EndsAt(s, m) BY <2>2, <2>3 DEF EndsAt
  <2>5. QED BY <2>4
<1>3. QED BY <1>1, <1>2

\* What the walk notes of property k, ...
PlaceIn(s, lengths, k) ==
  [name |-> s[k].name, offset |-> Starts(s, lengths)[k],
   size |-> IF Sized(s[k]) THEN EncodedSize(s[k], lengths[k]) ELSE 0]

\* ... and of all up to m.
WalkTo(s, lengths, m) == [k \in 1 .. m |-> PlaceIn(s, lengths, k)]

\* It is a sequence of such notes.
LEMMA WalkToFacts ==
  ASSUME NEW s, NEW lengths, NEW m \in Nat
  PROVE  /\ WalkTo(s, lengths, m) \in Seq({PlaceIn(s, lengths, k) : k \in 1 .. m})
         /\ Len(WalkTo(s, lengths, m)) = m
         /\ \A k \in 1 .. m : WalkTo(s, lengths, m)[k] = PlaceIn(s, lengths, k)
         /\ Append(WalkTo(s, lengths, m), PlaceIn(s, lengths, m + 1)) = WalkTo(s, lengths, m + 1)
         /\ WalkTo(s, lengths, m) = <<>> <=> m = 0
<1> DEFINE P(k) == PlaceIn(s, lengths, k)
           T == {P(k) : k \in 1 .. m + 1}
<1>1. \A k \in 1 .. m + 1 : P(k) \in T OBVIOUS
<1> HIDE DEF P, T
<1>2. [k \in 1 .. m |-> P(k)] \in Seq(T) /\ [k \in 1 .. m + 1 |-> P(k)] \in Seq(T) BY <1>1
<1>3. Append([k \in 1 .. m |-> P(k)], P(m + 1)) = [k \in 1 .. m + 1 |-> P(k)] BY <1>1, <1>2
<1>4. Len([k \in 1 .. m |-> P(k)]) = m BY <1>2
<1>5. [k \in 1 .. m |-> P(k)] = <<>> <=> m = 0 BY <1>2, <1>4
<1>6. [k \in 1 .. m |-> P(k)] \in Seq({P(k) : k \in 1 .. m}) OBVIOUS
<1>7. QED BY <1>3, <1>4, <1>5, <1>6 DEF WalkTo, P

\* The walk takes one property more as long as the sizes are understood.
LEMMA NextFurther ==
  ASSUME NEW s \in Seq(Properties), NEW lengths \in LengthsOf(s),
         NEW i \in 1 .. Len(s), \A k \in 1 .. i - 1 : Sized(s[k])
  PROVE  NextPlace(WalkTo(s, lengths, i - 1), s[i], Starts(s, lengths), lengths)
           = WalkTo(s, lengths, i)
<1> DEFINE walk == WalkTo(s, lengths, i - 1)
           starts == Starts(s, lengths)
           last == walk[Len(walk)]
           offset == IF walk = <<>> THEN 0 ELSE last.offset + last.size
<1>1. /\ Len(walk) = i - 1 /\ (walk = <<>> <=> i = 1)
      /\ \A k \in 1 .. i - 1 : walk[k] = PlaceIn(s, lengths, k)
      /\ Append(walk, PlaceIn(s, lengths, i)) = WalkTo(s, lengths, i)
  <2>1. i - 1 \in Nat /\ i - 1 + 1 = i OBVIOUS
  <2>2. /\ Len(walk) = i - 1
        /\ \A k \in 1 .. i - 1 : walk[k] = PlaceIn(s, lengths, k)
        /\ Append(walk, PlaceIn(s, lengths, i - 1 + 1)) = WalkTo(s, lengths, i - 1 + 1)
        /\ walk = <<>> <=> i - 1 = 0
    BY <2>1, WalkToFacts, Zenon
  <2>3. QED BY <2>1, <2>2
<1> HIDE DEF walk
<1>2. i # 1 => /\ last = PlaceIn(s, lengths, i - 1) /\ Sized(s[i - 1])
               /\ EncodedSize(s[i - 1], lengths[i - 1]) \in Nat \ {0}
  <2>1. SUFFICES ASSUME i # 1
                 PROVE  /\ last = PlaceIn(s, lengths, i - 1) /\ Sized(s[i - 1])
                        /\ EncodedSize(s[i - 1], lengths[i - 1]) \in Nat \ {0}
    OBVIOUS
  <2>2. i - 1 \in 1 .. i - 1 /\ i - 1 \in 1 .. Len(s) BY <2>1
  <2>3. QED BY <1>1, <2>2, Encoded
<1> HIDE DEF last
<1>3. offset = starts[i] /\ (walk # <<>> => last.size # 0)
  <2>1. starts[i] = IF i = 1 THEN 0 ELSE starts[i - 1] + EncodedSize(s[i - 1], lengths[i - 1])
    BY StartsFacts
  <2>2. QED BY <1>1, <1>2, <2>1 DEF PlaceIn
<1> HIDE DEF offset
<1>4. GetEventPropertyValue(s[i], LengthAt(starts, lengths, offset))
        = IF Sized(s[i]) THEN EncodedSize(s[i], lengths[i]) ELSE 0
  <2>1. LengthAt(starts, lengths, offset) = lengths[i] BY <1>3, LengthThere
  <2>2. s[i] \in Properties /\ lengths[i] \in AnyLength BY Encoded
  <2>3. QED BY <2>1, <2>2, Sizes
<1>5. NextPlace(walk, s[i], starts, lengths) = Append(walk, PlaceIn(s, lengths, i))
  <2>1. NextPlace(walk, s[i], starts, lengths)
          = IF walk # <<>> /\ last.size = 0 THEN walk
            ELSE Append(walk, [name |-> s[i].name, offset |-> offset,
                               size |-> GetEventPropertyValue(s[i], LengthAt(starts, lengths, offset))])
    BY DEF NextPlace, last, offset
  <2>2. QED BY <2>1, <1>3, <1>4 DEF PlaceIn
<1>6. QED BY <1>1, <1>5 DEF walk

\* Behind a size that is not understood there is no place.
LEMMA NextNone ==
  ASSUME NEW s \in Seq(Properties), NEW lengths \in LengthsOf(s), NEW p,
         NEW m \in 1 .. Len(s), ~Sized(s[m])
  PROVE  NextPlace(WalkTo(s, lengths, m), p, Starts(s, lengths), lengths)
           = WalkTo(s, lengths, m)
<1> DEFINE walk == WalkTo(s, lengths, m)
<1>1. Len(walk) = m /\ walk # <<>> /\ walk[m] = PlaceIn(s, lengths, m)
  <2>1. m \in Nat /\ m # 0 /\ m \in 1 .. m OBVIOUS
  <2>2. QED BY <2>1, WalkToFacts
<1> HIDE DEF walk
<1>2. walk[Len(walk)].size = 0 BY <1>1 DEF PlaceIn
<1>3. NextPlace(walk, p, Starts(s, lengths), lengths) = walk BY <1>1, <1>2 DEF NextPlace
<1>4. QED BY <1>3 DEF walk

\* The recursive function Walk is the walk to where it ends.
LEMMA WalkEnds ==
  ASSUME NEW s \in Seq(Properties), NEW e, e.properties = s, e.lengths \in LengthsOf(s),
         NEW m, EndsAt(s, m)
  PROVE  Walk(s, e) = WalkTo(s, e.lengths, m)
<1> DEFINE n == Len(s)
           lengths == e.lengths
           starts == Starts(s, lengths)
           Grown(u) == [i \in 0 .. n |->
                          IF i = 0 THEN <<>> ELSE NextPlace(u[i - 1], s[i], starts, lengths)]
           short(i) == IF i <= m THEN i ELSE m
           h == [i \in 0 .. n |-> WalkTo(s, lengths, short(i))]
<1>8. n \in Nat /\ m \in 0 .. n BY DEF EndsAt
<1>1. Walk(s, e) = (CHOOSE u : u = Grown(u))[n]
  BY DEF Walk
<1> HIDE DEF starts, lengths
<1>0. \A i \in 0 .. n : \A w :
        Grown(w)[i] = IF i = 0 THEN <<>> ELSE NextPlace(w[i - 1], s[i], starts, lengths)
  OBVIOUS
<1>2. h = Grown(h)
  <2>1. ASSUME NEW i \in 0 .. n PROVE h[i] = Grown(h)[i]
    <3>1. CASE i = 0
      <4>1. h[0] = WalkTo(s, lengths, 0) BY <1>8
      <4>2. WalkTo(s, lengths, 0) = <<>> BY DEF WalkTo
      <4> HIDE DEF h, Grown
      <4>3. QED BY <3>1, <4>1, <4>2, <1>0
    <3>2. CASE i # 0
      <4>0. i \in 1 .. n /\ i - 1 \in 0 .. n BY <3>2
      <4>1. h[i] = WalkTo(s, lengths, short(i)) /\ h[i - 1] = WalkTo(s, lengths, short(i - 1))
        BY <4>0
      <4>2. Grown(h)[i] = NextPlace(h[i - 1], s[i], starts, lengths)
        <5> HIDE DEF h, Grown
        <5>1. QED BY <1>0, <3>2
      <4> HIDE DEF h, Grown
      <4>3. CASE i <= m
        <5>1. short(i) = i /\ short(i - 1) = i - 1 BY <4>3, <4>0, <1>8
        <5>2. \A k \in 1 .. i - 1 : Sized(s[k]) BY <4>3, <4>0, <1>8 DEF EndsAt
        <5>3. lengths \in LengthsOf(s) BY DEF lengths
        <5>4. NextPlace(WalkTo(s, lengths, i - 1), s[i], starts, lengths) = WalkTo(s, lengths, i)
          BY <5>2, <5>3, <4>0, NextFurther DEF starts
        <5>5. QED BY <4>1, <4>2, <5>1, <5>4
      <4>4. CASE i > m
        <5>1. short(i) = m /\ short(i - 1) = m BY <4>4, <4>0, <1>8
        <5>2. m \in 1 .. Len(s) /\ ~Sized(s[m]) BY <4>4, <4>0, <1>8 DEF EndsAt
        <5>3. lengths \in LengthsOf(s) BY DEF lengths
        <5>4. NextPlace(WalkTo(s, lengths, m), s[i], starts, lengths) = WalkTo(s, lengths, m)
          BY <5>2, <5>3, NextNone DEF starts
        <5>5. QED BY <4>1, <4>2, <5>1, <5>4
      <4>5. QED BY <4>3, <4>4, <4>0, <1>8
    <3>3. QED BY <3>1, <3>2
  <2>2. h = [i \in 0 .. n |-> h[i]] OBVIOUS
  <2>3. Grown(h) = [i \in 0 .. n |-> Grown(h)[i]] OBVIOUS
  <2> HIDE DEF h, Grown
  <2>4. QED BY <2>1, <2>2, <2>3
<1>3. h = [i \in 0 .. n |-> h[i]] OBVIOUS
<1>4. h[n] = WalkTo(s, lengths, m) BY <1>8
<1> HIDE DEF h, n
<1>5. ASSUME NEW u, u = Grown(u) PROVE u = h
  <2> DEFINE S == {i \in Nat : i <= n => u[i] = h[i]}
  <2>1. \A i \in 0 .. n : u[i] = Grown(u)[i] /\ h[i] = Grown(h)[i] BY <1>2, <1>5
  <2>2. u = [i \in 0 .. n |-> u[i]] BY <1>5
  <2> HIDE DEF Grown
  <2>3. 0 \in S
    <3>1. 0 \in 0 .. n BY <1>8
    <3>2. QED BY <3>1, <2>1, <1>0
  <2>4. ASSUME NEW i \in S PROVE i + 1 \in S
    <3>1. SUFFICES ASSUME i + 1 <= n PROVE u[i + 1] = h[i + 1]
      OBVIOUS
    <3>2. i \in Nat /\ u[i] = h[i] /\ i + 1 \in 0 .. n /\ i + 1 # 0 /\ i + 1 - 1 = i
      BY <3>1, <1>8
    <3> HIDE DEF S
    <3>3. QED BY <3>2, <1>0, <2>1
  <2>5. S = Nat BY <2>3, <2>4, Ind
  <2>6. \A i \in 0 .. n : u[i] = h[i] BY <2>5, <1>8
  <2>7. QED BY <2>2, <2>6, <1>3
<1>6. h = CHOOSE u : u = Grown(u)
  <2> HIDE DEF Grown
  <2>1. QED BY <1>2, <1>5
<1>7. QED BY <1>1, <1>4, <1>6 DEF lengths

-----------------------------------------------------------------------------
(* What is found at a name *)

\* No name is listed twice.
Distinct(s) == \A i, j \in DOMAIN s : s[i].name = s[j].name => i = j

\* The sizes are understood up to property i.
SizedTo(s, i) == \A k \in 1 .. i : Sized(s[k])

\* A property that is listed is found where it begins, with its size, or is not found
\* and has the size 0, ...
LEMMA InfoThere ==
  ASSUME NEW s \in Seq(Properties), Distinct(s), NEW e, e.properties = s,
         e.lengths \in LengthsOf(s), NEW i \in 1 .. Len(s)
  PROVE  GetPropertyInfo(s[i].name, Walk(s, e)) =
           IF SizedTo(s, i)
           THEN <<Starts(s, e.lengths)[i], EncodedSize(s[i], e.lengths[i])>>
           ELSE <<Nowhere, 0>>
<1> DEFINE lengths == e.lengths
           name == s[i].name
<1>1. PICK m : EndsAt(s, m) BY Ends
<1> DEFINE walk == WalkTo(s, lengths, m)
           named == {k \in DOMAIN walk : walk[k].name = name}
           last == IF named = {} THEN Len(walk) ELSE Min(named)
<1>2. Walk(s, e) = walk BY <1>1, WalkEnds
<1>3. m \in 1 .. Len(s) BY <1>1 DEF EndsAt
<1>4. /\ walk # <<>> /\ Len(walk) = m /\ DOMAIN walk = 1 .. m
      /\ \A k \in 1 .. m : walk[k] = PlaceIn(s, lengths, k)
  <2>1. m \in Nat /\ m # 0 BY <1>3
  <2>2. DOMAIN walk = 1 .. m BY DEF WalkTo
  <2>3. QED BY <2>1, <2>2, WalkToFacts
<1>5. GetPropertyInfo(name, walk) =
        <<IF named = {} \/ walk[last].size = 0 THEN Nowhere ELSE walk[last].offset,
          walk[last].size>>
  BY <1>4 DEF GetPropertyInfo
<1> HIDE DEF walk
<1>6. \A k \in 1 .. m : walk[k].name = name <=> k = i
  <2>1. \A k \in 1 .. m : walk[k].name = s[k].name BY <1>4 DEF PlaceIn
  <2>2. DOMAIN s = 1 .. Len(s) OBVIOUS
  <2>3. QED BY <2>1, <2>2, <1>3 DEF Distinct
<1>7. CASE i <= m
  <2>1. named = {i} BY <1>4, <1>6, <1>7
  <2>2. last = i
    <3>0. i \in Int OBVIOUS
    <3>1. Min({i}) = i BY <3>0, MaxSingle, Zenon
    <3> HIDE DEF named
    <3>2. QED BY <2>1, <3>1
  <2>3. walk[last] = PlaceIn(s, lengths, i) BY <1>4, <1>7, <2>2
  <2> HIDE DEF named, last
  <2>4. GetPropertyInfo(name, walk) =
          <<IF PlaceIn(s, lengths, i).size = 0 THEN Nowhere ELSE PlaceIn(s, lengths, i).offset,
            PlaceIn(s, lengths, i).size>>
    BY <1>5, <2>1, <2>3
  <2>5. SizedTo(s, i) <=> Sized(s[i]) BY <1>1, <1>3, <1>7 DEF SizedTo, EndsAt
  <2>6. EncodedSize(s[i], lengths[i]) # 0 BY Encoded
  <2>7. QED BY <1>2, <2>4, <2>5, <2>6 DEF PlaceIn
<1>8. CASE i > m
  <2>1. named = {} BY <1>4, <1>6, <1>8
  <2>2. last = m BY <2>1, <1>4
  <2>3. walk[last] = PlaceIn(s, lengths, m) BY <1>4, <1>3, <2>2
  <2> HIDE DEF named, last
  <2>4. ~Sized(s[m]) /\ m \in 1 .. i BY <1>1, <1>3, <1>8 DEF EndsAt
  <2>5. walk[last].size = 0 BY <2>3, <2>4 DEF PlaceIn
  <2>6. ~SizedTo(s, i) BY <2>4 DEF SizedTo
  <2>7. QED BY <1>2, <1>5, <2>1, <2>5, <2>6
<1>9. QED BY <1>3, <1>7, <1>8

\* ... and one that is not listed is not found.
LEMMA InfoElsewhere ==
  ASSUME NEW s \in Seq(Properties), NEW e, e.properties = s, e.lengths \in LengthsOf(s),
         NEW name, \A i \in 1 .. Len(s) : s[i].name # name
  PROVE  /\ GetPropertyInfo(name, Walk(s, e))[1] = Nowhere
         /\ GetPropertyInfo(name, Walk(s, e))[2] \in Nat
<1> DEFINE lengths == e.lengths
<1>1. PICK m : EndsAt(s, m) BY Ends
<1> DEFINE walk == WalkTo(s, lengths, m)
           named == {k \in DOMAIN walk : walk[k].name = name}
           last == IF named = {} THEN Len(walk) ELSE Min(named)
<1>2. Walk(s, e) = walk BY <1>1, WalkEnds
<1>3. m \in 0 .. Len(s) BY <1>1 DEF EndsAt
<1>4. CASE walk = <<>>
  <2> HIDE DEF walk
  <2>1. GetPropertyInfo(name, walk) = <<Nowhere, 0>> BY <1>4 DEF GetPropertyInfo
  <2>2. QED BY <1>2, <2>1
<1>5. CASE walk # <<>>
  <2>1. /\ m # 0 /\ Len(walk) = m /\ DOMAIN walk = 1 .. m
        /\ \A k \in 1 .. m : walk[k] = PlaceIn(s, lengths, k)
    <3>1. m \in Nat BY <1>3
    <3>2. DOMAIN walk = 1 .. m BY DEF WalkTo
    <3>3. QED BY <3>1, <3>2, <1>5, WalkToFacts
  <2>2. m \in 1 .. Len(s) BY <2>1, <1>3
  <2>3. GetPropertyInfo(name, walk) =
          <<IF named = {} \/ walk[last].size = 0 THEN Nowhere ELSE walk[last].offset,
            walk[last].size>>
    BY <1>5 DEF GetPropertyInfo
  <2> HIDE DEF walk
  <2>4. \A k \in 1 .. m : walk[k].name = s[k].name BY <2>1 DEF PlaceIn
  <2>5. named = {} BY <2>1, <2>2, <2>4
  <2>6. last = m /\ walk[last] = PlaceIn(s, lengths, m) BY <2>1, <2>2, <2>5
  <2> HIDE DEF named, last
  <2>7. EncodedSize(s[m], lengths[m]) \in Nat BY <2>2, Encoded
  <2>8. QED BY <1>2, <2>3, <2>5, <2>6, <2>7 DEF PlaceIn
<1>6. QED BY <1>4, <1>5

-----------------------------------------------------------------------------
(* What lies at a place *)

\* Properties up to i lie at places that no length moves, ...
FixedTo(s, i) == \A k \in 1 .. i - 1 : s[k].kind \notin Variable

LEMMA PlaceFixed ==
  ASSUME NEW s \in Seq(Properties), NEW lengths \in LengthsOf(s), NEW i \in 1 .. Len(s),
         FixedTo(s, i), SizedTo(s, i)
  PROVE  /\ Starts(s, lengths)[i] <= 16 * (i - 1)
         /\ \A others \in LengthsOf(s) : Starts(s, others)[i] = Starts(s, lengths)[i]
<1> SUFFICES ASSUME NEW others \in LengthsOf(s)
             PROVE  /\ Starts(s, lengths)[i] <= 16 * (i - 1)
                    /\ Starts(s, others)[i] = Starts(s, lengths)[i]
  OBVIOUS
<1> DEFINE at == Starts(s, lengths)
           to == Starts(s, others)
           n == Len(s)
           S == {k \in Nat : k \in 1 .. i => at[k] <= 16 * (k - 1) /\ to[k] = at[k]}
<1>0. n \in Nat /\ i \in 1 .. n OBVIOUS
<1>1. /\ \A k \in 1 .. n : at[k] \in Nat /\ to[k] \in Nat
      /\ \A k \in 1 .. n : at[k] = IF k = 1 THEN 0 ELSE at[k - 1] + EncodedSize(s[k - 1], lengths[k - 1])
      /\ \A k \in 1 .. n : to[k] = IF k = 1 THEN 0 ELSE to[k - 1] + EncodedSize(s[k - 1], others[k - 1])
  BY StartsFacts
<1>2. ASSUME NEW k \in 1 .. i - 1
      PROVE  /\ EncodedSize(s[k], lengths[k]) \in Nat
             /\ EncodedSize(s[k], lengths[k]) <= 16
             /\ EncodedSize(s[k], others[k]) = EncodedSize(s[k], lengths[k])
  <2>1. k \in 1 .. Len(s) /\ k \in 1 .. i OBVIOUS
  <2>2. s[k] \in Properties /\ lengths[k] \in AnyLength /\ others[k] \in AnyLength
    BY <2>1, Encoded
  <2>3. Sized(s[k]) /\ s[k].kind \notin Variable BY <2>1 DEF SizedTo, FixedTo
  <2>4. QED BY <2>2, <2>3, Sizes
<1> HIDE DEF at, to, n
<1>3. 0 \in S OBVIOUS
<1>4. ASSUME NEW k \in S PROVE k + 1 \in S
  <2>1. SUFFICES ASSUME k + 1 \in 1 .. i
                 PROVE  at[k + 1] <= 16 * k /\ to[k + 1] = at[k + 1]
    OBVIOUS
  <2>2. k + 1 \in 1 .. n /\ k + 1 - 1 = k BY <2>1, <1>0
  <2>3. CASE k = 0
    BY <2>2, <2>3, <1>1
  <2>4. CASE k # 0
    <3>1. k \in 1 .. i - 1 /\ k \in 1 .. n /\ k \in 1 .. i /\ k + 1 # 1 BY <2>1, <2>4, <1>0
    <3>2. at[k] <= 16 * (k - 1) /\ to[k] = at[k] /\ at[k] \in Nat BY <3>1, <1>1
    <3>3. /\ at[k + 1] = at[k] + EncodedSize(s[k], lengths[k])
          /\ to[k + 1] = to[k] + EncodedSize(s[k], others[k])
      BY <1>1, <2>2, <3>1
    <3>4. QED BY <3>1, <3>2, <3>3, <1>2
  <2>5. QED BY <2>3, <2>4
<1>5. S = Nat BY <1>3, <1>4, Ind
<1>6. i \in Nat BY <1>0
<1>7. i \in S BY <1>5, <1>6
<1>8. QED BY <1>6, <1>7, <1>0 DEF at, to

\* ... and a DWORD holds them.
LEMMA PlaceKept ==
  ASSUME NEW s \in Seq(Properties), NEW lengths \in LengthsOf(s), NEW i \in 1 .. Len(s),
         FixedTo(s, i), SizedTo(s, i), Len(s) <= 64
  PROVE  AsOffset(Starts(s, lengths)[i]) = Starts(s, lengths)[i]
<1> DEFINE x == Starts(s, lengths)[i]
<1>1. x \in Nat /\ x <= 16 * (i - 1) BY PlaceFixed, StartsFacts
<1>2. x < OffsetModulus
  <2> HIDE DEF x
  <2>1. Len(s) \in Nat OBVIOUS
  <2>2. x < 1024 BY <1>1, <2>1
  <2>3. QED BY <1>1, <2>2, Moduli
<1> HIDE DEF x
<1>3. x % OffsetModulus = x BY <1>1, <1>2, Moduli
<1>4. QED BY <1>3 DEF AsOffset, x

\* What lies where a property begins is that property.
LEMMA Found ==
  ASSUME NEW e, NEW s \in Seq(Properties), e.properties = s, e.lengths \in LengthsOf(s),
         NEW i \in 1 .. Len(s)
  PROVE  LET starts == Starts(s, e.lengths)
         IN  /\ BytesAt(e, starts, starts[i], EncodedSize(s[i], e.lengths[i])) = s[i].name
             /\ TextAt(e, starts, starts[i]) = s[i].name
<1> DEFINE starts == Starts(s, e.lengths)
           size == EncodedSize(s[i], e.lengths[i])
           here == {j \in DOMAIN starts : starts[j] = starts[i]}
           sized == {j \in DOMAIN starts : /\ starts[j] = starts[i]
                                           /\ EncodedSize(e.properties[j], e.lengths[j]) = size}
<1>1. DOMAIN starts = 1 .. Len(s) /\ \A j \in 1 .. Len(s) : starts[j] = starts[i] => j = i
  BY StartsFacts
<1>2. here = {i} /\ sized = {i} BY <1>1
<1>3. Max({i}) = i
  <2>1. i \in Int OBVIOUS
  <2>2. QED BY <2>1, MaxSingle, Zenon
<1>4. BytesAt(e, starts, starts[i], size) = IF sized = {} THEN Garbage ELSE s[Max(sized)].name
  BY DEF BytesAt
<1>5. TextAt(e, starts, starts[i]) = IF here = {} THEN Garbage ELSE s[Max(here)].name
  BY DEF TextAt
<1> HIDE DEF here, sized, size, starts
<1>6. QED BY <1>2, <1>3, <1>4, <1>5 DEF size, starts

\* A bounded set of numbers has its greatest element.
LEMMA MaxIn ==
  ASSUME NEW n \in Nat, NEW S \in SUBSET (1 .. n), S # {}
  PROVE  Max(S) \in S
<1> DEFINE U == {k \in Nat : \A x \in S : x <= k}
<1>1. n \in U OBVIOUS
<1>2. U \in SUBSET Nat /\ U # {} BY <1>1
<1>3. PICK u \in U : \A k \in U : u <= k
  <2> HIDE DEF U
  <2>1. QED BY <1>2, Least
<1>4. u \in S
  <2>1. SUFFICES ASSUME u \notin S PROVE FALSE
    OBVIOUS
  <2>2. PICK x \in S : TRUE OBVIOUS
  <2>3. x <= u /\ x # u BY <1>3, <2>1, <2>2
  <2>4. u - 1 \in U BY <1>3, <2>1, <2>2, <2>3
  <2>5. QED BY <1>3, <2>4
<1>5. \A x \in S : u >= x BY <1>3
<1>6. \E x \in S : \A y \in S : x >= y BY <1>4, <1>5
<1>7. QED BY <1>6 DEF Max

\* Whatever the place, what lies there is one of the event's properties or nothing.
LEMMA FoundAny ==
  ASSUME NEW e, NEW s \in Seq(Properties), e.properties = s, e.lengths \in LengthsOf(s),
         NEW offset, NEW size
  PROVE  LET starts == Starts(s, e.lengths)
             names == {s[i].name : i \in DOMAIN s}
         IN  /\ BytesAt(e, starts, offset, size) \in {Garbage} \cup names
             /\ TextAt(e, starts, offset) \in {Garbage} \cup names
<1> DEFINE starts == Starts(s, e.lengths)
           names == {s[i].name : i \in DOMAIN s}
           here == {j \in DOMAIN starts : starts[j] = offset}
           sized == {j \in DOMAIN starts : /\ starts[j] = offset
                                           /\ EncodedSize(e.properties[j], e.lengths[j]) = size}
           n == Len(s)
<1>1. DOMAIN starts = 1 .. n /\ DOMAIN s = 1 .. n /\ n \in Nat
  BY StartsFacts
<1>4. BytesAt(e, starts, offset, size) = IF sized = {} THEN Garbage ELSE s[Max(sized)].name
  BY DEF BytesAt
<1>5. TextAt(e, starts, offset) = IF here = {} THEN Garbage ELSE s[Max(here)].name
  BY DEF TextAt
<1>2. here \in SUBSET (1 .. n) /\ sized \in SUBSET (1 .. n) BY <1>1
<1> HIDE DEF here, sized, n
<1>3. (here # {} => Max(here) \in 1 .. n) /\ (sized # {} => Max(sized) \in 1 .. n)
  BY <1>1, <1>2, MaxIn
<1> HIDE DEF starts
<1>6. QED BY <1>1, <1>3, <1>4, <1>5 DEF starts

-----------------------------------------------------------------------------
(* The layouts *)

\* The kinds of the documentation.
Documented == {"uint8", "uint16", "sint16", "uint32", "uint64", "Port", "IPAddr", "IPAddrV6",
               "ansi", "wide", "Sid"}

\* A list of properties as the source declares it.
Declared(s) ==
  /\ s = [i \in 1 .. Len(s) |-> s[i]] /\ Len(s) \in 0 .. 32
  /\ \A i \in 1 .. Len(s) : /\ s[i] = Property(s[i].name, s[i].kind)
                            /\ s[i].kind \in Documented /\ s[i].name # "Undocumented"
  /\ Distinct(s)

\* A layout is a declared list for types of its own category.
LayoutSound(l) ==
  Declared(l.properties) /\ l.types \subseteq 0 .. 99 /\ l.category # "EventTrace"

\* What is declared is one of its kind.
LEMMA PropertyFields ==
  \A n, k : Property(n, k).name = n /\ Property(n, k).kind = k /\ Property(n, k).count = 1
BY DEF Property

\* The layouts of the events that have constructors, ...
LEMMA ReadLayoutsSound ==
  /\ LayoutSound(FileIoCreate)
  /\ LayoutSound(FileIoDirEnum)
  /\ LayoutSound(FileIoInfo)
  /\ LayoutSound(FileIoName)
  /\ LayoutSound(FileIoOpEnd)
  /\ LayoutSound(FileIoReadWrite)
  /\ LayoutSound(FileIoSimpleOp)
  /\ LayoutSound(ProcessTypeGroup1)
  /\ LayoutSound(ThreadTypeGroup1)
  /\ LayoutSound(ImageLoad)
  /\ LayoutSound(RegistryTypeGroup1)
  /\ LayoutSound(DiskIoTypeGroup1)
  /\ LayoutSound(PageFaultVirtualAlloc)
  /\ LayoutSound(SysCallEnter)
<1>1. LayoutSound(FileIoCreate)
  BY PropertyFields DEF LayoutSound, Declared, Distinct, Documented, All, Layout, FileIoCreate
<1>2. LayoutSound(FileIoDirEnum)
  BY PropertyFields DEF LayoutSound, Declared, Distinct, Documented, All, Layout, FileIoDirEnum
<1>3. LayoutSound(FileIoInfo)
  BY PropertyFields DEF LayoutSound, Declared, Distinct, Documented, All, Layout, FileIoInfo
<1>4. LayoutSound(FileIoName)
  BY PropertyFields DEF LayoutSound, Declared, Distinct, Documented, All, Layout, FileIoName
<1>5. LayoutSound(FileIoOpEnd)
  BY PropertyFields DEF LayoutSound, Declared, Distinct, Documented, All, Layout, FileIoOpEnd
<1>6. LayoutSound(FileIoReadWrite)
  BY PropertyFields DEF LayoutSound, Declared, Distinct, Documented, All, Layout,
     FileIoReadWrite
<1>7. LayoutSound(FileIoSimpleOp)
  BY PropertyFields DEF LayoutSound, Declared, Distinct, Documented, All, Layout, FileIoSimpleOp
<1>8. LayoutSound(ProcessTypeGroup1)
  BY PropertyFields DEF LayoutSound, Declared, Distinct, Documented, All, Layout,
     ProcessTypeGroup1
<1>9. LayoutSound(ThreadTypeGroup1)
  BY PropertyFields DEF LayoutSound, Declared, Distinct, Documented, All, Layout,
     ThreadTypeGroup1
<1>10. LayoutSound(ImageLoad)
  BY PropertyFields DEF LayoutSound, Declared, Distinct, Documented, All, Layout, ImageLoad
<1>11. LayoutSound(RegistryTypeGroup1)
  <2>1. Declared(RegistryTypeGroup1.properties)
    BY PropertyFields DEF Declared, Distinct, Documented, All, Layout, RegistryTypeGroup1
  <2>2. RegistryTypeGroup1.types = 10 .. 27 /\ RegistryTypeGroup1.category # "EventTrace"
    BY DEF Layout, RegistryTypeGroup1
  <2>3. QED BY <2>1, <2>2 DEF LayoutSound
<1>12. LayoutSound(DiskIoTypeGroup1)
  BY PropertyFields DEF LayoutSound, Declared, Distinct, Documented, All, Layout,
     DiskIoTypeGroup1
<1>13. LayoutSound(PageFaultVirtualAlloc)
  BY PropertyFields DEF LayoutSound, Declared, Distinct, Documented, All, Layout,
     PageFaultVirtualAlloc
<1>14. LayoutSound(SysCallEnter)
  BY PropertyFields DEF LayoutSound, Declared, Distinct, Documented, All, Layout, SysCallEnter
<1>15. QED
  BY <1>1, <1>2, <1>3, <1>4, <1>5, <1>6, <1>7, <1>8, <1>9, <1>10, <1>11, <1>12, <1>13, <1>14

\* ... and those of the network events.
LEMMA NetworkLayoutsSound == \A l \in NetworkLayouts : LayoutSound(l)
<1> DEFINE Families == {"IPAddr", "IPAddrV6"}
<1> USE PropertyFields DEF All, Addresses, Peers, Tail2
<1>1. ASSUME NEW family \in Families, NEW ts \in SUBSET (0 .. 99)
      PROVE  LayoutSound(TcpIpSend(family, ts))
  <2> DEFINE s == TcpIpSend(family, ts).properties
  <2>1. /\ s = [i \in 1 .. Len(s) |-> s[i]] /\ Len(s) \in 0 .. 32
        /\ \A i \in 1 .. Len(s) : s[i] = Property(s[i].name, s[i].kind)
    BY DEF TcpIpSend, Layout
  <2>2. \A i \in 1 .. Len(s) : s[i].kind \in Documented
    BY DEF TcpIpSend, Layout, Documented
  <2>3. \A i \in 1 .. Len(s) : s[i].name # "Undocumented"
    BY DEF TcpIpSend, Layout
  <2>4. Distinct(s)
    BY DEF TcpIpSend, Layout, Distinct
  <2>5. /\ TcpIpSend(family, ts).types \subseteq 0 .. 99
        /\ TcpIpSend(family, ts).category # "EventTrace"
    BY DEF TcpIpSend, Layout
  <2>6. QED BY <2>1, <2>2, <2>3, <2>4, <2>5 DEF LayoutSound, Declared
<1>2. ASSUME NEW family \in Families, NEW ts \in SUBSET (0 .. 99)
      PROVE  LayoutSound(TcpIpTypeGroup1(family, ts))
  <2> DEFINE s == TcpIpTypeGroup1(family, ts).properties
  <2>1. /\ s = [i \in 1 .. Len(s) |-> s[i]] /\ Len(s) \in 0 .. 32
        /\ \A i \in 1 .. Len(s) : s[i] = Property(s[i].name, s[i].kind)
    BY DEF TcpIpTypeGroup1, Layout
  <2>2. \A i \in 1 .. Len(s) : s[i].kind \in Documented
    BY DEF TcpIpTypeGroup1, Layout, Documented
  <2>3. \A i \in 1 .. Len(s) : s[i].name # "Undocumented"
    BY DEF TcpIpTypeGroup1, Layout
  <2>4. Distinct(s)
    BY DEF TcpIpTypeGroup1, Layout, Distinct
  <2>5. /\ TcpIpTypeGroup1(family, ts).types \subseteq 0 .. 99
        /\ TcpIpTypeGroup1(family, ts).category # "EventTrace"
    BY DEF TcpIpTypeGroup1, Layout
  <2>6. QED BY <2>1, <2>2, <2>3, <2>4, <2>5 DEF LayoutSound, Declared
<1>3. ASSUME NEW family \in Families, NEW ts \in SUBSET (0 .. 99)
      PROVE  LayoutSound(TcpIpTypeGroup2(family, ts))
  <2> DEFINE s == TcpIpTypeGroup2(family, ts).properties
  <2>1. /\ s = [i \in 1 .. Len(s) |-> s[i]] /\ Len(s) \in 0 .. 32
        /\ \A i \in 1 .. Len(s) : s[i] = Property(s[i].name, s[i].kind)
    BY DEF TcpIpTypeGroup2, Layout
  <2>2. \A i \in 1 .. Len(s) : s[i].kind \in Documented
    BY DEF TcpIpTypeGroup2, Layout, Documented
  <2>3. \A i \in 1 .. Len(s) : s[i].name # "Undocumented"
    BY DEF TcpIpTypeGroup2, Layout
  <2>4. Distinct(s)
    BY DEF TcpIpTypeGroup2, Layout, Distinct
  <2>5. /\ TcpIpTypeGroup2(family, ts).types \subseteq 0 .. 99
        /\ TcpIpTypeGroup2(family, ts).category # "EventTrace"
    BY DEF TcpIpTypeGroup2, Layout
  <2>6. QED BY <2>1, <2>2, <2>3, <2>4, <2>5 DEF LayoutSound, Declared
<1>4. ASSUME NEW family \in Families, NEW ts \in SUBSET (0 .. 99)
      PROVE  LayoutSound(UdpIpTypeGroup1(family, ts))
  <2> DEFINE s == UdpIpTypeGroup1(family, ts).properties
  <2>1. /\ s = [i \in 1 .. Len(s) |-> s[i]] /\ Len(s) \in 0 .. 32
        /\ \A i \in 1 .. Len(s) : s[i] = Property(s[i].name, s[i].kind)
    BY DEF UdpIpTypeGroup1, Layout
  <2>2. \A i \in 1 .. Len(s) : s[i].kind \in Documented
    BY DEF UdpIpTypeGroup1, Layout, Documented
  <2>3. \A i \in 1 .. Len(s) : s[i].name # "Undocumented"
    BY DEF UdpIpTypeGroup1, Layout
  <2>4. Distinct(s)
    BY DEF UdpIpTypeGroup1, Layout, Distinct
  <2>5. /\ UdpIpTypeGroup1(family, ts).types \subseteq 0 .. 99
        /\ UdpIpTypeGroup1(family, ts).category # "EventTrace"
    BY DEF UdpIpTypeGroup1, Layout
  <2>6. QED BY <2>1, <2>2, <2>3, <2>4, <2>5 DEF LayoutSound, Declared
<1>5. LayoutSound(TcpIpFail)
  BY DEF LayoutSound, Declared, Distinct, Documented, Layout, TcpIpFail
<1>6. LayoutSound(UdpIpFail)
  BY DEF LayoutSound, Declared, Distinct, Documented, Layout, UdpIpFail
<1>7. /\ {10, 11, 12, 13, 14, 15, 16, 18, 26, 27, 28, 29, 30, 31, 32, 34} \subseteq 0 .. 99
      /\ Families = {"IPAddr", "IPAddrV6"}
  OBVIOUS
<1> HIDE DEF Families
<1>8. QED
  BY <1>1, <1>2, <1>3, <1>4, <1>5, <1>6, <1>7 DEF NetworkLayouts

\* No string and no SID is copied, and none lies before what is at a kept offset.
Steady(s, copied, text) ==
  /\ \A i \in 1 .. Len(s) : s[i].name \in copied => s[i].kind \notin Variable
  /\ \A i \in 1 .. Len(s) : s[i].name \in copied \cup text => FixedTo(s, i)

\* What a constructor copies is among what it tests, what it tests among what it
\* looks up, and nothing that it keeps moves.
ReaderSound(r) ==
  /\ LayoutSound(r.layout)
  /\ r.tested \in SUBSET r.located /\ r.copied \in SUBSET r.tested
  /\ r.text \in SUBSET r.located
  /\ r.tested # {} /\ "Undocumented" \notin r.copied \cup r.text
  /\ Steady(r.layout.properties, r.copied, r.text)

\* This is so for every constructor.
LEMMA ReadersSound == \A r \in Readers : ReaderSound(r)
<1> USE ReadLayoutsSound DEF ReaderSound
<1>1. ReaderSound(FileIoCreateMember)
  <2> DEFINE r == FileIoCreateMember
             s == FileIoCreate.properties
  <2>0. s[7].name = "OpenPath" /\ Len(s) = 7
    BY PropertyFields DEF FileIoCreate, Layout, All
  <2>6. "OpenPath" \in Names(FileIoCreate)
    <3>1. DOMAIN s = 1 .. Len(s) BY ReadLayoutsSound DEF LayoutSound, Declared
    <3>2. QED BY <2>0, <3>1 DEF Names
  <2>1. /\ r.layout = FileIoCreate
        /\ r.tested \in SUBSET r.located /\ r.copied \in SUBSET r.tested
        /\ r.text \in SUBSET r.located
    BY <2>6 DEF Reader, EndsIn, FileIoCreateMember
  <2>2. r.tested # {}
    <3>1. s[1].name \in Names(FileIoCreate)
      BY PropertyFields DEF Names, FileIoCreate, Layout, All
    <3>2. QED
      BY <3>1, PropertyFields DEF Reader, EndsIn, FileIoCreateMember, FileIoCreate, Layout, All
  <2>3. Steady(s, r.copied, r.text)
    BY PropertyFields DEF Steady, FixedTo, Variable, Reader, EndsIn, FileIoCreateMember,
       FileIoCreate, Layout, All
  <2>4. "Undocumented" \notin r.copied \cup r.text
    <3>1. "Undocumented" \notin Names(FileIoCreate)
      BY ReadLayoutsSound DEF LayoutSound, Declared, Names
    <3>2. QED BY <3>1 DEF Reader, EndsIn, FileIoCreateMember
  <2>5. QED BY <2>1, <2>2, <2>3, <2>4
<1>2. ReaderSound(FileIoDirEnumMember)
  <2> DEFINE r == FileIoDirEnumMember
             s == FileIoDirEnum.properties
  <2>0. /\ s[1].name = "IrpPtr"
        /\ s[2].name = "TTID"
        /\ s[3].name = "FileObject"
        /\ s[8].name = "FileName"
        /\ Len(s) = 8
    BY PropertyFields DEF FileIoDirEnum, Layout, All
  <2>6. /\ "IrpPtr" \in Names(FileIoDirEnum)
        /\ "TTID" \in Names(FileIoDirEnum)
        /\ "FileObject" \in Names(FileIoDirEnum)
        /\ "FileName" \in Names(FileIoDirEnum)
    <3>1. DOMAIN s = 1 .. Len(s) BY ReadLayoutsSound DEF LayoutSound, Declared
    <3>2. QED BY <2>0, <3>1 DEF Names
  <2>1. /\ r.layout = FileIoDirEnum
        /\ r.tested \in SUBSET r.located /\ r.copied \in SUBSET r.tested
        /\ r.text \in SUBSET r.located
    BY <2>6 DEF Reader, EndsIn, FileIoDirEnumMember
  <2>2. r.tested # {}
    <3>1. s[1].name \in Names(FileIoDirEnum)
      BY PropertyFields DEF Names, FileIoDirEnum, Layout, All
    <3>2. QED
      BY <3>1, PropertyFields DEF Reader, EndsIn, FileIoDirEnumMember, FileIoDirEnum, Layout,
         All
  <2>3. Steady(s, r.copied, r.text)
    BY PropertyFields DEF Steady, FixedTo, Variable, Reader, EndsIn, FileIoDirEnumMember,
       FileIoDirEnum, Layout, All
  <2>4. "Undocumented" \notin r.copied \cup r.text
    <3>1. "Undocumented" \notin Names(FileIoDirEnum)
      BY ReadLayoutsSound DEF LayoutSound, Declared, Names
    <3>2. QED BY <3>1 DEF Reader, EndsIn, FileIoDirEnumMember
  <2>5. QED BY <2>1, <2>2, <2>3, <2>4
<1>3. ReaderSound(FileIoInfoMember)
  <2> DEFINE r == FileIoInfoMember
             s == FileIoInfo.properties
  <2>1. /\ r.layout = FileIoInfo
        /\ r.tested \in SUBSET r.located /\ r.copied \in SUBSET r.tested
        /\ r.text \in SUBSET r.located
    BY DEF Reader, CopiesAll, FileIoInfoMember
  <2>2. r.tested # {}
    <3>1. s[1].name \in Names(FileIoInfo)
      BY PropertyFields DEF Names, FileIoInfo, Layout, All
    <3>2. QED
      BY <3>1, PropertyFields DEF Reader, CopiesAll, FileIoInfoMember, FileIoInfo, Layout, All
  <2>3. Steady(s, r.copied, r.text)
    BY PropertyFields DEF Steady, FixedTo, Variable, Reader, CopiesAll, FileIoInfoMember,
       FileIoInfo, Layout, All
  <2>4. "Undocumented" \notin r.copied \cup r.text
    <3>1. "Undocumented" \notin Names(FileIoInfo)
      BY ReadLayoutsSound DEF LayoutSound, Declared, Names
    <3>2. QED BY <3>1 DEF Reader, CopiesAll, FileIoInfoMember
  <2>5. QED BY <2>1, <2>2, <2>3, <2>4
<1>4. ReaderSound(FileIoNameMember)
  <2> DEFINE r == FileIoNameMember
             s == FileIoName.properties
  <2>0. s[1].name = "FileObject" /\ s[2].name = "FileName" /\ Len(s) = 2
    BY PropertyFields DEF FileIoName, Layout, All
  <2>6. "FileObject" \in Names(FileIoName) /\ "FileName" \in Names(FileIoName)
    <3>1. DOMAIN s = 1 .. Len(s) BY ReadLayoutsSound DEF LayoutSound, Declared
    <3>2. QED BY <2>0, <3>1 DEF Names
  <2>1. /\ r.layout = FileIoName
        /\ r.tested \in SUBSET r.located /\ r.copied \in SUBSET r.tested
        /\ r.text \in SUBSET r.located
    BY <2>6 DEF Reader, EndsIn, FileIoNameMember
  <2>2. r.tested # {}
    <3>1. s[1].name \in Names(FileIoName)
      BY PropertyFields DEF Names, FileIoName, Layout, All
    <3>2. QED
      BY <3>1, PropertyFields DEF Reader, EndsIn, FileIoNameMember, FileIoName, Layout, All
  <2>3. Steady(s, r.copied, r.text)
    BY PropertyFields DEF Steady, FixedTo, Variable, Reader, EndsIn, FileIoNameMember,
       FileIoName, Layout, All
  <2>4. "Undocumented" \notin r.copied \cup r.text
    <3>1. "Undocumented" \notin Names(FileIoName)
      BY ReadLayoutsSound DEF LayoutSound, Declared, Names
    <3>2. QED BY <3>1 DEF Reader, EndsIn, FileIoNameMember
  <2>5. QED BY <2>1, <2>2, <2>3, <2>4
<1>5. ReaderSound(FileIoOpEndMember)
  <2> DEFINE r == FileIoOpEndMember
             s == FileIoOpEnd.properties
  <2>1. /\ r.layout = FileIoOpEnd
        /\ r.tested \in SUBSET r.located /\ r.copied \in SUBSET r.tested
        /\ r.text \in SUBSET r.located
    BY DEF Reader, CopiesAll, FileIoOpEndMember
  <2>2. r.tested # {}
    <3>1. s[1].name \in Names(FileIoOpEnd)
      BY PropertyFields DEF Names, FileIoOpEnd, Layout, All
    <3>2. QED
      BY <3>1, PropertyFields DEF Reader, CopiesAll, FileIoOpEndMember, FileIoOpEnd, Layout, All
  <2>3. Steady(s, r.copied, r.text)
    BY PropertyFields DEF Steady, FixedTo, Variable, Reader, CopiesAll, FileIoOpEndMember,
       FileIoOpEnd, Layout, All
  <2>4. "Undocumented" \notin r.copied \cup r.text
    <3>1. "Undocumented" \notin Names(FileIoOpEnd)
      BY ReadLayoutsSound DEF LayoutSound, Declared, Names
    <3>2. QED BY <3>1 DEF Reader, CopiesAll, FileIoOpEndMember
  <2>5. QED BY <2>1, <2>2, <2>3, <2>4
<1>6. ReaderSound(FileIoReadWriteMember)
  <2> DEFINE r == FileIoReadWriteMember
             s == FileIoReadWrite.properties
  <2>1. /\ r.layout = FileIoReadWrite
        /\ r.tested \in SUBSET r.located /\ r.copied \in SUBSET r.tested
        /\ r.text \in SUBSET r.located
    BY DEF Reader, CopiesAll, FileIoReadWriteMember
  <2>2. r.tested # {}
    <3>1. s[1].name \in Names(FileIoReadWrite)
      BY PropertyFields DEF Names, FileIoReadWrite, Layout, All
    <3>2. QED
      BY <3>1, PropertyFields DEF Reader, CopiesAll, FileIoReadWriteMember, FileIoReadWrite,
         Layout, All
  <2>3. Steady(s, r.copied, r.text)
    BY PropertyFields DEF Steady, FixedTo, Variable, Reader, CopiesAll, FileIoReadWriteMember,
       FileIoReadWrite, Layout, All
  <2>4. "Undocumented" \notin r.copied \cup r.text
    <3>1. "Undocumented" \notin Names(FileIoReadWrite)
      BY ReadLayoutsSound DEF LayoutSound, Declared, Names
    <3>2. QED BY <3>1 DEF Reader, CopiesAll, FileIoReadWriteMember
  <2>5. QED BY <2>1, <2>2, <2>3, <2>4
<1>7. ReaderSound(FileIoSimpleOpMember)
  <2> DEFINE r == FileIoSimpleOpMember
             s == FileIoSimpleOp.properties
  <2>1. /\ r.layout = FileIoSimpleOp
        /\ r.tested \in SUBSET r.located /\ r.copied \in SUBSET r.tested
        /\ r.text \in SUBSET r.located
    BY DEF Reader, CopiesAll, FileIoSimpleOpMember
  <2>2. r.tested # {}
    <3>1. s[1].name \in Names(FileIoSimpleOp)
      BY PropertyFields DEF Names, FileIoSimpleOp, Layout, All
    <3>2. QED
      BY <3>1, PropertyFields DEF Reader, CopiesAll, FileIoSimpleOpMember, FileIoSimpleOp,
         Layout, All
  <2>3. Steady(s, r.copied, r.text)
    BY PropertyFields DEF Steady, FixedTo, Variable, Reader, CopiesAll, FileIoSimpleOpMember,
       FileIoSimpleOp, Layout, All
  <2>4. "Undocumented" \notin r.copied \cup r.text
    <3>1. "Undocumented" \notin Names(FileIoSimpleOp)
      BY ReadLayoutsSound DEF LayoutSound, Declared, Names
    <3>2. QED BY <3>1 DEF Reader, CopiesAll, FileIoSimpleOpMember
  <2>5. QED BY <2>1, <2>2, <2>3, <2>4
<1>8. ReaderSound(ProcessTypeGroup1Member)
  <2> DEFINE r == ProcessTypeGroup1Member
             s == ProcessTypeGroup1.properties
  <2>0. s[1].name = "UniqueProcessKey" /\ Len(s) = 9
    BY PropertyFields DEF ProcessTypeGroup1, Layout, All
  <2>6. "UniqueProcessKey" \in Names(ProcessTypeGroup1)
    <3>1. DOMAIN s = 1 .. Len(s) BY ReadLayoutsSound DEF LayoutSound, Declared
    <3>2. QED BY <2>0, <3>1 DEF Names
  <2>1. /\ r.layout = ProcessTypeGroup1
        /\ r.tested \in SUBSET r.located /\ r.copied \in SUBSET r.tested
        /\ r.text \in SUBSET r.located
    BY <2>6 DEF Reader, ProcessTypeGroup1Member
  <2>2. r.tested # {}
    BY <2>6 DEF Reader, ProcessTypeGroup1Member
  <2>3. Steady(s, r.copied, r.text)
    BY PropertyFields DEF Steady, FixedTo, Variable, Reader, ProcessTypeGroup1Member,
       ProcessTypeGroup1, Layout, All
  <2>4. "Undocumented" \notin r.copied \cup r.text
    <3>1. "Undocumented" \notin Names(ProcessTypeGroup1)
      BY ReadLayoutsSound DEF LayoutSound, Declared, Names
    <3>2. QED BY <3>1 DEF Reader, ProcessTypeGroup1Member
  <2>5. QED BY <2>1, <2>2, <2>3, <2>4
<1>9. ReaderSound(ThreadTypeGroup1Member)
  <2> DEFINE r == ThreadTypeGroup1Member
             s == ThreadTypeGroup1.properties
  <2>1. /\ r.layout = ThreadTypeGroup1
        /\ r.tested \in SUBSET r.located /\ r.copied \in SUBSET r.tested
        /\ r.text \in SUBSET r.located
    BY DEF Reader, CopiesAll, ThreadTypeGroup1Member
  <2>2. r.tested # {}
    <3>1. s[1].name \in Names(ThreadTypeGroup1)
      BY PropertyFields DEF Names, ThreadTypeGroup1, Layout, All
    <3>2. QED
      BY <3>1, PropertyFields DEF Reader, CopiesAll, ThreadTypeGroup1Member, ThreadTypeGroup1,
         Layout, All
  <2>3. Steady(s, r.copied, r.text)
    BY PropertyFields DEF Steady, FixedTo, Variable, Reader, CopiesAll, ThreadTypeGroup1Member,
       ThreadTypeGroup1, Layout, All
  <2>4. "Undocumented" \notin r.copied \cup r.text
    <3>1. "Undocumented" \notin Names(ThreadTypeGroup1)
      BY ReadLayoutsSound DEF LayoutSound, Declared, Names
    <3>2. QED BY <3>1 DEF Reader, CopiesAll, ThreadTypeGroup1Member
  <2>5. QED BY <2>1, <2>2, <2>3, <2>4
<1>10. ReaderSound(ImageLoadMember)
  <2> DEFINE r == ImageLoadMember
             s == ImageLoad.properties
  <2>1. /\ r.layout = ImageLoad
        /\ r.tested \in SUBSET r.located /\ r.copied \in SUBSET r.tested
        /\ r.text \in SUBSET r.located
    BY DEF Reader, ImageLoadMember
  <2>2. r.tested # {}
    <3>1. s[1].name \in Names(ImageLoad)
      BY PropertyFields DEF Names, ImageLoad, Layout, All
    <3>2. QED BY <3>1, PropertyFields DEF Reader, ImageLoadMember, ImageLoad, Layout, All
  <2>3. Steady(s, r.copied, r.text)
    BY PropertyFields DEF Steady, FixedTo, Variable, Reader, ImageLoadMember, ImageLoad,
       Layout, All
  <2>4. "Undocumented" \notin r.copied \cup r.text
    <3>1. "Undocumented" \notin Names(ImageLoad)
      BY ReadLayoutsSound DEF LayoutSound, Declared, Names
    <3>2. QED BY <3>1 DEF Reader, ImageLoadMember
  <2>5. QED BY <2>1, <2>2, <2>3, <2>4
<1>11. ReaderSound(RegistryTypeGroup1Member)
  <2> DEFINE r == RegistryTypeGroup1Member
             s == RegistryTypeGroup1.properties
  <2>0. s[5].name = "KeyName" /\ Len(s) = 5
    BY PropertyFields DEF RegistryTypeGroup1, Layout, All
  <2>6. "KeyName" \in Names(RegistryTypeGroup1)
    <3>1. DOMAIN s = 1 .. Len(s) BY ReadLayoutsSound DEF LayoutSound, Declared
    <3>2. QED BY <2>0, <3>1 DEF Names
  <2>1. /\ r.layout = RegistryTypeGroup1
        /\ r.tested \in SUBSET r.located /\ r.copied \in SUBSET r.tested
        /\ r.text \in SUBSET r.located
    BY <2>6 DEF Reader, RegistryTypeGroup1Member
  <2>2. r.tested # {}
    <3>1. s[1].name \in Names(RegistryTypeGroup1)
      BY PropertyFields DEF Names, RegistryTypeGroup1, Layout, All
    <3>2. QED
      BY <3>1, PropertyFields DEF Reader, RegistryTypeGroup1Member, RegistryTypeGroup1, Layout,
         All
  <2>3. Steady(s, r.copied, r.text)
    BY PropertyFields DEF Steady, FixedTo, Variable, Reader, RegistryTypeGroup1Member,
       RegistryTypeGroup1, Layout, All
  <2>4. "Undocumented" \notin r.copied \cup r.text
    <3>1. "Undocumented" \notin Names(RegistryTypeGroup1)
      BY ReadLayoutsSound DEF LayoutSound, Declared, Names
    <3>2. QED BY <3>1 DEF Reader, RegistryTypeGroup1Member
  <2>5. QED BY <2>1, <2>2, <2>3, <2>4
<1>12. ReaderSound(DiskIoTypeGroup1Member)
  <2> DEFINE r == DiskIoTypeGroup1Member
             s == DiskIoTypeGroup1.properties
  <2>1. /\ r.layout = DiskIoTypeGroup1
        /\ r.tested \in SUBSET r.located /\ r.copied \in SUBSET r.tested
        /\ r.text \in SUBSET r.located
    BY DEF Reader, CopiesAll, DiskIoTypeGroup1Member
  <2>2. r.tested # {}
    <3>1. s[1].name \in Names(DiskIoTypeGroup1)
      BY PropertyFields DEF Names, DiskIoTypeGroup1, Layout, All
    <3>2. QED
      BY <3>1, PropertyFields DEF Reader, CopiesAll, DiskIoTypeGroup1Member, DiskIoTypeGroup1,
         Layout, All
  <2>3. Steady(s, r.copied, r.text)
    BY PropertyFields DEF Steady, FixedTo, Variable, Reader, CopiesAll, DiskIoTypeGroup1Member,
       DiskIoTypeGroup1, Layout, All
  <2>4. "Undocumented" \notin r.copied \cup r.text
    <3>1. "Undocumented" \notin Names(DiskIoTypeGroup1)
      BY ReadLayoutsSound DEF LayoutSound, Declared, Names
    <3>2. QED BY <3>1 DEF Reader, CopiesAll, DiskIoTypeGroup1Member
  <2>5. QED BY <2>1, <2>2, <2>3, <2>4
<1>13. ReaderSound(PageFaultVirtualAllocMember)
  <2> DEFINE r == PageFaultVirtualAllocMember
             s == PageFaultVirtualAlloc.properties
  <2>1. /\ r.layout = PageFaultVirtualAlloc
        /\ r.tested \in SUBSET r.located /\ r.copied \in SUBSET r.tested
        /\ r.text \in SUBSET r.located
    BY DEF Reader, CopiesAll, PageFaultVirtualAllocMember
  <2>2. r.tested # {}
    <3>1. s[1].name \in Names(PageFaultVirtualAlloc)
      BY PropertyFields DEF Names, PageFaultVirtualAlloc, Layout, All
    <3>2. QED
      BY <3>1, PropertyFields DEF Reader, CopiesAll, PageFaultVirtualAllocMember,
         PageFaultVirtualAlloc, Layout, All
  <2>3. Steady(s, r.copied, r.text)
    BY PropertyFields DEF Steady, FixedTo, Variable, Reader, CopiesAll,
       PageFaultVirtualAllocMember, PageFaultVirtualAlloc, Layout, All
  <2>4. "Undocumented" \notin r.copied \cup r.text
    <3>1. "Undocumented" \notin Names(PageFaultVirtualAlloc)
      BY ReadLayoutsSound DEF LayoutSound, Declared, Names
    <3>2. QED BY <3>1 DEF Reader, CopiesAll, PageFaultVirtualAllocMember
  <2>5. QED BY <2>1, <2>2, <2>3, <2>4
<1>14. ReaderSound(SysCallEnterMember)
  <2> DEFINE r == SysCallEnterMember
             s == SysCallEnter.properties
  <2>1. /\ r.layout = SysCallEnter
        /\ r.tested \in SUBSET r.located /\ r.copied \in SUBSET r.tested
        /\ r.text \in SUBSET r.located
    BY DEF Reader, CopiesAll, SysCallEnterMember
  <2>2. r.tested # {}
    <3>1. s[1].name \in Names(SysCallEnter)
      BY PropertyFields DEF Names, SysCallEnter, Layout, All
    <3>2. QED
      BY <3>1, PropertyFields DEF Reader, CopiesAll, SysCallEnterMember, SysCallEnter, Layout,
         All
  <2>3. Steady(s, r.copied, r.text)
    BY PropertyFields DEF Steady, FixedTo, Variable, Reader, CopiesAll, SysCallEnterMember,
       SysCallEnter, Layout, All
  <2>4. "Undocumented" \notin r.copied \cup r.text
    <3>1. "Undocumented" \notin Names(SysCallEnter)
      BY ReadLayoutsSound DEF LayoutSound, Declared, Names
    <3>2. QED BY <3>1 DEF Reader, CopiesAll, SysCallEnterMember
  <2>5. QED BY <2>1, <2>2, <2>3, <2>4
<1>15. QED
  BY <1>1, <1>2, <1>3, <1>4, <1>5, <1>6, <1>7, <1>8, <1>9, <1>10, <1>11, <1>12, <1>13,
     <1>14 DEF Readers

-----------------------------------------------------------------------------
(* What WMI may say of a layout *)

\* A property without its number.
Plain == {p \in [name : AllNames, kind : Kinds, count : 0 .. 2] :
            p.count # 1 => p.kind = "uint32"}

\* All layouts are sound.
LEMMA LayoutsSound == \A l \in Layouts : LayoutSound(l)
BY ReadersSound, NetworkLayoutsSound DEF Layouts, ReaderSound

\* A declared list consists of such properties.
LEMMA DeclaredPlain ==
  ASSUME NEW l \in Layouts
  PROVE  l.properties \in Seq(Plain)
<1> DEFINE s == l.properties
<1>1. Declared(s) BY LayoutsSound DEF LayoutSound
<1>2. DOMAIN s = 1 .. Len(s) /\ Len(s) \in Nat BY <1>1 DEF Declared
<1>3. ASSUME NEW i \in 1 .. Len(s) PROVE s[i] \in Plain
  <2>1. s[i] = Property(s[i].name, s[i].kind) /\ s[i].kind \in Kinds
    BY <1>1 DEF Declared, Documented, Kinds
  <2>2. s[i].name \in AllNames BY <1>2 DEF AllNames, Names
  <2>3. s[i] = [name |-> s[i].name, kind |-> s[i].kind, count |-> 1] BY <2>1 DEF Property
  <2> DEFINE a == s[i].name
             b == s[i].kind
  <2>4. s[i] = [name |-> a, kind |-> b, count |-> 1] /\ a \in AllNames /\ b \in Kinds
    BY <2>1, <2>2, <2>3
  <2> HIDE DEF a, b, s
  <2>5. QED BY <2>4 DEF Plain
<1>4. s = [i \in 1 .. Len(s) |-> s[i]] BY <1>1 DEF Declared
<1> HIDE DEF s
<1>5. s \in Seq(Plain) BY <1>2, <1>3, <1>4
<1>6. QED BY <1>5 DEF s

\* What is true of a list that WMI may give, for a constructor that keeps these names.
Fits(d, copied, text) ==
  d \in Seq(Plain) /\ Distinct(d) /\ Len(d) <= 64 /\ Steady(d, copied, text)

Undocumented == Property("Undocumented", "uint32")

\* A list stays fit without a property, ...
LEMMA FitsWithout ==
  ASSUME NEW s, NEW copied, NEW text, Fits(s, copied, text), NEW i \in DOMAIN s
  PROVE  Fits(Without(s, i), copied, text)
<1> DEFINE d == Without(s, i)
           n == Len(s)
           from(j) == IF j < i THEN j ELSE j + 1
<1>1. s \in Seq(Plain) /\ n \in Nat /\ i \in 1 .. n /\ DOMAIN s = 1 .. n BY DEF Fits
<1>2. d = [j \in 1 .. n - 1 |-> s[from(j)]] BY DEF Without
<1> HIDE DEF d
<1>3. \A j \in 1 .. n - 1 : from(j) \in 1 .. n /\ d[j] = s[from(j)] /\ s[from(j)] \in Plain
  BY <1>1, <1>2
<1>4. d \in Seq(Plain) /\ Len(d) = n - 1 /\ DOMAIN d = 1 .. n - 1
  <2> HIDE DEF from, n
  <2>1. QED BY <1>1, <1>2, <1>3
<1>5. Distinct(d)
  <2>1. SUFFICES ASSUME NEW j \in 1 .. n - 1, NEW k \in 1 .. n - 1, d[j].name = d[k].name
                 PROVE  j = k
    BY <1>4 DEF Distinct
  <2>2. from(j) = from(k) BY <1>1, <1>3, <2>1 DEF Fits, Distinct
  <2>3. QED BY <2>2
<1>6. Len(d) <= 64 BY <1>1, <1>4 DEF Fits
<1>7. Steady(d, copied, text)
  <2>1. Steady(s, copied, text) BY DEF Fits
  <2>2. ASSUME NEW j \in 1 .. n - 1, d[j].name \in copied PROVE d[j].kind \notin Variable
    BY <1>3, <2>1, <2>2 DEF Steady
  <2>3. ASSUME NEW j \in 1 .. n - 1, d[j].name \in copied \cup text, NEW k \in 1 .. j - 1
        PROVE  d[k].kind \notin Variable
    <3>1. FixedTo(s, from(j)) BY <1>3, <2>1, <2>3 DEF Steady
    <3>2. k \in 1 .. n - 1 /\ from(k) \in 1 .. from(j) - 1 BY <1>1
    <3>3. QED BY <1>3, <3>1, <3>2 DEF FixedTo
  <2>4. QED BY <1>4, <2>2, <2>3 DEF Steady, FixedTo
<1>8. QED BY <1>4, <1>5, <1>6, <1>7 DEF Fits, d

\* ... with one that is not documented, ...
LEMMA FitsWith ==
  ASSUME NEW s, NEW copied, NEW text, Fits(s, copied, text), Len(s) <= 32,
         "Undocumented" \notin copied \cup text,
         \A i \in DOMAIN s : s[i].name # "Undocumented",
         NEW i \in 1 .. Len(s) + 1
  PROVE  Fits(With(s, i, Undocumented), copied, text)
<1> DEFINE d == With(s, i, Undocumented)
           n == Len(s)
           from(j) == IF j < i THEN j ELSE j - 1
<1>1. s \in Seq(Plain) /\ n \in Nat /\ n <= 32 /\ i \in 1 .. n + 1 /\ DOMAIN s = 1 .. n
  BY DEF Fits
<1>2. d = [j \in 1 .. n + 1 |-> IF j < i THEN s[j] ELSE IF j = i THEN Undocumented ELSE s[j - 1]]
  BY DEF With
<1> HIDE DEF d
<1>3. /\ d[i] = Undocumented
      /\ \A j \in 1 .. n + 1 : j # i => from(j) \in 1 .. n /\ d[j] = s[from(j)] /\ s[from(j)] \in Plain
  BY <1>1, <1>2
<1>0. /\ Undocumented \in Plain /\ Undocumented.name = "Undocumented"
      /\ Undocumented.kind \notin Variable
  BY DEF Undocumented, Property, Plain, Kinds, Variable, AllNames
<1>4. d \in Seq(Plain) /\ Len(d) = n + 1 /\ DOMAIN d = 1 .. n + 1
  <2>1. \A j \in 1 .. n + 1 : d[j] \in Plain BY <1>3, <1>0
  <2>2. d = [j \in 1 .. n + 1 |-> d[j]] BY <1>2
  <2>3. DOMAIN d = 1 .. n + 1 BY <1>2
  <2> HIDE DEF n
  <2>4. QED BY <1>1, <2>1, <2>2, <2>3
<1>5. Distinct(d)
  <2>1. SUFFICES ASSUME NEW j \in 1 .. n + 1, NEW k \in 1 .. n + 1, d[j].name = d[k].name
                 PROVE  j = k
    BY <1>4 DEF Distinct
  <2>2. j = i <=> k = i BY <1>1, <1>3, <1>0, <2>1
  <2>3. CASE j # i
    <3>0. /\ from(j) \in 1 .. n /\ from(k) \in 1 .. n
          /\ s[from(j)].name = s[from(k)].name
      BY <1>3, <2>1, <2>2, <2>3
    <3>1. from(j) = from(k) BY <1>1, <3>0 DEF Fits, Distinct
    <3>2. QED BY <2>2, <2>3, <3>1
  <2>4. QED BY <2>2, <2>3
<1>6. Len(d) <= 64 BY <1>1, <1>4
<1>7. Steady(d, copied, text)
  <2>1. Steady(s, copied, text) BY DEF Fits
  <2>2. ASSUME NEW j \in 1 .. n + 1, d[j].name \in copied PROVE d[j].kind \notin Variable
    BY <1>3, <1>0, <2>1, <2>2 DEF Steady
  <2>3. ASSUME NEW j \in 1 .. n + 1, d[j].name \in copied \cup text, NEW k \in 1 .. j - 1
        PROVE  d[k].kind \notin Variable
    <3>0. j # i BY <1>3, <1>0, <2>3
    <3>1. FixedTo(s, from(j)) BY <1>3, <2>1, <2>3, <3>0 DEF Steady
    <3>2. k \in 1 .. n + 1 /\ (k # i => from(k) \in 1 .. from(j) - 1) BY <1>1, <3>0
    <3>3. QED BY <1>3, <1>0, <3>1, <3>2 DEF FixedTo
  <2>4. QED BY <1>4, <2>2, <2>3 DEF Steady, FixedTo
<1>8. QED BY <1>4, <1>5, <1>6, <1>7 DEF Fits, d

\* ... and with one that has become of another kind, but no string.
LEMMA FitsReplaced ==
  ASSUME NEW s, NEW copied, NEW text, Fits(s, copied, text), NEW i \in DOMAIN s,
         NEW k \in Kinds \ Variable, NEW c \in 0 .. 2, c # 1 => k = "uint32"
  PROVE  Fits(Replaced(s, i, k, c), copied, text)
<1> DEFINE d == Replaced(s, i, k, c)
           n == Len(s)
           half == [s EXCEPT ![i].kind = k]
<1>1. s \in Seq(Plain) /\ n \in Nat /\ i \in 1 .. n /\ DOMAIN s = 1 .. n BY DEF Fits
<1>2. /\ DOMAIN half = 1 .. n /\ half = [j \in 1 .. n |-> half[j]]
      /\ \A j \in 1 .. n : half[j] = IF j = i THEN [s[i] EXCEPT !.kind = k] ELSE s[j]
  BY <1>1
<1>3. d = [half EXCEPT ![i].count = c] BY DEF Replaced
<1> HIDE DEF half, d
<1>4. /\ DOMAIN d = 1 .. n /\ d = [j \in 1 .. n |-> d[j]]
      /\ \A j \in 1 .. n : d[j] = IF j = i THEN [half[i] EXCEPT !.count = c] ELSE half[j]
  BY <1>1, <1>2, <1>3
<1>5. /\ d[i] \in Plain /\ d[i].name = s[i].name /\ d[i].kind = k
      /\ \A j \in 1 .. n : j # i => d[j] = s[j]
  <2>1. s[i] \in Plain BY <1>1
  <2>2. d[i] = [[s[i] EXCEPT !.kind = k] EXCEPT !.count = c] BY <1>1, <1>2, <1>4
  <2>3. \A j \in 1 .. n : j # i => d[j] = s[j] BY <1>2, <1>4
  <2> DEFINE p == s[i]
  <2> HIDE DEF p
  <2>4. p \in Plain /\ d[i] = [[p EXCEPT !.kind = k] EXCEPT !.count = c] BY <2>1, <2>2 DEF p
  <2>5. d[i] \in Plain /\ d[i].name = p.name /\ d[i].kind = k BY <2>4 DEF Plain
  <2>6. QED BY <2>3, <2>5 DEF p
<1>6. \A j \in 1 .. n : d[j] \in Plain /\ d[j].name = s[j].name /\ (d[j].kind \in Variable => d[j] = s[j])
  BY <1>1, <1>5
<1> HIDE DEF n
<1>7. d \in Seq(Plain)
  <2>1. n \in Nat /\ d = [j \in 1 .. n |-> d[j]] /\ \A j \in 1 .. n : d[j] \in Plain
    BY <1>1, <1>4, <1>6
  <2>2. QED BY <2>1
<1>8. Len(d) = n BY <1>1, <1>4, <1>7
<1>9. Distinct(d) BY <1>1, <1>4, <1>6 DEF Fits, Distinct
<1>10. Steady(d, copied, text)
  <2>1. Steady(s, copied, text) BY DEF Fits
  <2>2. QED BY <1>1, <1>6, <1>8, <2>1 DEF Steady, FixedTo, n
<1>11. QED BY <1>7, <1>8, <1>9, <1>10 DEF Fits, d, n

\* Whatever WMI says of a layout fits.
LEMMA DescribedFits ==
  ASSUME NEW s, NEW copied, NEW text, Fits(s, copied, text), Len(s) <= 32,
         "Undocumented" \notin copied \cup text,
         \A i \in DOMAIN s : s[i].name # "Undocumented",
         NEW d \in Described(s)
  PROVE  Fits(d, copied, text)
<1>1. CASE d = s BY <1>1
<1>2. ASSUME NEW i \in DOMAIN s, d = Without(s, i) PROVE Fits(d, copied, text)
  BY <1>2, FitsWithout
<1>3. ASSUME NEW i \in 1 .. Len(s) + 1, d = With(s, i, Undocumented) PROVE Fits(d, copied, text)
  BY <1>3, FitsWith
<1>4. ASSUME NEW i \in DOMAIN s, NEW k \in {"pointer", "object", "counted", "uint32"},
             NEW c \in 0 .. 2, c # 1 => k = "uint32", d = Replaced(s, i, k, c)
      PROVE  Fits(d, copied, text)
  <2>1. k \in Kinds \ Variable BY DEF Kinds, Variable
  <2>2. QED BY <1>4, <2>1, FitsReplaced
<1>5. \/ d = s
      \/ \E i \in DOMAIN s : d = Without(s, i)
      \/ \E i \in 1 .. Len(s) + 1 : d = With(s, i, Undocumented)
      \/ \E i \in DOMAIN s, k \in {"pointer", "object"} : d = Replaced(s, i, k, 1)
      \/ \E i \in DOMAIN s : d = Replaced(s, i, "counted", 1)
      \/ \E i \in DOMAIN s, c \in {0, 2} : d = Replaced(s, i, "uint32", c)
  BY DEF Described, Undocumented
<1>6. QED
  BY <1>1, <1>2, <1>3, <1>4, <1>5

\* The same of a list whose properties have their numbers.
Sound(s, copied, text) ==
  s \in Seq(Properties) /\ Distinct(s) /\ Len(s) <= 64 /\ Steady(s, copied, text)

\* Numbers change nothing else.
LEMMA NumberedSound ==
  ASSUME NEW d, NEW copied, NEW text, Fits(d, copied, text)
  PROVE  Sound(Numbered(d), copied, text) /\ Len(Numbered(d)) = Len(d)
<1> DEFINE n == Len(d)
           s == Numbered(d)
<1>1. d \in Seq(Plain) /\ n \in Nat /\ DOMAIN d = 1 .. n BY DEF Fits
<1>2. s = [i \in 1 .. n |-> [name |-> d[i].name, kind |-> d[i].kind, count |-> d[i].count, id |-> i]]
  BY <1>1 DEF Numbered
<1> HIDE DEF s, n
<1>3. ASSUME NEW i \in 1 .. n
      PROVE  /\ s[i] \in Properties /\ s[i].name = d[i].name /\ s[i].kind = d[i].kind
             /\ s[i].id = i
  <2>1. d[i] \in Plain /\ i \in Nat BY <1>1
  <2> DEFINE a == d[i].name
             b == d[i].kind
             c == d[i].count
  <2>2. a \in AllNames /\ b \in Kinds /\ c \in 0 .. 2 /\ (c # 1 => b = "uint32")
    BY <2>1 DEF Plain
  <2>3. s[i] = [name |-> a, kind |-> b, count |-> c, id |-> i] BY <1>2
  <2> HIDE DEF a, b, c
  <2>4. s[i] \in Properties /\ s[i].name = a /\ s[i].kind = b /\ s[i].id = i
    BY <2>1, <2>2, <2>3 DEF Properties
  <2>5. QED BY <2>4 DEF a, b
<1>4. DOMAIN s = 1 .. n /\ s = [i \in 1 .. n |-> s[i]] BY <1>2
<1>5. s \in Seq(Properties)
  <2>1. \A i \in 1 .. n : s[i] \in Properties BY <1>3
  <2>2. QED BY <2>1, <1>1, <1>4
<1>6. Len(s) = n BY <1>1, <1>4, <1>5
<1>7. Distinct(s) BY <1>1, <1>3, <1>4 DEF Fits, Distinct
<1>8. Steady(s, copied, text)
  <2>1. Steady(d, copied, text) BY DEF Fits
  <2>2. QED BY <1>3, <1>6, <2>1 DEF Steady, FixedTo, n
<1>9. Len(s) <= 64 BY <1>6 DEF Fits, n
<1>10. QED BY <1>5, <1>6, <1>7, <1>8, <1>9 DEF Sound, s, n

\* Whatever the order in which WMI lists properties, their numbers put them in place.
LEMMA PutInPlace ==
  ASSUME NEW d \in Seq(Plain), NEW ts
  PROVE  LET s == Numbered(d)
             listed == Child(ts, d).properties
         IN  /\ DOMAIN listed = 1 .. Len(d) /\ Len(listed) = Len(d)
             /\ \A j \in 1 .. Len(d) :
                  listed[CHOOSE i \in 1 .. Len(d) : listed[i].id = j] = s[j]
             /\ s = [j \in 1 .. Len(d) |-> s[j]]
<1> DEFINE n == Len(d)
           s == Numbered(d)
           listed == Child(ts, d).properties
<1>1. n \in Nat /\ DOMAIN d = 1 .. n OBVIOUS
<1>2. /\ DOMAIN s = 1 .. n /\ s = [i \in 1 .. n |-> s[i]]
      /\ \A i \in 1 .. n : s[i].id = i
  BY <1>1 DEF Numbered
<1>0. Len(s) = n
  <2> HIDE DEF s, n
  <2>1. s \in Seq({s[i] : i \in 1 .. n}) BY <1>1, <1>2
  <2>2. QED BY <1>1, <1>2, <2>1
<1>3. listed = [i \in DOMAIN s |-> s[Len(s) + 1 - i]] BY DEF Child, Backwards
<1> HIDE DEF s, listed, n
<1>4. /\ DOMAIN listed = 1 .. n /\ listed = [i \in 1 .. n |-> listed[i]]
      /\ \A i \in 1 .. n : n + 1 - i \in 1 .. n /\ listed[i] = s[n + 1 - i]
  BY <1>1, <1>2, <1>0, <1>3
<1>5. Len(listed) = n
  <2>1. listed \in Seq({listed[i] : i \in 1 .. n}) BY <1>1, <1>4
  <2>2. QED BY <1>1, <1>4, <2>1
<1>6. ASSUME NEW j \in 1 .. n
      PROVE  listed[CHOOSE i \in 1 .. n : listed[i].id = j] = s[j]
  <2>1. \A i \in 1 .. n : listed[i].id = n + 1 - i BY <1>2, <1>4
  <2>0. n + 1 - j \in 1 .. n /\ n + 1 - (n + 1 - j) = j BY <1>1
  <2>2. n + 1 - j \in 1 .. n /\ listed[n + 1 - j].id = j BY <2>1, <2>0, Zenon
  <2> DEFINE i == CHOOSE i \in 1 .. n : listed[i].id = j
  <2>3. i \in 1 .. n /\ listed[i].id = j BY <2>2
  <2> HIDE DEF i
  <2>4. n + 1 - i = j BY <2>1, <2>3
  <2>5. listed[i] = s[j] BY <1>4, <2>3, <2>4
  <2>6. QED BY <2>5 DEF i
<1>7. QED BY <1>2, <1>4, <1>5, <1>6 DEF s, listed, n

\* The list the walk goes along is in the order of the event.
LEMMA ListInOrder ==
  ASSUME NEW d \in Seq(Plain), NEW ts
  PROVE  GetPropertyList(Child(ts, d)) = Numbered(d)
<1> DEFINE class == Child(ts, d)
           listed == class.properties
           n == Len(d)
<1>1. Len(listed) = n /\ n \in Nat BY PutInPlace
<1>2. \A j \in 1 .. n : listed[CHOOSE i \in 1 .. n : listed[i].id = j] = Numbered(d)[j]
  BY PutInPlace, SMTT(30)
<1>3. Numbered(d) = [j \in 1 .. n |-> Numbered(d)[j]] BY PutInPlace
<1> HIDE DEF class, n
<1>4. PropertyIndex(class) = [j \in 1 .. n |-> CHOOSE i \in 1 .. n : listed[i].id = j]
  BY <1>1 DEF PropertyIndex
<1>5. GetPropertyList(class) = [j \in 1 .. n |-> listed[PropertyIndex(class)[j]]]
  BY <1>1 DEF GetPropertyList
<1>6. \A j \in 1 .. n : listed[PropertyIndex(class)[j]] = Numbered(d)[j]
  BY <1>2, <1>4
<1>7. QED BY <1>3, <1>5, <1>6 DEF class

-----------------------------------------------------------------------------
(* What WMI has of the layout's events *)

\* Layout, types and repository are what Init chose.
Setting == layout \in Layouts /\ types \subseteq layout.types /\ repository \in Repositories(layout)

\* The class is there, with this list.
Classed(d) ==
  /\ Len(repository) = 3
  /\ GetEventCategoryClass(layout.category, EventVersion) = {3}
  /\ repository[3].children = <<Child({255}, <<>>), Child(layout.types, d)>>

\* The category class is there with the class, without it, or not at all.
LEMMA Machines ==
  ASSUME Setting
  PROVE  \/ \E d \in Described(layout.properties) : Classed(d)
         \/ /\ Len(repository) = 3 /\ repository[3].children = <<>>
            /\ GetEventCategoryClass(layout.category, EventVersion) = {3}
         \/ /\ Len(repository) = 2
            /\ GetEventCategoryClass(layout.category, EventVersion) = {}
<1> DEFINE l == layout
           other == CategoryClass("EventTrace", AnyVersion, <<>>)
           older == CategoryClass(l.category, 1, <<Child(l.types, <<>>)>>)
           Holding(v, s) == CategoryClass(l.category, v, <<Child({255}, <<>>), Child(l.types, s)>>)
<1>1. l.category # "EventTrace" BY LayoutsSound DEF LayoutSound, Setting
<1>2. /\ other.category = "EventTrace" /\ older.category = l.category /\ older.version = 1
      /\ \A v, s : /\ Holding(v, s).category = l.category /\ Holding(v, s).version = v
                   /\ Holding(v, s).children = <<Child({255}, <<>>), Child(l.types, s)>>
  BY DEF CategoryClass
<1>3. \/ \E s \in Described(l.properties), v \in {EventVersion, AnyVersion} :
           repository = <<other, older, Holding(v, s)>>
      \/ repository = <<other, older, CategoryClass(l.category, EventVersion, <<>>)>>
      \/ repository = <<other, older>>
  <2>1. l.properties \in Described(l.properties) BY DEF Described
  <2>2. repository \in Repositories(l) BY DEF Setting
  <2>3. QED BY <2>1, <2>2 DEF Repositories
<1> HIDE DEF other, older, Holding
<1>4. ASSUME NEW c, repository = <<other, older, c>>, c.category = l.category,
             c.version \in {EventVersion, AnyVersion}
      PROVE  /\ Len(repository) = 3 /\ repository[3] = c
             /\ GetEventCategoryClass(l.category, EventVersion) = {3}
  <2>1. /\ Len(repository) = 3 /\ DOMAIN repository = 1 .. 3
        /\ repository[1] = other /\ repository[2] = older /\ repository[3] = c
    BY <1>4
  <2>2. older.version \notin {EventVersion, AnyVersion} BY <1>2 DEF EventVersion, AnyVersion
  <2>3. QED BY <1>1, <1>2, <1>4, <2>1, <2>2 DEF GetEventCategoryClass
<1>5. ASSUME NEW s \in Described(l.properties), NEW v \in {EventVersion, AnyVersion},
             repository = <<other, older, Holding(v, s)>>
      PROVE  Classed(s)
  BY <1>2, <1>4, <1>5 DEF Classed
<1>6. ASSUME repository = <<other, older, CategoryClass(l.category, EventVersion, <<>>)>>
      PROVE  /\ Len(repository) = 3 /\ repository[3].children = <<>>
             /\ GetEventCategoryClass(l.category, EventVersion) = {3}
  <2> DEFINE c == CategoryClass(l.category, EventVersion, <<>>)
  <2>1. c.category = l.category /\ c.version = EventVersion /\ c.children = <<>>
    BY DEF CategoryClass
  <2> HIDE DEF c
  <2>2. repository = <<other, older, c>> BY <1>6 DEF c
  <2>3. QED BY <1>4, <2>1, <2>2
<1>7. ASSUME repository = <<other, older>>
      PROVE  /\ Len(repository) = 2
             /\ GetEventCategoryClass(l.category, EventVersion) = {}
  <2>1. /\ Len(repository) = 2 /\ DOMAIN repository = 1 .. 2
        /\ repository[1] = other /\ repository[2] = older
    BY <1>7
  <2>2. older.version \notin {EventVersion, AnyVersion} BY <1>2 DEF EventVersion, AnyVersion
  <2>3. QED BY <1>1, <1>2, <2>1, <2>2 DEF GetEventCategoryClass
<1>8. QED BY <1>3, <1>5, <1>6, <1>7

\* All events carry the same properties.
LEMMA Bare ==
  ASSUME Setting, NEW e \in Events
  PROVE  e.type \in types /\ e.version = EventVersion /\ e.properties = Carried
BY DEF Events

\* An event whose class is known carries what the class lists, and is walked by it.
KnownShape(e) ==
  /\ WalkOf(e) = Walk(e.properties, e)
  /\ e.lengths \in LengthsOf(e.properties)
  /\ \E d \in Described(layout.properties) : e.properties = Numbered(d)

\* An event has a length for each property it carries.
LEMMA CarriedLengths ==
  ASSUME NEW e \in Events, NEW n \in Nat, DOMAIN e.properties = 1 .. n
  PROVE  e.lengths \in [1 .. n -> AnyLength]
<1> DEFINE s == Carried
           open == {i \in DOMAIN s : s[i].kind \in Variable \cup Unsized}
           lengths == {[i \in DOMAIN s |-> IF i \in open THEN f[i] ELSE 0] :
                         f \in [open -> {0} \cup Lengths]}
<1>1. PICK t \in types, g \in lengths :
        e = [type |-> t, version |-> EventVersion, properties |-> s, lengths |-> g]
  <2>1. Events = {[type |-> t, version |-> EventVersion, properties |-> s, lengths |-> g] :
                    t \in types, g \in lengths}
    BY DEF Events
  <2> HIDE DEF lengths, s
  <2>2. QED BY <2>1
<1>2. PICK f \in [open -> {0} \cup Lengths] :
        g = [i \in DOMAIN s |-> IF i \in open THEN f[i] ELSE 0]
  OBVIOUS
<1>0. e.properties = s /\ e.lengths = [i \in DOMAIN s |-> IF i \in open THEN f[i] ELSE 0]
  BY <1>1, <1>2
<1> HIDE DEF open
<1>3. {0} \cup Lengths \subseteq AnyLength BY LengthsFit
<1>4. \A i \in open : f[i] \in AnyLength BY <1>3
<1>5. 0 \in AnyLength BY <1>3
<1> HIDE DEF open, s
<1>6. QED BY <1>0, <1>4, <1>5

\* Properties in the order of their numbers.
InPlace(list) == [j \in DOMAIN list |-> list[CHOOSE i \in DOMAIN list : list[i].id = j]]

\* They are the list as described, ...
LEMMA InPlaceNumbered ==
  ASSUME NEW d \in Seq(Plain), NEW ts
  PROVE  InPlace(Child(ts, d).properties) = Numbered(d)
<1> DEFINE list == Child(ts, d).properties
           n == Len(d)
<1>1. DOMAIN list = 1 .. n BY PutInPlace
<1>2. \A j \in 1 .. n : list[CHOOSE i \in 1 .. n : list[i].id = j] = Numbered(d)[j]
  BY PutInPlace, SMTT(30)
<1>3. Numbered(d) = [j \in 1 .. n |-> Numbered(d)[j]] BY PutInPlace
<1> HIDE DEF list, n
<1>4. InPlace(list) = [j \in 1 .. n |-> list[CHOOSE i \in 1 .. n : list[i].id = j]]
  BY <1>1 DEF InPlace
<1>5. QED BY <1>2, <1>3, <1>4 DEF list

\* ... and what events carry of a class that is there.
LEMMA CarriedInPlace ==
  ASSUME Len(repository) = 3, NEW children, repository[Len(repository)].children = children,
         children # <<>>, NEW list, children[Len(children)].properties = list
  PROVE  Carried = InPlace(list)
BY DEF Carried, InPlace

\* Where the class is there, an event has that shape.
LEMMA ClassedEvents ==
  ASSUME Setting, NEW e \in Events, NEW d \in Described(layout.properties), Classed(d),
         d \in Seq(Plain)
  PROVE  KnownShape(e) /\ Known(e) /\ e.properties = Numbered(d)
<1> DEFINE children == repository[3].children
           listed == Child(layout.types, d).properties
           n == Len(d)
<1>1. /\ children = <<Child({255}, <<>>), Child(layout.types, d)>>
      /\ GetEventCategoryClass(layout.category, EventVersion) = {3} /\ Len(repository) = 3
  BY DEF Classed
<1>2. /\ Len(children) = 2 /\ DOMAIN children = 1 .. 2 /\ children # <<>>
      /\ children[1] = Child({255}, <<>>) /\ children[2] = Child(layout.types, d)
  BY <1>1
<1>3. e.type \in types /\ e.version = EventVersion /\ e.properties = Carried BY Bare
<1>4. GetEventClass(children, e.type) = {2}
  <2>1. e.type \in layout.types /\ e.type # 255
    <3>1. e.type \in layout.types /\ layout \in Layouts BY <1>3 DEF Setting
    <3>2. layout.types \in SUBSET (0 .. 99) BY <3>1, LayoutsSound DEF LayoutSound
    <3>3. 255 \notin 0 .. 99 OBVIOUS
    <3>4. 255 \notin layout.types BY <3>2, <3>3, Zenon
    <3>5. QED BY <3>1, <3>4, Zenon
  <2>2. children[1].types = {255} /\ children[2].types = layout.types BY <1>2 DEF Child
  <2> HIDE DEF children
  <2>3. QED BY <1>2, <2>1, <2>2 DEF GetEventClass
<1>5. Min({3}) = 3 /\ Min({2}) = 2
  <2>1. 3 \in Int /\ 2 \in Int OBVIOUS
  <2>2. QED BY <2>1, MaxSingle, Zenon
<1>6. Known(e)
  <2> HIDE DEF children
  <2>1. repository[Min(GetEventCategoryClass(layout.category, e.version))].children = children
    BY <1>1, <1>3, <1>5 DEF children
  <2>2. QED BY <1>1, <1>3, <1>4, <2>1 DEF Known
<1>7. Carried = Numbered(d)
  <2>1. repository[Len(repository)].children = children BY <1>1
  <2> HIDE DEF children
  <2>2. children[Len(children)].properties = listed BY <1>2
  <2>3. Carried = InPlace(listed)
    <3> HIDE DEF listed
    <3>1. QED BY <1>1, <1>2, <2>1, <2>2, CarriedInPlace
  <2>4. QED BY <2>3, InPlaceNumbered
<1>8. e.lengths \in LengthsOf(e.properties)
  <2>2. DOMAIN Numbered(d) = 1 .. n /\ n \in Nat
    <3>1. DOMAIN d = 1 .. Len(d) OBVIOUS
    <3>2. QED BY <3>1 DEF Numbered
  <2>3. Len(Numbered(d)) = n
    <3>1. Numbered(d) = [j \in 1 .. n |-> Numbered(d)[j]] BY PutInPlace
    <3> DEFINE s == Numbered(d)
    <3> HIDE DEF s, n
    <3>2. s \in Seq({s[i] : i \in 1 .. n}) BY <2>2, <3>1 DEF s
    <3>3. QED BY <2>2, <3>2 DEF s
  <2>4. e.lengths \in [1 .. n -> AnyLength] BY <1>3, <1>7, <2>2, CarriedLengths
  <2>5. QED BY <1>3, <1>7, <2>3, <2>4 DEF LengthsOf
<1>9. WalkOf(e) = Walk(e.properties, e)
  <2>1. GetPropertyList(children[2]) = Numbered(d) BY <1>2, ListInOrder
  <2> HIDE DEF children
  <2>2. repository[Min(GetEventCategoryClass(layout.category, e.version))].children = children
    BY <1>1, <1>3, <1>5 DEF children
  <2>3. WalkOf(e) = Walk(GetPropertyList(children[2]), e)
    BY <1>4, <1>5, <2>2 DEF WalkOf
  <2>4. QED BY <1>3, <1>7, <2>1, <2>3
<1>10. QED BY <1>3, <1>6, <1>7, <1>8, <1>9 DEF KnownShape

\* What a constructor keeps does not move in any list WMI may give.
LEMMA ReadersFit ==
  ASSUME Setting, NEW d \in Described(layout.properties)
  PROVE  /\ Fits(d, {}, {})
         /\ \A r \in ReadersOf : Fits(d, r.copied, r.text)
<1> DEFINE s == layout.properties
<1>1. layout \in Layouts BY DEF Setting
<1>2. s \in Seq(Plain) BY <1>1, DeclaredPlain
<1>3. Declared(s) BY <1>1, LayoutsSound DEF LayoutSound
<1>4. Distinct(s) /\ Len(s) <= 32 /\ \A i \in DOMAIN s : s[i].name # "Undocumented"
  <2>1. DOMAIN s = 1 .. Len(s) /\ Len(s) \in 0 .. 32 BY <1>2, <1>3 DEF Declared
  <2>2. Distinct(s) BY <1>3 DEF Declared
  <2>3. \A i \in 1 .. Len(s) : s[i].name # "Undocumented" BY <1>3 DEF Declared
  <2> HIDE DEF s
  <2>4. Len(s) <= 32
    <3> DEFINE n == Len(s)
    <3> HIDE DEF n
    <3>1. n \in 0 .. 32 BY <2>1 DEF n
    <3>2. n <= 32 BY <3>1
    <3>3. QED BY <3>2 DEF n
  <2>5. \A i \in DOMAIN s : s[i].name # "Undocumented" BY <2>1, <2>3, Zenon
  <2>6. QED BY <2>2, <2>4, <2>5
<1>5. Fits(s, {}, {})
  <2>1. Steady(s, {}, {}) BY DEF Steady
  <2> HIDE DEF s
  <2>2. Len(s) <= 64 BY <1>2, <1>4
  <2>3. QED BY <1>2, <1>4, <2>1, <2>2 DEF Fits
<1>6. ASSUME NEW r \in ReadersOf
      PROVE  Fits(s, r.copied, r.text) /\ "Undocumented" \notin r.copied \cup r.text
  <2>1. r \in Readers /\ r.layout = layout BY DEF ReadersOf
  <2>2. Steady(s, r.copied, r.text) /\ "Undocumented" \notin r.copied \cup r.text
    BY <2>1, ReadersSound DEF ReaderSound
  <2> HIDE DEF s
  <2>3. Len(s) <= 64 BY <1>2, <1>4
  <2>4. QED BY <1>2, <1>4, <2>2, <2>3 DEF Fits
<1> HIDE DEF s
<1>7. d \in Described(s) BY DEF s
<1>8. Fits(d, {}, {}) BY <1>4, <1>5, <1>7, DescribedFits
<1>9. \A r \in ReadersOf : Fits(d, r.copied, r.text) BY <1>4, <1>6, <1>7, DescribedFits
<1>10. QED BY <1>8, <1>9

\* An event of a class that WMI knows.
LEMMA KnownEvents ==
  ASSUME Setting, NEW e \in Events, Known(e)
  PROVE  /\ WalkOf(e) = Walk(e.properties, e) /\ e.lengths \in LengthsOf(e.properties)
         /\ Sound(e.properties, {}, {})
         /\ \A r \in ReadersOf : Sound(e.properties, r.copied, r.text)
         /\ \A f \in Events : Known(f)
<1>1. e.version = EventVersion BY Bare
<1>2. PICK d \in Described(layout.properties) : Classed(d)
  <2>1. CASE repository[3].children = <<>> /\ GetEventCategoryClass(layout.category, EventVersion) = {3}
    <3>1. Min({3}) = 3
      <4>1. 3 \in Int OBVIOUS
      <4>2. QED BY <4>1, MaxSingle, Zenon
    <3>2. GetEventClass(repository[3].children, e.type) = {} BY <2>1 DEF GetEventClass
    <3>3. ~Known(e) BY <1>1, <2>1, <3>1, <3>2 DEF Known
    <3>4. QED BY <3>3
  <2>2. CASE GetEventCategoryClass(layout.category, EventVersion) = {}
    BY <1>1, <2>2 DEF Known
  <2>3. QED BY <2>1, <2>2, Machines
<1>3. Fits(d, {}, {}) /\ \A r \in ReadersOf : Fits(d, r.copied, r.text) BY ReadersFit
<1>4. d \in Seq(Plain) BY <1>3 DEF Fits
<1>5. \A f \in Events : KnownShape(f) /\ Known(f) /\ f.properties = Numbered(d)
  BY <1>2, <1>4, ClassedEvents
<1>6. Sound(Numbered(d), {}, {}) /\ \A r \in ReadersOf : Sound(Numbered(d), r.copied, r.text)
  BY <1>3, NumberedSound
<1>7. QED BY <1>5, <1>6 DEF KnownShape

\* Where a category class is and the event's class is not, nothing is found.
LEMMA UnknownEvents ==
  ASSUME Setting, NEW e \in Events, ~Known(e),
         GetEventCategoryClass(layout.category, e.version) # {}
  PROVE  \A n : GetPropertyInfo(n, WalkOf(e)) = <<Nowhere, 0>>
<1>1. WalkOf(e) = <<>> BY DEF WalkOf, Known
<1>2. QED BY <1>1 DEF GetPropertyInfo

\* In an event of a known class a property is found exactly where it begins.
LEMMA KnownInfo ==
  ASSUME Setting, NEW e \in Events, Known(e), NEW i \in DOMAIN e.properties
  PROVE  LET s == e.properties
             n == s[i].name
         IN  /\ i \in 1 .. Len(s) /\ Carries(e, n) /\ PlaceOf(e, n) = i
             /\ Understood(e, n) <=> SizedTo(s, i)
             /\ GetPropertyInfo(n, WalkOf(e)) =
                  IF SizedTo(s, i) THEN <<Starts(s, e.lengths)[i], EncodedSize(s[i], e.lengths[i])>>
                  ELSE <<Nowhere, 0>>
<1> DEFINE s == e.properties
           n == s[i].name
<1>1. s \in Seq(Properties) /\ Distinct(s) /\ e.lengths \in LengthsOf(s) /\ WalkOf(e) = Walk(s, e)
  BY KnownEvents DEF Sound
<1>2. i \in 1 .. Len(s) BY <1>1
<1>3. Carries(e, n) BY DEF Carries
<1>4. PlaceOf(e, n) = i
  <2>1. \A j \in DOMAIN s : s[j].name = n => j = i BY <1>1 DEF Distinct
  <2>2. QED BY <2>1 DEF PlaceOf
<1>5. Understood(e, n) <=> SizedTo(s, i)
  BY <1>4 DEF Understood, SizedTo, Sized
<1>6. GetPropertyInfo(n, Walk(s, e)) =
        IF SizedTo(s, i) THEN <<Starts(s, e.lengths)[i], EncodedSize(s[i], e.lengths[i])>>
        ELSE <<Nowhere, 0>>
  BY <1>1, <1>2, InfoThere
<1>7. QED BY <1>1, <1>2, <1>3, <1>4, <1>5, <1>6

\* What is found is an offset or -1, and a size.
LEMMA InfoType ==
  ASSUME Setting, NEW e \in Events, GetEventCategoryClass(layout.category, e.version) # {}, NEW n
  PROVE  GetPropertyInfo(n, WalkOf(e))[1] \in Int /\ GetPropertyInfo(n, WalkOf(e))[2] \in Nat
<1> DEFINE s == e.properties
<1>1. CASE ~Known(e)
  <2>1. GetPropertyInfo(n, WalkOf(e)) = <<Nowhere, 0>> BY <1>1, UnknownEvents
  <2>2. QED BY <2>1 DEF Nowhere
<1>2. CASE Known(e)
  <2>1. /\ s \in Seq(Properties) /\ e.lengths \in LengthsOf(s) /\ WalkOf(e) = Walk(s, e)
    BY <1>2, KnownEvents DEF Sound
  <2>2. CASE \A i \in 1 .. Len(s) : s[i].name # n
    BY <2>1, <2>2, InfoElsewhere DEF Nowhere
  <2>3. ASSUME NEW i \in 1 .. Len(s), s[i].name = n
        PROVE  GetPropertyInfo(n, WalkOf(e))[1] \in Int /\ GetPropertyInfo(n, WalkOf(e))[2] \in Nat
    <3>1. i \in DOMAIN s BY <2>1
    <3>2. GetPropertyInfo(n, WalkOf(e)) =
            IF SizedTo(s, i) THEN <<Starts(s, e.lengths)[i], EncodedSize(s[i], e.lengths[i])>>
            ELSE <<Nowhere, 0>>
      BY <1>2, <2>3, <3>1, KnownInfo
    <3>3. Starts(s, e.lengths)[i] \in Nat BY <2>1, StartsFacts
    <3>4. EncodedSize(s[i], e.lengths[i]) \in Nat BY <2>1, Encoded
    <3> HIDE DEF s
    <3>5. QED BY <3>2, <3>3, <3>4 DEF Nowhere
  <2>4. QED BY <2>2, <2>3
<1>3. QED BY <1>1, <1>2

-----------------------------------------------------------------------------
(* What a constructor learns at one event is true at all *)

\* Places that a constructor learnt at an event: they are what the walk finds, and what
\* it tests is understood.
Learned(r, places, e) ==
  /\ \A n \in r.copied \cup r.text : places.offs[n] = AsOffset(GetPropertyInfo(n, WalkOf(e))[1])
  /\ \A n \in r.copied : Carries(e, n) => places.size[n] = GetPropertyInfo(n, WalkOf(e))[2]
  /\ \A n \in r.tested : Carries(e, n) => Understood(e, n)

\* The walk over another event of the same class finds what is kept at the same place.
LEMMA SameInfo ==
  ASSUME Setting, NEW r \in ReadersOf, NEW e \in Events, NEW f \in Events, Known(e),
         NEW n \in r.copied \cup r.text
  PROVE  /\ GetPropertyInfo(n, WalkOf(f))[1] = GetPropertyInfo(n, WalkOf(e))[1]
         /\ n \in r.copied /\ Carries(e, n) =>
              GetPropertyInfo(n, WalkOf(f))[2] = GetPropertyInfo(n, WalkOf(e))[2]
<1> DEFINE s == e.properties
<1>1. Known(f) /\ f.properties = s BY KnownEvents, Bare
<1>2. /\ s \in Seq(Properties) /\ Steady(s, r.copied, r.text)
      /\ e.lengths \in LengthsOf(s) /\ WalkOf(e) = Walk(s, e)
      /\ f.lengths \in LengthsOf(s) /\ WalkOf(f) = Walk(s, f)
  BY <1>1, KnownEvents DEF Sound
<1>3. CASE \A i \in 1 .. Len(s) : s[i].name # n
  <2>1. ~Carries(e, n) BY <1>2, <1>3 DEF Carries
  <2>2. GetPropertyInfo(n, WalkOf(e))[1] = Nowhere /\ GetPropertyInfo(n, WalkOf(f))[1] = Nowhere
    BY <1>1, <1>2, <1>3, InfoElsewhere
  <2>3. QED BY <2>1, <2>2
<1>4. ASSUME NEW i \in 1 .. Len(s), s[i].name = n
      PROVE  /\ GetPropertyInfo(n, WalkOf(f))[1] = GetPropertyInfo(n, WalkOf(e))[1]
             /\ n \in r.copied => GetPropertyInfo(n, WalkOf(f))[2] = GetPropertyInfo(n, WalkOf(e))[2]
  <2>1. i \in DOMAIN e.properties /\ i \in DOMAIN f.properties BY <1>1, <1>2
  <2>2. GetPropertyInfo(n, WalkOf(e)) =
          IF SizedTo(s, i) THEN <<Starts(s, e.lengths)[i], EncodedSize(s[i], e.lengths[i])>>
          ELSE <<Nowhere, 0>>
    BY <1>4, <2>1, KnownInfo
  <2>3. GetPropertyInfo(n, WalkOf(f)) =
          IF SizedTo(s, i) THEN <<Starts(s, f.lengths)[i], EncodedSize(s[i], f.lengths[i])>>
          ELSE <<Nowhere, 0>>
    BY <1>1, <1>4, <2>1, KnownInfo
  <2>4. CASE ~SizedTo(s, i) BY <2>2, <2>3, <2>4
  <2>5. CASE SizedTo(s, i)
    <3>1. FixedTo(s, i) BY <1>2, <1>4 DEF Steady
    <3>2. Starts(s, f.lengths)[i] = Starts(s, e.lengths)[i] BY <1>2, <2>5, <3>1, PlaceFixed
    <3>3. ASSUME n \in r.copied
          PROVE  EncodedSize(s[i], f.lengths[i]) = EncodedSize(s[i], e.lengths[i])
      <4>1. s[i].kind \notin Variable BY <1>2, <1>4, <3>3 DEF Steady
      <4>2. Sized(s[i]) BY <2>5 DEF SizedTo
      <4>3. s[i] \in Properties /\ e.lengths[i] \in AnyLength /\ f.lengths[i] \in AnyLength
        BY <1>2, Encoded
      <4>4. QED BY <4>1, <4>2, <4>3, Sizes
    <3> HIDE DEF s
    <3>4. QED BY <2>2, <2>3, <2>5, <3>2, <3>3
  <2>6. QED BY <2>4, <2>5
<1>5. QED BY <1>3, <1>4

\* What is learnt at one event is true of all events.
LEMMA LearnedOnce ==
  ASSUME Setting, NEW r \in ReadersOf, NEW e \in Events, NEW f \in Events, Known(e),
         NEW places, Learned(r, places, e)
  PROVE  Known(f) /\ Learned(r, places, f)
<1>1. Known(f) /\ f.properties = e.properties BY KnownEvents, Bare
<1>2. r \in Readers BY DEF ReadersOf
<1>3. \A n : (Carries(f, n) <=> Carries(e, n)) /\ (Understood(f, n) <=> Understood(e, n))
  BY <1>1 DEF Carries, Understood, PlaceOf
<1>4. \A n \in r.copied \cup r.text : places.offs[n] = AsOffset(GetPropertyInfo(n, WalkOf(f))[1])
  BY SameInfo DEF Learned
<1>5. \A n \in r.copied : Carries(f, n) => places.size[n] = GetPropertyInfo(n, WalkOf(f))[2]
  BY <1>3, SameInfo DEF Learned
<1>6. \A n \in r.tested : Carries(f, n) => Understood(f, n)
  BY <1>3 DEF Learned
<1>7. QED BY <1>1, <1>4, <1>5, <1>6 DEF Learned

\* A constructor whose sizes are not 0 has learnt its places.
LEMMA LocatedLearned ==
  ASSUME Setting, NEW r \in ReadersOf, NEW e \in Events,
         GetEventCategoryClass(layout.category, e.version) # {},
         ~Rejected(r, Located(r, e))
  PROVE  Known(e) /\ Learned(r, Located(r, e), e)
<1> DEFINE places == Located(r, e)
<1>1. /\ r.tested \in SUBSET r.located /\ r.copied \in SUBSET r.tested
      /\ r.text \in SUBSET r.located /\ r.tested # {}
  <2>1. r \in Readers BY DEF ReadersOf
  <2>2. QED BY <2>1, ReadersSound DEF ReaderSound
<1>2. \A n \in r.located : /\ places.offs[n] = AsOffset(GetPropertyInfo(n, WalkOf(e))[1])
                           /\ places.size[n] = GetPropertyInfo(n, WalkOf(e))[2]
  BY DEF Located
<1> HIDE DEF places
<1>3. \A n \in r.tested : GetPropertyInfo(n, WalkOf(e))[2] # 0
  BY <1>1, <1>2 DEF Rejected, places
<1>4. Known(e)
  <2>1. PICK n \in r.tested : TRUE BY <1>1
  <2>2. GetPropertyInfo(n, WalkOf(e))[2] # 0 BY <1>3
  <2>3. SUFFICES ASSUME ~Known(e) PROVE FALSE
    OBVIOUS
  <2>4. GetPropertyInfo(n, WalkOf(e)) = <<Nowhere, 0>> BY <2>3, UnknownEvents
  <2>5. QED BY <2>2, <2>4
<1>5. ASSUME NEW n \in r.tested, Carries(e, n) PROVE Understood(e, n)
  <2>1. PICK i \in DOMAIN e.properties : e.properties[i].name = n BY <1>5 DEF Carries
  <2>2. GetPropertyInfo(n, WalkOf(e))[2] # 0 BY <1>3
  <2>3. SizedTo(e.properties, i)
    <3>1. SUFFICES ASSUME ~SizedTo(e.properties, i) PROVE FALSE
      OBVIOUS
    <3>2. GetPropertyInfo(n, WalkOf(e)) = <<Nowhere, 0>> BY <1>4, <2>1, <3>1, KnownInfo
    <3>3. QED BY <2>2, <3>2
  <2>4. QED BY <1>4, <2>1, <2>3, KnownInfo
<1>6. QED BY <1>1, <1>2, <1>4, <1>5 DEF Learned, places

\* If one is 0, the event lacks a property or has one that is not understood.
LEMMA RejectedLacks ==
  ASSUME Setting, NEW r \in ReadersOf, NEW e \in Events, Known(e),
         Rejected(r, Located(r, e))
  PROVE  ~ \A n \in r.located : Carries(e, n) /\ Understood(e, n)
<1>1. r.tested \in SUBSET r.located
  <2>1. r \in Readers BY DEF ReadersOf
  <2>2. QED BY <2>1, ReadersSound DEF ReaderSound
<1>2. PICK n \in r.tested : Located(r, e).size[n] = 0 BY DEF Rejected
<1>3. GetPropertyInfo(n, WalkOf(e))[2] = 0 BY <1>1, <1>2 DEF Located
<1>4. SUFFICES ASSUME Carries(e, n), Understood(e, n) PROVE FALSE
  BY <1>1
<1>5. PICK i \in DOMAIN e.properties : e.properties[i].name = n BY <1>4 DEF Carries
<1>6. SizedTo(e.properties, i) /\ i \in 1 .. Len(e.properties) BY <1>4, <1>5, KnownInfo
<1>7. GetPropertyInfo(n, WalkOf(e))
        = <<Starts(e.properties, e.lengths)[i], EncodedSize(e.properties[i], e.lengths[i])>>
  BY <1>5, <1>6, KnownInfo
<1>8. EncodedSize(e.properties[i], e.lengths[i]) # 0
  <2>1. e.properties \in Seq(Properties) /\ e.lengths \in LengthsOf(e.properties)
    BY KnownEvents DEF Sound
  <2>2. QED BY <1>6, <2>1, Encoded
<1>9. QED BY <1>3, <1>7, <1>8

\* With such places a member gets its property.
LEMMA MemberFilled ==
  ASSUME Setting, NEW r \in ReadersOf, NEW e \in Events, Known(e), NEW places,
         Learned(r, places, e), NEW n \in Members(r), Carries(e, n), Understood(e, n)
  PROVE  Filled(r, places, e)[n] = n
<1> DEFINE s == e.properties
           starts == Starts(s, e.lengths)
<1>1. /\ s \in Seq(Properties) /\ Len(s) <= 64 /\ Steady(s, r.copied, r.text)
      /\ e.lengths \in LengthsOf(s)
  BY KnownEvents DEF Sound
<1>2. PICK i \in DOMAIN s : s[i].name = n BY DEF Carries
<1>3. i \in 1 .. Len(s) /\ SizedTo(s, i) BY <1>2, KnownInfo
<1>4. GetPropertyInfo(n, WalkOf(e)) = <<starts[i], EncodedSize(s[i], e.lengths[i])>>
  BY <1>2, <1>3, KnownInfo
<1>5. ASSUME n \in r.copied \cup r.text PROVE places.offs[n] = starts[i]
  <2>1. FixedTo(s, i) BY <1>1, <1>2, <1>3, <1>5 DEF Steady
  <2>2. AsOffset(starts[i]) = starts[i] BY <1>1, <1>3, <2>1, PlaceKept
  <2>3. places.offs[n] = AsOffset(GetPropertyInfo(n, WalkOf(e))[1]) BY <1>5 DEF Learned
  <2> HIDE DEF starts, s
  <2>4. QED BY <1>4, <2>2, <2>3
<1>6. ASSUME n \in r.copied PROVE places.size[n] = EncodedSize(s[i], e.lengths[i])
  <2>1. places.size[n] = GetPropertyInfo(n, WalkOf(e))[2] BY <1>6 DEF Learned
  <2> HIDE DEF starts, s
  <2>2. QED BY <1>4, <2>1
<1>7. /\ BytesAt(e, starts, starts[i], EncodedSize(s[i], e.lengths[i])) = n
      /\ TextAt(e, starts, starts[i]) = n
  BY <1>1, <1>2, <1>3, Found
<1>8. Filled(r, places, e)[n] =
        IF n \in r.copied THEN BytesAt(e, starts, places.offs[n], places.size[n])
        ELSE TextAt(e, starts, IF n \in r.text THEN places.offs[n]
                               ELSE GetPropertyInfo(n, WalkOf(e))[1])
  BY DEF Filled
<1> HIDE DEF starts, s
<1>9. QED BY <1>4, <1>5, <1>6, <1>7, <1>8

\* A member holds a property of the event, or what is at no place.
LEMMA FilledType ==
  ASSUME Setting, NEW r \in ReadersOf, NEW e \in Events, Known(e), NEW places
  PROVE  /\ DOMAIN Filled(r, places, e) = Members(r)
         /\ \A n \in Members(r) :
              Filled(r, places, e)[n] \in {Garbage} \cup {e.properties[i].name : i \in DOMAIN e.properties}
<1> DEFINE s == e.properties
           starts == Starts(s, e.lengths)
           names == {s[i].name : i \in DOMAIN s}
<1>1. s \in Seq(Properties) /\ e.lengths \in LengthsOf(s) BY KnownEvents DEF Sound
<1>2. \A offset, size : /\ BytesAt(e, starts, offset, size) \in {Garbage} \cup names
                        /\ TextAt(e, starts, offset) \in {Garbage} \cup names
  BY <1>1, FoundAny
<1>3. \A n \in Members(r) : Filled(r, places, e)[n] =
        IF n \in r.copied THEN BytesAt(e, starts, places.offs[n], places.size[n])
        ELSE TextAt(e, starts, IF n \in r.text THEN places.offs[n]
                               ELSE GetPropertyInfo(n, WalkOf(e))[1])
  BY DEF Filled
<1>4. DOMAIN Filled(r, places, e) = Members(r) BY DEF Filled
<1> HIDE DEF names, starts, s
<1>5. QED BY <1>2, <1>3, <1>4 DEF names, s

-----------------------------------------------------------------------------
(* What a record says of its event *)

\* The conclusions of DecodedTruthfully and NeverHalfDecoded, for a record of event e.
Truthful(r, holds, e) ==
  (\A n \in r.located \cup r.fresh : Carries(e, n) /\ Understood(e, n)) =>
     \A n \in Members(r) : holds[n] = n
Whole(r, holds, e) ==
  (\A n \in r.located : Carries(e, n)) =>
     \/ \A n \in r.copied : holds[n] = n
     \/ \A n \in Members(r) : holds[n] = Blank

\* A record filled from learnt places is truthful and whole, ...
LEMMA FilledTruthful ==
  ASSUME Setting, NEW r \in ReadersOf, NEW e \in Events, Known(e), NEW places,
         Learned(r, places, e)
  PROVE  Truthful(r, Filled(r, places, e), e) /\ Whole(r, Filled(r, places, e), e)
<1>1. /\ r.tested \in SUBSET r.located /\ r.copied \in SUBSET r.tested
      /\ r.text \in SUBSET r.located
  <2>1. r \in Readers BY DEF ReadersOf
  <2>2. QED BY <2>1, ReadersSound DEF ReaderSound
<1>2. Members(r) = r.copied \cup r.text \cup r.fresh BY DEF Members
<1>3. \A n \in Members(r) : Carries(e, n) /\ Understood(e, n) => Filled(r, places, e)[n] = n
  BY MemberFilled
<1>4. Truthful(r, Filled(r, places, e), e) BY <1>1, <1>2, <1>3 DEF Truthful
<1>5. \A n \in r.tested : Carries(e, n) => Understood(e, n) BY DEF Learned
<1>6. Whole(r, Filled(r, places, e), e) BY <1>1, <1>2, <1>3, <1>5 DEF Whole
<1>7. QED BY <1>4, <1>6

\* ... and so is the blank one of an event that was rejected.
LEMMA BlankTruthful ==
  ASSUME Setting, NEW r \in ReadersOf, NEW e \in Events, Known(e),
         Rejected(r, Located(r, e))
  PROVE  Truthful(r, BlankRecord(r), e) /\ Whole(r, BlankRecord(r), e)
<1>1. Truthful(r, BlankRecord(r), e) BY RejectedLacks DEF Truthful
<1>2. Whole(r, BlankRecord(r), e) BY DEF Whole, BlankRecord
<1>3. QED BY <1>1, <1>2

-----------------------------------------------------------------------------
(* The invariant *)

\* Kept places are true of every event of their type.
Kept ==
  \A t \in types : cache[t].positioned =>
    /\ ReadersOf # {}
    /\ \A e \in Events : e.type = t => Known(e) /\ Learned(ReaderOf, cache[t], e)

\* The event is one that the kernel writes, and there is a record only after one.
Occurring ==
  /\ event = NoEvent \/ event \in Events
  /\ event = NoEvent => record = <<>> /\ \A t \in types : ~cache[t].positioned
  /\ ReadersOf = {} => record = <<>>

\* The inductive invariant.
IInv ==
  /\ Setting /\ TypeOK /\ DOMAIN cache = types
  /\ Occurring /\ Kept /\ DecodedTruthfully /\ NeverHalfDecoded

\* A finite set has subsets of every smaller size, ...
LEMMA Subsets ==
  ASSUME NEW S, IsFiniteSet(S)
  PROVE  \A k \in Nat : k <= Cardinality(S) => \E T \in SUBSET S : Cardinality(T) = k
<1> DEFINE P == {k \in Nat : k <= Cardinality(S) => \E T \in SUBSET S : Cardinality(T) = k}
<1>1. 0 \in P
  <2>1. {} \in SUBSET S /\ Cardinality({}) = 0 BY FS_EmptySet
  <2>2. QED BY <2>1
<1>2. ASSUME NEW k \in P PROVE k + 1 \in P
  <2>0. Cardinality(S) \in Nat BY FS_CardinalityType
  <2>1. SUFFICES ASSUME k + 1 <= Cardinality(S)
                 PROVE  \E T \in SUBSET S : Cardinality(T) = k + 1
    OBVIOUS
  <2>2. PICK T \in SUBSET S : Cardinality(T) = k BY <2>0, <2>1
  <2>3. T # S BY <2>0, <2>1, <2>2
  <2>4. PICK x \in S : x \notin T BY <2>2, <2>3
  <2>5. IsFiniteSet(T) BY <2>2, FS_Subset
  <2>6. Cardinality(T \cup {x}) = k + 1 BY <2>2, <2>4, <2>5, FS_AddElement
  <2>7. QED BY <2>2, <2>4, <2>6
<1>3. P = Nat BY <1>1, <1>2, Ind
<1>4. QED BY <1>3

\* ... so the types that occur are types of the layout.
LEMMA TypesChosen ==
  ASSUME NEW l \in Layouts
  PROVE  (CHOOSE t \in SUBSET l.types :
            Cardinality(t) = Min({MaxTypes, Cardinality(l.types)})) \in SUBSET l.types
<1> DEFINE S == l.types
           k == Min({MaxTypes, Cardinality(S)})
<1>1. IsFiniteSet(S)
  <2> DEFINE top == 99
  <2>0. LayoutSound(l) BY LayoutsSound
  <2>1. S \in SUBSET (0 .. top) BY <2>0 DEF LayoutSound
  <2>2. top \in Nat OBVIOUS
  <2> HIDE DEF S, top
  <2>4. IsFiniteSet(0 .. top) BY <2>2, FS_Interval
  <2>3. QED BY <2>1, <2>4, FS_Subset
<1> HIDE DEF S
<1>2. Cardinality(S) \in Nat BY <1>1, FS_CardinalityType
<1>3. k \in Nat /\ k <= Cardinality(S)
  <2> DEFINE m == Cardinality(S)
  <2>1. m \in Nat /\ MaxTypes \in Nat BY <1>2, DecoderAssumption
  <2> HIDE DEF m
  <2>2. \E x \in {MaxTypes, m} : \A y \in {MaxTypes, m} : x <= y BY <2>1
  <2>3. Min({MaxTypes, m}) \in {MaxTypes, m} /\ \A y \in {MaxTypes, m} : Min({MaxTypes, m}) <= y
    BY <2>2 DEF Min
  <2>4. QED BY <2>1, <2>3 DEF m
<1> HIDE DEF k
<1>4. \E t \in SUBSET S : Cardinality(t) = k BY <1>1, <1>3, Subsets
<1>5. QED BY <1>4 DEF S, k

\* An event is not the event before the first.
LEMMA EventsNotNone ==
  ASSUME Setting, NEW e \in Events
  PROVE  e # NoEvent
<1>1. layout \in Layouts /\ e.type \in layout.types BY Bare DEF Setting
<1>2. layout.types \in SUBSET (0 .. 99) BY <1>1, LayoutsSound DEF LayoutSound
<1>3. e.type \in 0 .. 99 BY <1>1, <1>2
<1>4. Nowhere \notin 0 .. 99 BY DEF Nowhere
<1>5. e.type # Nowhere BY <1>3, <1>4
<1>6. NoEvent.type = Nowhere BY DEF NoEvent
<1>7. QED BY <1>5, <1>6

\* A cache that holds nothing is typed.
NewTyped(c) ==
  c.positioned \in BOOLEAN /\ DOMAIN c.offs = {} /\ DOMAIN c.size = {}
\* The one of a new process is.
LEMMA NewCacheTyped == NewTyped(NewCache)
<1>1. NewCache.positioned \in BOOLEAN BY Zenon DEF NewCache
<1>2. DOMAIN NewCache.offs = {} /\ DOMAIN NewCache.size = {} BY DEF NewCache
<1>3. QED BY <1>1, <1>2 DEF NewTyped

\* The service starts with nothing learnt.
LEMMA InitInvariant == Init => IInv
<1> SUFFICES ASSUME Init PROVE IInv
  OBVIOUS
<1>1. types \in SUBSET layout.types BY TypesChosen DEF Init
<1>2. Setting BY <1>1 DEF Init, Setting
<1>3. \A t \in types : cache[t] = NewCache BY DEF Init
<1>4. TypeOK
  <2>0. NewTyped(NewCache) BY NewCacheTyped
  <2>1. \A t \in types : NewTyped(cache[t]) BY <1>3, <2>0
  <2>2. DOMAIN record = {} BY DEF Init
  <2>3. QED BY <1>2, <2>1, <2>2 DEF Init, TypeOK, Setting, NewTyped
<1>5. \A t \in types : ~cache[t].positioned BY <1>3 DEF NewCache
<1>6. Occurring /\ Kept BY <1>5 DEF Init, Occurring, Kept
<1>7. DecodedTruthfully /\ NeverHalfDecoded BY DEF Init, DecodedTruthfully, NeverHalfDecoded
<1>8. QED BY <1>2, <1>4, <1>6, <1>7 DEF Init, IInv

\* What a step leaves alone.
LEMMA SettingStays ==
  ASSUME UNCHANGED <<layout, types, repository>>
  PROVE  /\ Setting' <=> Setting
         /\ Events' = Events /\ ReadersOf' = ReadersOf /\ ReaderOf' = ReaderOf
         /\ \A e : /\ Known(e)' <=> Known(e)
                   /\ WalkOf(e)' = WalkOf(e)
                   /\ \A r, places : Learned(r, places, e)' <=> Learned(r, places, e)
<1>1. (Setting' <=> Setting) /\ ReadersOf' = ReadersOf /\ ReaderOf' = ReaderOf
  BY DEF Setting, ReadersOf, ReaderOf
<1>2. Events' = Events
  <2>1. Carried' = Carried BY DEF Carried
  <2>2. QED BY <2>1 DEF Events
<1>3. ASSUME NEW e PROVE (Known(e)' <=> Known(e)) /\ WalkOf(e)' = WalkOf(e)
  BY DEF Known, WalkOf, GetEventCategoryClass
<1>4. ASSUME NEW e, NEW r, NEW places PROVE Learned(r, places, e)' <=> Learned(r, places, e)
  BY <1>3 DEF Learned
<1>5. QED BY <1>1, <1>2, <1>3, <1>4

\* The constructor of the layout.
LEMMA ReaderIn == ReadersOf # {} => ReaderOf \in ReadersOf
BY DEF ReaderOf

\* What a constructor leaves behind.
LEMMA Constructed ==
  ASSUME IInv, NEW e \in Events, Constructs(e), UNCHANGED <<layout, types, repository, alive>>,
         DOMAIN cache' = types, \A t \in types \ {e.type} : cache'[t] = cache[t],
         cache'[e.type].positioned \in BOOLEAN,
         \A n \in DOMAIN cache'[e.type].offs : cache'[e.type].offs[n] \in 0 .. OffsetModulus - 1,
         \A n \in DOMAIN cache'[e.type].size : cache'[e.type].size[n] \in Nat,
         cache'[e.type].positioned => Known(e) /\ Learned(ReaderOf, cache'[e.type], e),
         \A n \in DOMAIN record' : record'[n] \in {Blank, Garbage} \cup
                                     {e.properties[i].name : i \in DOMAIN e.properties},
         Known(e) => Truthful(ReaderOf, record', e) /\ Whole(ReaderOf, record', e)
  PROVE  IInv'
<1>1. /\ Setting /\ Setting' /\ Events' = Events /\ ReadersOf' = ReadersOf /\ ReaderOf' = ReaderOf
      /\ \A f : Known(f)' <=> Known(f)
      /\ \A r, places, f : Learned(r, places, f)' <=> Learned(r, places, f)
  BY SettingStays DEF IInv
<1>2. event' = e /\ e.type \in types /\ ReadersOf # {} /\ alive BY DEF Constructs
<1>3. ReaderOf \in ReadersOf BY <1>2, ReaderIn
<1>4. e # NoEvent BY <1>1, EventsNotNone
<1>5. TypeOK'
  <2>1. \A t \in types :
          /\ cache'[t].positioned \in BOOLEAN
          /\ \A n \in DOMAIN cache'[t].offs : cache'[t].offs[n] \in 0 .. OffsetModulus - 1
          /\ \A n \in DOMAIN cache'[t].size : cache'[t].size[n] \in Nat
    <3>1. SUFFICES ASSUME NEW t \in types \ {e.type}
          PROVE  /\ cache[t].positioned \in BOOLEAN
                 /\ \A n \in DOMAIN cache[t].offs : cache[t].offs[n] \in 0 .. OffsetModulus - 1
                 /\ \A n \in DOMAIN cache[t].size : cache[t].size[n] \in Nat
      OBVIOUS
    <3>2. QED BY DEF IInv, TypeOK
  <2>2. layout' \in Layouts /\ types' \subseteq layout'.types BY <1>1 DEF Setting
  <2>3. alive' \in BOOLEAN BY <1>2
  <2>4. QED BY <1>2, <2>1, <2>2, <2>3 DEF TypeOK
<1>6. Occurring' BY <1>1, <1>2, <1>4 DEF Occurring
<1>7. Kept'
  <2>1. SUFFICES ASSUME NEW t \in types, cache'[t].positioned, NEW f \in Events, f.type = t
        PROVE  Known(f) /\ Learned(ReaderOf, cache'[t], f)
    BY <1>1, <1>2 DEF Kept
  <2>2. CASE t = e.type
    <3>1. Known(e) /\ Learned(ReaderOf, cache'[t], e) BY <2>1, <2>2
    <3>2. QED BY <1>1, <1>3, <3>1, LearnedOnce
  <2>3. CASE t # e.type
    <3>1. cache'[t] = cache[t] BY <2>3
    <3>2. QED BY <2>1, <3>1 DEF IInv, Kept
  <2>4. QED BY <2>2, <2>3
<1>8. DecodedTruthfully' /\ NeverHalfDecoded'
  <2>1. Known(event)' <=> Known(e) BY <1>2 DEF Known, GetEventCategoryClass
  <2>2. \A n : /\ Carries(event, n)' <=> Carries(e, n)
               /\ Understood(event, n)' <=> Understood(e, n)
    BY <1>2 DEF Carries, Understood, PlaceOf
  <2>3. Members(ReaderOf)' = Members(ReaderOf) BY <1>1 DEF Members
  <2>4. Known(e) => DecodedTruthfully'
    BY <1>1, <2>2, <2>3 DEF DecodedTruthfully, Truthful
  <2>5. Known(e) => NeverHalfDecoded'
    BY <1>1, <2>2, <2>3 DEF NeverHalfDecoded, Whole
  <2>6. ~Known(e) => DecodedTruthfully' /\ NeverHalfDecoded'
    BY <2>1 DEF DecodedTruthfully, NeverHalfDecoded
  <2>7. QED BY <2>4, <2>5, <2>6
<1>9. QED BY <1>1, <1>5, <1>6, <1>7, <1>8 DEF IInv

\* Kept offsets are DWORDs.
LEMMA LocatedTyped ==
  ASSUME Setting, NEW e \in Events, NEW r, GetEventCategoryClass(layout.category, e.version) # {}
  PROVE  /\ \A n \in DOMAIN Located(r, e).offs : Located(r, e).offs[n] \in 0 .. OffsetModulus - 1
         /\ \A n \in DOMAIN Located(r, e).size : Located(r, e).size[n] \in Nat
<1>1. ASSUME NEW x \in Int PROVE AsOffset(x) \in 0 .. OffsetModulus - 1
  BY Moduli DEF AsOffset
<1>2. \A n : GetPropertyInfo(n, WalkOf(e))[1] \in Int /\ GetPropertyInfo(n, WalkOf(e))[2] \in Nat
  BY InfoType
<1>3. QED BY <1>1, <1>2 DEF Located

\* One lemma for each action.
LEMMA RejectKeeps ==
  ASSUME IInv, NEW e \in Events, Reject(e)
  PROVE  IInv'
<1> DEFINE r == ReaderOf
           places == Located(r, e)
           new == [positioned |-> FALSE, offs |-> places.offs, size |-> places.size]
<1>1. Setting /\ DOMAIN cache = types BY DEF IInv
<1>2. /\ Constructs(e) /\ Rejected(r, places) /\ cache' = [cache EXCEPT ![e.type] = new]
      /\ record' = BlankRecord(r) /\ UNCHANGED <<layout, types, repository, alive>>
  BY DEF Reject
<1>3. r \in ReadersOf /\ e.type \in types /\ GetEventCategoryClass(layout.category, e.version) # {}
  BY <1>2, ReaderIn DEF Constructs
<1>4. /\ \A n \in DOMAIN places.offs : places.offs[n] \in 0 .. OffsetModulus - 1
      /\ \A n \in DOMAIN places.size : places.size[n] \in Nat
  BY <1>1, <1>3, LocatedTyped
<1>5. Known(e) => Truthful(r, BlankRecord(r), e) /\ Whole(r, BlankRecord(r), e)
  BY <1>1, <1>2, <1>3, BlankTruthful
<1>6. \A n \in DOMAIN BlankRecord(r) : BlankRecord(r)[n] = Blank BY DEF BlankRecord
<1>7. ~new.positioned BY Zenon
<1>10. new.positioned \in BOOLEAN BY Zenon
<1>8. new.offs = places.offs /\ new.size = places.size OBVIOUS
<1> HIDE DEF r, places, new
<1>9. cache'[e.type] = new /\ DOMAIN cache' = types /\ \A t \in types \ {e.type} : cache'[t] = cache[t]
  BY <1>1, <1>2, <1>3
<1>11. Known(e) => Truthful(r, record', e) /\ Whole(r, record', e) BY <1>2, <1>5
<1>12. \A n \in DOMAIN record' : record'[n] \in {Blank, Garbage} \cup
                                     {e.properties[i].name : i \in DOMAIN e.properties}
  BY <1>2, <1>6
<1>13. QED BY <1>2, <1>4, <1>7, <1>8, <1>9, <1>10, <1>11, <1>12, Constructed DEF r

LEMMA LocateKeeps ==
  ASSUME IInv, NEW e \in Events, Locate(e)
  PROVE  IInv'
<1> DEFINE r == ReaderOf
           places == Located(r, e)
           new == [positioned |-> InOrder(r, places), offs |-> places.offs, size |-> places.size]
<1>1. Setting /\ DOMAIN cache = types BY DEF IInv
<1>2. /\ Constructs(e) /\ ~Rejected(r, places) /\ cache' = [cache EXCEPT ![e.type] = new]
      /\ record' = Filled(r, places, e) /\ UNCHANGED <<layout, types, repository, alive>>
  BY DEF Locate
<1>3. r \in ReadersOf /\ e.type \in types /\ GetEventCategoryClass(layout.category, e.version) # {}
  BY <1>2, ReaderIn DEF Constructs
<1>4. /\ \A n \in DOMAIN places.offs : places.offs[n] \in 0 .. OffsetModulus - 1
      /\ \A n \in DOMAIN places.size : places.size[n] \in Nat
  BY <1>1, <1>3, LocatedTyped
<1>5. Known(e) /\ Learned(r, places, e) BY <1>1, <1>2, <1>3, LocatedLearned
<1>6. Truthful(r, record', e) /\ Whole(r, record', e)
  <2>1. Truthful(r, Filled(r, places, e), e) /\ Whole(r, Filled(r, places, e), e)
    BY <1>1, <1>3, <1>5, FilledTruthful
  <2> HIDE DEF places
  <2>2. QED BY <1>2, <2>1
<1>7. \A n \in DOMAIN record' : record'[n] \in {Blank, Garbage} \cup
                                     {e.properties[i].name : i \in DOMAIN e.properties}
  BY <1>1, <1>2, <1>3, <1>5, FilledType
<1>8. new.positioned \in BOOLEAN
  <2>1. InOrder(r, places) \in BOOLEAN BY Zenon DEF InOrder
  <2>2. QED BY <2>1, Zenon
<1>9. new.offs = places.offs /\ new.size = places.size OBVIOUS
<1>10. Learned(r, new, e) BY <1>5, <1>9 DEF Learned
<1> HIDE DEF r, places, new
<1>11. cache'[e.type] = new /\ DOMAIN cache' = types /\ \A t \in types \ {e.type} : cache'[t] = cache[t]
  BY <1>1, <1>2, <1>3
<1>12. QED
  BY <1>2, <1>4, <1>5, <1>6, <1>7, <1>8, <1>9, <1>10, <1>11, Constructed DEF r

LEMMA ReuseKeeps ==
  ASSUME IInv, NEW e \in Events, Reuse(e)
  PROVE  IInv'
<1> DEFINE r == ReaderOf
           places == cache[e.type]
<1>1. Setting /\ DOMAIN cache = types BY DEF IInv
<1>2. /\ Constructs(e) /\ places.positioned /\ cache' = cache
      /\ record' = Filled(r, places, e) /\ UNCHANGED <<layout, types, repository, alive>>
  BY DEF Reuse
<1>3. r \in ReadersOf /\ e.type \in types BY <1>2, ReaderIn DEF Constructs
<1>4. Known(e) /\ Learned(r, places, e) BY <1>2, <1>3 DEF IInv, Kept
<1>5. Truthful(r, record', e) /\ Whole(r, record', e)
  <2>1. Truthful(r, Filled(r, places, e), e) /\ Whole(r, Filled(r, places, e), e)
    BY <1>1, <1>3, <1>4, FilledTruthful
  <2> HIDE DEF places
  <2>2. QED BY <1>2, <2>1
<1>6. \A n \in DOMAIN record' : record'[n] \in {Blank, Garbage} \cup
                                     {e.properties[i].name : i \in DOMAIN e.properties}
  BY <1>1, <1>2, <1>3, <1>4, FilledType
<1>7. /\ cache'[e.type].positioned \in BOOLEAN
      /\ \A n \in DOMAIN cache'[e.type].offs : cache'[e.type].offs[n] \in 0 .. OffsetModulus - 1
      /\ \A n \in DOMAIN cache'[e.type].size : cache'[e.type].size[n] \in Nat
  BY <1>2, <1>3 DEF IInv, TypeOK
<1>8. QED BY <1>1, <1>2, <1>4, <1>5, <1>6, <1>7, Constructed

\* An event without its class ends the service, and one without a constructor
\* changes nothing: the record stays of the earlier event.
LEMMA SameList ==
  ASSUME IInv, NEW e \in Events, event' = e, e.type \in types,
         UNCHANGED <<layout, types, repository, cache, record>>, alive' \in BOOLEAN
  PROVE  Setting' /\ TypeOK' /\ (DOMAIN cache = types)' /\ Kept'
<1>1. /\ Setting /\ Setting' /\ Events' = Events /\ ReadersOf' = ReadersOf /\ ReaderOf' = ReaderOf
      /\ \A f : Known(f)' <=> Known(f)
      /\ \A r, places, f : Learned(r, places, f)' <=> Learned(r, places, f)
  BY SettingStays DEF IInv
<1>2. event \in Events => event.properties = e.properties BY <1>1, Bare
<1>3. \A n \in DOMAIN record : record[n] \in {Blank, Garbage, n} \cup
                                  {e.properties[i].name : i \in DOMAIN e.properties}
  <2>1. CASE event = NoEvent BY <2>1 DEF IInv, Occurring
  <2>2. CASE event \in Events BY <1>2, <2>2 DEF IInv, TypeOK
  <2>3. QED BY <2>1, <2>2 DEF IInv, Occurring
<1>4. TypeOK' BY <1>3 DEF IInv, TypeOK
<1>5. Kept' BY <1>1 DEF IInv, Kept
<1>6. QED BY <1>1, <1>4, <1>5 DEF IInv

\* The service ends.
LEMMA LosesClassKeeps ==
  ASSUME IInv, NEW e \in Events, LosesClass(e)
  PROVE  IInv'
<1>1. Setting /\ e # NoEvent BY EventsNotNone DEF IInv
<1>2. Setting' /\ TypeOK' /\ (DOMAIN cache = types)' /\ Kept' BY SameList DEF LosesClass
<1>3. Events' = Events /\ ReadersOf' = ReadersOf BY SettingStays DEF LosesClass
<1>4. Occurring' BY <1>1, <1>3 DEF LosesClass, IInv, Occurring
<1>5. ~alive' BY DEF LosesClass
<1>6. QED BY <1>2, <1>4, <1>5 DEF IInv, DecodedTruthfully, NeverHalfDecoded

LEMMA PassOverKeeps ==
  ASSUME IInv, NEW e \in Events, PassOver(e)
  PROVE  IInv'
<1>1. Setting /\ e # NoEvent BY EventsNotNone DEF IInv
<1>2. Setting' /\ TypeOK' /\ (DOMAIN cache = types)' /\ Kept'
  BY SameList DEF PassOver, IInv, TypeOK
<1>3. Events' = Events /\ ReadersOf' = ReadersOf BY SettingStays DEF PassOver
<1>4. record' = <<>> BY DEF PassOver, IInv, Occurring
<1>5. Occurring' BY <1>1, <1>3, <1>4 DEF PassOver, Occurring
<1>6. QED BY <1>2, <1>4, <1>5 DEF IInv, DecodedTruthfully, NeverHalfDecoded

\* It starts again with nothing learnt.
LEMMA RestartKeeps ==
  ASSUME IInv, Restart
  PROVE  IInv'
<1>1. Setting' BY SettingStays DEF Restart, IInv
<1>2. \A t \in types' : NewTyped(cache'[t]) /\ ~cache'[t].positioned
  <2>1. ~NewCache.positioned BY Zenon DEF NewCache
  <2>2. QED BY <2>1, NewCacheTyped DEF Restart
<1>3. record' = <<>> /\ DOMAIN record' = {} /\ event' = NoEvent /\ alive' \in BOOLEAN
  BY DEF Restart
<1>4. TypeOK' BY <1>1, <1>2, <1>3 DEF TypeOK, Setting, NewTyped
<1>5. Occurring' /\ Kept' BY <1>2, <1>3 DEF Occurring, Kept
<1>6. (DOMAIN cache = types)' BY DEF Restart
<1>7. QED BY <1>1, <1>3, <1>4, <1>5, <1>6 DEF IInv, DecodedTruthfully, NeverHalfDecoded

LEMMA StutterKeeps ==
  ASSUME IInv, UNCHANGED vars
  PROVE  IInv'
<1>1. /\ Setting' /\ Events' = Events /\ ReadersOf' = ReadersOf /\ ReaderOf' = ReaderOf
      /\ \A f : Known(f)' <=> Known(f)
      /\ \A r, places, f : Learned(r, places, f)' <=> Learned(r, places, f)
  BY SettingStays DEF IInv, vars
<1>2. TypeOK' BY DEF IInv, TypeOK, vars
<1>3. Occurring' /\ Kept' BY <1>1 DEF IInv, Occurring, Kept, vars
<1>4. DecodedTruthfully' /\ NeverHalfDecoded'
  <2>1. event' = event /\ record' = record /\ alive' = alive BY DEF vars
  <2>2. Known(event)' <=> Known(event) BY DEF Known, GetEventCategoryClass, vars
  <2>3. \A n : /\ Carries(event, n)' <=> Carries(event, n)
               /\ Understood(event, n)' <=> Understood(event, n)
    BY <2>1 DEF Carries, Understood, PlaceOf
  <2>4. Members(ReaderOf)' = Members(ReaderOf) BY <1>1 DEF Members
  <2>5. DecodedTruthfully' <=> DecodedTruthfully
    BY <1>1, <2>1, <2>2, <2>3, <2>4 DEF DecodedTruthfully
  <2>6. NeverHalfDecoded' <=> NeverHalfDecoded
    BY <1>1, <2>1, <2>2, <2>3, <2>4 DEF NeverHalfDecoded
  <2>7. QED BY <2>5, <2>6 DEF IInv
<1>5. QED BY <1>1, <1>2, <1>3, <1>4 DEF IInv, vars

\* Every step keeps the invariant.
LEMMA StepInvariant == IInv /\ [Next]_vars => IInv'
<1> SUFFICES ASSUME IInv, [Next]_vars PROVE IInv'
  OBVIOUS
<1>1. ASSUME NEW e \in Events, Reject(e) PROVE IInv' BY <1>1, RejectKeeps
<1>2. ASSUME NEW e \in Events, Locate(e) PROVE IInv' BY <1>2, LocateKeeps
<1>3. ASSUME NEW e \in Events, Reuse(e) PROVE IInv' BY <1>3, ReuseKeeps
<1>4. ASSUME NEW e \in Events, LosesClass(e) PROVE IInv' BY <1>4, LosesClassKeeps
<1>5. ASSUME NEW e \in Events, PassOver(e) PROVE IInv' BY <1>5, PassOverKeeps
<1>6. CASE Restart BY <1>6, RestartKeeps
<1>7. CASE UNCHANGED vars BY <1>7, StutterKeeps
<1>8. QED BY <1>1, <1>2, <1>3, <1>4, <1>5, <1>6, <1>7 DEF Next

-----------------------------------------------------------------------------
(* The theorems *)

\* The invariant holds in every state.
THEOREM Invariance == Spec => []IInv
<1>1. QED BY InitInvariant, StepInvariant, PTL DEF Spec

\* Every variable keeps its type, and every kept offset is a DWORD.
THEOREM TypeCorrect == Spec => []TypeOK
<1>1. IInv => TypeOK BY DEF IInv
<1>2. QED BY <1>1, Invariance, PTL

\* A record whose properties the class has and whose sizes are understood holds in every
\* member the property the member is named for, also when its offsets stem from an
\* earlier event with other lengths.  (the constructors of etw/event/)
THEOREM RecordsTruthful == Spec => []DecodedTruthfully
<1>1. IInv => DecodedTruthfully BY DEF IInv
<1>2. QED BY <1>1, Invariance, PTL

\* A record has all of its numbers or none of its members.  (the constructors of etw/event/)
THEOREM NoneHalf == Spec => []NeverHalfDecoded
<1>1. IInv => NeverHalfDecoded BY DEF IInv
<1>2. QED BY <1>1, Invariance, PTL

\* The walk finds a property where the kernel wrote it, or not at all behind a size it
\* does not understand.  (GetPropertyInfo)
THEOREM WalksExact == Spec => []WalkExact
<1>1. IInv => WalkExact
  <2>1. SUFFICES ASSUME IInv, event # NoEvent, Known(event), NEW n, Carries(event, n)
        PROVE  GetPropertyInfo(n, WalkOf(event)) =
                 IF Understood(event, n)
                 THEN <<Starts(event.properties, event.lengths)[PlaceOf(event, n)],
                        EncodedSize(event.properties[PlaceOf(event, n)],
                                    event.lengths[PlaceOf(event, n)])>>
                 ELSE <<Nowhere, 0>>
    BY DEF WalkExact
  <2>2. Setting /\ event \in Events BY <2>1 DEF IInv, Occurring
  <2>3. PICK i \in DOMAIN event.properties : event.properties[i].name = n BY <2>1 DEF Carries
  <2>4. PlaceOf(event, n) = i /\ (Understood(event, n) <=> SizedTo(event.properties, i))
    BY <2>1, <2>2, <2>3, KnownInfo
  <2>5. GetPropertyInfo(n, WalkOf(event)) =
          IF SizedTo(event.properties, i)
          THEN <<Starts(event.properties, event.lengths)[i],
                 EncodedSize(event.properties[i], event.lengths[i])>>
          ELSE <<Nowhere, 0>>
    BY <2>1, <2>2, <2>3, KnownInfo
  <2>6. QED BY <2>4, <2>5
<1>2. QED BY <1>1, Invariance, PTL

\* Offsets kept from one event are those a walk finds in any other of the type.
\* (event_offset_)
THEOREM PlacesHold == Spec => []KeptPlacesHold
<1>1. IInv => KeptPlacesHold
  <2>1. SUFFICES ASSUME IInv, NEW t \in types, cache[t].positioned,
                        NEW n \in ReaderOf.copied \cup ReaderOf.text
        PROVE  cache[t].offs[n] = AsOffset(GetPropertyInfo(n, WalkOf([event EXCEPT !.type = t]))[1])
    BY DEF KeptPlacesHold
  <2>2. event \in Events BY <2>1 DEF IInv, Occurring
  <2> DEFINE e == [event EXCEPT !.type = t]
  <2>3. e \in Events /\ e.type = t
    <3> DEFINE s == Carried
               open == {i \in DOMAIN s : s[i].kind \in Variable \cup Unsized}
               lengths == {[i \in DOMAIN s |-> IF i \in open THEN f[i] ELSE 0] :
                             f \in [open -> {0} \cup Lengths]}
    <3>0. Events = {[type |-> u, version |-> EventVersion, properties |-> s, lengths |-> f] :
                      u \in types, f \in lengths}
      BY DEF Events
    <3> HIDE DEF lengths
    <3>1. PICK f : /\ event = [type |-> event.type, version |-> EventVersion,
                               properties |-> Carried, lengths |-> f]
                   /\ [type |-> t, version |-> EventVersion,
                       properties |-> Carried, lengths |-> f] \in Events
      BY <2>1, <2>2, <3>0
    <3>2. e = [type |-> t, version |-> EventVersion, properties |-> Carried, lengths |-> f]
      BY <3>1
    <3>3. QED BY <3>1, <3>2
  <2> HIDE DEF e
  <2>4. Learned(ReaderOf, cache[t], e) BY <2>1, <2>3 DEF IInv, Kept
  <2>5. QED BY <2>1, <2>4 DEF Learned, e
<1>2. QED BY <1>1, Invariance, PTL
=============================================================================
