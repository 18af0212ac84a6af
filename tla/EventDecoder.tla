----------------------------- MODULE EventDecoder -----------------------------
(***************************************************************************)
(* From the raw data of an event to a record (etw/wmieventclass.cpp and    *)
(* the constructors of etw/event/).  A constructor asks where each of its  *)
(* properties lies.  The answer walks the event's class as WMI describes   *)
(* it and adds up the sizes of the properties before the wanted one; some  *)
(* sizes are found in the event.  What is found at the first event of a    *)
(* type is kept for all later ones.                                        *)
(*                                                                         *)
(* The events are those of one layout of EventSchema, chosen at the start  *)
(* with the way WMI describes them on this machine.                        *)
(***************************************************************************)
EXTENDS EventSchema, FiniteSets, FiniteSetsExt

CONSTANTS
  PointerSize,     \* sizeof(PVOID)
  OffsetModulus,   \* one more than the largest DWORD
  LengthModulus,   \* one more than the largest USHORT
  Lengths,         \* the lengths of strings and the sub-authority counts of SIDs
  MaxTypes         \* event types of the layout that occur

ASSUME DecoderAssumption ==
  /\ PointerSize \in {4, 8}
  /\ OffsetModulus \in Nat /\ OffsetModulus > 1024
  /\ LengthModulus \in Nat \ {0}
  /\ Lengths \subseteq 0 .. LengthModulus - 1     \* an event has at most 64 KB
  /\ MaxTypes \in Nat \ {0}

VARIABLES
  layout,      \* what the kernel's events of the class carry
  types,       \* the types of events that occur
  repository,  \* WMI: the category classes in the order of enumeration
  cache,       \* the static event_offset_ of each record type
  event,       \* the event being decoded
  record,      \* what its record holds, by property
  alive        \* the service runs

vars == <<layout, types, repository, cache, event, record, alive>>

-----------------------------------------------------------------------------
(* The size of a property, and its place *)

ScalarSize == [boolean |-> 4, uint8 |-> 1, guid |-> 16, uint16 |-> 2, sint16 |-> 2,
               uint32 |-> 4, uint64 |-> 8]
ObjectSize == [Port |-> 2, IPAddr |-> 4, IPAddrV6 |-> 16, Guid |-> 16]

\* The lengths of strings are kept as USHORTs.
AsLength(n) == n % LengthModulus

\* A count of 0 is an array whose class does not say how long it is.  n is what
\* the event holds where the property is expected: the characters before the
\* terminator, or the sub-authorities of the SID (0 for none).
GetEventPropertyValue(p, n) ==
  CASE p.kind = "pointer" -> PointerSize
    [] p.kind # "pointer" /\ p.count = 0 -> 0
    [] p.kind \in DOMAIN ScalarSize /\ p.count > 0 -> ScalarSize[p.kind] * p.count
    [] p.kind = "SizeT" /\ p.count > 0 -> PointerSize * p.count
    [] p.kind \in DOMAIN ObjectSize /\ p.count > 0 -> ObjectSize[p.kind] * p.count * p.count
    [] p.kind = "ansi" /\ p.count > 0 -> AsLength(n) + 1
    [] p.kind = "wide" /\ p.count > 0 -> 2 * (AsLength(n) + 1)
    [] p.kind = "Sid" /\ p.count > 0 -> IF n > 0 THEN 2 * PointerSize + 8 + 4 * n ELSE 4
    [] OTHER -> 0

\* What the kernel writes for one value, as the kinds are documented.
ValueSize(kind, n) ==
  CASE kind = "uint8" -> 1
    [] kind \in {"uint16", "sint16", "Port"} -> 2
    [] kind \in {"uint32", "IPAddr"} -> 4
    [] kind = "uint64" -> 8
    [] kind = "IPAddrV6" -> 16
    [] kind = "pointer" -> PointerSize
    [] kind = "ansi" -> n + 1
    [] kind = "wide" -> 2 * n + 2
    [] kind = "Sid" /\ n = 0 -> 4
    [] kind = "Sid" /\ n > 0 -> 2 * PointerSize + 8 + 4 * n

\* Every element is written, one of an array of unknown length, and a counted string
\* or an object of another kind in some number of bytes.
EncodedSize(p, n) ==
  IF p.kind \in {"counted", "object"} THEN 2 + n
  ELSE IF p.count = 0 THEN 4
  ELSE ValueSize(p.kind, n) * p.count

\* Where each property of an event begins.
Starts(properties, lengths) ==
  LET upTo[i \in 0 .. Len(properties)] ==
        IF i = 0 THEN <<>>
        ELSE LET s == upTo[i - 1]
             IN  Append(s, IF i = 1 THEN 0
                           ELSE s[i - 1] + EncodedSize(properties[i - 1], lengths[i - 1]))
  IN  upTo[Len(properties)]

LengthAt(starts, lengths, offset) ==
  LET here == {i \in DOMAIN starts : starts[i] = offset}
  IN  IF here = {} THEN 0 ELSE lengths[Max(here)]

\* Mutant of PropertyIndex: the properties are taken in WMI's order.
PropertyIndexAsListed(class) == [j \in 1 .. Len(class.properties) |-> j]

\* The order in which WMI enumerates properties is not theirs: each has its place.
PropertyIndex(class) ==
  [j \in 1 .. Len(class.properties) |->
     CHOOSE i \in 1 .. Len(class.properties) : class.properties[i].id = j]

\* Every property of these classes has its number (WmiDataId): one without leaves its
\* entry of the index unset, and what the walk meets there is not modelled.
GetPropertyList(class) ==
  [j \in 1 .. Len(class.properties) |-> class.properties[PropertyIndex(class)[j]]]

AnyVersion == 0   \* a category class without EventVersion

GetEventCategoryClass(category, version) ==
  {i \in DOMAIN repository : /\ repository[i].category = category
                             /\ repository[i].version \in {version, AnyVersion}}

GetEventClass(children, type) == {i \in DOMAIN children : type \in children[i].types}

Nowhere == -1

\* One step of the walk: after a size of 0 there is none.
NextPlace(walk, p, starts, lengths) ==
  LET last == walk[Len(walk)]
      offset == IF walk = <<>> THEN 0 ELSE last.offset + last.size
  IN  IF walk # <<>> /\ last.size = 0 THEN walk
      ELSE Append(walk, [name |-> p.name, offset |-> offset,
                         size |-> GetEventPropertyValue(p, LengthAt(starts, lengths, offset))])

Walk(properties, e) ==
  LET starts == Starts(e.properties, e.lengths)
      upTo[i \in 0 .. Len(properties)] ==
        IF i = 0 THEN <<>> ELSE NextPlace(upTo[i - 1], properties[i], starts, e.lengths)
  IN  upTo[Len(properties)]

\* Mutant of WalkOf: the walk starts at the second property.
WalkOfRest(e) ==
  LET children == repository[Min(GetEventCategoryClass(layout.category, e.version))].children
      class == GetEventClass(children, e.type)
      list == GetPropertyList(children[Min(class)])
  IN  IF class = {} THEN <<>> ELSE Walk(SubSeq(list, 2, Len(list)), e)

\* The walk over the event's class; it is not looked for without a category class.
WalkOf(e) ==
  LET children == repository[Min(GetEventCategoryClass(layout.category, e.version))].children
      class == GetEventClass(children, e.type)
  IN  IF class = {} THEN <<>> ELSE Walk(GetPropertyList(children[Min(class)]), e)

\* <<offset, size>>: the size is 0 when the walk stopped before the name, but that
\* of the last property when it ended without meeting it.
GetPropertyInfo(name, walk) ==
  LET named == {i \in DOMAIN walk : walk[i].name = name}
      last == IF named = {} THEN Len(walk) ELSE Min(named)
  IN  IF walk = <<>> THEN <<Nowhere, 0>>
      ELSE <<IF named = {} \/ walk[last].size = 0 THEN Nowhere ELSE walk[last].offset,
             walk[last].size>>

-----------------------------------------------------------------------------
(* The constructors *)

Blank == "blank"
Garbage == "garbage"
NoEvent == [type |-> Nowhere, version |-> 0, properties |-> <<>>, lengths |-> <<>>]

ReadersOf == {r \in Readers : r.layout = layout}
ReaderOf == CHOOSE r \in ReadersOf : TRUE
Members(r) == r.copied \cup r.text \cup r.fresh

\* Members are initialised before the constructor looks at the event.
BlankRecord(r) == [n \in Members(r) |-> Blank]
NewCache == [positioned |-> FALSE, offs |-> <<>>, size |-> <<>>]

\* Mutant of AsOffset: the offset is kept with its sign.
AsOffsetSigned(x) == x

\* Offsets are kept as DWORDs.
AsOffset(x) == x % OffsetModulus

Located(r, e) ==
  LET walk == WalkOf(e)
  IN  [offs |-> [n \in r.located |-> AsOffset(GetPropertyInfo(n, walk)[1])],
       size |-> [n \in r.located |-> GetPropertyInfo(n, walk)[2]]]

\* The property whose bytes are at an offset, or begin there.
BytesAt(e, starts, offset, size) ==
  LET here == {i \in DOMAIN starts : /\ starts[i] = offset
                                     /\ EncodedSize(e.properties[i], e.lengths[i]) = size}
  IN  IF here = {} THEN Garbage ELSE e.properties[Max(here)].name
TextAt(e, starts, offset) ==
  LET here == {i \in DOMAIN starts : starts[i] = offset}
  IN  IF here = {} THEN Garbage ELSE e.properties[Max(here)].name

Filled(r, places, e) ==
  LET starts == Starts(e.properties, e.lengths)
      walk == WalkOf(e)
  IN  [n \in Members(r) |->
         IF n \in r.copied THEN BytesAt(e, starts, places.offs[n], places.size[n])
         ELSE TextAt(e, starts, IF n \in r.text THEN places.offs[n]
                                ELSE GetPropertyInfo(n, walk)[1])]

\* Mutant of Rejected: one size that is not 0 is enough.
RejectedAll(r, places) == \A n \in r.tested : places.size[n] = 0

Rejected(r, places) == \E n \in r.tested : places.size[n] = 0

InOrder(r, places) ==
  r.last = NoName \/ \A n \in r.tested : places.offs[r.last] > places.offs[n]

\* An event arrives whose class is in the repository.
Constructs(e) ==
  /\ alive /\ ReadersOf # {}
  /\ e.type \in types
  /\ GetEventCategoryClass(layout.category, e.version) # {}
  /\ event' = e

\* The first event: a size of 0 ends the constructor, and the next event tries again.
Reject(e) ==
  LET r == ReaderOf places == Located(r, e)
  IN  /\ Constructs(e)
      /\ ~cache[e.type].positioned /\ Rejected(r, places)
      /\ cache' = [cache EXCEPT ![e.type] =
                     [positioned |-> FALSE, offs |-> places.offs, size |-> places.size]]
      /\ record' = BlankRecord(r)
      /\ UNCHANGED <<layout, types, repository, alive>>

Locate(e) ==
  LET r == ReaderOf places == Located(r, e)
  IN  /\ Constructs(e)
      /\ ~cache[e.type].positioned /\ ~Rejected(r, places)
      /\ cache' = [cache EXCEPT ![e.type] =
                     [positioned |-> InOrder(r, places), offs |-> places.offs,
                      size |-> places.size]]
      /\ record' = Filled(r, places, e)
      /\ UNCHANGED <<layout, types, repository, alive>>

Reuse(e) ==
  /\ Constructs(e)
  /\ cache[e.type].positioned
  /\ record' = Filled(ReaderOf, cache[e.type], e)
  /\ UNCHANGED <<layout, types, repository, cache, alive>>

\* A category class that is not there is used nevertheless.  Constructors of
\* process events look strings up also when the places are kept.
LosesClass(e) ==
  /\ alive /\ ReadersOf # {}
  /\ e.type \in types
  /\ ~cache[e.type].positioned \/ ReaderOf.fresh # {}
  /\ GetEventCategoryClass(layout.category, e.version) = {}
  /\ alive' = FALSE
  /\ event' = e
  /\ UNCHANGED <<layout, types, repository, cache, record>>

\* Network events have no constructor.
PassOver(e) ==
  /\ alive /\ ReadersOf = {}
  /\ e.type \in types
  /\ event' = e
  /\ UNCHANGED <<layout, types, repository, cache, record, alive>>

\* The service is started again, with its static data as at first.
Restart ==
  /\ ~alive
  /\ alive' = TRUE
  /\ cache' = [t \in types |-> NewCache]
  /\ event' = NoEvent
  /\ record' = <<>>
  /\ UNCHANGED <<layout, types, repository>>

-----------------------------------------------------------------------------
(* What WMI may say of the events *)

Variable == {"ansi", "wide", "Sid"}
Unsized == {"counted", "object"}
EventVersion == 2

Without(s, i) == [j \in 1 .. Len(s) - 1 |-> IF j < i THEN s[j] ELSE s[j + 1]]
With(s, i, p) == [j \in 1 .. Len(s) + 1 |-> IF j < i THEN s[j] ELSE IF j = i THEN p ELSE s[j - 1]]
Replaced(s, i, k, c) == [s EXCEPT ![i].kind = k, ![i].count = c]

\* As documented, without a property, with one that is not documented, or with
\* one of another kind.
Described(s) ==
  {s}
  \cup {Without(s, i) : i \in DOMAIN s}
  \cup {With(s, i, Property("Undocumented", "uint32")) : i \in 1 .. Len(s) + 1}
  \cup {Replaced(s, i, k, 1) : i \in {j \in DOMAIN s : s[j].kind \notin Variable},
                               k \in {"pointer", "object"}}
  \cup {Replaced(s, i, "counted", 1) : i \in {j \in DOMAIN s : s[j].kind \in Variable}}
  \cup {Replaced(s, i, "uint32", c) : i \in {j \in DOMAIN s : s[j].kind = "uint32"}, c \in {0, 2}}

Numbered(s) == [i \in DOMAIN s |-> [name |-> s[i].name, kind |-> s[i].kind,
                                    count |-> s[i].count, id |-> i]]
Backwards(s) == [i \in DOMAIN s |-> s[Len(s) + 1 - i]]

CategoryClass(category, version, children) ==
  [category |-> category, version |-> version, children |-> children]
Child(ts, s) == [types |-> ts, properties |-> Backwards(Numbered(s))]

Repositories(l) ==
  LET other == CategoryClass("EventTrace", AnyVersion, <<>>)
      older == CategoryClass(l.category, 1, <<Child(l.types, <<>>)>>)
      Holding(v, s) == CategoryClass(l.category, v, <<Child({255}, <<>>), Child(l.types, s)>>)
  IN  {<<other, older, Holding(EventVersion, s)>> : s \in Described(l.properties)}
      \cup {<<other, older, Holding(AnyVersion, l.properties)>>, <<other, older, CategoryClass(l.category, EventVersion, <<>>)>>, <<other, older>>}

Layouts == {r.layout : r \in Readers} \cup NetworkLayouts

\* The properties an event of a type carries are those its class lists, in order.
Carried ==
  LET children == repository[Len(repository)].children
      listed == children[Len(children)].properties
      nth(j) == CHOOSE i \in DOMAIN listed : listed[i].id = j
  IN  IF Len(repository) = 3 /\ children # <<>>
      THEN [j \in DOMAIN listed |-> listed[nth(j)]]
      ELSE layout.properties

Events ==
  LET s == Carried
      open == {i \in DOMAIN s : s[i].kind \in Variable \cup Unsized}
      lengths == {[i \in DOMAIN s |-> IF i \in open THEN f[i] ELSE 0] :
                    f \in [open -> {0} \cup Lengths]}
  IN  {[type |-> t, version |-> EventVersion, properties |-> s, lengths |-> f] :
         t \in types, f \in lengths}

Init ==
  /\ layout \in Layouts
  /\ types = CHOOSE t \in SUBSET layout.types :
                Cardinality(t) = Min({MaxTypes, Cardinality(layout.types)})
  /\ repository \in Repositories(layout)
  /\ cache = [t \in types |-> NewCache]
  /\ event = NoEvent
  /\ record = <<>>
  /\ alive = TRUE

Next ==
  \/ \E e \in Events : Reject(e) \/ Locate(e) \/ Reuse(e) \/ LosesClass(e) \/ PassOver(e)
  \/ Restart

Spec == Init /\ [][Next]_vars

-----------------------------------------------------------------------------
(* Properties *)

\* Every variable keeps its type; a kept offset is a DWORD.
TypeOK ==
  /\ layout \in Layouts /\ types \subseteq layout.types
  /\ alive \in BOOLEAN
  /\ \A t \in types :
       /\ cache[t].positioned \in BOOLEAN
       /\ \A n \in DOMAIN cache[t].offs : cache[t].offs[n] \in 0 .. OffsetModulus - 1
       /\ \A n \in DOMAIN cache[t].size : cache[t].size[n] \in Nat
  /\ event = NoEvent \/ event.type \in types
  /\ \A n \in DOMAIN record : record[n] \in {Blank, Garbage, n} \cup
                                          {event.properties[i].name : i \in DOMAIN event.properties}

\* The class of the event is in the repository.
Known(e) ==
  LET categories == GetEventCategoryClass(layout.category, e.version)
  IN  /\ categories # {}
      /\ GetEventClass(repository[Min(categories)].children, e.type) # {}

\* The place of a property in the event, and whether the sizes before it are understood.
PlaceOf(e, n) == CHOOSE i \in DOMAIN e.properties : e.properties[i].name = n
Carries(e, n) == \E i \in DOMAIN e.properties : e.properties[i].name = n
Understood(e, n) ==
  \A i \in 1 .. PlaceOf(e, n) : e.properties[i].kind \notin Unsized /\ e.properties[i].count > 0

\* The walk: whatever WMI lists, in whatever order, a property is found where
\* the kernel wrote it, behind strings and SIDs of any length, or not at all when
\* the size of one before it is not understood.  (GetPropertyInfo)
WalkExact ==
  event # NoEvent /\ alive /\ Known(event) =>
    LET walk == WalkOf(event)
        starts == Starts(event.properties, event.lengths)
    IN  \A n \in {m \in Names(layout) : Carries(event, m)} :
          LET i == PlaceOf(event, n)
          IN  GetPropertyInfo(n, walk) =
                IF Understood(event, n)
                THEN <<starts[i], EncodedSize(event.properties[i], event.lengths[i])>>
                ELSE <<Nowhere, 0>>

\* If the class has what the constructor looks up, and the sizes are understood, then
\* every member holds its property, also when the offsets stem from an earlier
\* event whose strings and SID had other lengths.
DecodedTruthfully ==
  record # <<>> /\ alive /\ Known(event) =>
    LET r == ReaderOf IN
    (\A n \in r.located \cup r.fresh : Carries(event, n) /\ Understood(event, n)) =>
      \A n \in Members(r) : record[n] = n

\* If the class has what the constructor looks up, sizes understood or not, the
\* numbers of a record are all there or none is: no consumer meets a record
\* that is half filled.
NeverHalfDecoded ==
  record # <<>> /\ alive /\ Known(event) =>
    LET r == ReaderOf IN
    (\A n \in r.located : Carries(event, n)) =>
      \/ \A n \in r.copied : record[n] = n
      \/ \A n \in Members(r) : record[n] = Blank

\* What is kept is what a walk over any later event of the type finds: the event at
\* hand, whatever lengths it has.
KeptPlacesHold ==
  alive => \A t \in types : cache[t].positioned =>
    LET walk == WalkOf([event EXCEPT !.type = t])
    IN  \A n \in ReaderOf.copied \cup ReaderOf.text :
          cache[t].offs[n] = AsOffset(GetPropertyInfo(n, walk)[1])

=============================================================================
