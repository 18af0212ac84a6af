-------------------------- MODULE SelfDefenseProofs --------------------------
(* Proofs about SelfDefense. *)
EXTENDS SelfDefense, TLAPS

USE DEF Paths, Times, Unstamped, Stamps, Phases, Process, NoProcess, Entry,
        Labels, QueryStages, QueryOps

LEMMA FrameType == NoFrame \in Frame
BY ThreadAssumption, PathAssumption DEF NoFrame, Frame

LEMMA AbsentNotEntry == Absent \notin Entry
BY EntryAssumption, TimeAssumption

LEMMA InitIInv == Init => IInv
<1> SUFFICES ASSUME Init PROVE IInv
  OBVIOUS
<1> USE ThreadAssumption, ProcessAssumption, PathAssumption, TimeAssumption DEF Init
<1>1. TypeOK
  BY FrameType DEF TypeOK
<1>2. MutexDiscipline
  BY DEF MutexDiscipline, InMapSection, InMapSectionOf, WaitsForMap
<1>3. Shape
  BY DEF Shape, ShapeOf, NoFrame
<1>4. InProcess
  BY DEF InProcess, InProcessOf, NoFrame
<1>5. Iterators
  BY DEF Iterators, IteratorOf, NoFrame
<1>6. Lookup /\ Answered /\ Recording
  BY DEF Lookup, Answered, Recording, LookupOf, AnsweredOf, RecordingOf, NoFrame
<1>7. StampedTruthful
  BY DEF StampedTruthful, Known
<1> QED
  BY <1>1, <1>2, <1>3, <1>4, <1>5, <1>6, <1>7 DEF IInv

LEMMA InsertStep ==
  ASSUME IInv, NEW t \in Threads, Insert(t)
  PROVE  IInv'
<1> USE ThreadAssumption DEF IInv
<1>0. /\ fr[t] \in Frame
      /\ \A u \in Threads : u # t => fr'[u] = fr[u] /\ pc'[u] = pc[u]
      /\ fr'[t] = [fr[t] EXCEPT !.path = EmptyPath, !.fresh = FALSE, !.start = Unstamped]
      /\ pc[t] = "insert" /\ pc'[t] = IF fr[t].op = "create" THEN "done" ELSE "answer"
      /\ fr' = [fr EXCEPT ![t] = fr'[t]]
      /\ map' = MapInsert(Recorded(t), EntryOf(fr[t]))
      /\ UNCHANGED <<os, now>>
  BY DEF TypeOK, Insert, Step
<1>fields. \A u \in Threads : /\ fr'[u].op = fr[u].op /\ fr'[u].pid = fr[u].pid
                              /\ fr'[u].cur = fr[u].cur /\ fr'[u].it = fr[u].it
  <2> SUFFICES ASSUME NEW u \in Threads
               PROVE  /\ fr'[u].op = fr[u].op /\ fr'[u].pid = fr[u].pid
                      /\ fr'[u].cur = fr[u].cur /\ fr'[u].it = fr[u].it
    OBVIOUS
  <2>1. CASE u = t
    BY <1>0, <2>1 DEF Frame
  <2>2. CASE u # t
    BY <1>0, <2>2
  <2> QED BY <2>1, <2>2
<1>1. TypeOK'
  <2>1. fr' \in [Threads -> Frame]
    <3>1. fr'[t] \in Frame
      BY <1>0, PathAssumption DEF Frame
    <3> QED BY <1>0, <3>1 DEF TypeOK
  <2>2. map' \in [Pids -> Entry \cup {Absent}]
    <3>1. EntryOf(fr[t]) \in Entry
      BY <1>0 DEF EntryOf, Frame
    <3> QED BY <1>0, <3>1 DEF TypeOK, MapInsert
  <2>3. pc' \in [Threads -> Labels]
    BY <1>0 DEF TypeOK, Insert, Step
  <2> QED
    BY <2>1, <2>2, <2>3 DEF TypeOK, Insert
<1>2. MutexDiscipline'
  BY <1>0 DEF MutexDiscipline, InMapSection, InMapSectionOf, WaitsForMap, TypeOK, Insert, Frame, Shape, ShapeOf
<1>3. Shape'
  <2> SUFFICES ASSUME NEW u \in Threads PROVE ShapeOf(pc'[u], fr'[u])
    BY DEF Shape, ShapeOf
  <2>1. CASE u = t
    BY <1>0, <2>1 DEF Shape, ShapeOf, Frame
  <2>2. CASE u # t
    BY <1>0, <2>2 DEF Shape
  <2> QED BY <2>1, <2>2
<1>4. InProcess'
  BY <1>0, <1>fields DEF InProcess, InProcessOf
<1>5. Iterators'
  <2> SUFFICES ASSUME NEW u \in Threads PROVE IteratorOf(pc[u], fr[u])'
    BY DEF Iterators
  <2>1. \A p \in Pids : Known(p) => map'[p] = map[p]
    BY <1>0 DEF TypeOK, MapInsert, Known
  <2> QED
    BY <1>0, <1>fields, <2>1 DEF Iterators, IteratorOf, Known
<1>6. Lookup'
  <2> SUFFICES ASSUME NEW u \in Threads PROVE LookupOf(pc[u], fr[u])'
    BY DEF Lookup
  <2>1. CASE u = t
    BY <1>0, <2>1 DEF LookupOf, Frame
  <2>2. CASE u # t
    <3>1. ~InMapSection(u)
      BY <1>0, <2>2 DEF MutexDiscipline, InMapSection, InMapSectionOf
    <3>2. LookupOf(pc[u], fr[u])
      BY DEF Lookup
    <3>3. pc[u] = "insert" => fr[u].op \notin QueryOps
      BY <3>1 DEF InMapSection, InMapSectionOf
    <3> QED BY <1>0, <2>2, <3>1, <3>2 DEF LookupOf, InMapSection, InMapSectionOf
  <2> QED BY <2>1, <2>2
<1>7. Answered'
  <2> SUFFICES ASSUME NEW u \in Threads PROVE AnsweredOf(pc[u], fr[u])'
    BY DEF Answered
  <2>1. CASE u = t
    <3>1. CASE fr[t].op = "create"
      BY <1>0, <2>1, <3>1 DEF AnsweredOf, Frame, Shape, ShapeOf
    <3>2. CASE fr[t].op # "create"
      <4>1. /\ fr[t].op \in QueryOps
            /\ ~Known(AskedOf(fr[t])) /\ (fr[t].prot <=> InProtectedDirectory(fr[t].path))
        BY <1>0, <3>2 DEF Shape, ShapeOf, Lookup, LookupOf, Frame
      <4>2. fr[t].stage = "source" => /\ AskedOf(fr[t]) = fr[t].cur
                                      /\ fr[t].cur \in Pids
        BY <4>1 DEF AskedOf, InProcess, InProcessOf
      <4>3. CASE fr[t].stage = "source"
        <5>1. map'[fr[t].cur] = [path |-> fr[t].path, prot |-> fr[t].prot,
                                 start |-> fr[t].start]
          BY <3>2, <4>1, <4>2, <4>3 DEF Insert, MapInsert, EntryOf, Recorded, Asked, TypeOK
        <5>2. map'[fr[t].cur] # Absent
          BY <1>0, <5>1, AbsentNotEntry DEF Frame
        <5>3. Verdict(map'[fr[t].cur]) <=> fr[t].prot
          BY <4>1, <5>1 DEF Verdict, InProtectedDirectory
        <5> QED
          BY <1>0, <2>1, <4>1, <4>3, <5>2, <5>3 DEF AnsweredOf, Known, Frame
      <4>4. CASE fr[t].stage # "source"
        <5>1. /\ Known(fr[t].cur) /\ ~Verdict(map[fr[t].cur])
              /\ map'[fr[t].cur] = map[fr[t].cur]
          BY <4>1, <4>4 DEF Answered, AnsweredOf, Insert, MapInsert, EntryOf, Recorded, Known, InProcess, InProcessOf, TypeOK
        <5> QED
          BY <1>0, <2>1, <4>4, <5>1 DEF AnsweredOf, Known, Verdict, Frame
      <4> QED BY <4>3, <4>4
    <3> QED BY <3>1, <3>2
  <2>2. CASE u # t
    BY <1>0, <2>2 DEF Answered, AnsweredOf, Known, MapInsert, Insert, TypeOK, Verdict
  <2> QED BY <2>1, <2>2
<1>8. Recording'
  <2> SUFFICES ASSUME NEW u \in Threads PROVE RecordingOf(pc[u], fr[u])'
    BY DEF Recording
  <2>1. CASE u = t
    BY <1>0, <2>1 DEF RecordingOf, Frame, Shape, ShapeOf
  <2>2. CASE u # t
    <3>1. \A p \in Pids : /\ Known(p) => map'[p] = map[p]
                          /\ Known(p)' => Known(p) \/ p = Recorded(t)
                          /\ Known(p)' /\ ~Known(p) => map'[p].start = fr[t].start
      BY <1>0 DEF TypeOK, MapInsert, Known, EntryOf
    <3>2. RecordingOf(pc[u], fr[u]) /\ InProcessOf(fr[u]) /\ ShapeOf(pc[t], fr[t])
      BY DEF Recording, InProcess, Shape
    <3>3. fr[t].op = "create" \/ fr[t].start = Unstamped
      BY <1>0, <3>2 DEF ShapeOf, Frame
    <3>4. fr[u].op = "exit" => (fr[t].op = "create" => Recorded(t) # fr[u].pid)
      BY <2>2 DEF InProcess, Recorded
    <3>5. fr[u].op = "create" => fr[u].cur \in Pids /\ fr[u].pid \in Pids
      BY <3>2 DEF InProcessOf
    <3>6. fr[u].op = "exit" => fr[u].pid \in Pids
      BY <3>2 DEF InProcessOf
    <3> QED
      BY <1>0, <2>2, <3>1, <3>2, <3>3, <3>4, <3>5, <3>6 DEF RecordingOf, Known
  <2> QED BY <2>1, <2>2
<1>9. StampedTruthful'
  <2>1. ASSUME NEW p \in Pids, map'[p] # map[p], map'[p].start # Unstamped
        PROVE  /\ os[p].phase = "born"
               /\ map'[p].path \in {os[p].image, EmptyPath}
    <3>1. p = Recorded(t) /\ ~Known(p) /\ map'[p] = EntryOf(fr[t])
      BY <1>0, <2>1 DEF MapInsert, TypeOK
    <3>2. fr[t].op = "create" /\ p = fr[t].pid
      BY <1>0, <2>1, <3>1 DEF Recorded, EntryOf, Shape, ShapeOf, Frame
    <3> QED
      BY <1>0, <3>1, <3>2 DEF EntryOf, Recording, RecordingOf, InProcess, InProcessOf
  <2> QED
    BY <1>0, <2>1 DEF StampedTruthful, Known
<1> QED
  BY <1>1, <1>2, <1>3, <1>4, <1>5, <1>6, <1>7, <1>8, <1>9

-----------------------------------------------------------------------------
(* Steps that leave the processes and the map alone *)

\* Thread t goes to label l with the locals g, and takes or releases a mutex
\* exactly when it enters or leaves the section of that mutex.
MutexStep(t, l, g) ==
    /\ \/ /\ mapMutex' = mapMutex
          /\ InMapSectionOf(l, g) <=> InMapSectionOf(pc[t], fr[t])
       \/ mapMutex = Nobody /\ mapMutex' = t /\ InMapSectionOf(l, g)
       \/ /\ InMapSectionOf(pc[t], fr[t]) /\ ~InMapSectionOf(l, g)
          /\ mapMutex' = Nobody
    /\ \/ dirMutex' = dirMutex /\ (l = "scan" <=> pc[t] = "scan")
       \/ dirMutex = Nobody /\ dirMutex' = t /\ l = "scan"
       \/ pc[t] = "scan" /\ l # "scan" /\ dirMutex' = Nobody

Local(t, l, g) ==
    /\ UNCHANGED <<os, now, map>>
    /\ pc' = [pc EXCEPT ![t] = l]
    /\ fr' = [fr EXCEPT ![t] = g]
    /\ MutexStep(t, l, g)

\* The new frame fits its label, the processes and the map.
Fits(t, l, g) ==
    /\ l \in Labels /\ g \in Frame
    /\ ShapeOf(l, g)
    /\ InProcessOf(g)
    /\ g.op \in {"create", "exit"} => g.op = fr[t].op /\ g.pid = fr[t].pid
    /\ IteratorOf(l, g) /\ LookupOf(l, g) /\ AnsweredOf(l, g) /\ RecordingOf(l, g)

LEMMA LocalStep ==
  ASSUME IInv, NEW t \in Threads, NEW l, NEW g, Local(t, l, g), Fits(t, l, g)
  PROVE  IInv'
<1> USE ThreadAssumption DEF IInv
<1>0. /\ \A u \in Threads : u # t => fr'[u] = fr[u] /\ pc'[u] = pc[u]
      /\ fr'[t] = g /\ pc'[t] = l
      /\ UNCHANGED <<os, now, map>>
  BY DEF TypeOK, Local
<1>1. TypeOK'
  BY DEF TypeOK, Local, Fits, MutexStep
<1>2. MutexDiscipline'
  BY <1>0 DEF MutexDiscipline, InMapSection, InMapSectionOf, WaitsForMap, TypeOK,
              Local, Fits, MutexStep
<1>3. Shape'
  <2> SUFFICES ASSUME NEW u \in Threads PROVE ShapeOf(pc'[u], fr'[u])
    BY DEF Shape, ShapeOf
  <2> QED BY <1>0 DEF Shape, Fits
<1>4. InProcess'
  BY <1>0 DEF InProcess, InProcessOf, Fits
<1>5. Iterators'
  BY <1>0 DEF Iterators, IteratorOf, Known, Fits
<1>6. Lookup'
  BY <1>0 DEF Lookup, LookupOf, Known, Fits
<1>7. Answered'
  BY <1>0 DEF Answered, AnsweredOf, Known, Fits
<1>8. Recording'
  BY <1>0 DEF Recording, RecordingOf, Known, Fits
<1>9. StampedTruthful'
  BY <1>0 DEF StampedTruthful, Known
<1> QED
  BY <1>1, <1>2, <1>3, <1>4, <1>5, <1>6, <1>7, <1>8, <1>9

\* What the invariant says of one thread
ThreadOK(t) ==
    /\ fr[t] \in Frame
    /\ ShapeOf(pc[t], fr[t]) /\ InProcessOf(fr[t])
    /\ IteratorOf(pc[t], fr[t]) /\ LookupOf(pc[t], fr[t])
    /\ AnsweredOf(pc[t], fr[t]) /\ RecordingOf(pc[t], fr[t])
    /\ pc \in [Threads -> Labels] /\ fr \in [Threads -> Frame]
    /\ os \in [Pids -> Process]
    /\ map \in [Pids -> Entry \cup {Absent}]
    /\ now \in Times
    /\ InMapSectionOf(pc[t], fr[t]) <=> (mapMutex = t)
    /\ (pc[t] = "scan") <=> (dirMutex = t)

LEMMA ThreadFacts == ASSUME IInv, NEW t \in Threads PROVE ThreadOK(t)
BY DEF ThreadOK, IInv, TypeOK, Shape, InProcess, Iterators, Lookup, Answered, Recording,
       MutexDiscipline, InMapSection

LEMMA AnnounceStep ==
  ASSUME IInv, NEW t \in Threads, Announce(t)
  PROVE  IInv'
<1> DEFINE l == "name"
           g == fr[t]
<1>0. Announce(t) /\ ThreadOK(t)
  BY ThreadFacts
<1>1. Local(t, l, g)
  BY <1>0 DEF Local, MutexStep, InMapSectionOf, ThreadOK, ShapeOf, Announce, Step
<1>2. l \in Labels /\ g \in Frame
  BY <1>0, ThreadAssumption, PathAssumption DEF ThreadOK, Frame, Announce, Step
<1>3. /\ ShapeOf(l, g) /\ InProcessOf(g)
      /\ g.op = fr[t].op /\ g.pid = fr[t].pid
  BY <1>0 DEF ThreadOK, ShapeOf, InProcessOf, Frame, Announce, Step
<1>4. IteratorOf(l, g) /\ LookupOf(l, g)
  BY <1>0 DEF ThreadOK, ShapeOf, IteratorOf, LookupOf, AskedOf, Asked, Frame, Announce, Step
<1>5. AnsweredOf(l, g) /\ RecordingOf(l, g)
  BY <1>0 DEF ThreadOK, ShapeOf, AnsweredOf, RecordingOf, Asked, AskedOf, Frame, Announce, Step
<1> HIDE DEF l, g
<1> QED
  BY <1>1, <1>2, <1>3, <1>4, <1>5, LocalStep DEF Fits

LEMMA DirLockStep ==
  ASSUME IInv, NEW t \in Threads, DirLock(t)
  PROVE  IInv'
<1> DEFINE l == "scan"
           g == fr[t]
<1>0. DirLock(t) /\ ThreadOK(t)
  BY ThreadFacts
<1>1. Local(t, l, g)
  BY <1>0 DEF Local, MutexStep, InMapSectionOf, ThreadOK, ShapeOf, DirLock, Step
<1>2. l \in Labels /\ g \in Frame
  BY <1>0, ThreadAssumption, PathAssumption DEF ThreadOK, Frame, DirLock, Step
<1>3. /\ ShapeOf(l, g) /\ InProcessOf(g)
      /\ g.op = fr[t].op /\ g.pid = fr[t].pid
  BY <1>0 DEF ThreadOK, ShapeOf, InProcessOf, Frame, DirLock, Step
<1>4. IteratorOf(l, g) /\ LookupOf(l, g)
  BY <1>0 DEF ThreadOK, ShapeOf, IteratorOf, LookupOf, AskedOf, Asked, Frame, DirLock, Step
<1>5. AnsweredOf(l, g) /\ RecordingOf(l, g)
  BY <1>0 DEF ThreadOK, ShapeOf, AnsweredOf, RecordingOf, Asked, AskedOf, Frame, DirLock, Step
<1> HIDE DEF l, g
<1> QED
  BY <1>1, <1>2, <1>3, <1>4, <1>5, LocalStep DEF Fits

LEMMA AskStep ==
  ASSUME IInv, NEW t \in Threads, Ask(t)
  PROVE  IInv'
<1> DEFINE l == "find"
           g == fr[t]
<1>0. Ask(t) /\ ThreadOK(t)
  BY ThreadFacts
<1>1. Local(t, l, g)
  BY <1>0 DEF Local, MutexStep, InMapSectionOf, ThreadOK, ShapeOf, Ask, Step, MapLock
<1>2. l \in Labels /\ g \in Frame
  BY <1>0, ThreadAssumption, PathAssumption DEF ThreadOK, Frame, Ask, Step, MapLock
<1>3. /\ ShapeOf(l, g) /\ InProcessOf(g)
      /\ g.op = fr[t].op /\ g.pid = fr[t].pid
  BY <1>0 DEF ThreadOK, ShapeOf, InProcessOf, Frame, Ask, Step, MapLock
<1>4. IteratorOf(l, g) /\ LookupOf(l, g)
  BY <1>0 DEF ThreadOK, ShapeOf, IteratorOf, LookupOf, AskedOf, Asked, Frame, Ask, Step, MapLock
<1>5. AnsweredOf(l, g) /\ RecordingOf(l, g)
  BY <1>0 DEF ThreadOK, ShapeOf, AnsweredOf, RecordingOf, Asked, AskedOf, Frame, Ask, Step, MapLock
<1> HIDE DEF l, g
<1> QED
  BY <1>1, <1>2, <1>3, <1>4, <1>5, LocalStep DEF Fits

LEMMA LockParentStep ==
  ASSUME IInv, NEW t \in Threads, LockParent(t)
  PROVE  IInv'
<1> DEFINE l == "inherit"
           g == fr[t]
<1>0. LockParent(t) /\ ThreadOK(t)
  BY ThreadFacts
<1>1. Local(t, l, g)
  BY <1>0 DEF Local, MutexStep, InMapSectionOf, ThreadOK, ShapeOf, LockParent, Step, MapLock
<1>2. l \in Labels /\ g \in Frame
  BY <1>0, ThreadAssumption, PathAssumption DEF ThreadOK, Frame, LockParent, Step, MapLock
<1>3. /\ ShapeOf(l, g) /\ InProcessOf(g)
      /\ g.op = fr[t].op /\ g.pid = fr[t].pid
  BY <1>0 DEF ThreadOK, ShapeOf, InProcessOf, Frame, LockParent, Step, MapLock
<1>4. IteratorOf(l, g) /\ LookupOf(l, g)
  BY <1>0 DEF ThreadOK, ShapeOf, IteratorOf, LookupOf, AskedOf, Asked, Frame, LockParent, Step, MapLock
<1>5. AnsweredOf(l, g) /\ RecordingOf(l, g)
  BY <1>0 DEF ThreadOK, ShapeOf, AnsweredOf, RecordingOf, Asked, AskedOf, Frame, LockParent, Step, MapLock
<1> HIDE DEF l, g
<1> QED
  BY <1>1, <1>2, <1>3, <1>4, <1>5, LocalStep DEF Fits

LEMMA EnterStep ==
  ASSUME IInv, NEW t \in Threads, Enter(t)
  PROVE  IInv'
<1> DEFINE l == IF fr[t].op = "create" THEN "insert" ELSE "erase"
           g == fr[t]
<1>0. Enter(t) /\ ThreadOK(t)
  BY ThreadFacts
<1>1. Local(t, l, g)
  BY <1>0 DEF Local, MutexStep, InMapSectionOf, ThreadOK, ShapeOf, Enter, Step, MapLock
<1>2. l \in Labels /\ g \in Frame
  BY <1>0, ThreadAssumption, PathAssumption DEF ThreadOK, Frame, Enter, Step, MapLock
<1>3. /\ ShapeOf(l, g) /\ InProcessOf(g)
      /\ g.op = fr[t].op /\ g.pid = fr[t].pid
  BY <1>0 DEF ThreadOK, ShapeOf, InProcessOf, Frame, Enter, Step, MapLock
<1>4. IteratorOf(l, g) /\ LookupOf(l, g)
  BY <1>0 DEF ThreadOK, ShapeOf, IteratorOf, LookupOf, AskedOf, Asked, Frame, Enter, Step, MapLock
<1>5. AnsweredOf(l, g) /\ RecordingOf(l, g)
  BY <1>0 DEF ThreadOK, ShapeOf, AnsweredOf, RecordingOf, Asked, AskedOf, Frame, Enter, Step, MapLock
<1> HIDE DEF l, g
<1> QED
  BY <1>1, <1>2, <1>3, <1>4, <1>5, LocalStep DEF Fits

LEMMA InheritStep ==
  ASSUME IInv, NEW t \in Threads, Inherit(t)
  PROVE  IInv'
<1> DEFINE l == "stamp"
           g == [fr[t] EXCEPT !.prot = Known(fr[t].cur) /\ map[fr[t].cur].prot]
<1>0. Inherit(t) /\ ThreadOK(t)
  BY ThreadFacts
<1>1. Local(t, l, g)
  BY <1>0 DEF Local, MutexStep, InMapSectionOf, ThreadOK, ShapeOf, Inherit, Step
<1>2. l \in Labels /\ g \in Frame
  BY <1>0, ThreadAssumption, PathAssumption DEF ThreadOK, Frame, Inherit, Step
<1>3. /\ ShapeOf(l, g) /\ InProcessOf(g)
      /\ g.op = fr[t].op /\ g.pid = fr[t].pid
  BY <1>0 DEF ThreadOK, ShapeOf, InProcessOf, Frame, Inherit, Step
<1>4. IteratorOf(l, g) /\ LookupOf(l, g)
  BY <1>0 DEF ThreadOK, ShapeOf, IteratorOf, LookupOf, AskedOf, Asked, Frame, Inherit, Step
<1>5. AnsweredOf(l, g) /\ RecordingOf(l, g)
  BY <1>0 DEF ThreadOK, ShapeOf, AnsweredOf, RecordingOf, Asked, AskedOf, Frame, Inherit, Step
<1> HIDE DEF l, g
<1> QED
  BY <1>1, <1>2, <1>3, <1>4, <1>5, LocalStep DEF Fits

LEMMA StampStep ==
  ASSUME IInv, NEW t \in Threads, Stamp(t)
  PROVE  IInv'
<1> DEFINE l == "enter"
           g == [fr[t] EXCEPT !.start = now]
<1>0. Stamp(t) /\ ThreadOK(t)
  BY ThreadFacts
<1>1. Local(t, l, g)
  BY <1>0 DEF Local, MutexStep, InMapSectionOf, ThreadOK, ShapeOf, Stamp, Step
<1>2. l \in Labels /\ g \in Frame
  BY <1>0, ThreadAssumption, PathAssumption DEF ThreadOK, Frame, Stamp, Step
<1>3. /\ ShapeOf(l, g) /\ InProcessOf(g)
      /\ g.op = fr[t].op /\ g.pid = fr[t].pid
  BY <1>0 DEF ThreadOK, ShapeOf, InProcessOf, Frame, Stamp, Step
<1>4. IteratorOf(l, g) /\ LookupOf(l, g)
  BY <1>0 DEF ThreadOK, ShapeOf, IteratorOf, LookupOf, AskedOf, Asked, Frame, Stamp, Step
<1>5. AnsweredOf(l, g) /\ RecordingOf(l, g)
  BY <1>0 DEF ThreadOK, ShapeOf, AnsweredOf, RecordingOf, Asked, AskedOf, Frame, Stamp, Step
<1> HIDE DEF l, g
<1> QED
  BY <1>1, <1>2, <1>3, <1>4, <1>5, LocalStep DEF Fits

\* One field of a frame changes.
LEMMA FrameFields ==
  /\ \A f \in Frame, x \in {"source", "target", "file", "dest"} : [f EXCEPT !.stage = x] \in Frame
  /\ \A f \in Frame, x \in Paths : [f EXCEPT !.path = x] \in Frame
  /\ \A f \in Frame, x \in BOOLEAN : [f EXCEPT !.prot = x] \in Frame
  /\ \A f \in Frame, x \in BOOLEAN : [f EXCEPT !.fresh = x] \in Frame
  /\ \A f \in Frame, x \in {"end", "node", "freed"} : [f EXCEPT !.it = x] \in Frame
  /\ \A f \in Frame, x \in {"pass", "filtered", "denied"} : [f EXCEPT !.result = x] \in Frame
BY DEF Frame

LEMMA DirectoryBoolean == \A path : InProtectedDirectory(path) \in BOOLEAN
BY DEF InProtectedDirectory

LEMMA ScanNewStep ==
  ASSUME IInv, NEW t \in Threads, ScanNew(t),
         dirMutex' = Nobody, UNCHANGED <<os, now, map>>
  PROVE  IInv'
<1> DEFINE l == IF InProtectedDirectory(fr[t].path) THEN "stamp" ELSE "parent"
           g == [fr[t] EXCEPT !.prot = InProtectedDirectory(fr[t].path)]
<1>0. /\ ScanNew(t) /\ ThreadOK(t)
      /\ dirMutex' = Nobody /\ UNCHANGED <<os, now, map>>
  BY ThreadFacts
<1>1. Local(t, l, g)
  BY <1>0 DEF Local, MutexStep, InMapSectionOf, ThreadOK, ShapeOf, ScanNew, Step, InProtectedDirectory
<1>2. l \in Labels /\ g \in Frame
  BY <1>0, FrameFields, DirectoryBoolean DEF ThreadOK
<1>3. /\ ShapeOf(l, g) /\ InProcessOf(g)
      /\ g.op = fr[t].op /\ g.pid = fr[t].pid
  BY <1>0 DEF ThreadOK, ShapeOf, InProcessOf, Frame, ScanNew, Step, InProtectedDirectory
<1>4. IteratorOf(l, g) /\ LookupOf(l, g)
  BY <1>0 DEF ThreadOK, ShapeOf, IteratorOf, LookupOf, AskedOf, Asked, Frame, ScanNew, Step, InProtectedDirectory
<1>5. AnsweredOf(l, g) /\ RecordingOf(l, g)
  BY <1>0 DEF ThreadOK, ShapeOf, AnsweredOf, RecordingOf, Asked, AskedOf, Frame, ScanNew, Step, InProtectedDirectory
<1> HIDE DEF l, g
<1> QED
  BY <1>1, <1>2, <1>3, <1>4, <1>5, LocalStep DEF Fits

LEMMA ScanFreshStep ==
  ASSUME IInv, NEW t \in Threads, ScanFresh(t),
         dirMutex' = Nobody, UNCHANGED <<os, now, map>>
  PROVE  IInv'
<1> DEFINE l == "insert"
           g == [fr[t] EXCEPT !.prot = InProtectedDirectory(fr[t].path)]
<1>0. /\ ScanFresh(t) /\ ThreadOK(t)
      /\ dirMutex' = Nobody /\ UNCHANGED <<os, now, map>>
  BY ThreadFacts
<1>1. Local(t, l, g)
  BY <1>0 DEF Local, MutexStep, InMapSectionOf, ThreadOK, ShapeOf, ScanFresh, Step, InProtectedDirectory
<1>2. l \in Labels /\ g \in Frame
  BY <1>0, FrameFields, DirectoryBoolean DEF ThreadOK
<1>3. /\ ShapeOf(l, g) /\ InProcessOf(g)
      /\ g.op = fr[t].op /\ g.pid = fr[t].pid
  BY <1>0 DEF ThreadOK, ShapeOf, InProcessOf, Frame, ScanFresh, Step, InProtectedDirectory
<1>4. IteratorOf(l, g) /\ LookupOf(l, g)
  BY <1>0 DEF ThreadOK, ShapeOf, IteratorOf, LookupOf, AskedOf, Asked, Frame, ScanFresh, Step, InProtectedDirectory
<1>5. AnsweredOf(l, g) /\ RecordingOf(l, g)
  BY <1>0 DEF ThreadOK, ShapeOf, AnsweredOf, RecordingOf, Asked, AskedOf, Frame, ScanFresh, Step, InProtectedDirectory
<1> HIDE DEF l, g
<1> QED
  BY <1>1, <1>2, <1>3, <1>4, <1>5, LocalStep DEF Fits

LEMMA ScanRecordedStep ==
  ASSUME IInv, NEW t \in Threads, ScanRecorded(t),
         dirMutex' = Nobody, UNCHANGED <<os, now, map>>
  PROVE  IInv'
<1> DEFINE l == "answer"
           g == [fr[t] EXCEPT !.prot = InProtectedDirectory(fr[t].path),
                               !.path = EmptyPath]
<1>0. /\ ScanRecorded(t) /\ ThreadOK(t)
      /\ dirMutex' = Nobody /\ UNCHANGED <<os, now, map>>
  BY ThreadFacts
<1>1. Local(t, l, g)
  BY <1>0 DEF Local, MutexStep, InMapSectionOf, ThreadOK, ShapeOf, ScanRecorded, Step, InProtectedDirectory, Verdict
<1>2. l \in Labels /\ g \in Frame
  BY <1>0, FrameFields, DirectoryBoolean DEF ThreadOK
<1>3. /\ ShapeOf(l, g) /\ InProcessOf(g)
      /\ g.op = fr[t].op /\ g.pid = fr[t].pid
  BY <1>0 DEF ThreadOK, ShapeOf, InProcessOf, Frame, ScanRecorded, Step, InProtectedDirectory, Verdict
<1>4. IteratorOf(l, g) /\ LookupOf(l, g)
  BY <1>0 DEF ThreadOK, ShapeOf, IteratorOf, LookupOf, AskedOf, Asked, Frame, ScanRecorded, Step, InProtectedDirectory, Verdict
<1>5. AnsweredOf(l, g) /\ RecordingOf(l, g)
  BY <1>0 DEF ThreadOK, ShapeOf, AnsweredOf, RecordingOf, Asked, AskedOf, Frame, LookupOf, ScanRecorded, Step, InProtectedDirectory, Verdict
<1> HIDE DEF l, g
<1> QED
  BY <1>1, <1>2, <1>3, <1>4, <1>5, LocalStep DEF Fits

LEMMA ScanFileStep ==
  ASSUME IInv, NEW t \in Threads, ScanFile(t),
         dirMutex' = Nobody, UNCHANGED <<os, now, map>>
  PROVE  IInv'
<1> DEFINE l == IF InProtectedDirectory(fr[t].path) THEN "decide" ELSE "done"
           g == IF InProtectedDirectory(fr[t].path) THEN [fr[t] EXCEPT !.path = EmptyPath]
                ELSE [fr[t] EXCEPT !.result = "pass", !.path = EmptyPath]
<1>0. /\ ScanFile(t) /\ ThreadOK(t)
      /\ dirMutex' = Nobody /\ UNCHANGED <<os, now, map>>
  BY ThreadFacts
<1>1. Local(t, l, g)
  BY <1>0 DEF Local, MutexStep, InMapSectionOf, ThreadOK, ShapeOf, ScanFile, Step, InProtectedDirectory, Finish
<1>2. l \in Labels /\ g \in Frame
  BY <1>0, FrameFields, DirectoryBoolean DEF ThreadOK
<1>3. /\ ShapeOf(l, g) /\ InProcessOf(g)
      /\ g.op = fr[t].op /\ g.pid = fr[t].pid
  BY <1>0 DEF ThreadOK, ShapeOf, InProcessOf, Frame, ScanFile, Step, InProtectedDirectory, Finish
<1>4. IteratorOf(l, g) /\ LookupOf(l, g)
  BY <1>0 DEF ThreadOK, ShapeOf, IteratorOf, LookupOf, AskedOf, Asked, Frame, ScanFile, Step, InProtectedDirectory, Finish
<1>5. AnsweredOf(l, g) /\ RecordingOf(l, g)
  BY <1>0 DEF ThreadOK, ShapeOf, AnsweredOf, RecordingOf, Asked, AskedOf, Frame, ScanFile, Step, InProtectedDirectory, Finish
<1> HIDE DEF l, g
<1> QED
  BY <1>1, <1>2, <1>3, <1>4, <1>5, LocalStep DEF Fits

LEMMA ScanDestinationStep ==
  ASSUME IInv, NEW t \in Threads, ScanDestination(t),
         dirMutex' = Nobody, UNCHANGED <<os, now, map>>
  PROVE  IInv'
<1> DEFINE l == "done"
           g == [fr[t] EXCEPT !.result = IF InProtectedDirectory(fr[t].path) THEN "denied" ELSE "pass",
                               !.path = EmptyPath]
<1>0. /\ ScanDestination(t) /\ ThreadOK(t)
      /\ dirMutex' = Nobody /\ UNCHANGED <<os, now, map>>
  BY ThreadFacts
<1>1. Local(t, l, g)
  BY <1>0 DEF Local, MutexStep, InMapSectionOf, ThreadOK, ShapeOf, ScanDestination, Step, InProtectedDirectory, Finish
<1>2. l \in Labels /\ g \in Frame
  BY <1>0, FrameFields, DirectoryBoolean DEF ThreadOK
<1>3. /\ ShapeOf(l, g) /\ InProcessOf(g)
      /\ g.op = fr[t].op /\ g.pid = fr[t].pid
  BY <1>0 DEF ThreadOK, ShapeOf, InProcessOf, Frame, ScanDestination, Step, InProtectedDirectory, Finish
<1>4. IteratorOf(l, g) /\ LookupOf(l, g)
  BY <1>0 DEF ThreadOK, ShapeOf, IteratorOf, LookupOf, AskedOf, Asked, Frame, ScanDestination, Step, InProtectedDirectory, Finish
<1>5. AnsweredOf(l, g) /\ RecordingOf(l, g)
  BY <1>0 DEF ThreadOK, ShapeOf, AnsweredOf, RecordingOf, Asked, AskedOf, Frame, ScanDestination, Step, InProtectedDirectory, Finish
<1> HIDE DEF l, g
<1> QED
  BY <1>1, <1>2, <1>3, <1>4, <1>5, LocalStep DEF Fits

LEMMA FindProtectedStep ==
  ASSUME IInv, NEW t \in Threads, FindProtected(t)
  PROVE  IInv'
<1> DEFINE l == "answer"
           g == [fr[t] EXCEPT !.prot = TRUE]
<1>0. FindProtected(t) /\ ThreadOK(t)
  BY ThreadFacts
<1>1. Local(t, l, g)
  BY <1>0 DEF Local, MutexStep, InMapSectionOf, ThreadOK, ShapeOf, FindProtected, Step, Verdict
<1>2. l \in Labels /\ g \in Frame
  BY <1>0, FrameFields DEF ThreadOK
<1>3. /\ ShapeOf(l, g) /\ InProcessOf(g)
      /\ g.op = fr[t].op /\ g.pid = fr[t].pid
  BY <1>0 DEF ThreadOK, ShapeOf, InProcessOf, Frame, FindProtected, Step, Verdict
<1>4. IteratorOf(l, g) /\ LookupOf(l, g)
  BY <1>0 DEF ThreadOK, ShapeOf, IteratorOf, LookupOf, AskedOf, Asked, Frame, FindProtected, Step, Verdict
<1>5. AnsweredOf(l, g) /\ RecordingOf(l, g)
  BY <1>0 DEF ThreadOK, ShapeOf, AnsweredOf, RecordingOf, Asked, AskedOf, Frame, FindProtected, Step, Verdict
<1> HIDE DEF l, g
<1> QED
  BY <1>1, <1>2, <1>3, <1>4, <1>5, LocalStep DEF Fits

LEMMA FindPlainStep ==
  ASSUME IInv, NEW t \in Threads, FindPlain(t)
  PROVE  IInv'
<1> DEFINE l == "dir"
           g == [fr[t] EXCEPT !.path = map[Asked(t)].path]
<1>0. FindPlain(t) /\ ThreadOK(t)
  BY ThreadFacts
<1>1. Local(t, l, g)
  BY <1>0 DEF Local, MutexStep, InMapSectionOf, ThreadOK, ShapeOf, Frame, FindPlain, Step
<1>2. l \in Labels /\ g \in Frame
  <2>1. Asked(t) \in Pids
    BY <1>0 DEF ThreadOK, ShapeOf, InProcessOf, Frame, Asked, AskedOf, FindPlain
  <2>2. map[Asked(t)].path \in Paths
    BY <1>0, <2>1 DEF ThreadOK, FindPlain, Known
  <2> QED
    BY <1>0, <2>2, FrameFields DEF ThreadOK
<1>3. /\ ShapeOf(l, g) /\ InProcessOf(g)
      /\ g.op = fr[t].op /\ g.pid = fr[t].pid
  BY <1>0 DEF ThreadOK, ShapeOf, InProcessOf, Frame, FindPlain, Step
<1>4. IteratorOf(l, g) /\ LookupOf(l, g)
  BY <1>0 DEF ThreadOK, ShapeOf, IteratorOf, LookupOf, AskedOf, Asked, Frame, InProcessOf, FindPlain, Step
<1>5. AnsweredOf(l, g) /\ RecordingOf(l, g)
  BY <1>0 DEF ThreadOK, ShapeOf, AnsweredOf, RecordingOf, Asked, AskedOf, Frame, IteratorOf, FindPlain, Step
<1> HIDE DEF l, g
<1> QED
  BY <1>1, <1>2, <1>3, <1>4, <1>5, LocalStep DEF Fits

LEMMA FindMissingStep ==
  ASSUME IInv, NEW t \in Threads, NEW name \in Paths, FindMissing(t, name)
  PROVE  IInv'
<1> DEFINE l == "dir"
           g == [fr[t] EXCEPT !.path = name, !.fresh = TRUE]
<1>0. FindMissing(t, name) /\ ThreadOK(t)
  BY ThreadFacts
<1>1. Local(t, l, g)
  BY <1>0 DEF Local, MutexStep, InMapSectionOf, ThreadOK, ShapeOf, Frame, FindMissing, Step
<1>2. l \in Labels /\ g \in Frame
  BY <1>0, FrameFields DEF ThreadOK
<1>3. /\ ShapeOf(l, g) /\ InProcessOf(g)
      /\ g.op = fr[t].op /\ g.pid = fr[t].pid
  BY <1>0 DEF ThreadOK, ShapeOf, InProcessOf, Frame, FindMissing, Step
<1>4. IteratorOf(l, g) /\ LookupOf(l, g)
  BY <1>0 DEF ThreadOK, ShapeOf, IteratorOf, LookupOf, AskedOf, Asked, Frame, InProcessOf, FindMissing, Step
<1>5. AnsweredOf(l, g) /\ RecordingOf(l, g)
  BY <1>0 DEF ThreadOK, ShapeOf, AnsweredOf, RecordingOf, Asked, AskedOf, Frame, IteratorOf, FindMissing, Step
<1> HIDE DEF l, g
<1> QED
  BY <1>1, <1>2, <1>3, <1>4, <1>5, LocalStep DEF Fits

LEMMA AnswerPassStep ==
  ASSUME IInv, NEW t \in Threads, AnswerPass(t)
  PROVE  IInv'
<1> DEFINE l == "done"
           g == [fr[t] EXCEPT !.result = "pass", !.path = EmptyPath]
<1>0. AnswerPass(t) /\ ThreadOK(t)
  BY ThreadFacts
<1>1. Local(t, l, g)
  BY <1>0 DEF Local, MutexStep, InMapSectionOf, ThreadOK, ShapeOf, AnswerPass, Step, Finish
<1>2. l \in Labels /\ g \in Frame
  BY <1>0, FrameFields DEF ThreadOK
<1>3. /\ ShapeOf(l, g) /\ InProcessOf(g)
      /\ g.op = fr[t].op /\ g.pid = fr[t].pid
  BY <1>0 DEF ThreadOK, ShapeOf, InProcessOf, Frame, AnswerPass, Step, Finish
<1>4. IteratorOf(l, g) /\ LookupOf(l, g)
  BY <1>0 DEF ThreadOK, ShapeOf, IteratorOf, LookupOf, AskedOf, Asked, Frame, AnswerPass, Step, Finish
<1>5. AnsweredOf(l, g) /\ RecordingOf(l, g)
  BY <1>0 DEF ThreadOK, ShapeOf, AnsweredOf, RecordingOf, Asked, AskedOf, Frame, AnswerPass, Step, Finish
<1> HIDE DEF l, g
<1> QED
  BY <1>1, <1>2, <1>3, <1>4, <1>5, LocalStep DEF Fits

LEMMA AskTargetStep ==
  ASSUME IInv, NEW t \in Threads, AskTarget(t)
  PROVE  IInv'
<1> DEFINE l == "ask"
           g == [fr[t] EXCEPT !.stage = "target"]
<1>0. AskTarget(t) /\ ThreadOK(t)
  BY ThreadFacts
<1>1. Local(t, l, g)
  BY <1>0 DEF Local, MutexStep, InMapSectionOf, ThreadOK, ShapeOf, AskTarget, Step
<1>2. l \in Labels /\ g \in Frame
  BY <1>0, FrameFields DEF ThreadOK
<1>3. /\ ShapeOf(l, g) /\ InProcessOf(g)
      /\ g.op = fr[t].op /\ g.pid = fr[t].pid
  BY <1>0 DEF ThreadOK, ShapeOf, InProcessOf, Frame, AskTarget, Step
<1>4. IteratorOf(l, g) /\ LookupOf(l, g)
  BY <1>0 DEF ThreadOK, ShapeOf, IteratorOf, LookupOf, AskedOf, Asked, Frame, AskTarget, Step
<1>5. AnsweredOf(l, g) /\ RecordingOf(l, g)
  BY <1>0 DEF ThreadOK, ShapeOf, AnsweredOf, RecordingOf, Asked, AskedOf, Frame, AskTarget, Step
<1> HIDE DEF l, g
<1> QED
  BY <1>1, <1>2, <1>3, <1>4, <1>5, LocalStep DEF Fits

LEMMA TargetProtectedStep ==
  ASSUME IInv, NEW t \in Threads, TargetProtected(t)
  PROVE  IInv'
<1> DEFINE l == "peek"
           g == fr[t]
<1>0. TargetProtected(t) /\ ThreadOK(t)
  BY ThreadFacts
<1>1. Local(t, l, g)
  BY <1>0 DEF Local, MutexStep, InMapSectionOf, ThreadOK, ShapeOf, TargetProtected, Step
<1>2. l \in Labels /\ g \in Frame
  BY <1>0, FrameFields DEF ThreadOK
<1>3. /\ ShapeOf(l, g) /\ InProcessOf(g)
      /\ g.op = fr[t].op /\ g.pid = fr[t].pid
  BY <1>0 DEF ThreadOK, ShapeOf, InProcessOf, Frame, TargetProtected, Step
<1>4. IteratorOf(l, g) /\ LookupOf(l, g)
  BY <1>0 DEF ThreadOK, ShapeOf, IteratorOf, LookupOf, AskedOf, Asked, Frame, TargetProtected, Step
<1>5. AnsweredOf(l, g) /\ RecordingOf(l, g)
  BY <1>0 DEF ThreadOK, ShapeOf, AnsweredOf, RecordingOf, Asked, AskedOf, Frame, TargetProtected, Step
<1> HIDE DEF l, g
<1> QED
  BY <1>1, <1>2, <1>3, <1>4, <1>5, LocalStep DEF Fits

LEMMA CheckFileStep ==
  ASSUME IInv, NEW t \in Threads, NEW name \in Paths, CheckFile(t, name)
  PROVE  IInv'
<1> DEFINE l == "dir"
           g == [fr[t] EXCEPT !.stage = "file", !.path = name]
<1>0. CheckFile(t, name) /\ ThreadOK(t)
  BY ThreadFacts
<1>1. Local(t, l, g)
  BY <1>0 DEF Local, MutexStep, InMapSectionOf, ThreadOK, ShapeOf, CheckFile, Step
<1>2. l \in Labels /\ g \in Frame
  BY <1>0, FrameFields DEF ThreadOK
<1>3. /\ ShapeOf(l, g) /\ InProcessOf(g)
      /\ g.op = fr[t].op /\ g.pid = fr[t].pid
  BY <1>0 DEF ThreadOK, ShapeOf, InProcessOf, Frame, CheckFile, Step
<1>4. IteratorOf(l, g) /\ LookupOf(l, g)
  BY <1>0 DEF ThreadOK, ShapeOf, IteratorOf, LookupOf, AskedOf, Asked, Frame, CheckFile, Step
<1>5. AnsweredOf(l, g) /\ RecordingOf(l, g)
  BY <1>0 DEF ThreadOK, ShapeOf, AnsweredOf, RecordingOf, Asked, AskedOf, Frame, CheckFile, Step
<1> HIDE DEF l, g
<1> QED
  BY <1>1, <1>2, <1>3, <1>4, <1>5, LocalStep DEF Fits

LEMMA NameKnownStep ==
  ASSUME IInv, NEW t \in Threads, NameKnown(t)
  PROVE  IInv'
<1> DEFINE l == "copy"
           g == [fr[t] EXCEPT !.it = "node"]
<1>0. NameKnown(t) /\ ThreadOK(t)
  BY ThreadFacts
<1>1. Local(t, l, g)
  BY <1>0 DEF Local, MutexStep, InMapSectionOf, ThreadOK, ShapeOf, Frame, NameKnown, Step
<1>2. l \in Labels /\ g \in Frame
  BY <1>0, FrameFields DEF ThreadOK
<1>3. /\ ShapeOf(l, g) /\ InProcessOf(g)
      /\ g.op = fr[t].op /\ g.pid = fr[t].pid
  BY <1>0 DEF ThreadOK, ShapeOf, InProcessOf, Frame, NameKnown, Step
<1>4. IteratorOf(l, g) /\ LookupOf(l, g)
  BY <1>0 DEF ThreadOK, ShapeOf, IteratorOf, LookupOf, AskedOf, Asked, Frame, InProcessOf, NameKnown, Step
<1>5. AnsweredOf(l, g) /\ RecordingOf(l, g)
  BY <1>0 DEF ThreadOK, ShapeOf, AnsweredOf, RecordingOf, Asked, AskedOf, Frame, IteratorOf, NameKnown, Step
<1> HIDE DEF l, g
<1> QED
  BY <1>1, <1>2, <1>3, <1>4, <1>5, LocalStep DEF Fits

LEMMA NameQueryStep ==
  ASSUME IInv, NEW t \in Threads, NEW name \in Paths, NameQuery(t, name)
  PROVE  IInv'
<1> DEFINE l == "dir"
           g == [fr[t] EXCEPT !.path = name]
<1>0. NameQuery(t, name) /\ ThreadOK(t)
  BY ThreadFacts
<1>1. Local(t, l, g)
  BY <1>0 DEF Local, MutexStep, InMapSectionOf, ThreadOK, ShapeOf, Frame, NameQuery, Step, ImageNames
<1>2. l \in Labels /\ g \in Frame
  BY <1>0, FrameFields DEF ThreadOK
<1>3. /\ ShapeOf(l, g) /\ InProcessOf(g)
      /\ g.op = fr[t].op /\ g.pid = fr[t].pid
  BY <1>0 DEF ThreadOK, ShapeOf, InProcessOf, Frame, NameQuery, Step, ImageNames
<1>4. IteratorOf(l, g) /\ LookupOf(l, g)
  BY <1>0 DEF ThreadOK, ShapeOf, IteratorOf, LookupOf, AskedOf, Asked, Frame, InProcessOf, NameQuery, Step, ImageNames
<1>5. AnsweredOf(l, g) /\ RecordingOf(l, g)
  BY <1>0 DEF ThreadOK, ShapeOf, AnsweredOf, RecordingOf, Asked, AskedOf, Frame, IteratorOf, NameQuery, Step, ImageNames
<1> HIDE DEF l, g
<1> QED
  BY <1>1, <1>2, <1>3, <1>4, <1>5, LocalStep DEF Fits

LEMMA CopyStep ==
  ASSUME IInv, NEW t \in Threads, NEW name \in Paths, Copy(t, name)
  PROVE  IInv'
<1> DEFINE l == "dir"
           g == [fr[t] EXCEPT !.path = name, !.it = "end"]
<1>0. Copy(t, name) /\ ThreadOK(t)
  BY ThreadFacts
<1>1. Local(t, l, g)
  BY <1>0 DEF Local, MutexStep, InMapSectionOf, ThreadOK, ShapeOf, Frame, Copy, Step
<1>2. l \in Labels /\ g \in Frame
  BY <1>0, FrameFields DEF ThreadOK
<1>3. /\ ShapeOf(l, g) /\ InProcessOf(g)
      /\ g.op = fr[t].op /\ g.pid = fr[t].pid
  BY <1>0 DEF ThreadOK, ShapeOf, InProcessOf, Frame, Copy, Step
<1>4. IteratorOf(l, g) /\ LookupOf(l, g)
  BY <1>0 DEF ThreadOK, ShapeOf, IteratorOf, LookupOf, AskedOf, Asked, Frame, InProcessOf, Copy, Step
<1>5. AnsweredOf(l, g) /\ RecordingOf(l, g)
  BY <1>0 DEF ThreadOK, ShapeOf, AnsweredOf, RecordingOf, Asked, AskedOf, Frame, IteratorOf, Copy, Step
<1> HIDE DEF l, g
<1> QED
  BY <1>1, <1>2, <1>3, <1>4, <1>5, LocalStep DEF Fits

LEMMA PeekNodeStep ==
  ASSUME IInv, NEW t \in Threads, PeekNode(t)
  PROVE  IInv'
<1> DEFINE l == "age"
           g == [fr[t] EXCEPT !.it = "node"]
<1>0. PeekNode(t) /\ ThreadOK(t)
  BY ThreadFacts
<1>1. Local(t, l, g)
  BY <1>0 DEF Local, MutexStep, InMapSectionOf, ThreadOK, ShapeOf, Frame, PeekNode, Step
<1>2. l \in Labels /\ g \in Frame
  BY <1>0, FrameFields DEF ThreadOK
<1>3. /\ ShapeOf(l, g) /\ InProcessOf(g)
      /\ g.op = fr[t].op /\ g.pid = fr[t].pid
  BY <1>0 DEF ThreadOK, ShapeOf, InProcessOf, Frame, PeekNode, Step
<1>4. IteratorOf(l, g) /\ LookupOf(l, g)
  BY <1>0 DEF ThreadOK, ShapeOf, IteratorOf, LookupOf, AskedOf, Asked, Frame, InProcessOf, PeekNode, Step
<1>5. AnsweredOf(l, g) /\ RecordingOf(l, g)
  BY <1>0 DEF ThreadOK, ShapeOf, AnsweredOf, RecordingOf, Asked, AskedOf, Frame, IteratorOf, PeekNode, Step
<1> HIDE DEF l, g
<1> QED
  BY <1>1, <1>2, <1>3, <1>4, <1>5, LocalStep DEF Fits

LEMMA PeekMissStep ==
  ASSUME IInv, NEW t \in Threads, PeekMiss(t)
  PROVE  IInv'
<1> DEFINE l == "done"
           g == [fr[t] EXCEPT !.result = "filtered", !.path = EmptyPath]
<1>0. PeekMiss(t) /\ ThreadOK(t)
  BY ThreadFacts
<1>1. Local(t, l, g)
  BY <1>0 DEF Local, MutexStep, InMapSectionOf, ThreadOK, ShapeOf, PeekMiss, Step, Finish
<1>2. l \in Labels /\ g \in Frame
  BY <1>0, FrameFields DEF ThreadOK
<1>3. /\ ShapeOf(l, g) /\ InProcessOf(g)
      /\ g.op = fr[t].op /\ g.pid = fr[t].pid
  BY <1>0 DEF ThreadOK, ShapeOf, InProcessOf, Frame, PeekMiss, Step, Finish
<1>4. IteratorOf(l, g) /\ LookupOf(l, g)
  BY <1>0 DEF ThreadOK, ShapeOf, IteratorOf, LookupOf, AskedOf, Asked, Frame, PeekMiss, Step, Finish
<1>5. AnsweredOf(l, g) /\ RecordingOf(l, g)
  BY <1>0 DEF ThreadOK, ShapeOf, AnsweredOf, RecordingOf, Asked, AskedOf, Frame, PeekMiss, Step, Finish
<1> HIDE DEF l, g
<1> QED
  BY <1>1, <1>2, <1>3, <1>4, <1>5, LocalStep DEF Fits

LEMMA AgeStep ==
  ASSUME IInv, NEW t \in Threads, NEW start, Age(t, start)
  PROVE  IInv'
<1> DEFINE l == "done"
           g == [fr[t] EXCEPT !.result = IF Young(start) THEN "pass" ELSE "filtered", !.path = EmptyPath]
<1>0. Age(t, start) /\ ThreadOK(t)
  BY ThreadFacts
<1>1. Local(t, l, g)
  BY <1>0 DEF Local, MutexStep, InMapSectionOf, ThreadOK, ShapeOf, Age, Step, Finish
<1>2. l \in Labels /\ g \in Frame
  BY <1>0, FrameFields DEF ThreadOK
<1>3. /\ ShapeOf(l, g) /\ InProcessOf(g)
      /\ g.op = fr[t].op /\ g.pid = fr[t].pid
  BY <1>0 DEF ThreadOK, ShapeOf, InProcessOf, Frame, Age, Step, Finish
<1>4. IteratorOf(l, g) /\ LookupOf(l, g)
  BY <1>0 DEF ThreadOK, ShapeOf, IteratorOf, LookupOf, AskedOf, Asked, Frame, Age, Step, Finish
<1>5. AnsweredOf(l, g) /\ RecordingOf(l, g)
  BY <1>0 DEF ThreadOK, ShapeOf, AnsweredOf, RecordingOf, Asked, AskedOf, Frame, Age, Step, Finish
<1> HIDE DEF l, g
<1> QED
  BY <1>1, <1>2, <1>3, <1>4, <1>5, LocalStep DEF Fits

\* DecideCreate and DecideSetInfo
LEMMA DecideStep ==
  ASSUME IInv, NEW t \in Threads, NEW result \in {"pass", "denied"},
         fr[t].op \in {"open", "setinfo"}, Finish(t, "decide", result),
         UNCHANGED <<os, now, map, mapMutex, dirMutex>>
  PROVE  IInv'
<1> DEFINE l == "done"
           g == [fr[t] EXCEPT !.result = result, !.path = EmptyPath]
<1>0. /\ ThreadOK(t) /\ fr[t].op \in {"open", "setinfo"}
      /\ Finish(t, "decide", result)
      /\ UNCHANGED <<os, now, map, mapMutex, dirMutex>>
  BY ThreadFacts
<1>1. Local(t, l, g)
  BY <1>0 DEF Local, MutexStep, InMapSectionOf, ThreadOK, ShapeOf, Finish, Step
<1>2. l \in Labels /\ g \in Frame
  BY <1>0, FrameFields DEF ThreadOK
<1>3. /\ ShapeOf(l, g) /\ InProcessOf(g)
      /\ g.op = fr[t].op /\ g.pid = fr[t].pid
  BY <1>0 DEF ThreadOK, ShapeOf, InProcessOf, Frame, Finish, Step
<1>4. IteratorOf(l, g) /\ LookupOf(l, g)
  BY <1>0 DEF ThreadOK, ShapeOf, IteratorOf, LookupOf, AskedOf, Asked, Frame, Finish, Step
<1>5. AnsweredOf(l, g) /\ RecordingOf(l, g)
  BY <1>0 DEF ThreadOK, ShapeOf, AnsweredOf, RecordingOf, Asked, AskedOf, Frame, Finish, Step
<1> HIDE DEF l, g
<1> QED
  BY <1>1, <1>2, <1>3, <1>4, <1>5, LocalStep DEF Fits

LEMMA CheckDestinationStep ==
  ASSUME IInv, NEW t \in Threads, NEW name \in Paths, CheckDestination(t, name)
  PROVE  IInv'
<1> DEFINE l == "dir"
           g == [fr[t] EXCEPT !.stage = "dest", !.path = name]
<1>0. CheckDestination(t, name) /\ ThreadOK(t)
  BY ThreadFacts
<1>1. Local(t, l, g)
  BY <1>0 DEF Local, MutexStep, InMapSectionOf, ThreadOK, ShapeOf, CheckDestination, Step
<1>2. l \in Labels /\ g \in Frame
  BY <1>0, FrameFields DEF ThreadOK
<1>3. /\ ShapeOf(l, g) /\ InProcessOf(g)
      /\ g.op = fr[t].op /\ g.pid = fr[t].pid
  BY <1>0 DEF ThreadOK, ShapeOf, InProcessOf, Frame, CheckDestination, Step
<1>4. IteratorOf(l, g) /\ LookupOf(l, g)
  BY <1>0 DEF ThreadOK, ShapeOf, IteratorOf, LookupOf, AskedOf, Asked, Frame, CheckDestination, Step
<1>5. AnsweredOf(l, g) /\ RecordingOf(l, g)
  BY <1>0 DEF ThreadOK, ShapeOf, AnsweredOf, RecordingOf, Asked, AskedOf, Frame, CheckDestination, Step
<1> HIDE DEF l, g
<1> QED
  BY <1>1, <1>2, <1>3, <1>4, <1>5, LocalStep DEF Fits

LEMMA OpenHandleStep ==
  ASSUME IInv, NEW t \in Threads, NEW c \in Pids, NEW p \in Pids, OpenHandle(t, c, p)
  PROVE  IInv'
<1> DEFINE l == IF c = System \/ c = p THEN "done" ELSE "ask"
           g == [op |-> "handle", cur |-> c, pid |-> p, stage |-> "source",
                 path |-> EmptyPath, prot |-> FALSE, fresh |-> FALSE, it |-> "end",
                 start |-> Unstamped, result |-> IF c = System \/ c = p THEN "pass" ELSE "none"]
<1>0. OpenHandle(t, c, p) /\ ThreadOK(t)
  BY ThreadFacts
<1>1. /\ c \in Pids /\ os[c].phase = "live" /\ pc[t] = "idle" /\ fr[t] = NoFrame
      /\ p \in Pids /\ os[p].phase # "free"
      /\ UNCHANGED <<os, now, map, mapMutex, dirMutex>>
      /\ pc' = [pc EXCEPT ![t] = l] /\ fr' = [fr EXCEPT ![t] = g]
  BY <1>0, RequestAssumption DEF ThreadOK, ShapeOf, OpenHandle, Free, Step, NoFrame
<1>2. /\ g.op = "handle" /\ g.cur = c /\ g.pid = p /\ g.stage = "source"
      /\ g.path = EmptyPath /\ g.prot = FALSE /\ g.fresh = FALSE /\ g.it = "end"
      /\ g.start = Unstamped /\ g.result = IF c = System \/ c = p THEN "pass" ELSE "none"
      /\ g \in Frame
  BY <1>1, ThreadAssumption DEF NoFrame, Frame
<1>3. Local(t, l, g)
  BY <1>1, <1>2 DEF Local, MutexStep, InMapSectionOf, NoFrame
<1>4. l \in Labels /\ ShapeOf(l, g)
  BY <1>1, <1>2 DEF ShapeOf, NoFrame
<1> HIDE DEF g
<1>5. InProcessOf(g) /\ g.op \notin {"create", "exit"}
  BY <1>1, <1>2 DEF InProcessOf
<1>6. IteratorOf(l, g) /\ LookupOf(l, g) /\ AnsweredOf(l, g) /\ RecordingOf(l, g)
  BY <1>1, <1>2 DEF IteratorOf, LookupOf, AnsweredOf, RecordingOf
<1> QED
  BY <1>2, <1>3, <1>4, <1>5, <1>6, LocalStep DEF Fits

LEMMA FileRequestStep ==
  ASSUME IInv, NEW t \in Threads, NEW c \in Pids, NEW r \in Requests, FileRequest(t, c, r)
  PROVE  IInv'
<1> PICK g : g = [NoFrame EXCEPT !.op = r, !.cur = c, !.stage = "source"]
  OBVIOUS
<1>0. FileRequest(t, c, r) /\ ThreadOK(t)
  BY ThreadFacts
<1>1. /\ c \in Pids /\ os[c].phase = "live" /\ pc[t] = "idle" /\ fr[t] = NoFrame
      /\ r \in {"open", "setinfo"}
      /\ UNCHANGED <<os, now, map, mapMutex, dirMutex>>
      /\ pc' = [pc EXCEPT ![t] = "ask"] /\ fr' = [fr EXCEPT ![t] = g]
  BY <1>0, RequestAssumption DEF ThreadOK, ShapeOf, FileRequest, Free, Step
<1>2. /\ g.op = r /\ g.cur = c /\ g.stage = "source" /\ g.prot = FALSE
      /\ g.fresh = FALSE /\ g.it = "end" /\ g.start = Unstamped /\ g.result = "none"
      /\ g \in Frame
  BY <1>1, ThreadAssumption DEF NoFrame, Frame
<1>3. Local(t, "ask", g)
  BY <1>1, <1>2 DEF Local, MutexStep, InMapSectionOf
<1>4. ShapeOf("ask", g) /\ InProcessOf(g) /\ g.op \notin {"create", "exit"}
  BY <1>1, <1>2 DEF ShapeOf, InProcessOf
<1>5. IteratorOf("ask", g) /\ LookupOf("ask", g) /\ AnsweredOf("ask", g)
      /\ RecordingOf("ask", g)
  BY <1>1, <1>2 DEF IteratorOf, LookupOf, AnsweredOf, RecordingOf
<1> QED
  BY <1>2, <1>3, <1>4, <1>5, LocalStep DEF Fits

-----------------------------------------------------------------------------
(* Steps that change the clock, the processes or an entry of the map *)

LEMMA SetClockStep == ASSUME IInv, SetClock PROVE IInv'
<1> USE DEF IInv, SetClock
<1>1. TypeOK' /\ MutexDiscipline'
  BY DEF TypeOK, MutexDiscipline, InMapSection, WaitsForMap
<1>2. Shape' /\ InProcess' /\ Iterators'
  BY DEF Shape, InProcess, InProcessOf, Iterators, IteratorOf, Known
<1>3. Lookup' /\ Answered' /\ Recording' /\ StampedTruthful'
  BY DEF Lookup, LookupOf, Answered, AnsweredOf, Recording, RecordingOf, StampedTruthful, Known
<1> QED
  BY <1>1, <1>2, <1>3

LEMMA ReapStep == ASSUME IInv, NEW p \in Pids, Reap(p) PROVE IInv'
<1> USE DEF IInv
<1>0. /\ os' = [os EXCEPT ![p] = NoProcess] /\ os[p].phase = "dead"
      /\ \A u \in Threads : fr[u].pid # p
      /\ UNCHANGED <<now, map, mapMutex, dirMutex, pc, fr>>
      /\ os \in [Pids -> Process]
      /\ \A q \in Pids \ {p} : os'[q] = os[q]
  BY DEF Reap, TypeOK
<1>1. TypeOK' /\ MutexDiscipline'
  BY <1>0 DEF TypeOK, MutexDiscipline, InMapSection, WaitsForMap
<1>2. Shape' /\ Iterators' /\ Lookup' /\ Answered'
  BY <1>0 DEF Shape, Iterators, IteratorOf, Lookup, LookupOf, Answered, AnsweredOf, Known
<1>3. \A u \in Threads : InProcessOf(fr[u])'
  BY <1>0 DEF InProcess, InProcessOf
<1>4. InProcess'
  BY <1>0, <1>3 DEF InProcess
<1>5. Recording'
  BY <1>0 DEF Recording, RecordingOf, InProcess, InProcessOf, Known
<1>6. StampedTruthful'
  BY <1>0 DEF StampedTruthful, Known
<1> QED
  BY <1>1, <1>2, <1>4, <1>5, <1>6

LEMMA ForkStep ==
  ASSUME IInv, NEW t \in Threads, NEW c \in Pids, NEW p \in Pids, Fork(t, c, p)
  PROVE  IInv'
<1> USE DEF IInv
<1> PICK g : g = [NoFrame EXCEPT !.op = "create", !.cur = c, !.pid = p, !.stage = "new"]
  OBVIOUS
<1>0. Fork(t, c, p) /\ ThreadOK(t)
  BY ThreadFacts
<1>1. /\ os[p].phase = "free" /\ os[c].phase = "live"
      /\ pc[t] = "idle" /\ fr[t] = NoFrame
      /\ os' \in [Pids -> Process] /\ os'[p].phase = "born"
      /\ \A q \in Pids \ {p} : os'[q] = os[q]
      /\ UNCHANGED <<now, map, mapMutex, dirMutex>>
      /\ pc' = [pc EXCEPT ![t] = "born"] /\ fr' = [fr EXCEPT ![t] = g]
  BY <1>0 DEF ThreadOK, ShapeOf, Fork, Free, Step
<1>2. /\ g.op = "create" /\ g.cur = c /\ g.pid = p /\ g.stage = "new" /\ g.prot = FALSE
      /\ g.it = "end" /\ g.start = Unstamped /\ g.result = "none"
      /\ g \in Frame
  BY ThreadAssumption DEF NoFrame, Frame
<1>3. /\ pc'[t] = "born" /\ fr'[t] = g
      /\ \A u \in Threads : u # t => pc'[u] = pc[u] /\ fr'[u] = fr[u]
  BY <1>1 DEF TypeOK
<1>4. TypeOK'
  BY <1>1, <1>2 DEF TypeOK
<1>5. MutexDiscipline'
  BY <1>1, <1>3 DEF MutexDiscipline, InMapSection, InMapSectionOf, WaitsForMap
<1>6. Shape'
  <2> SUFFICES ASSUME NEW u \in Threads PROVE ShapeOf(pc[u], fr[u])'
    BY DEF Shape
  <2>1. CASE u = t
    BY <1>2, <1>3, <2>1 DEF ShapeOf
  <2>2. CASE u # t
    BY <1>3, <2>2 DEF Shape, ShapeOf
  <2> QED BY <2>1, <2>2
<1>7. InProcess'
  <2>1. \A u \in Threads : u # t => InProcessOf(fr[u])' /\ (fr[u].op \in {"create", "exit"} => fr[u].pid # p)
    BY <1>1, <1>3 DEF InProcess, InProcessOf
  <2>2. InProcessOf(g)'
    BY <1>1, <1>2 DEF InProcessOf
  <2>3. \A u \in Threads : InProcessOf(fr[u])'
    BY <1>3, <2>1, <2>2
  <2>4. ASSUME NEW u \in Threads, NEW v \in Threads, fr'[u].op \in {"create", "exit"},
               fr'[v].op \in {"create", "exit"}, fr'[u].pid = fr'[v].pid
        PROVE  u = v
    <3>1. CASE u = t \/ v = t
      <4>1. fr'[t].pid = p
        BY <1>2, <1>3
      <4>2. ASSUME NEW w \in Threads, w # t, fr'[w].op \in {"create", "exit"}
            PROVE  fr'[w].pid # p
        <5>1. fr'[w] = fr[w]
          BY <1>3, <4>2
        <5> QED BY <2>1, <4>2, <5>1
      <4> QED BY <2>4, <3>1, <4>1, <4>2
    <3>2. CASE u # t /\ v # t
      BY <1>3, <2>4, <3>2 DEF InProcess
    <3> QED BY <3>1, <3>2
  <2> QED
    BY <2>3, <2>4 DEF InProcess
<1>8. Iterators' /\ Lookup' /\ Answered'
  BY <1>1, <1>2, <1>3 DEF Iterators, IteratorOf, Lookup, LookupOf, Answered, AnsweredOf, Known
<1>9. Recording'
  <2> SUFFICES ASSUME NEW u \in Threads PROVE RecordingOf(pc[u], fr[u])'
    BY DEF Recording
  <2>1. CASE u = t
    BY <1>2, <1>3, <2>1 DEF RecordingOf
  <2>2. CASE u # t
    BY <1>1, <1>3, <2>2 DEF Recording, RecordingOf, InProcess, InProcessOf, Known
  <2> QED BY <2>1, <2>2
<1>10. StampedTruthful'
  BY <1>1 DEF StampedTruthful, Known
<1> QED
  BY <1>4, <1>5, <1>6, <1>7, <1>8, <1>9, <1>10

LEMMA ExitStep ==
  ASSUME IInv, NEW t \in Threads, NEW p \in Pids, Exit(t, p)
  PROVE  IInv'
<1> USE DEF IInv
<1> PICK g : g = [NoFrame EXCEPT !.op = "exit", !.cur = p, !.pid = p]
  OBVIOUS
<1>0. Exit(t, p) /\ ThreadOK(t)
  BY ThreadFacts
<1>1. /\ os[p].phase = "live" /\ pc[t] = "idle" /\ fr[t] = NoFrame
      /\ \A u \in Threads : fr[u].cur # p
      /\ os' \in [Pids -> Process] /\ os'[p].phase = "exiting" /\ os'[p].image = os[p].image
      /\ \A q \in Pids \ {p} : os'[q] = os[q]
      /\ UNCHANGED <<now, map, mapMutex, dirMutex>>
      /\ pc' = [pc EXCEPT ![t] = "enter"] /\ fr' = [fr EXCEPT ![t] = g]
  BY <1>0 DEF ThreadOK, ShapeOf, Exit, Free, Step
<1>2. /\ g.op = "exit" /\ g.cur = p /\ g.pid = p /\ g.stage = "none" /\ g.prot = FALSE
      /\ g.it = "end" /\ g.start = Unstamped /\ g.result = "none"
      /\ g \in Frame
  BY ThreadAssumption DEF NoFrame, Frame
<1>3. /\ pc'[t] = "enter" /\ fr'[t] = g
      /\ \A u \in Threads : u # t => pc'[u] = pc[u] /\ fr'[u] = fr[u]
  BY <1>1 DEF TypeOK
<1>4. TypeOK'
  BY <1>1, <1>2 DEF TypeOK
<1>5. MutexDiscipline'
  BY <1>1, <1>3, ThreadAssumption DEF MutexDiscipline, InMapSection, InMapSectionOf, WaitsForMap
<1>6. Shape'
  <2> SUFFICES ASSUME NEW u \in Threads PROVE ShapeOf(pc[u], fr[u])'
    BY DEF Shape
  <2>1. CASE u = t
    BY <1>2, <1>3, <2>1 DEF ShapeOf
  <2>2. CASE u # t
    BY <1>3, <2>2 DEF Shape, ShapeOf
  <2> QED BY <2>1, <2>2
<1>7. InProcess'
  <2>1. \A u \in Threads : u # t => InProcessOf(fr[u])' /\ (fr[u].op \in {"create", "exit"} => fr[u].pid # p)
    BY <1>1, <1>3 DEF InProcess, InProcessOf
  <2>2. InProcessOf(g)'
    BY <1>1, <1>2 DEF InProcessOf
  <2>3. \A u \in Threads : InProcessOf(fr[u])'
    BY <1>3, <2>1, <2>2
  <2>4. ASSUME NEW u \in Threads, NEW v \in Threads, fr'[u].op \in {"create", "exit"},
               fr'[v].op \in {"create", "exit"}, fr'[u].pid = fr'[v].pid
        PROVE  u = v
    <3>1. CASE u = t \/ v = t
      <4>1. fr'[t].pid = p
        BY <1>2, <1>3
      <4>2. ASSUME NEW w \in Threads, w # t, fr'[w].op \in {"create", "exit"}
            PROVE  fr'[w].pid # p
        <5>1. fr'[w] = fr[w]
          BY <1>3, <4>2
        <5> QED BY <2>1, <4>2, <5>1
      <4> QED BY <2>4, <3>1, <4>1, <4>2
    <3>2. CASE u # t /\ v # t
      BY <1>3, <2>4, <3>2 DEF InProcess
    <3> QED BY <3>1, <3>2
  <2> QED
    BY <2>3, <2>4 DEF InProcess
<1>8. Iterators' /\ Lookup' /\ Answered'
  BY <1>1, <1>2, <1>3 DEF Iterators, IteratorOf, Lookup, LookupOf, Answered, AnsweredOf, Known
<1>9. Recording'
  <2> SUFFICES ASSUME NEW u \in Threads PROVE RecordingOf(pc[u], fr[u])'
    BY DEF Recording
  <2>1. CASE u = t
    BY <1>2, <1>3, <2>1 DEF RecordingOf
  <2>2. CASE u # t
    BY <1>1, <1>3, <2>2 DEF Recording, RecordingOf, InProcess, InProcessOf, Known
  <2> QED BY <2>1, <2>2
<1>10. StampedTruthful'
  BY <1>1 DEF StampedTruthful, Known
<1> QED
  BY <1>4, <1>5, <1>6, <1>7, <1>8, <1>9, <1>10

LEMMA ReturnStep ==
  ASSUME IInv, NEW t \in Threads, Return(t)
  PROVE  IInv'
<1> USE DEF IInv
<1> DEFINE p == fr[t].pid
<1>0. Return(t) /\ ThreadOK(t)
  BY ThreadFacts
<1>1. /\ pc[t] = "done"
      /\ pc' = [pc EXCEPT ![t] = "idle"] /\ fr' = [fr EXCEPT ![t] = NoFrame]
      /\ UNCHANGED <<now, map, mapMutex, dirMutex>>
  BY <1>0 DEF Return, Step
<1>2. /\ os' \in [Pids -> Process]
      /\ \A q \in Pids : os'[q].image = os[q].image
      /\ \A q \in Pids : \/ os'[q] = os[q]
                         \/ /\ q = p /\ fr[t].op = "create"
                            /\ os[q].phase = "born" /\ os'[q].phase = "live"
                         \/ /\ q = p /\ fr[t].op = "exit"
                            /\ os[q].phase = "exiting" /\ os'[q].phase = "dead"
  BY <1>0 DEF Return, ThreadOK, InProcessOf
<1>3. /\ pc'[t] = "idle" /\ fr'[t] = NoFrame
      /\ \A u \in Threads : u # t => pc'[u] = pc[u] /\ fr'[u] = fr[u]
  BY <1>1 DEF TypeOK
<1>4. TypeOK'
  BY <1>1, <1>2, FrameType DEF TypeOK
<1>5. MutexDiscipline'
  BY <1>1, <1>3, ThreadAssumption DEF MutexDiscipline, InMapSection, InMapSectionOf, WaitsForMap
<1>6. Shape'
  <2> SUFFICES ASSUME NEW u \in Threads PROVE ShapeOf(pc[u], fr[u])'
    BY DEF Shape
  <2>1. CASE u = t
    BY <1>3, <2>1 DEF ShapeOf, NoFrame
  <2>2. CASE u # t
    BY <1>3, <2>2 DEF Shape, ShapeOf
  <2> QED BY <2>1, <2>2
<1>7. InProcess'
  <2>1. ASSUME NEW u \in Threads, u # t PROVE InProcessOf(fr[u])'
    BY <1>2, <1>3, <2>1 DEF InProcess, InProcessOf
  <2>2. InProcessOf(fr[t])'
    BY <1>3 DEF InProcessOf, NoFrame
  <2> QED
    BY <1>3, <2>1, <2>2 DEF InProcess, NoFrame
<1>8. Iterators' /\ Lookup' /\ Answered'
  BY <1>1, <1>3 DEF Iterators, IteratorOf, Lookup, LookupOf, Answered, AnsweredOf, Known, NoFrame
<1>9. Recording'
  <2> SUFFICES ASSUME NEW u \in Threads PROVE RecordingOf(pc[u], fr[u])'
    BY DEF Recording
  <2>1. CASE u = t
    BY <1>3, <2>1 DEF RecordingOf, NoFrame
  <2>2. CASE u # t
    BY <1>1, <1>2, <1>3, <2>2 DEF Recording, RecordingOf, InProcess, InProcessOf, Known
  <2> QED BY <2>1, <2>2
<1>10. StampedTruthful'
  BY <1>0, <1>1, <1>2 DEF StampedTruthful, ThreadOK, RecordingOf, Known
<1> QED
  BY <1>4, <1>5, <1>6, <1>7, <1>8, <1>9, <1>10

\* Erase changes no local but the iterators.
LEMMA EraseKeeps ==
  ASSUME IInv, NEW t \in Threads, Erase(t), NEW u \in Threads
  PROVE  /\ fr[u] \in Frame /\ fr'[u] \in Frame
         /\ fr[u].it = "end" => fr'[u] = fr[u]
         /\ fr'[u].op = fr[u].op /\ fr'[u].cur = fr[u].cur /\ fr'[u].pid = fr[u].pid
         /\ fr'[u].stage = fr[u].stage /\ fr'[u].path = fr[u].path
         /\ fr'[u].prot = fr[u].prot /\ fr'[u].fresh = fr[u].fresh
         /\ fr'[u].start = fr[u].start /\ fr'[u].result = fr[u].result
         /\ fr'[u].it = IF fr[u].pid = fr[t].pid /\ fr[u].it = "node"
                        THEN "freed" ELSE fr[u].it
<1>1. fr[u] \in Frame
  BY DEF IInv, TypeOK
<1>2. fr'[u] = IF fr[u].pid = fr[t].pid /\ fr[u].it = "node"
               THEN [fr[u] EXCEPT !.it = "freed"] ELSE fr[u]
  BY DEF Erase
<1>3. [fr[u] EXCEPT !.it = "freed"] \in Frame
  BY <1>1, FrameFields
<1>4. CASE fr[u].pid = fr[t].pid /\ fr[u].it = "node"
  <2>1. fr'[u] = [fr[u] EXCEPT !.it = "freed"]
    BY <1>2, <1>4
  <2> QED
    BY <1>1, <1>3, <1>4, <2>1 DEF Frame
<1>5. CASE ~(fr[u].pid = fr[t].pid /\ fr[u].it = "node")
  BY <1>1, <1>2, <1>5
<1> QED
  BY <1>4, <1>5

LEMMA EraseStep ==
  ASSUME IInv, NEW t \in Threads, Erase(t)
  PROVE  IInv'
<1> USE DEF IInv
<1> DEFINE p == fr[t].pid
<1>0. Erase(t) /\ ThreadOK(t)
  BY ThreadFacts
<1>1. /\ pc[t] = "erase" /\ fr[t].op = "exit" /\ mapMutex = t
      /\ p \in Pids /\ os[p].phase = "exiting"
      /\ pc' = [pc EXCEPT ![t] = "done"]
      /\ map' = [map EXCEPT ![p] = Absent]
      /\ mapMutex' = Nobody /\ UNCHANGED <<os, now, dirMutex>>
  BY <1>0 DEF Erase, ThreadOK, ShapeOf, InProcessOf, InMapSectionOf, Frame
<1>2. /\ map'[p] = Absent
      /\ \A q \in Pids \ {p} : map'[q] = map[q]
      /\ pc'[t] = "done" /\ \A u \in Threads : u # t => pc'[u] = pc[u]
  BY <1>1 DEF TypeOK
<1>3. ASSUME NEW u \in Threads
      PROVE  /\ fr[u] \in Frame /\ fr'[u] \in Frame
             /\ fr[u].it = "end" => fr'[u] = fr[u]
  BY <1>0, EraseKeeps
<1>4. ASSUME NEW u \in Threads
      PROVE  /\ fr'[u].op = fr[u].op /\ fr'[u].cur = fr[u].cur /\ fr'[u].pid = fr[u].pid
             /\ fr'[u].stage = fr[u].stage /\ fr'[u].path = fr[u].path
             /\ fr'[u].prot = fr[u].prot /\ fr'[u].fresh = fr[u].fresh
             /\ fr'[u].start = fr[u].start /\ fr'[u].result = fr[u].result
             /\ fr'[u].it = IF fr[u].pid = p /\ fr[u].it = "node" THEN "freed" ELSE fr[u].it
  BY <1>0, EraseKeeps
<1>5. ASSUME NEW u \in Threads
      PROVE  /\ fr[u].op = "create" => fr[u].pid # p
             /\ fr[u].op = "create" \/ fr[u].op \in QueryOps => fr[u].cur \in Pids \ {p}
             /\ fr[u].op = "exit" /\ u # t => fr[u].pid # p
  BY <1>1 DEF InProcess, InProcessOf
<1>6. TypeOK'
  BY <1>0, <1>1, <1>3 DEF TypeOK, Erase
<1>7. MutexDiscipline'
  BY <1>1, <1>2, <1>4, ThreadAssumption DEF MutexDiscipline, InMapSection, InMapSectionOf, WaitsForMap
<1>8. Shape'
  <2> SUFFICES ASSUME NEW u \in Threads PROVE ShapeOf(pc[u], fr[u])'
    BY DEF Shape
  <2>1. ShapeOf(pc[u], fr[u])
    BY DEF Shape
  <2>2. pc[u] = "idle" => fr'[u] = fr[u]
    <3>1. pc[u] = "idle" => fr[u].it = "end"
      BY <2>1 DEF ShapeOf, NoFrame
    <3> QED BY <1>3, <3>1
  <2> QED
    BY <1>1, <1>2, <1>4, <2>1, <2>2 DEF ShapeOf
<1>9. InProcess'
  BY <1>1, <1>4 DEF InProcess, InProcessOf
<1>10. Iterators'
  BY <1>1, <1>2, <1>4, <1>5 DEF Iterators, IteratorOf, Known
<1>11. Lookup'
  <2> SUFFICES ASSUME NEW u \in Threads PROVE LookupOf(pc[u], fr[u])'
    BY DEF Lookup
  <2>1. u # t => ~InMapSectionOf(pc[u], fr[u])
    BY <1>1 DEF MutexDiscipline, InMapSection
  <2> QED
    BY <1>1, <1>2, <1>4, <2>1 DEF Lookup, LookupOf, InMapSectionOf
<1>12. Answered'
  <2> SUFFICES ASSUME NEW u \in Threads PROVE AnsweredOf(pc[u], fr[u])'
    BY DEF Answered
  <2>1. AnsweredOf(pc[u], fr[u]) /\ ShapeOf(pc[u], fr[u]) /\ fr[u] \in Frame
    BY <1>3 DEF Answered, Shape
  <2>2. fr[u].op \in QueryOps => map'[fr[u].cur] = map[fr[u].cur]
    BY <1>2, <1>5
  <2>3. pc[u] = "answer" => fr[u].op \in QueryOps
    BY <2>1 DEF ShapeOf, Frame
  <2> QED
    BY <1>1, <1>2, <1>4, <2>1, <2>2, <2>3 DEF AnsweredOf, Known
<1>13. Recording'
  BY <1>1, <1>2, <1>4, <1>5 DEF Recording, RecordingOf, InProcess, InProcessOf, Known
<1>14. StampedTruthful'
  BY <1>1, <1>2 DEF StampedTruthful, Known
<1> QED
  BY <1>6, <1>7, <1>8, <1>9, <1>10, <1>11, <1>12, <1>13, <1>14

-----------------------------------------------------------------------------
(* The inductive invariant *)

LEMMA BeginStep == ASSUME IInv, NEW t \in Threads, Begin(t) PROVE IInv'
BY ForkStep, ExitStep, OpenHandleStep, FileRequestStep DEF Begin

LEMMA AcquireStep == ASSUME IInv, NEW t \in Threads, Acquire(t) PROVE IInv'
BY DirLockStep, AskStep, LockParentStep, EnterStep DEF Acquire

LEMMA RunStep == ASSUME IInv, NEW t \in Threads, Run(t) PROVE IInv'
<1>1. CASE Announce(t) \/ Inherit(t) \/ Stamp(t) \/ NameKnown(t)
  BY <1>1, AnnounceStep, InheritStep, StampStep, NameKnownStep
<1>2. CASE DirScan(t)
  BY <1>2, ScanNewStep, ScanFreshStep, ScanRecordedStep, ScanFileStep, ScanDestinationStep
     DEF DirScan
<1>3. CASE FindProtected(t) \/ FindPlain(t) \/ Insert(t) \/ Erase(t) \/ Return(t)
  BY <1>3, FindProtectedStep, FindPlainStep, InsertStep, EraseStep, ReturnStep
<1>4. CASE AnswerPass(t) \/ AskTarget(t) \/ TargetProtected(t)
  BY <1>4, AnswerPassStep, AskTargetStep, TargetProtectedStep
<1>5. CASE PeekNode(t) \/ PeekMiss(t)
  BY <1>5, PeekNodeStep, PeekMissStep
<1>6. CASE DecideCreate(t) \/ DecideSetInfo(t)
  BY <1>6, DecideStep DEF DecideCreate, DecideSetInfo
<1>7. ASSUME NEW name \in Paths,
             \/ FindMissing(t, name) \/ CheckFile(t, name) \/ NameQuery(t, name)
             \/ Copy(t, name) \/ CheckDestination(t, name)
      PROVE  IInv'
  BY <1>7, FindMissingStep, CheckFileStep, NameQueryStep, CopyStep, CheckDestinationStep
<1>8. ASSUME NEW start \in Stamps, Age(t, start) PROVE IInv'
  BY <1>8, AgeStep
<1> QED
  BY <1>1, <1>2, <1>3, <1>4, <1>5, <1>6, <1>7, <1>8 DEF Run

LEMMA NextIInv == IInv /\ [Next]_vars => IInv'
<1> SUFFICES ASSUME IInv, [Next]_vars PROVE IInv'
  OBVIOUS
<1>1. CASE UNCHANGED vars
  BY <1>1 DEF vars, IInv, TypeOK, MutexDiscipline, InMapSection, WaitsForMap, Shape, InProcess,
              InProcessOf, Iterators, IteratorOf, Lookup, LookupOf, Answered, AnsweredOf,
              Recording, RecordingOf, StampedTruthful, Known
<1>2. CASE SetClock
  BY <1>2, SetClockStep
<1>3. CASE \E p \in Pids : Reap(p)
  BY <1>3, ReapStep
<1>4. CASE \E t \in Threads : Begin(t) \/ Acquire(t) \/ Run(t)
  BY <1>4, BeginStep, AcquireStep, RunStep
<1> QED
  BY <1>1, <1>2, <1>3, <1>4 DEF Next

THEOREM Invariance == Spec => []IInv
BY InitIInv, NextIInv, PTL DEF Spec

-----------------------------------------------------------------------------
(* What the runs check on a small instance, for any threads and processes *)

\* Every variable keeps its type, whatever callbacks run in whatever order.
THEOREM TypeCorrect == Spec => []TypeOK
<1>1. IInv => TypeOK
  BY DEF IInv
<1> QED
  BY <1>1, Invariance, PTL

\* The two mutexes are held in their sections and never acquired in a cycle.
THEOREM MutexesKept == Spec => []MutexDiscipline
<1>1. IInv => MutexDiscipline
  BY DEF IInv
<1> QED
  BY <1>1, Invariance, PTL

\* A start time is on record only for the process that has the identifier.
THEOREM StampsTruthful == Spec => []StampedTruthful
<1>1. IInv => StampedTruthful
  BY DEF IInv
<1> QED
  BY <1>1, Invariance, PTL

\* Access is taken only from processes that are still on record as plain.
THEOREM RestrictionsJustified == Spec => []OnlyPlainRestricted
<1>1. ASSUME IInv, NEW t \in Threads,
             pc[t] = "done", fr[t].result \in {"filtered", "denied"}
      PROVE  Known(fr[t].cur) /\ ~Verdict(map[fr[t].cur])
  <2>1. ThreadOK(t)
    BY <1>1, ThreadFacts
  <2>2. fr[t].op \in QueryOps /\ fr[t].stage # "source"
    BY <1>1, <2>1 DEF ThreadOK, ShapeOf, Frame
  <2> QED
    BY <2>1, <2>2 DEF ThreadOK, AnsweredOf
<1>2. IInv => OnlyPlainRestricted
  BY <1>1 DEF OnlyPlainRestricted
<1> QED
  BY <1>2, Invariance, PTL

\* The steps that change the map
LEMMA MapSteps ==
  ASSUME [Next]_vars
  PROVE  \/ map' = map
         \/ \E t \in Threads : Insert(t) \/ Erase(t)
<1>1. ASSUME NEW t \in Threads, Begin(t) \/ Acquire(t) PROVE map' = map
  BY <1>1 DEF Begin, Acquire, Fork, Exit, OpenHandle, FileRequest, DirLock, Ask,
              LockParent, Enter, MapLock
<1>2. ASSUME NEW t \in Threads, Run(t) PROVE map' = map \/ Insert(t) \/ Erase(t)
  BY <1>2 DEF Run, Announce, DirScan, FindProtected, FindPlain, AnswerPass, AskTarget,
              TargetProtected, NameKnown, Inherit, Stamp, PeekNode, PeekMiss,
              DecideCreate, DecideSetInfo, Return, FindMissing, CheckFile, NameQuery,
              Copy, CheckDestination, Age
<1> QED
  BY <1>1, <1>2 DEF Next, SetClock, Reap, vars

\* An entry, once made, is the record of its process until the process ends.
THEOREM RecordsLast == Spec => FirstRecordWins
<1>1. ASSUME IInv, [Next]_vars, NEW p \in Pids, Known(p), map'[p] # map[p]
      PROVE  map'[p] = Absent /\ os[p].phase = "exiting"
  <2>1. PICK t \in Threads : Insert(t) \/ Erase(t)
    BY <1>1, MapSteps
  <2>2. ThreadOK(t)
    BY <1>1, ThreadFacts
  <2>3. CASE Insert(t)
    BY <1>1, <2>2, <2>3 DEF Insert, MapInsert, Known, ThreadOK
  <2>4. CASE Erase(t)
    <3>1. fr[t].op = "exit" /\ map' = [map EXCEPT ![fr[t].pid] = Absent]
      BY <2>2, <2>4 DEF Erase, ThreadOK, ShapeOf, Frame
    <3> QED
      BY <1>1, <2>2, <3>1 DEF ThreadOK, InProcessOf
  <2> QED BY <2>1, <2>3, <2>4
<1>2. IInv /\ [Next]_vars =>
        [\A p \in Pids : Known(p) /\ map'[p] # map[p] =>
            map'[p] = Absent /\ os[p].phase = "exiting"]_vars
  BY <1>1
<1> QED
  BY <1>2, Invariance, PTL DEF Spec, FirstRecordWins

\* A process elsewhere is protected only as the child of a protected one.
THEOREM InheritanceJustified == Spec => InheritanceSound
<1> DEFINE Justified(p) == \E t \in Threads : /\ fr[t].op = "create" /\ fr[t].pid = p
                                              /\ Known(fr[t].cur) /\ map[fr[t].cur].prot
<1>1. ASSUME IInv, [Next]_vars, NEW p \in Pids, ~Known(p), map'[p] # Absent,
             map'[p].prot, ~InProtectedDirectory(map'[p].path)
      PROVE  Justified(p)
  <2>1. PICK t \in Threads : Insert(t) \/ Erase(t)
    BY <1>1, MapSteps DEF Known
  <2>2. ThreadOK(t)
    BY <1>1, ThreadFacts
  <2>3. Insert(t) /\ p = Recorded(t) /\ map'[p] = EntryOf(fr[t])
    BY <1>1, <2>1, <2>2 DEF Insert, Erase, MapInsert, Known, ThreadOK
  <2>4. pc[t] = "insert" /\ fr[t].prot /\ ~InProtectedDirectory(fr[t].path)
    BY <1>1, <2>3 DEF Insert, EntryOf
  <2>5. fr[t].op = "create" \/ fr[t].op \in QueryOps
    BY <2>2, <2>4 DEF ThreadOK, ShapeOf, Frame
  <2>6. fr[t].op = "create"
    BY <2>2, <2>4, <2>5 DEF ThreadOK, LookupOf
  <2> QED
    BY <2>2, <2>3, <2>4, <2>6 DEF ThreadOK, RecordingOf, Recorded
<1>2. IInv /\ [Next]_vars =>
        [\A p \in Pids : ~Known(p) /\ map'[p] # Absent =>
            (map'[p].prot /\ ~InProtectedDirectory(map'[p].path) => Justified(p))]_vars
  BY <1>1
<1> QED
  BY <1>2, Invariance, PTL DEF Spec, InheritanceSound

\* A thread other than t has not moved.
OthersStay(t) == \A u \in Threads : u # t => pc'[u] = pc[u] /\ fr'[u] = fr[u]

LEMMA OneMoves ==
  ASSUME IInv, NEW t \in Threads, Begin(t) \/ Acquire(t) \/ Run(t), ~Erase(t)
  PROVE  OthersStay(t)
<1>0. pc \in [Threads -> Labels] /\ fr \in [Threads -> Frame]
  BY DEF IInv, TypeOK
<1>1. CASE Begin(t) \/ Acquire(t)
  BY <1>0, <1>1 DEF OthersStay, Begin, Acquire, Fork, Exit, OpenHandle, FileRequest, DirLock, Ask,
     LockParent, Enter, MapLock, Step
<1>2. CASE Run(t)
  BY <1>0, <1>2 DEF OthersStay, Run, Announce, DirScan, ScanNew, ScanFresh, ScanRecorded, ScanFile,
     ScanDestination, FindProtected, FindPlain, AnswerPass, AskTarget,
     TargetProtected, NameKnown, Inherit, Stamp, PeekNode, PeekMiss, Insert,
     DecideCreate, DecideSetInfo, Return, FindMissing, CheckFile, NameQuery,
     Copy, CheckDestination, Age, Step, Finish
<1> QED
  BY <1>1, <1>2

LEMMA EraseMoves ==
  ASSUME IInv, NEW t \in Threads, Erase(t)
  PROVE  \A u \in Threads : u # t => pc'[u] = pc[u]
BY DEF IInv, TypeOK, Erase

\* Only Age takes a thread from "age" to "done".
LEMMA AgeOnly ==
  ASSUME IInv, [Next]_vars, NEW t \in Threads, pc[t] = "age", pc'[t] = "done"
  PROVE  \E start \in Stamps : Age(t, start)
<1>1. PICK u \in Threads : Begin(u) \/ Acquire(u) \/ Run(u)
  BY DEF Next, SetClock, Reap, vars
<1>2. u = t
  BY <1>1, OneMoves, EraseMoves DEF OthersStay
<1>3. ~Begin(t) /\ ~Acquire(t)
  BY DEF Begin, Acquire, Fork, Exit, OpenHandle, FileRequest, Free, DirLock, Ask, LockParent,
     Enter, MapLock, Step
<1> QED
  BY <1>1, <1>2, <1>3 DEF Run, Announce, DirScan, ScanNew, ScanFresh, ScanRecorded, ScanFile,
     ScanDestination, FindProtected, FindPlain, AnswerPass, AskTarget,
     TargetProtected, NameKnown, Inherit, Stamp, PeekNode, PeekMiss, Insert, Erase,
     DecideCreate, DecideSetInfo, Return, FindMissing, CheckFile, NameQuery,
     Copy, CheckDestination, Age, Step, Finish

\* The difference of two times as an unsigned number of ClockModulus values
LEMMA SmallDifference ==
  ASSUME NEW s \in Stamps, NEW n \in Times, TimeDifference(n, s) < Grace
  PROVE  s # Unstamped /\ s <= n /\ n < s + Grace
<1> USE TimeAssumption
<1>1. n \in Int /\ s \in Int /\ s <= MaxTime /\ n <= MaxTime /\ Grace <= n /\ 0 <= s
  OBVIOUS
<1>2. CASE s <= n
  <2>1. n - s \in 0 .. (ClockModulus - 1)
    BY <1>1, <1>2
  <2>2. (n - s) % ClockModulus = n - s
    BY <2>1
  <2> QED
    BY <1>1, <1>2, <2>2 DEF TimeDifference
<1>3. CASE s > n
  <2>1. n - s + ClockModulus \in 0 .. (ClockModulus - 1)
    BY <1>1, <1>3
  <2>2. (n - s) % ClockModulus = n - s + ClockModulus
    BY <1>1, <2>1
  <2> QED
    BY <1>1, <1>3, <2>2 DEF TimeDifference
<1> QED
  BY <1>1, <1>2, <1>3

\* The exemption is given only for a recorded start that is really recent.
THEOREM GraceJustified == Spec => GraceIsRecent
<1> DEFINE Exempts(t) == /\ pc[t] = "age" /\ fr[t].it = "node"
                         /\ pc'[t] = "done" /\ fr'[t].result = "pass"
           Recent(start) == start # Unstamped /\ start <= now /\ now < start + Grace
<1>1. ASSUME IInv, [Next]_vars, NEW t \in Threads, Exempts(t)
      PROVE  Recent(map[fr[t].pid].start)
  <2>1. ThreadOK(t)
    BY <1>1, ThreadFacts
  <2>2. PICK start \in Stamps : Age(t, start)
    BY <1>1, <2>1, AgeOnly
  <2>3. start = map[fr[t].pid].start
    BY <1>1, <2>2 DEF Age
  <2>4. fr'[t].result = IF Young(start) THEN "pass" ELSE "filtered"
    BY <2>1, <2>2 DEF Age, Finish, Step, ThreadOK, Frame
  <2>5. Young(start)
    BY <1>1, <2>4
  <2> QED
    BY <2>1, <2>2, <2>3, <2>5, SmallDifference DEF Young, ThreadOK
<1>2. IInv /\ [Next]_vars => [\A t \in Threads :
            LET start == map[fr[t].pid].start
            IN  pc[t] = "age" /\ fr[t].it = "node" /\ pc'[t] = "done"
                    /\ fr'[t].result = "pass" =>
                start # Unstamped /\ start <= now /\ now < start + Grace]_vars
  BY <1>1
<1> QED
  BY <1>2, Invariance, PTL DEF Spec, GraceIsRecent

-----------------------------------------------------------------------------
(* The map with its mutexes implements ProcessCache *)

\* What a thread does to the pending answers
LEMMA AnswerSteps ==
  ASSUME IInv, NEW t \in Threads, Begin(t) \/ Acquire(t) \/ Run(t)
  PROVE  \/ FindProtected(t) \/ (ScanRecorded(t) /\ map' = map) \/ Insert(t) \/ Erase(t)
         \/ map' = map /\ OthersStay(t) /\ pc'[t] # "answer"
<1>0. pc \in [Threads -> Labels] /\ fr \in [Threads -> Frame]
  BY DEF IInv, TypeOK
<1>1. CASE Begin(t) \/ Acquire(t)
  BY <1>0, <1>1, OneMoves DEF Begin, Acquire, Fork, Exit, OpenHandle, FileRequest, DirLock, Ask,
     LockParent, Enter, MapLock, Step, Erase, Free
<1>2. CASE Run(t) /\ ~Erase(t)
  <2>1. OthersStay(t)
    BY <1>2, OneMoves
  <2> QED
    BY <1>0, <1>2, <2>1 DEF Run, Announce, DirScan, ScanNew, ScanFresh, ScanFile,
     ScanDestination, FindPlain, AnswerPass, AskTarget,
     TargetProtected, NameKnown, Inherit, Stamp, PeekNode, PeekMiss,
     DecideCreate, DecideSetInfo, Return, FindMissing, CheckFile, NameQuery,
     Copy, CheckDestination, Age, Step, Finish
<1> QED
  BY <1>1, <1>2

LEMMA RefinesInit == Init => Cache!Init
BY DEF Init, Cache!Init, Tag, Told, Known

\* The answer thread t holds after a step
ToldNow(t) == IF pc[t] = "answer" THEN <<Asked(t), TagOf(fr[t].prot)>> ELSE Nobody

LEMMA ToldStep ==
  ASSUME NEW t \in Threads, OthersStay(t)
  PROVE  Told' = [Told EXCEPT ![t] = ToldNow(t)']
BY DEF Told, ToldNow, OthersStay, Asked, AskedOf

LEMMA TagKept == map' = map => Tag' = Tag
BY DEF Tag, Known

LEMMA RefinesNext == IInv /\ [Next]_vars => [Cache!Next]_(Cache!vars)
<1> SUFFICES ASSUME IInv, [Next]_vars PROVE Cache!Next \/ (Tag' = Tag /\ Told' = Told)
  BY DEF Cache!vars
<1>1. CASE UNCHANGED <<map, pc, fr>>
  BY <1>1 DEF Tag, Told, Known, Asked, AskedOf
<1>2. ASSUME NEW t \in Threads, Begin(t) \/ Acquire(t) \/ Run(t)
      PROVE  Cache!Next \/ (Tag' = Tag /\ Told' = Told)
  <2>0. ThreadOK(t)
    BY ThreadFacts
  <2>1. CASE map' = map /\ OthersStay(t) /\ pc'[t] # "answer"
    <3>1. Tag' = Tag /\ Told' = [Told EXCEPT ![t] = Nobody]
      BY <2>1, TagKept, ToldStep DEF ToldNow
    <3>2. CASE Told[t] = Nobody
      BY <3>1, <3>2 DEF Told
    <3>3. CASE Told[t] # Nobody
      BY <3>1, <3>3 DEF Cache!Next, Cache!Use
    <3> QED BY <3>2, <3>3
  <2>2. CASE FindProtected(t) \/ (ScanRecorded(t) /\ map' = map)
    <3> DEFINE p == Asked(t)
    <3>1. /\ p \in Pids /\ Known(p) /\ map' = map /\ ~Erase(t) /\ pc'[t] = "answer"
          /\ fr'[t].prot <=> Verdict(map[p])
          /\ Asked(t)' = p
      <4>1. /\ fr[t] \in Frame /\ p = AskedOf(fr[t]) /\ fr[t].stage \in QueryStages
            /\ pc[t] \in {"find", "scan"} /\ map' = map /\ pc'[t] = "answer"
        BY <2>0, <2>2 DEF FindProtected, ScanRecorded, Step, ThreadOK, ShapeOf, Frame, Asked
      <4>2. p \in Pids
        BY <2>0, <4>1 DEF ThreadOK, ShapeOf, InProcessOf, Frame, AskedOf
      <4>3. CASE FindProtected(t)
        <5>1. fr'[t] = [fr[t] EXCEPT !.prot = TRUE] /\ map[p].prot /\ Known(p)
          BY <2>0, <4>3 DEF FindProtected, Step, ThreadOK
        <5> QED
          BY <4>1, <4>2, <5>1 DEF Frame, Asked, AskedOf, Erase, Verdict
      <4>4. CASE ScanRecorded(t) /\ map' = map
        <5>1. /\ pc[t] = "scan" /\ ~fr[t].fresh
              /\ fr'[t] = [fr[t] EXCEPT !.prot = InProtectedDirectory(fr[t].path),
                                        !.path = EmptyPath]
          BY <2>0, <4>4 DEF ScanRecorded, Step, ThreadOK
        <5>2. Known(p) /\ ~map[p].prot /\ fr[t].path = map[p].path
          BY <2>0, <4>1, <5>1 DEF ThreadOK, LookupOf
        <5>3. /\ fr'[t].prot = InProtectedDirectory(fr[t].path)
              /\ fr'[t].stage = fr[t].stage /\ fr'[t].cur = fr[t].cur /\ fr'[t].pid = fr[t].pid
          BY <4>1, <5>1 DEF Frame
        <5> QED
          BY <4>1, <4>2, <5>1, <5>2, <5>3 DEF Asked, AskedOf, Erase, Verdict
      <4> QED BY <2>2, <4>3, <4>4
    <3>2. OthersStay(t)
      BY <2>2 DEF FindProtected, ScanRecorded, Step, OthersStay, IInv, TypeOK
    <3>3. ToldNow(t)' = <<p, Tag[p]>>
      BY <3>1 DEF ToldNow, Tag, TagOf
    <3>4. Tag[p] # "unknown"
      BY <3>1 DEF Tag, TagOf
    <3>5. Cache!Tell(t, p)
      BY <3>1, <3>2, <3>3, <3>4, ToldStep, TagKept DEF Cache!Tell
    <3> QED
      BY <3>1, <3>5 DEF Cache!Next
  <2>3. CASE Insert(t)
    <3> DEFINE p == Recorded(t)
               e == EntryOf(fr[t])
    <3>1. /\ p \in Pids /\ e # Absent /\ ~Erase(t) /\ pc[t] = "insert"
          /\ map' = MapInsert(p, e)
      BY <2>0, <2>3, AbsentNotEntry DEF Insert, Erase, ThreadOK, ShapeOf, InProcessOf, Frame, Recorded,
         Asked, AskedOf, EntryOf
    <3>2. OthersStay(t)
      BY <2>3 DEF Insert, Step, OthersStay, IInv, TypeOK
    <3>3. CASE Known(p)
      <4>1. map' = map /\ fr[t].op = "create"
        BY <2>0, <3>1, <3>3 DEF MapInsert, ThreadOK, ShapeOf, LookupOf, Frame, Recorded, Asked
      <4>2. pc'[t] # "answer"
        BY <2>0, <2>3, <4>1 DEF Insert, Step, ThreadOK
      <4>3. Told' = [Told EXCEPT ![t] = Nobody] /\ Told[t] = Nobody
        BY <3>1, <3>2, <4>2, ToldStep DEF ToldNow, Told
      <4> QED
        BY <4>1, <4>3, TagKept DEF Told
    <3>4. CASE ~Known(p)
      <4>1. Tag[p] = "unknown" /\ Tag' = [Tag EXCEPT ![p] = TagOf(Verdict(e))]
        <5>1. map' = [map EXCEPT ![p] = e] /\ map \in [Pids -> Entry \cup {Absent}]
          BY <2>0, <3>1, <3>4 DEF MapInsert, ThreadOK
        <5> QED
          BY <3>1, <3>4, <5>1 DEF Tag, Known
      <4>2. TagOf(Verdict(e)) \in Cache!Tags
        BY DEF TagOf, Cache!Tags
      <4>3. CASE fr[t].op = "create"
        <5>1. pc'[t] # "answer"
          BY <2>0, <2>3, <4>3 DEF Insert, Step, ThreadOK
        <5>2. Told' = [Told EXCEPT ![t] = Nobody] /\ Told[t] = Nobody
          BY <3>1, <3>2, <5>1, ToldStep DEF ToldNow, Told
        <5>3. Cache!Record(p, TagOf(Verdict(e)))
          BY <4>1, <5>2 DEF Cache!Record, Told
        <5> QED
          BY <3>1, <4>2, <5>3 DEF Cache!Next
      <4>4. CASE fr[t].op # "create"
        <5>1. /\ p = Asked(t) /\ (fr[t].prot <=> Verdict(e))
              /\ pc'[t] = "answer" /\ fr'[t].prot = fr[t].prot /\ Asked(t)' = p
          BY <2>0, <2>3, <3>1, <4>4 DEF Recorded, Insert, Step, ThreadOK, ShapeOf, LookupOf, Frame,
             Asked, AskedOf, Verdict, EntryOf
        <5>2. ToldNow(t)' = <<p, TagOf(Verdict(e))>>
          BY <5>1 DEF ToldNow, TagOf
        <5>3. Cache!TellAndRecord(t, p, TagOf(Verdict(e)))
          BY <3>2, <4>1, <5>2, ToldStep DEF Cache!TellAndRecord
        <5> QED
          BY <3>1, <4>2, <5>3 DEF Cache!Next
      <4> QED BY <4>3, <4>4
    <3> QED BY <3>3, <3>4
  <2>4. CASE Erase(t)
    <3> DEFINE p == fr[t].pid
    <3>1. /\ p \in Pids /\ pc[t] = "erase" /\ pc' = [pc EXCEPT ![t] = "done"]
          /\ map' = [map EXCEPT ![p] = Absent]
      BY <2>0, <2>4 DEF Erase, ThreadOK, ShapeOf, InProcessOf, Frame
    <3>2. \A u \in Threads : /\ fr'[u].stage = fr[u].stage /\ fr'[u].pid = fr[u].pid
                             /\ fr'[u].cur = fr[u].cur /\ fr'[u].prot = fr[u].prot
      BY <2>4, EraseKeeps
    <3>3. Told' = Told
      BY <2>0, <3>1, <3>2 DEF Told, ThreadOK, Asked, AskedOf
    <3>4. Tag' = [Tag EXCEPT ![p] = "unknown"]
      BY <2>0, <3>1 DEF Tag, Known, ThreadOK
    <3>5. CASE Tag[p] = "unknown"
      BY <3>1, <3>3, <3>4, <3>5 DEF Tag
    <3>6. CASE Tag[p] # "unknown"
      <4>1. Cache!Forget(p)
        BY <3>3, <3>4, <3>6 DEF Cache!Forget
      <4> QED BY <3>1, <4>1 DEF Cache!Next
    <3> QED BY <3>5, <3>6
  <2> QED
    BY <1>2, <2>1, <2>2, <2>3, <2>4, AnswerSteps
<1> QED
  BY <1>1, <1>2 DEF Next, SetClock, Reap, vars

\* Whatever the callbacks do in between, an answer is the one recorded.
THEOREM ImplementsCache == Spec => CacheSpec
<1>1. Init => Cache!Init
  BY RefinesInit
<1>2. IInv /\ [Next]_vars => [Cache!Next]_(Cache!vars)
  BY RefinesNext
<1> QED
  BY <1>1, <1>2, Invariance, PTL DEF Spec, CacheSpec, Cache!Spec
=============================================================================
