--------------------------- MODULE FileEventsProofs ---------------------------
(***************************************************************************)
(* Writes are logged with the path their objects were opened by, for any   *)
(* number of objects, files and events in flight.  The invariant says of   *)
(* every event that waits, and of every object that is open, what the      *)
(* service will know of it when it gets there: the path in the last create *)
(* event before it, or what it knows already.                              *)
(*                                                                         *)
(* The process cache settles, for any number of processes, however often   *)
(* their ids are used again while their events wait.  That invariant       *)
(* replays the events that wait: it says of every process id what the      *)
(* cache will hold of it when they are handled.                            *)
(***************************************************************************)
EXTENDS FileEvents, TLAPS

Kinds == {"Create", "Write", "Close", "Other"}
OnFiles == [kind : Kinds, pid : {Another, Self, System}, object : Objects,
            file : Files \cup {NoPath}, now : Files \cup {NoPath}, announced : BOOLEAN]
OnProcesses ==
  [kind : {"Start"}, pid : Pids, child : Pids, adopted : Pids] \cup [kind : {"End"}, pid : Pids]
Event == OnFiles \cup OnProcesses

\* An event that makes the service forget what it knew of an object.
Renews(e, o) == e.kind = "Create" /\ e.object = o

\* What the service will know of o after the first i - 1 events of s.
Recent(s, i, o, f) ==
  \E j \in 1 .. i - 1 : /\ Renews(s[j], o) /\ s[j].file = f
                        /\ \A k \in j + 1 .. i - 1 : ~Renews(s[k], o)
Silent(s, i, o) == \A k \in 1 .. i - 1 : ~Renews(s[k], o)
Knows(map, accepted, o, f) == accepted[o] => map[o] = f
Heard(s, map, accepted, i, o, f) ==
  Recent(s, i, o, f) \/ (Silent(s, i, o) /\ Knows(map, accepted, o, f))

-----------------------------------------------------------------------------
(* Sequences of events *)

\* Renews and Heard look at the events before a place only.
LEMMA HeardSame ==
  ASSUME NEW s, NEW u, NEW map, NEW accepted, NEW i \in Nat, NEW o, NEW f,
         \A k \in 1 .. i - 1 : u[k] = s[k], Heard(s, map, accepted, i, o, f)
  PROVE  Heard(u, map, accepted, i, o, f)
<1>1. CASE Recent(s, i, o, f)
  <2>1. PICK j \in 1 .. i - 1 : /\ Renews(s[j], o) /\ s[j].file = f
                                /\ \A k \in j + 1 .. i - 1 : ~Renews(s[k], o)
    BY <1>1 DEF Recent
  <2>2. Renews(u[j], o) /\ u[j].file = f BY <2>1
  <2>3. \A k \in j + 1 .. i - 1 : ~Renews(u[k], o)
    <3> TAKE k \in j + 1 .. i - 1
    <3>1. k \in 1 .. i - 1 BY <2>1
    <3>2. QED BY <2>1, <3>1
  <2>4. QED BY <2>1, <2>2, <2>3 DEF Recent, Heard
<1>2. CASE Silent(s, i, o) /\ Knows(map, accepted, o, f)
  BY <1>2 DEF Silent, Heard
<1>3. QED BY <1>1, <1>2 DEF Heard

\* Events that do not renew what is known may follow.
LEMMA HeardLonger ==
  ASSUME NEW s, NEW map, NEW accepted, NEW i \in Nat, NEW n \in Nat, NEW o, NEW f, i <= n,
         \A k \in i .. n - 1 : ~Renews(s[k], o), Heard(s, map, accepted, i, o, f)
  PROVE  Heard(s, map, accepted, n, o, f)
<1>1. CASE Recent(s, i, o, f)
  <2>1. PICK j \in 1 .. i - 1 : /\ Renews(s[j], o) /\ s[j].file = f
                                /\ \A k \in j + 1 .. i - 1 : ~Renews(s[k], o)
    BY <1>1 DEF Recent
  <2>2. \A k \in j + 1 .. n - 1 : ~Renews(s[k], o)
    <3> TAKE k \in j + 1 .. n - 1
    <3>1. k \in j + 1 .. i - 1 \/ k \in i .. n - 1 OBVIOUS
    <3>2. QED BY <2>1, <3>1
  <2>3. j \in 1 .. n - 1 OBVIOUS
  <2>4. QED BY <2>1, <2>2, <2>3 DEF Recent, Heard
<1>2. CASE Silent(s, i, o) /\ Knows(map, accepted, o, f)
  <2>1. \A k \in 1 .. n - 1 : ~Renews(s[k], o)
    <3> TAKE k \in 1 .. n - 1
    <3>1. k \in 1 .. i - 1 \/ k \in i .. n - 1 OBVIOUS
    <3>2. QED BY <1>2, <3>1 DEF Silent
  <2>2. QED BY <1>2, <2>1 DEF Silent, Heard
<1>3. QED BY <1>1, <1>2 DEF Heard

\* The first event is handled: what it said is known now.
LEMMA HeardTail ==
  ASSUME NEW S, NEW s \in Seq(S), s # <<>>, NEW i \in 2 .. Len(s) + 1, NEW o, NEW f,
         NEW map, NEW accepted, NEW map2, NEW accepted2,
         Heard(s, map, accepted, i, o, f),
         Renews(s[1], o) /\ s[1].file = f => Knows(map2, accepted2, o, f),
         ~Renews(s[1], o) => map2[o] = map[o] /\ accepted2[o] = accepted[o]
  PROVE  Heard(Tail(s), map2, accepted2, i - 1, o, f)
<1> DEFINE t == Tail(s)
<1>1. \A k \in 1 .. i - 2 : t[k] = s[k + 1] OBVIOUS
<1> HIDE DEF t
<1>2. ASSUME NEW j \in 1 .. i - 1, \A k \in j + 1 .. i - 1 : ~Renews(s[k], o)
      PROVE  \A k \in j .. i - 2 : ~Renews(t[k], o)
  <2> TAKE k \in j .. i - 2
  <2>1. k \in 1 .. i - 2 /\ k + 1 \in j + 1 .. i - 1 OBVIOUS
  <2>2. ~Renews(s[k + 1], o) BY <1>2, <2>1
  <2>3. t[k] = s[k + 1] BY <1>1, <2>1
  <2>4. QED BY <2>2, <2>3
<1>3. CASE Recent(s, i, o, f)
  <2>1. PICK j \in 1 .. i - 1 : /\ Renews(s[j], o) /\ s[j].file = f
                                /\ \A k \in j + 1 .. i - 1 : ~Renews(s[k], o)
    BY <1>3 DEF Recent
  <2>2. \A k \in j .. i - 2 : ~Renews(t[k], o) BY <1>2, <2>1
  <2>3. CASE j = 1
    <3>1. Knows(map2, accepted2, o, f) BY <2>1, <2>3
    <3>2. Silent(t, i - 1, o) BY <2>2, <2>3 DEF Silent
    <3>3. QED BY <3>1, <3>2 DEF Heard, t
  <2>4. CASE j > 1
    <3>1. j - 1 \in 1 .. (i - 1) - 1 BY <2>4
    <3>2. t[j - 1] = s[j] BY <1>1, <3>1
    <3>3. \A k \in (j - 1) + 1 .. (i - 1) - 1 : ~Renews(t[k], o) BY <2>2
    <3>4. Recent(t, i - 1, o, f) BY <2>1, <3>1, <3>2, <3>3 DEF Recent
    <3>5. QED BY <3>4 DEF Heard, t
  <2>5. QED BY <2>3, <2>4
<1>4. CASE Silent(s, i, o) /\ Knows(map, accepted, o, f)
  <2>1. ~Renews(s[1], o) BY <1>4 DEF Silent
  <2>2. Knows(map2, accepted2, o, f) BY <1>4, <2>1 DEF Knows
  <2>3. \A k \in 1 + 1 .. i - 1 : ~Renews(s[k], o) BY <1>4 DEF Silent
  <2>4. Silent(t, i - 1, o) BY <1>2, <2>3 DEF Silent
  <2>5. QED BY <2>2, <2>4 DEF Heard, t
<1>5. QED BY <1>3, <1>4 DEF Heard

\* What a session keeps of new events: some first ones, behind what it has.
LEMMA EmittedFacts ==
  ASSUME NEW S, NEW s \in Seq(S), NEW t \in Seq(S), Len(s) <= Buffers
  PROVE  /\ Emitted(s, t) \in Seq(S)
         /\ Len(s) <= Len(Emitted(s, t)) /\ Len(Emitted(s, t)) <= Buffers
         /\ \A i \in 1 .. Len(s) : Emitted(s, t)[i] = s[i]
         /\ \A i \in Len(s) + 1 .. Len(Emitted(s, t)) :
              i - Len(s) \in 1 .. Len(t) /\ Emitted(s, t)[i] = t[i - Len(s)]
         /\ Len(s) < Buffers /\ t # <<>> => Len(Emitted(s, t)) > Len(s)
<1> DEFINE all == s \o t
<1>1. all \in Seq(S) /\ Len(all) = Len(s) + Len(t) OBVIOUS
<1>2. \A i \in 1 .. Len(s) : all[i] = s[i] OBVIOUS
<1>3. \A i \in Len(s) + 1 .. Len(all) : all[i] = t[i - Len(s)] BY <1>1
<1>4. t # <<>> => Len(t) > 0 OBVIOUS
<1>5. Emitted(s, t) = IF Len(all) > Buffers THEN SubSeq(all, 1, Buffers) ELSE all BY DEF Emitted
<1> HIDE DEF all
<1>6. Buffers \in Nat BY FileEventsAssumption
<1>7. CASE Len(all) > Buffers
  <2>1. Emitted(s, t) = SubSeq(all, 1, Buffers) BY <1>5, <1>7
  <2>2. /\ SubSeq(all, 1, Buffers) \in Seq(S) /\ Len(SubSeq(all, 1, Buffers)) = Buffers
        /\ \A i \in 1 .. Buffers : SubSeq(all, 1, Buffers)[i] = all[i]
    BY <1>1, <1>6, <1>7
  <2>3. \A i \in 1 .. Len(s) : Emitted(s, t)[i] = s[i]
    <3> TAKE i \in 1 .. Len(s)
    <3>1. i \in 1 .. Buffers BY <1>6
    <3>2. QED BY <1>2, <2>1, <2>2, <3>1
  <2>4. \A i \in Len(s) + 1 .. Buffers :
          i - Len(s) \in 1 .. Len(t) /\ Emitted(s, t)[i] = t[i - Len(s)]
    <3> TAKE i \in Len(s) + 1 .. Buffers
    <3>1. i \in 1 .. Buffers /\ i \in Len(s) + 1 .. Len(all) /\ i - Len(s) \in 1 .. Len(t)
      BY <1>1, <1>6, <1>7
    <3>2. QED BY <1>3, <2>1, <2>2, <3>1
  <2>5. Len(Emitted(s, t)) = Buffers /\ Emitted(s, t) \in Seq(S) BY <2>1, <2>2
  <2>6. QED BY <1>6, <2>3, <2>4, <2>5
<1>8. CASE ~(Len(all) > Buffers)
  <2>1. Emitted(s, t) = all BY <1>5, <1>8
  <2>2. QED BY <1>1, <1>2, <1>3, <1>4, <1>6, <1>8, <2>1
<1>9. QED BY <1>7, <1>8

-----------------------------------------------------------------------------
(* What the log does to the files *)

FileState == [file : Files \cup {NoPath}, now : Files \cup {NoPath}, announced : BOOLEAN]
FileStates == [Objects -> FileState]
Logs == [object : Objects \cup {NoObject}, count : 0 .. Threshold - 1]
OwnEvents == [kind : Kinds, pid : {Self}, object : Objects, file : Files \cup {NoPath},
              now : Files \cup {NoPath}, announced : {FALSE}]
Outcomes == [opened : FileStates, log : Logs, events : Seq(OwnEvents)]

\* Events none of which renews what is known of o.
Calm(s, o) == \A i \in 1 .. Len(s) : ~Renews(s[i], o)

\* An object is left as it was, or it is not one whose creation was announced.
Spares(r, files) ==
  \A o \in Objects : (r.opened[o] = files[o] /\ Calm(r.events, o)) \/ r.opened[o].announced = FALSE

LEMMA CalmConcat ==
  ASSUME NEW S, NEW s \in Seq(S), NEW t \in Seq(S), NEW o, Calm(s, o), Calm(t, o)
  PROVE  Calm(s \o t, o)
<1> SUFFICES ASSUME NEW i \in 1 .. Len(s \o t) PROVE ~Renews((s \o t)[i], o)
  BY DEF Calm
<1>1. CASE i \in 1 .. Len(s)
  <2>1. (s \o t)[i] = s[i] BY <1>1
  <2>2. QED BY <1>1, <2>1 DEF Calm
<1>2. CASE i \in Len(s) + 1 .. Len(s) + Len(t)
  <2>1. i - Len(s) \in 1 .. Len(t) /\ (s \o t)[i] = t[i - Len(s)] BY <1>2
  <2>2. QED BY <2>1 DEF Calm
<1>3. QED BY <1>1, <1>2

\* Opening the log, or failing to.
LEMMA OpeningsFacts ==
  ASSUME NEW files \in FileStates, NEW r \in Openings(files)
  PROVE  r \in Outcomes /\ Spares(r, files)
<1>0. 0 \in 0 .. Threshold - 1 BY FileEventsAssumption
<1>1. CASE r = NotOpened(files)
  <2>1. r.opened = files /\ r.events = <<>> BY <1>1 DEF NotOpened
  <2>2. r \in Outcomes BY <1>0, <1>1 DEF NotOpened, Outcomes, Logs
  <2>3. QED BY <2>1, <2>2 DEF Spares, Calm
<1>2. ASSUME NEW o \in Objects, r = InitDebugLog(files, o) PROVE r \in Outcomes /\ Spares(r, files)
  <2>1. /\ r.opened = [files EXCEPT ![o] = Opened(LogFile, FALSE)]
        /\ r.events = <<FileEvent("Create", Self, o, Opened(LogFile, FALSE))>>
        /\ r.log = [object |-> o, count |-> 0]
    BY <1>2 DEF InitDebugLog
  <2>2. Opened(LogFile, FALSE) \in FileState BY DEF Opened, FileState, Files
  <2>3. r.opened \in FileStates BY <2>1, <2>2 DEF FileStates
  <2> DEFINE e == FileEvent("Create", Self, o, Opened(LogFile, FALSE))
  <2>4. e \in OwnEvents BY DEF FileEvent, Opened, OwnEvents, Kinds, Files
  <2>5. r.events = <<e>> BY <2>1
  <2>6. \A x : x # o => ~Renews(e, x) BY DEF Renews, FileEvent
  <2> HIDE DEF e
  <2>7. r.events \in Seq(OwnEvents) BY <2>4, <2>5
  <2>8. \A i \in 1 .. Len(r.events) : r.events[i] = e BY <2>5
  <2>9. r.log \in Logs BY <1>0, <2>1 DEF Logs
  <2>10. r = [opened |-> r.opened, log |-> r.log, events |-> r.events]
    BY <1>2, <2>1 DEF InitDebugLog
  <2>11. r \in Outcomes BY <2>3, <2>7, <2>9, <2>10 DEF Outcomes
  <2>12. ASSUME NEW x \in Objects, x # o PROVE r.opened[x] = files[x] /\ Calm(r.events, x)
    <3>1. r.opened[x] = files[x] BY <2>1, <2>12 DEF FileStates
    <3>2. QED BY <3>1, <2>6, <2>8, <2>12 DEF Calm
  <2>13. r.opened[o].announced = FALSE BY <2>1 DEF FileStates, Opened
  <2>14. QED BY <2>11, <2>12, <2>13 DEF Spares
<1>3. QED BY <1>1, <1>2 DEF Openings, FreeObjects

\* A line is written, and the log opened again if it is the last of its count.
LEMMA WriteLineFacts ==
  ASSUME NEW files \in FileStates, NEW ready \in Outcomes, Spares(ready, files),
         NEW r \in WriteLine(ready)
  PROVE  r \in Outcomes /\ Spares(r, files)
<1> DEFINE o == ready.log.object
           line == <<ObjectEvent("Write", Self, o)>>
           close == <<ObjectEvent("Close", Self, o)>>
           closed == [ready.opened EXCEPT ![o] = Closed]
<1>1. CASE o = NoObject
  BY <1>1 DEF WriteLine
<1>2. CASE o # NoObject
  <2>1. o \in Objects BY <1>2 DEF Outcomes, Logs
  <2>2. ObjectEvent("Write", Self, o) \in OwnEvents /\ ObjectEvent("Close", Self, o) \in OwnEvents
    BY <2>1 DEF ObjectEvent, FileEvent, Closed, OwnEvents, Kinds
  <2>3. line \in Seq(OwnEvents) /\ close \in Seq(OwnEvents) BY <2>2
  <2>4. \A x : Calm(line, x) /\ Calm(close, x) BY DEF Calm, Renews, ObjectEvent, FileEvent, Closed
  <2>5. ready.events \in Seq(OwnEvents) /\ ready.opened \in FileStates BY DEF Outcomes
  <2>6. CASE ready.log.count + 1 < Threshold
    <3>1. r = [ready EXCEPT !.log.count = @ + 1, !.events = @ \o line]
      BY <1>2, <2>6 DEF WriteLine
    <3>2. ready.log \in Logs BY DEF Outcomes
    <3>3. [ready.log EXCEPT !.count = @ + 1] \in Logs
      BY <2>6, <3>2, FileEventsAssumption DEF Logs
    <3>4. ready.events \o line \in Seq(OwnEvents) BY <2>3, <2>5
    <3>5. r.opened = ready.opened /\ r.events = ready.events \o line
      BY <3>1 DEF Outcomes
    <3>6. r \in Outcomes
      BY <2>5, <3>1, <3>3, <3>4 DEF Outcomes
    <3>7. ASSUME NEW x \in Objects, Calm(ready.events, x) PROVE Calm(r.events, x)
      <4>1. Calm(line, x) BY <2>4
      <4> HIDE DEF line
      <4>2. Calm(ready.events \o line, x) BY <2>3, <2>5, <3>7, <4>1, CalmConcat
      <4>3. QED BY <3>5, <4>2
    <3>8. QED BY <3>5, <3>6, <3>7 DEF Spares
  <2>7. CASE ~(ready.log.count + 1 < Threshold)
    <3>1. PICK again \in Openings(closed) :
            r = [again EXCEPT !.events = ready.events \o line \o close \o @]
      BY <1>2, <2>7 DEF WriteLine
    <3>2. closed \in FileStates BY <2>5 DEF FileStates, FileState, Closed
    <3>3. again \in Outcomes /\ Spares(again, closed) BY <3>1, <3>2, OpeningsFacts
    <3>4. again.events \in Seq(OwnEvents) BY <3>3 DEF Outcomes
    <3>5. ready.events \o line \in Seq(OwnEvents) BY <2>3, <2>5
    <3>6. (ready.events \o line) \o close \in Seq(OwnEvents) BY <2>3, <3>5
    <3>7. r.events = ((ready.events \o line) \o close) \o again.events /\ r.opened = again.opened
      BY <3>1, <3>3 DEF Outcomes
    <3>8. r.events \in Seq(OwnEvents) BY <3>4, <3>6, <3>7
    <3>9. r = [again EXCEPT !.events = r.events] BY <3>1, <3>3, <3>7 DEF Outcomes
    <3>10. r \in Outcomes BY <3>3, <3>8, <3>9 DEF Outcomes
    <3>11. ASSUME NEW x \in Objects, Calm(ready.events, x), Calm(again.events, x)
           PROVE  Calm(r.events, x)
      <4>1. Calm(ready.events \o line, x) BY <2>3, <2>4, <2>5, <3>11, CalmConcat
      <4>2. Calm((ready.events \o line) \o close, x) BY <2>3, <2>4, <3>5, <4>1, CalmConcat
      <4>3. QED BY <3>4, <3>6, <3>7, <3>11, <4>2, CalmConcat
    <3>12. ASSUME NEW x \in Objects
           PROVE  (r.opened[x] = files[x] /\ Calm(r.events, x)) \/ r.opened[x].announced = FALSE
      <4>1. CASE again.opened[x] = closed[x] /\ Calm(again.events, x)
        <5>1. CASE x = o
          <6>1. closed[x] = Closed BY <5>1, <2>5 DEF FileStates
          <6>2. QED BY <3>7, <4>1, <6>1 DEF Closed
        <5>2. CASE x # o
          <6>1. closed[x] = ready.opened[x] BY <5>2, <2>5 DEF FileStates
          <6>2. QED BY <3>7, <3>11, <4>1, <6>1 DEF Spares
        <5>3. QED BY <5>1, <5>2
      <4>2. CASE again.opened[x].announced = FALSE BY <3>7, <4>2
      <4>3. QED BY <3>3, <4>1, <4>2 DEF Spares
    <3>13. QED BY <3>10, <3>12 DEF Spares
  <2>8. QED BY <2>6, <2>7
<1>3. QED BY <1>1, <1>2

LEMMA LoggingFacts ==
  ASSUME opened \in FileStates, log \in Logs, NEW r \in WriteDebugToFileW
  PROVE  r \in Outcomes /\ Spares(r, opened)
<1>1. CASE log.object = NoObject
  <2>1. PICK ready \in Openings(opened) : r \in WriteLine(ready)
    BY <1>1 DEF WriteDebugToFileW
  <2>2. ready \in Outcomes /\ Spares(ready, opened) BY <2>1, OpeningsFacts
  <2>3. QED BY <2>1, <2>2, WriteLineFacts
<1>2. CASE log.object # NoObject
  <2> DEFINE ready == [opened |-> opened, log |-> log, events |-> <<>>]
  <2>1. r \in WriteLine(ready) BY <1>2 DEF WriteDebugToFileW
  <2>2. ready \in Outcomes BY DEF Outcomes
  <2>3. ready.opened = opened /\ ready.events = <<>> OBVIOUS
  <2> HIDE DEF ready
  <2>4. Spares(ready, opened) BY <2>3 DEF Spares, Calm
  <2>5. QED BY <2>1, <2>2, <2>4, WriteLineFacts
<1>3. QED BY <1>1, <1>2

-----------------------------------------------------------------------------
(* The invariant *)

\* TypeOK, with the types of events.
Typed ==
  /\ opened \in FileStates
  /\ DOMAIN running = Pids
  /\ stream \in Seq(Event) /\ Len(stream) <= Buffers
  /\ budget \in 0 .. MaxEvents
  /\ obj_to_name_map_ \in [Objects -> Watched \cup {NoPath}]
  /\ resolved \in BOOLEAN /\ gap \in BOOLEAN
  /\ told \in [Objects -> BOOLEAN]
  /\ DOMAIN process_map_ \subseteq Pids
  /\ log \in Logs

\* When a write is handled, the path its object was opened by will be known.
Waiting ==
  \A i \in 1 .. Len(stream) :
    stream[i].kind = "Write" /\ stream[i].announced =>
      Heard(stream, obj_to_name_map_, told, i, stream[i].object, stream[i].file)

\* So it will be when all is handled that happened so far.
Standing ==
  \A o \in Objects :
    opened[o].announced =>
      Heard(stream, obj_to_name_map_, told, Len(stream) + 1, o, opened[o].file)

IInv == Typed /\ Waiting /\ Standing /\ Attribution

LEMMA Initially == Init => IInv
<1> SUFFICES ASSUME Init PROVE IInv
  OBVIOUS
<1>1. opened \in FileStates BY DEF Init, FileStates, FileState, Closed
<1>2. log \in Logs BY FileEventsAssumption DEF Init, Logs
<1>3. DOMAIN running = Pids
  <2>1. PICK old \in SUBSET Pids : \E image \in [old -> Images] :
          running = [p \in Pids |->
            IF p \in old THEN [image |-> image[p], real |-> NoParent, adopted |-> NoParent]
            ELSE Gone]
    BY DEF Init
  <2>2. QED BY <2>1
<1>4. stream \in Seq(Event) /\ Len(stream) = 0 BY DEF Init
<1>5. budget \in 0 .. MaxEvents BY FileEventsAssumption DEF Init
<1>6. obj_to_name_map_ \in [Objects -> Watched \cup {NoPath}] /\ told \in [Objects -> BOOLEAN]
  BY DEF Init
<1>7. resolved \in BOOLEAN /\ gap \in BOOLEAN BY DEF Init
<1>8. DOMAIN process_map_ \subseteq Pids BY DEF Init
<1>9. Typed BY <1>1, <1>2, <1>3, <1>4, <1>5, <1>6, <1>7, <1>8, FileEventsAssumption DEF Typed
<1>10. Waiting BY <1>4 DEF Waiting
<1>11. Standing BY DEF Init, Standing, Closed
<1>12. Attribution BY DEF Init, Attribution
<1>13. QED BY <1>9, <1>10, <1>11, <1>12 DEF IInv

LEMMA TypedImplies == Typed => TypeOK
<1> SUFFICES ASSUME Typed PROVE TypeOK
  OBVIOUS
<1>1. log.object \in Objects \cup {NoObject} /\ log.count \in 0 .. Threshold - 1
  BY DEF Typed, Logs
<1>2. QED BY <1>1 DEF Typed, TypeOK, FileStates, FileState

-----------------------------------------------------------------------------
(* The kernel *)

LEMMA Spending == Typed /\ Spend => budget' \in 0 .. MaxEvents
<1> SUFFICES ASSUME Typed, Spend PROVE budget' \in 0 .. MaxEvents
  OBVIOUS
<1>1. budget \in 0 .. MaxEvents BY DEF Typed
<1>2. budget > 0 /\ budget' = budget - 1 BY DEF Spend
<1>3. QED BY <1>1, <1>2, FileEventsAssumption

\* One more event, about which the invariant holds if it is a write.
LEMMA OneEvent ==
  ASSUME Typed, Waiting, NEW e \in Event, stream' = Emitted(stream, <<e>>), UNCHANGED fileVars,
         e.kind = "Write" /\ e.announced =>
           Heard(stream, obj_to_name_map_, told, Len(stream) + 1, e.object, e.file)
  PROVE  /\ stream' \in Seq(Event) /\ Len(stream') <= Buffers
         /\ Waiting'
         /\ \A o \in Objects, f \in Files \cup {NoPath} :
              Heard(stream, obj_to_name_map_, told, Len(stream) + 1, o, f) /\ ~Renews(e, o) =>
                Heard(stream', obj_to_name_map_, told, Len(stream') + 1, o, f)
         /\ Len(stream) < Buffers => Len(stream') = Len(stream) + 1 /\ stream'[Len(stream')] = e
<1> DEFINE n == Len(stream)
           u == stream'
<1>1. stream \in Seq(Event) /\ n \in Nat /\ n <= Buffers BY DEF Typed
<1>2. <<e>> \in Seq(Event) /\ Len(<<e>>) = 1 /\ <<e>>[1] = e /\ <<e>> # <<>> OBVIOUS
<1>3. /\ u \in Seq(Event) /\ n <= Len(u) /\ Len(u) <= Buffers
      /\ \A i \in 1 .. n : u[i] = stream[i]
      /\ \A i \in n + 1 .. Len(u) : i - n \in 1 .. Len(<<e>>) /\ u[i] = <<e>>[i - n]
      /\ n < Buffers => Len(u) > n
  BY <1>1, <1>2, EmittedFacts
<1>4. Len(u) \in Nat BY <1>3
<1>5. \A i \in n + 1 .. Len(u) : i = n + 1 /\ u[i] = e BY <1>1, <1>2, <1>3
<1>6. obj_to_name_map_' = obj_to_name_map_ /\ told' = told BY DEF fileVars
<1> HIDE DEF u, n
<1>7. ASSUME NEW i \in 1 .. Len(u), u[i].kind = "Write", u[i].announced
      PROVE  Heard(u, obj_to_name_map_, told, i, u[i].object, u[i].file)
  <2>1. CASE i \in 1 .. n
    <3>1. u[i] = stream[i] BY <1>3, <2>1
    <3>2. Heard(stream, obj_to_name_map_, told, i, u[i].object, u[i].file)
      BY <1>7, <2>1, <3>1 DEF Waiting, n
    <3>3. \A k \in 1 .. i - 1 : u[k] = stream[k] BY <1>1, <1>3, <2>1
    <3>4. i \in Nat BY <2>1
    <3>5. QED BY <3>2, <3>3, <3>4, HeardSame
  <2>2. CASE i \in n + 1 .. Len(u)
    <3>1. i = n + 1 /\ u[i] = e BY <1>5, <2>2
    <3>2. Heard(stream, obj_to_name_map_, told, n + 1, e.object, e.file) BY <1>7, <3>1 DEF n
    <3>3. \A k \in 1 .. (n + 1) - 1 : u[k] = stream[k] /\ n + 1 \in Nat BY <1>1, <1>3
    <3>4. n + 1 \in Nat BY <1>1
    <3>5. Heard(u, obj_to_name_map_, told, n + 1, e.object, e.file)
      BY <3>2, <3>3, <3>4, HeardSame
    <3>6. QED BY <3>1, <3>5
  <2>3. QED BY <1>1, <1>4, <2>1, <2>2
<1>8. Waiting' BY <1>6, <1>7 DEF Waiting, u
<1>9. ASSUME NEW o \in Objects, NEW f \in Files \cup {NoPath}, ~Renews(e, o),
             Heard(stream, obj_to_name_map_, told, n + 1, o, f)
      PROVE  Heard(u, obj_to_name_map_, told, Len(u) + 1, o, f)
  <2>1. \A k \in 1 .. (n + 1) - 1 : u[k] = stream[k] BY <1>1, <1>3
  <2>2. n + 1 \in Nat /\ Len(u) + 1 \in Nat /\ n + 1 <= Len(u) + 1 BY <1>1, <1>3, <1>4
  <2>3. Heard(u, obj_to_name_map_, told, n + 1, o, f) BY <1>9, <2>1, <2>2, HeardSame
  <2>4. \A k \in n + 1 .. (Len(u) + 1) - 1 : ~Renews(u[k], o) BY <1>4, <1>5, <1>9
  <2>5. QED BY <2>2, <2>3, <2>4, HeardLonger
<1>10. n < Buffers => Len(u) = n + 1 /\ u[Len(u)] = e BY <1>1, <1>3, <1>4, <1>5
<1>11. QED BY <1>3, <1>8, <1>9, <1>10 DEF u, n

\* What no event of the kernel changes.
LEMMA KernelFrame ==
  ASSUME IInv, Kernel
  PROVE  /\ budget' \in 0 .. MaxEvents /\ DOMAIN running' = Pids /\ gap' \in BOOLEAN
         /\ obj_to_name_map_' = obj_to_name_map_ /\ told' = told /\ resolved' = resolved
         /\ process_map_' = process_map_ /\ log' = log /\ written' = written
<1>1. Spend
  BY DEF Kernel, OpenFile, WriteFile, CloseFile, RenameFile, OtherOperation, StartProcess,
         EndProcess, LoseSession
<1>2. budget' \in 0 .. MaxEvents BY <1>1, Spending DEF IInv
<1>3. DOMAIN running' = Pids
  BY DEF Kernel, OpenFile, WriteFile, CloseFile, RenameFile, OtherOperation, StartProcess,
         EndProcess, LoseSession, IInv, Typed
<1>4. gap' = gap \/ gap' \in BOOLEAN
  BY DEF Kernel, OpenFile, WriteFile, CloseFile, RenameFile, OtherOperation, StartProcess,
         EndProcess, LoseSession
<1>5. UNCHANGED <<fileVars, processVars, log, written>>
  BY DEF Kernel, OpenFile, WriteFile, CloseFile, RenameFile, OtherOperation, StartProcess,
         EndProcess, LoseSession
<1>6. QED BY <1>2, <1>3, <1>4, <1>5 DEF IInv, Typed, fileVars, processVars

LEMMA AttributionKept ==
  ASSUME Attribution, written' = written, told' = told
  PROVE  Attribution'
BY DEF Attribution

\* An event other than a creation, after which every object that is still announced is
\* announced by the path it was.
LEMMA PlainEvent ==
  ASSUME IInv, Kernel, NEW e \in Event, e.kind # "Create", stream' = Emitted(stream, <<e>>),
         opened' \in FileStates,
         \A o \in Objects : opened'[o].announced =>
                            opened[o].announced /\ opened'[o].file = opened[o].file,
         e.kind = "Write" /\ e.announced =>
           Heard(stream, obj_to_name_map_, told, Len(stream) + 1, e.object, e.file)
  PROVE  IInv'
<1>1. UNCHANGED fileVars BY KernelFrame DEF fileVars
<1>2. /\ stream' \in Seq(Event) /\ Len(stream') <= Buffers
      /\ Waiting'
      /\ \A o \in Objects, f \in Files \cup {NoPath} :
           Heard(stream, obj_to_name_map_, told, Len(stream) + 1, o, f) /\ ~Renews(e, o) =>
             Heard(stream', obj_to_name_map_, told, Len(stream') + 1, o, f)
  BY <1>1, OneEvent DEF IInv
<1>3. Typed' BY <1>2, KernelFrame DEF IInv, Typed
<1>4. Standing'
  <2> SUFFICES ASSUME NEW o \in Objects, opened'[o].announced
               PROVE  Heard(stream', obj_to_name_map_, told, Len(stream') + 1, o, opened'[o].file)
    BY KernelFrame DEF Standing
  <2>1. opened[o].announced /\ opened'[o].file = opened[o].file OBVIOUS
  <2>2. Heard(stream, obj_to_name_map_, told, Len(stream) + 1, o, opened[o].file)
    BY <2>1 DEF IInv, Standing
  <2>3. opened[o].file \in Files \cup {NoPath} BY DEF IInv, Typed, FileStates, FileState
  <2>4. ~Renews(e, o) BY DEF Renews
  <2>5. QED BY <1>2, <2>1, <2>2, <2>3, <2>4
<1>5. Attribution' BY AttributionKept, KernelFrame DEF IInv
<1>6. QED BY <1>2, <1>3, <1>4, <1>5 DEF IInv

LEMMA OpenSteps ==
  ASSUME IInv, Kernel, NEW o \in Objects, NEW f \in Watched \cup {Elsewhere}, OpenFile(o, f)
  PROVE  IInv'
<1> DEFINE e == FileEvent("Create", Another, o, Opened(f, FALSE))
           now == Opened(f, Len(stream) < Buffers)
<1>1. e \in Event BY DEF FileEvent, Opened, Event, OnFiles, Kinds, Files
<1>2. e.kind = "Create" /\ e.object = o /\ e.file = f BY DEF FileEvent, Opened
<1>3. stream' = Emitted(stream, <<e>>) BY DEF OpenFile
<1>4. opened' = [opened EXCEPT ![o] = now] BY DEF OpenFile
<1>5. UNCHANGED fileVars BY KernelFrame DEF fileVars
<1> HIDE DEF e
<1>6. /\ stream' \in Seq(Event) /\ Len(stream') <= Buffers
      /\ Waiting'
      /\ \A x \in Objects, g \in Files \cup {NoPath} :
           Heard(stream, obj_to_name_map_, told, Len(stream) + 1, x, g) /\ ~Renews(e, x) =>
             Heard(stream', obj_to_name_map_, told, Len(stream') + 1, x, g)
      /\ Len(stream) < Buffers => Len(stream') = Len(stream) + 1 /\ stream'[Len(stream')] = e
  BY <1>1, <1>2, <1>3, <1>5, OneEvent DEF IInv
<1>7. now \in FileState BY DEF Opened, FileState, Files
<1>8. opened' \in FileStates BY <1>4, <1>7 DEF IInv, Typed, FileStates
<1>9. Typed' BY <1>6, <1>8, KernelFrame DEF IInv, Typed
<1>10. Standing'
  <2> SUFFICES ASSUME NEW x \in Objects, opened'[x].announced
               PROVE  Heard(stream', obj_to_name_map_, told, Len(stream') + 1, x, opened'[x].file)
    BY KernelFrame DEF Standing
  <2>1. CASE x = o
    <3>1. opened'[x] = now BY <1>4, <2>1 DEF IInv, Typed, FileStates
    <3>2. Len(stream) < Buffers /\ opened'[x].file = f
      <4>1. opened'[x].file = f BY <3>1 DEF Opened
      <4>2. now.announced = (Len(stream) < Buffers) BY Zenon DEF Opened
      <4>3. now.announced BY <3>1
      <4> HIDE DEF now
      <4>4. QED BY <4>1, <4>2, <4>3
    <3>3. Len(stream) \in Nat BY DEF IInv, Typed
    <3>4. Len(stream') \in 1 .. (Len(stream') + 1) - 1 BY <1>6, <3>2, <3>3
    <3>5. Renews(stream'[Len(stream')], x) /\ stream'[Len(stream')].file = f
      BY <1>2, <1>6, <2>1, <3>2 DEF Renews
    <3>6. \A k \in Len(stream') + 1 .. (Len(stream') + 1) - 1 : ~Renews(stream'[k], x)
      BY <3>4
    <3>7. QED BY <3>2, <3>4, <3>5, <3>6 DEF Heard, Recent
  <2>2. CASE x # o
    <3>1. opened'[x] = opened[x] BY <1>4, <2>2 DEF IInv, Typed, FileStates
    <3>2. Heard(stream, obj_to_name_map_, told, Len(stream) + 1, x, opened[x].file)
      BY <3>1 DEF IInv, Standing
    <3>3. opened[x].file \in Files \cup {NoPath} BY DEF IInv, Typed, FileStates, FileState
    <3>4. ~Renews(e, x) BY <1>2, <2>2 DEF Renews
    <3>5. QED BY <1>6, <3>1, <3>2, <3>3, <3>4
  <2>3. QED BY <2>1, <2>2
<1>11. Attribution' BY AttributionKept, KernelFrame DEF IInv
<1>12. QED BY <1>6, <1>9, <1>10, <1>11 DEF IInv

LEMMA WriteSteps ==
  ASSUME IInv, Kernel, NEW p \in {Another, System}, NEW o \in Objects, WriteFile(p, o)
  PROVE  IInv'
<1> DEFINE e == IF p = System THEN ObjectEvent("Write", p, o)
                ELSE FileEvent("Write", p, o, opened[o])
<1>1. stream' = Emitted(stream, <<e>>) /\ opened' = opened BY DEF WriteFile
<1>2. opened[o] \in FileState
  BY DEF IInv, Typed, FileStates
<1>3. e \in Event /\ e.kind = "Write"
  BY <1>2 DEF FileEvent, ObjectEvent, Closed, FileState, Event, OnFiles, Kinds
<1>4. e.announced => e.object = o /\ e.file = opened[o].file /\ opened[o].announced
  BY DEF FileEvent, ObjectEvent, Closed
<1> HIDE DEF e
<1>5. e.announced => Heard(stream, obj_to_name_map_, told, Len(stream) + 1, e.object, e.file)
  BY <1>4 DEF IInv, Standing
<1>6. opened' \in FileStates BY <1>1 DEF IInv, Typed
<1>7. QED BY <1>1, <1>3, <1>5, <1>6, PlainEvent

LEMMA CloseSteps ==
  ASSUME IInv, Kernel, NEW o \in Objects, CloseFile(o)
  PROVE  IInv'
<1> DEFINE e == ObjectEvent("Close", Another, o)
<1>1. stream' = Emitted(stream, <<e>>) /\ opened' = [opened EXCEPT ![o] = Closed] BY DEF CloseFile
<1>2. e \in Event /\ e.kind = "Close" BY DEF FileEvent, ObjectEvent, Closed, Event, OnFiles, Kinds
<1> HIDE DEF e
<1>3. opened' \in FileStates BY <1>1 DEF IInv, Typed, FileStates, FileState, Closed
<1>4. \A x \in Objects : opened'[x].announced =>
                         opened[x].announced /\ opened'[x].file = opened[x].file
  BY <1>1 DEF IInv, Typed, FileStates, FileState, Closed
<1>5. QED BY <1>1, <1>2, <1>3, <1>4, PlainEvent

\* A renamed file keeps the path its objects were opened by.
LEMMA RenameSteps ==
  ASSUME IInv, Kernel, NEW o \in Objects, NEW g \in Watched \cup {Elsewhere}, RenameFile(o, g)
  PROVE  IInv'
<1> DEFINE e == ObjectEvent("Other", Another, o)
           Now(x) == IF opened[x].now = opened[o].now THEN g ELSE opened[x].now
<1>1. /\ stream' = Emitted(stream, <<e>>)
      /\ opened' = [x \in Objects |-> [opened[x] EXCEPT !.now = Now(x)]]
  BY DEF RenameFile
<1>2. e \in Event /\ e.kind = "Other"
  BY DEF FileEvent, ObjectEvent, Closed, Event, OnFiles, Kinds
<1>3. ASSUME NEW x \in Objects
      PROVE  /\ opened'[x] \in FileState
             /\ opened'[x].file = opened[x].file /\ opened'[x].announced = opened[x].announced
  <2>1. opened[x] \in FileState BY DEF IInv, Typed, FileStates
  <2>2. Now(x) \in Files \cup {NoPath} BY <2>1 DEF FileState, Files
  <2>3. opened'[x] = [opened[x] EXCEPT !.now = Now(x)] BY <1>1
  <2> HIDE DEF Now
  <2>4. QED BY <2>1, <2>2, <2>3 DEF FileState
<1>4. opened' \in FileStates BY <1>1, <1>3 DEF FileStates
<1> HIDE DEF e
<1>5. \A x \in Objects : opened'[x].announced =>
                         opened[x].announced /\ opened'[x].file = opened[x].file
  BY <1>3
<1>6. QED BY <1>1, <1>2, <1>4, <1>5, PlainEvent

LEMMA OtherSteps ==
  ASSUME IInv, Kernel, NEW o \in Objects, OtherOperation(o)
  PROVE  IInv'
<1> DEFINE e == ObjectEvent("Other", Another, o)
<1>1. stream' = Emitted(stream, <<e>>) /\ opened' = opened BY DEF OtherOperation
<1>2. e \in Event /\ e.kind = "Other" BY DEF FileEvent, ObjectEvent, Closed, Event, OnFiles, Kinds
<1> HIDE DEF e
<1>3. opened' \in FileStates BY <1>1 DEF IInv, Typed
<1>4. QED BY <1>1, <1>2, <1>3, PlainEvent

LEMMA ProcessSteps ==
  ASSUME IInv, Kernel, NEW e \in OnProcesses, stream' = Emitted(stream, <<e>>), opened' = opened
  PROVE  IInv'
<1>1. e \in Event /\ e.kind \in {"Start", "End"} BY DEF Event, OnProcesses
<1>2. opened' \in FileStates BY DEF IInv, Typed
<1>3. QED BY <1>1, <1>2, PlainEvent

\* The events of a lost session are not waited for, and an object whose creation was
\* among them is not announced any more.
LEMMA LoseSteps ==
  ASSUME IInv, Kernel, LoseSession
  PROVE  IInv'
<1> DEFINE lost == {stream[i] : i \in DOMAIN stream}
           Left(o) == opened[o].announced
                        /\ ~\E e \in lost : e.kind = "Create" /\ e.object = o
<1>1. stream' = <<>> BY DEF LoseSession
<1>2. opened' = [o \in Objects |-> [opened[o] EXCEPT !.announced = Left(o)]]
  BY DEF LoseSession
<1>3. \A o \in Objects : /\ opened'[o].file = opened[o].file
                         /\ opened'[o].announced = Left(o)
                         /\ opened'[o] \in FileState
  BY <1>2 DEF IInv, Typed, FileStates, FileState
<1>4. opened' \in FileStates BY <1>2, <1>3 DEF FileStates
<1>5. stream' \in Seq(Event) /\ Len(stream') = 0 BY <1>1
<1>6. Typed' BY <1>4, <1>5, KernelFrame, FileEventsAssumption DEF IInv, Typed
<1>7. Waiting' BY <1>5 DEF Waiting
<1>8. Standing'
  <2> SUFFICES ASSUME NEW o \in Objects, opened'[o].announced
               PROVE  Heard(stream', obj_to_name_map_, told, Len(stream') + 1, o, opened'[o].file)
    BY KernelFrame DEF Standing
  <2>1. Left(o) BY <1>3
  <2>2. \A k \in 1 .. Len(stream) : ~Renews(stream[k], o)
    <3> TAKE k \in 1 .. Len(stream)
    <3>1. stream[k] \in lost BY DEF IInv, Typed
    <3>2. QED BY <2>1, <3>1 DEF Renews
  <2>3. Heard(stream, obj_to_name_map_, told, Len(stream) + 1, o, opened[o].file)
    BY <2>1 DEF IInv, Standing
  <2>4. Len(stream) \in Nat BY DEF IInv, Typed
  <2>5. Knows(obj_to_name_map_, told, o, opened[o].file)
    BY <2>2, <2>3, <2>4 DEF Heard, Recent
  <2>6. Silent(stream', Len(stream') + 1, o) BY <1>5 DEF Silent
  <2>7. QED BY <1>3, <2>5, <2>6 DEF Heard
<1>9. Attribution' BY AttributionKept, KernelFrame DEF IInv
<1>10. QED BY <1>6, <1>7, <1>8, <1>9 DEF IInv

LEMMA KernelSteps == IInv /\ Kernel => IInv'
<1> SUFFICES ASSUME IInv, Kernel PROVE IInv'
  OBVIOUS
<1>1. ASSUME NEW o \in Objects, NEW f \in Watched \cup {Elsewhere}, OpenFile(o, f) PROVE IInv'
  BY <1>1, OpenSteps
<1>2. ASSUME NEW o \in Objects, NEW p \in {Another, System}, WriteFile(p, o) PROVE IInv'
  BY <1>2, WriteSteps
<1>3. ASSUME NEW o \in Objects, CloseFile(o) PROVE IInv' BY <1>3, CloseSteps
<1>4. ASSUME NEW o \in Objects, OtherOperation(o) PROVE IInv' BY <1>4, OtherSteps
<1>5. ASSUME NEW o \in Objects, NEW g \in Watched \cup {Elsewhere}, RenameFile(o, g) PROVE IInv'
  BY <1>5, RenameSteps
<1>6. ASSUME NEW real \in Pids, NEW adopted \in Pids, NEW p \in Pids, NEW image \in Images,
             StartProcess(real, adopted, p, image)
      PROVE  IInv'
  <2>1. StartEvent(real, p, adopted) \in OnProcesses BY DEF StartEvent, OnProcesses
  <2>2. stream' = Emitted(stream, <<StartEvent(real, p, adopted)>>) /\ opened' = opened
    BY <1>6 DEF StartProcess
  <2>3. QED BY <2>1, <2>2, ProcessSteps
<1>7. ASSUME NEW p \in Pids, EndProcess(p) PROVE IInv'
  <2>1. EndEvent(p) \in OnProcesses BY DEF EndEvent, OnProcesses
  <2>2. stream' = Emitted(stream, <<EndEvent(p)>>) /\ opened' = opened BY <1>7 DEF EndProcess
  <2>3. QED BY <2>1, <2>2, ProcessSteps
<1>8. CASE LoseSession BY <1>8, LoseSteps
<1>9. QED BY <1>1, <1>2, <1>3, <1>4, <1>5, <1>6, <1>7, <1>8 DEF Kernel

-----------------------------------------------------------------------------
(* The consumer *)

\* Whatever the service prints: the events behind those that wait are its own, and no
\* object whose creation was announced changes.
LEMMA PrintFacts ==
  ASSUME Typed, stream # <<>>, PrintDebugW \/ PrintNothing
  PROVE  /\ opened' \in FileStates /\ log' \in Logs
         /\ stream' \in Seq(Event) /\ Len(stream') <= Buffers
         /\ Len(stream) - 1 <= Len(stream')
         /\ \A i \in 1 .. Len(stream) - 1 : stream'[i] = Tail(stream)[i]
         /\ \A i \in Len(stream) .. Len(stream') :
              stream'[i].announced = FALSE /\ stream'[i].kind \in Kinds
         /\ \A o \in Objects :
              \/ /\ opened'[o] = opened[o]
                 /\ \A i \in Len(stream) .. Len(stream') : ~Renews(stream'[i], o)
              \/ opened'[o].announced = FALSE
<1> DEFINE t == Tail(stream)
<1>1. stream \in Seq(Event) /\ Len(stream) <= Buffers BY DEF Typed
<1>2. t \in Seq(Event) /\ Len(t) = Len(stream) - 1 /\ Len(stream) \in Nat BY <1>1
<1> HIDE DEF t
<1>3. CASE PrintNothing
  <2>1. stream' = t /\ opened' = opened /\ log' = log BY <1>3 DEF PrintNothing, t
  <2>2. Len(stream') < Len(stream) BY <1>2, <2>1
  <2>3. \A i \in Len(stream) .. Len(stream') : FALSE BY <1>2, <2>1, <2>2
  <2>4. Buffers \in Nat BY FileEventsAssumption
  <2>5. Len(stream') <= Buffers BY <1>1, <1>2, <2>1, <2>4
  <2>6. QED BY <1>2, <2>1, <2>3, <2>5 DEF Typed, t
<1>4. CASE PrintDebugW
  <2>1. PICK r \in WriteDebugToFileW :
          opened' = r.opened /\ log' = r.log /\ stream' = Emitted(t, r.events)
    BY <1>4 DEF PrintDebugW, t
  <2>2. r \in Outcomes /\ Spares(r, opened) BY LoggingFacts DEF Typed
  <2>3. r.events \in Seq(OwnEvents) /\ r.opened \in FileStates /\ r.log \in Logs
    BY <2>2 DEF Outcomes
  <2>4. OwnEvents \subseteq Event
    <3>1. OwnEvents \subseteq OnFiles BY DEF OwnEvents, OnFiles
    <3>2. QED BY <3>1 DEF Event
  <2>5. r.events \in Seq(Event) BY <2>3, <2>4
  <2>6. Buffers \in Nat BY FileEventsAssumption
  <2>7. Len(t) <= Buffers BY <1>1, <1>2, <2>6
  <2>8. /\ stream' \in Seq(Event)
        /\ Len(t) <= Len(stream') /\ Len(stream') <= Buffers
        /\ \A i \in 1 .. Len(t) : stream'[i] = t[i]
        /\ \A i \in Len(t) + 1 .. Len(stream') :
             i - Len(t) \in 1 .. Len(r.events) /\ stream'[i] = r.events[i - Len(t)]
    BY <1>2, <2>1, <2>5, <2>7, EmittedFacts
  <2>9. Len(t) + 1 = Len(stream) BY <1>2
  <2>10. \A i \in 1 .. Len(r.events) : r.events[i].announced = FALSE /\ r.events[i].kind \in Kinds
    <3> TAKE i \in 1 .. Len(r.events)
    <3>1. r.events[i] \in OwnEvents BY <2>3
    <3>2. QED BY <3>1 DEF OwnEvents
  <2>11. \A i \in Len(stream) .. Len(stream') :
           stream'[i].announced = FALSE /\ stream'[i].kind \in Kinds
    BY <2>8, <2>9, <2>10
  <2>12. ASSUME NEW o \in Objects
         PROVE  \/ /\ opened'[o] = opened[o]
                   /\ \A i \in Len(stream) .. Len(stream') : ~Renews(stream'[i], o)
                \/ opened'[o].announced = FALSE
    <3>1. CASE r.opened[o] = opened[o] /\ Calm(r.events, o)
      BY <2>1, <2>8, <2>9, <3>1 DEF Calm
    <3>2. CASE r.opened[o].announced = FALSE BY <2>1, <3>2
    <3>3. QED BY <2>2, <3>1, <3>2 DEF Spares
  <2>13. QED BY <1>2, <2>1, <2>3, <2>8, <2>11, <2>12 DEF t
<1>5. QED BY <1>3, <1>4

\* What a handler learns of objects: a creation is what it says, or it is not accepted,
\* and nothing else is news.
Learns(e) ==
  /\ obj_to_name_map_' \in [Objects -> Watched \cup {NoPath}]
  /\ told' \in [Objects -> BOOLEAN] /\ resolved' \in BOOLEAN
  /\ \A o \in Objects :
       /\ Renews(e, o) => Knows(obj_to_name_map_', told', o, e.file)
       /\ ~Renews(e, o) => obj_to_name_map_'[o] = obj_to_name_map_[o] /\ told'[o] = told[o]

LEMMA FilterLearns ==
  ASSUME Typed, NEW e \in Event, FilterOut(e)
  PROVE  Learns(e)
<1>1. obj_to_name_map_' = obj_to_name_map_ /\ resolved' = resolved BY DEF FilterOut
<1>2. CASE e.kind = "Create"
  <2>1. told' = [told EXCEPT ![e.object] = FALSE] BY <1>2 DEF FilterOut
  <2>2. told' \in [Objects -> BOOLEAN] BY <2>1 DEF Typed
  <2>3. ASSUME NEW o \in Objects, Renews(e, o) PROVE told'[o] = FALSE
    BY <2>1, <2>3 DEF Renews, Typed
  <2>4. ASSUME NEW o \in Objects, ~Renews(e, o) PROVE told'[o] = told[o]
    BY <1>2, <2>1, <2>4 DEF Renews, Typed
  <2>5. QED BY <1>1, <2>2, <2>3, <2>4 DEF Learns, Knows, Typed
<1>3. CASE e.kind # "Create"
  <2>1. told' = told BY <1>3 DEF FilterOut
  <2>2. QED BY <1>1, <1>3, <2>1 DEF Learns, Renews, Typed
<1>4. QED BY <1>2, <1>3

LEMMA CreateLearns ==
  ASSUME Typed, NEW e \in Event, e.kind = "Create", ProcessCreate(e)
  PROVE  Learns(e)
<1>1. PICK path \in GetWin32Path(e.file) :
        /\ resolved' = (resolved \/ path # NoPath)
        /\ IF path \in Watched
           THEN obj_to_name_map_' = MapObjectWithPath(e.object, path) /\ PrintDebugW
           ELSE UNCHANGED obj_to_name_map_ /\ PrintNothing
        /\ told' = [told EXCEPT ![e.object] = path \in Watched]
  BY DEF ProcessCreate
<1>2. path \in Watched => path = e.file
  BY FileEventsAssumption DEF GetWin32Path
<1>3. resolved' \in BOOLEAN BY <1>1
<1>4. told' \in [Objects -> BOOLEAN]
  <2>1. (path \in Watched) \in BOOLEAN OBVIOUS
  <2>2. QED BY <1>1, <2>1 DEF Typed
<1>5. obj_to_name_map_' \in [Objects -> Watched \cup {NoPath}]
  BY <1>1 DEF Typed, MapObjectWithPath
<1>6. ASSUME NEW o \in Objects, Renews(e, o), told'[o] PROVE obj_to_name_map_'[o] = e.file
  <2>1. path \in Watched BY <1>1, <1>6 DEF Renews, Typed
  <2>2. obj_to_name_map_' = [obj_to_name_map_ EXCEPT ![e.object] = path]
    BY <1>1, <2>1 DEF MapObjectWithPath
  <2>3. QED BY <1>2, <1>6, <2>1, <2>2 DEF Renews, Typed
<1>7. ASSUME NEW o \in Objects, ~Renews(e, o)
      PROVE  obj_to_name_map_'[o] = obj_to_name_map_[o] /\ told'[o] = told[o]
  <2>1. o # e.object BY <1>7 DEF Renews
  <2>2. told'[o] = told[o] BY <1>1, <2>1 DEF Typed
  <2>3. obj_to_name_map_'[o] = obj_to_name_map_[o]
    BY <1>1, <2>1 DEF MapObjectWithPath, Typed
  <2>4. QED BY <2>2, <2>3
<1>8. QED BY <1>3, <1>4, <1>5, <1>6, <1>7 DEF Learns, Knows

\* Every handler: what it prints and learns, and that the cache names processes only.
LEMMA HandlerFacts ==
  ASSUME Typed, stream # <<>>, NEW e \in Event, e = Head(stream), ProcessEvent
  PROVE  /\ PrintDebugW \/ PrintNothing
         /\ Learns(e)
         /\ DOMAIN process_map_' \subseteq Pids
         /\ UNCHANGED <<running, budget, gap>>
         /\ \/ written' = Nothing
            \/ /\ told' = told
               /\ e.kind = "Write" /\ written' = [event |-> e, path |-> obj_to_name_map_[e.object]]
<1>1. UNCHANGED <<running, budget, gap>> BY DEF ProcessEvent
<1>2. CASE FilterOut(e)
  BY <1>1, <1>2, FilterLearns DEF FilterOut, processVars, Typed
<1>3. CASE ProcessFileIoEvent(e)
  <2>1. process_map_' = process_map_ BY <1>3 DEF ProcessFileIoEvent, processVars
  <2>2. CASE e.kind = "Create" /\ ProcessCreate(e)
    <3>1. PrintDebugW \/ PrintNothing BY <2>2 DEF ProcessCreate
    <3>2. written' = Nothing BY <2>2 DEF ProcessCreate
    <3>3. QED BY <1>1, <2>1, <2>2, <3>1, <3>2, CreateLearns DEF Typed
  <2>3. ASSUME e.kind # "Create", UNCHANGED fileVars PROVE Learns(e)
    BY <2>3 DEF fileVars, Learns, Renews, Typed
  <2>4. CASE e.kind = "Write" /\ ProcessWrite(e)
    <3>1. PrintDebugW \/ PrintNothing BY <2>4 DEF ProcessWrite
    <3>2. UNCHANGED fileVars BY <2>4 DEF ProcessWrite
    <3>3. written' = Nothing \/ written' = [event |-> e, path |-> obj_to_name_map_[e.object]]
      BY <2>4 DEF ProcessWrite, GetPathByObject
    <3>4. told' = told BY <3>2 DEF fileVars
    <3>5. QED BY <1>1, <2>1, <2>3, <2>4, <3>1, <3>2, <3>3, <3>4 DEF Typed
  <2>5. CASE e.kind \in {"Close", "Other"} /\ (ProcessClose(e) \/ PassOver(e))
    <3>1. PrintDebugW \/ PrintNothing BY <2>5 DEF ProcessClose, PassOver
    <3>2. UNCHANGED fileVars BY <2>5 DEF ProcessClose, PassOver
    <3>3. written' = Nothing BY <2>5 DEF ProcessClose, PassOver
    <3>4. QED BY <1>1, <2>1, <2>3, <2>5, <3>1, <3>2, <3>3 DEF Typed
  <2>6. QED BY <1>3, <2>2, <2>4, <2>5 DEF ProcessFileIoEvent
<1>4. CASE ProcessProcessEvent(e)
  <2>1. UNCHANGED fileVars /\ PrintDebugW /\ written' = Nothing /\ e.kind \in {"Start", "End"}
    BY <1>4 DEF ProcessProcessEvent
  <2>2. Learns(e) BY <2>1 DEF fileVars, Learns, Renews, Typed
  <2>3. ASSUME NEW map, DOMAIN map \subseteq Pids, NEW p \in Pids, NEW a
        PROVE  DOMAIN GetImageFileName(map, p, a) \subseteq Pids
    BY <2>3 DEF GetImageFileName, UpdateImageFileName, Put
  <2>4. DOMAIN process_map_ \subseteq Pids BY DEF Typed
  <2>5. CASE e.kind = "Start" /\ ProcessStart(e)
    <3>1. e.child \in Pids /\ e.pid \in Pids /\ e.adopted \in Pids
      BY <2>5 DEF Event, OnFiles, OnProcesses, Kinds
    <3>2. PICK a1 \in Answers(e.child), a2 \in Answers(e.pid), a3 \in Answers(e.adopted) :
            process_map_' =
              AddProcess(GetImageFileName(GetImageFileName(GetImageFileName(
                process_map_, e.child, a1), e.pid, a2), e.adopted, a3), e.child, e.pid, e.adopted)
      BY <2>5 DEF ProcessStart
    <3>3. DOMAIN GetImageFileName(process_map_, e.child, a1) \subseteq Pids BY <2>3, <2>4, <3>1
    <3>4. DOMAIN GetImageFileName(GetImageFileName(process_map_, e.child, a1), e.pid, a2)
            \subseteq Pids
      BY <2>3, <3>1, <3>3
    <3>5. DOMAIN GetImageFileName(GetImageFileName(GetImageFileName(
            process_map_, e.child, a1), e.pid, a2), e.adopted, a3) \subseteq Pids
      BY <2>3, <3>1, <3>4
    <3>6. DOMAIN process_map_' \subseteq Pids BY <3>1, <3>2, <3>5 DEF AddProcess, Put
    <3>7. QED BY <1>1, <2>1, <2>2, <3>6
  <2>6. CASE e.kind = "End" /\ ProcessEnd(e)
    <3>1. e.pid \in Pids BY <2>6 DEF Event, OnFiles, OnProcesses, Kinds
    <3>2. PICK a \in Answers(e.pid) :
            process_map_' = RemoveProcess(GetImageFileName(process_map_, e.pid, a), e.pid)
      BY <2>6 DEF ProcessEnd
    <3>3. DOMAIN GetImageFileName(process_map_, e.pid, a) \subseteq Pids BY <2>3, <2>4, <3>1
    <3>4. DOMAIN process_map_' \subseteq Pids BY <3>2, <3>3 DEF RemoveProcess
    <3>5. QED BY <1>1, <2>1, <2>2, <3>4
  <2>7. QED BY <1>4, <2>5, <2>6 DEF ProcessProcessEvent
<1>5. QED BY <1>2, <1>3, <1>4 DEF ProcessEvent

\* What is known of an object when a later event is handled is known of it after the
\* first one is.
LEMMA HeardAfter ==
  ASSUME Typed, stream # <<>>, Learns(stream[1]), NEW i \in 2 .. Len(stream) + 1,
         NEW o \in Objects, NEW f, Heard(stream, obj_to_name_map_, told, i, o, f),
         \A k \in 1 .. Len(stream) - 1 : stream'[k] = Tail(stream)[k]
  PROVE  Heard(stream', obj_to_name_map_', told', i - 1, o, f)
<1>1. stream \in Seq(Event) /\ Len(stream) \in Nat BY DEF Typed
<1>2. Renews(stream[1], o) /\ stream[1].file = f => Knows(obj_to_name_map_', told', o, f)
  BY DEF Learns
<1>3. ~Renews(stream[1], o) =>
        obj_to_name_map_'[o] = obj_to_name_map_[o] /\ told'[o] = told[o]
  BY DEF Learns
<1>4. Heard(Tail(stream), obj_to_name_map_', told', i - 1, o, f)
  BY <1>1, <1>2, <1>3, HeardTail
<1>5. \A k \in 1 .. (i - 1) - 1 : stream'[k] = Tail(stream)[k] BY <1>1
<1>6. i - 1 \in Nat BY <1>1
<1>7. QED BY <1>4, <1>5, <1>6, HeardSame

LEMMA ConsumerSteps == IInv /\ ProcessEvent => IInv'
<1> SUFFICES ASSUME IInv, ProcessEvent PROVE IInv'
  OBVIOUS
<1> DEFINE e == stream[1]
           n == Len(stream)
<1>1. Typed /\ stream # <<>> /\ stream \in Seq(Event) /\ n \in Nat \ {0}
  BY DEF IInv, Typed, ProcessEvent
<1>2. e \in Event /\ e = Head(stream) BY <1>1
<1>3. /\ PrintDebugW \/ PrintNothing
      /\ Learns(e)
      /\ DOMAIN process_map_' \subseteq Pids
      /\ UNCHANGED <<running, budget, gap>>
      /\ \/ written' = Nothing
         \/ /\ told' = told
            /\ e.kind = "Write" /\ written' = [event |-> e, path |-> obj_to_name_map_[e.object]]
  BY <1>1, <1>2, HandlerFacts
<1>4. /\ opened' \in FileStates /\ log' \in Logs
      /\ stream' \in Seq(Event) /\ Len(stream') <= Buffers
      /\ n - 1 <= Len(stream')
      /\ \A i \in 1 .. n - 1 : stream'[i] = Tail(stream)[i]
      /\ \A i \in n .. Len(stream') : stream'[i].announced = FALSE
      /\ \A o \in Objects :
           \/ opened'[o] = opened[o] /\ \A i \in n .. Len(stream') : ~Renews(stream'[i], o)
           \/ opened'[o].announced = FALSE
  BY <1>1, <1>3, PrintFacts
<1>5. Typed' BY <1>1, <1>3, <1>4 DEF Typed, Learns
<1>6. ASSUME NEW i \in 2 .. n + 1, NEW o \in Objects, NEW f,
             Heard(stream, obj_to_name_map_, told, i, o, f)
      PROVE  Heard(stream', obj_to_name_map_', told', i - 1, o, f)
  BY <1>1, <1>3, <1>4, <1>6, HeardAfter
<1>7. Waiting'
  <2> SUFFICES ASSUME NEW i \in 1 .. Len(stream'), stream'[i].kind = "Write", stream'[i].announced
               PROVE  Heard(stream', obj_to_name_map_', told', i, stream'[i].object,
                            stream'[i].file)
    BY DEF Waiting
  <2>1. i \in 1 .. n - 1 BY <1>1, <1>4
  <2>2. stream'[i] = stream[i + 1] /\ i + 1 \in 2 .. n + 1 /\ i + 1 \in 1 .. n
    BY <1>1, <1>4, <2>1
  <2>3. stream[i + 1].object \in Objects
    <3>1. stream[i + 1] \in Event BY <1>1, <2>2
    <3>2. QED BY <2>2, <3>1 DEF Event, OnFiles, OnProcesses
  <2>4. Heard(stream, obj_to_name_map_, told, i + 1, stream'[i].object, stream'[i].file)
    BY <2>2 DEF IInv, Waiting
  <2>5. Heard(stream', obj_to_name_map_', told', (i + 1) - 1, stream'[i].object, stream'[i].file)
    BY <1>6, <2>2, <2>3, <2>4
  <2>6. (i + 1) - 1 = i BY <2>1
  <2>7. QED BY <2>5, <2>6
<1>8. Standing'
  <2> SUFFICES ASSUME NEW o \in Objects, opened'[o].announced
               PROVE  Heard(stream', obj_to_name_map_', told', Len(stream') + 1, o,
                            opened'[o].file)
    BY DEF Standing
  <2>1. opened'[o] = opened[o] /\ \A i \in n .. Len(stream') : ~Renews(stream'[i], o)
    BY <1>4
  <2>2. Heard(stream, obj_to_name_map_, told, n + 1, o, opened'[o].file)
    BY <2>1 DEF IInv, Standing
  <2>3. n + 1 \in 2 .. n + 1 /\ (n + 1) - 1 = n BY <1>1
  <2>4. Heard(stream', obj_to_name_map_', told', n, o, opened'[o].file)
    BY <1>6, <2>2, <2>3
  <2>5. Len(stream') \in Nat BY <1>4
  <2>6. n \in Nat /\ Len(stream') + 1 \in Nat /\ n <= Len(stream') + 1 BY <1>1, <1>4, <2>5
  <2>7. \A i \in n .. (Len(stream') + 1) - 1 : ~Renews(stream'[i], o) BY <2>1, <2>5
  <2>8. QED BY <2>4, <2>6, <2>7, HeardLonger
<1>9. Attribution'
  <2>1. CASE written' = Nothing BY <2>1 DEF Attribution
  <2>2. CASE /\ told' = told /\ e.kind = "Write"
             /\ written' = [event |-> e, path |-> obj_to_name_map_[e.object]]
    <3>1. written'.event = e /\ written'.path = obj_to_name_map_[e.object] BY <2>2
    <3>2. ASSUME e.announced, told[e.object] PROVE obj_to_name_map_[e.object] = e.file
      <4>1. Heard(stream, obj_to_name_map_, told, 1, e.object, e.file)
        BY <1>1, <2>2, <3>2 DEF IInv, Waiting
      <4>2. ~Recent(stream, 1, e.object, e.file) BY DEF Recent
      <4>3. QED BY <3>2, <4>1, <4>2 DEF Heard, Knows
    <3>3. (IF Renamed(e) THEN e.file ELSE e.now) = e.file BY DEF Renamed
    <3>4. QED BY <2>2, <3>1, <3>2, <3>3 DEF Attribution
  <2>3. QED BY <1>3, <2>1, <2>2
<1>10. QED BY <1>5, <1>7, <1>8, <1>9 DEF IInv

-----------------------------------------------------------------------------
(* The theorems *)

LEMMA Inductive == IInv /\ [Next]_vars => IInv'
<1> SUFFICES ASSUME IInv, [Next]_vars PROVE IInv'
  OBVIOUS
<1>1. CASE Kernel BY <1>1, KernelSteps
<1>2. CASE ProcessEvent BY <1>2, ConsumerSteps
<1>3. CASE UNCHANGED vars
  BY <1>3 DEF vars, fileVars, processVars, IInv, Typed, Waiting, Standing, Attribution
<1>4. QED BY <1>1, <1>2, <1>3 DEF Next

\* In every reachable state the service will know the path every open object, and that of
\* every write that waits, was opened by, if the create event reached the session and is
\* accepted.
\* (ProcessFileIoEvent and MapObjectWithPath)
THEOREM Invariance == Spec => []IInv
BY Initially, Inductive, PTL DEF Spec

\* Every variable keeps its type, the session its capacity and the log its count, for
\* any capacity and threshold.
THEOREM TypeCorrect == Spec => []TypeOK
<1>1. IInv => TypeOK BY TypedImplies DEF IInv
<1>2. QED BY <1>1, Invariance, PTL

\* A write of a process is logged with the path of the file it changed, or with the one
\* its object was opened by if the file was renamed since, for any number of file objects
\* and files, however often an address is used again, as far as create events reached the
\* session and were accepted.  (ProcessFileIoEvent)
THEOREM WritesAttributed == Spec => []Attribution
<1>1. IInv => Attribution BY DEF IInv
<1>2. QED BY <1>1, Invariance, PTL

-----------------------------------------------------------------------------
(* The process cache *)

Ends(e, p) == e.kind = "End" /\ e.pid = p
Starts(e, p, process) ==
  e.kind = "Start" /\ e.child = p /\ e.pid = process.real /\ e.adopted = process.adopted

\* Events that begin or end the life of an id, and all that make an entry of it.
Turns(e, p) == Ends(e, p) \/ (e.kind = "Start" /\ e.child = p)
Mentions(e, p) == Turns(e, p) \/ (e.kind = "Start" /\ p \in {e.pid, e.adopted})

TrueOf(info, process) ==
  /\ info.image \in {process.image, Nulls, NoImage}
  /\ info.real = process.real /\ info.adopted = process.adopted

\* After the first i - 1 events of s there will be no entry of p ...
Absent(s, map, i, p) ==
  \/ \E j \in 1 .. i - 1 : Ends(s[j], p) /\ \A k \in j + 1 .. i - 1 : ~Mentions(s[k], p)
  \/ p \notin DOMAIN map /\ \A k \in 1 .. i - 1 : ~Mentions(s[k], p)

\* ... or what is known of it will be true of a process.
Truthful(s, map, i, p, process) ==
  \/ \E j \in 1 .. i - 1 : Starts(s[j], p, process) /\ \A k \in j + 1 .. i - 1 : ~Turns(s[k], p)
  \/ TrueOf(InfoOf(map, p), process) /\ \A k \in 1 .. i - 1 : ~Turns(s[k], p)

-----------------------------------------------------------------------------
(* Sequences of events, as the cache sees them *)

LEMMA AbsentSame ==
  ASSUME NEW s, NEW u, NEW map, NEW i \in Nat, NEW p,
         \A k \in 1 .. i - 1 : u[k] = s[k], Absent(s, map, i, p)
  PROVE  Absent(u, map, i, p)
<1>1. CASE p \notin DOMAIN map /\ \A k \in 1 .. i - 1 : ~Mentions(s[k], p)
  BY <1>1 DEF Absent
<1>2. ASSUME NEW j \in 1 .. i - 1, Ends(s[j], p), \A k \in j + 1 .. i - 1 : ~Mentions(s[k], p)
      PROVE  Absent(u, map, i, p)
  <2>1. ASSUME NEW k \in j + 1 .. i - 1 PROVE ~Mentions(u[k], p)
    <3>1. k \in 1 .. i - 1 OBVIOUS
    <3>2. QED BY <1>2, <3>1
  <2>2. Ends(u[j], p) BY <1>2
  <2>3. QED BY <2>1, <2>2 DEF Absent
<1>3. QED BY <1>1, <1>2 DEF Absent

LEMMA TruthfulSame ==
  ASSUME NEW s, NEW u, NEW map, NEW i \in Nat, NEW p, NEW process,
         \A k \in 1 .. i - 1 : u[k] = s[k], Truthful(s, map, i, p, process)
  PROVE  Truthful(u, map, i, p, process)
<1>1. CASE TrueOf(InfoOf(map, p), process) /\ \A k \in 1 .. i - 1 : ~Turns(s[k], p)
  BY <1>1 DEF Truthful
<1>2. ASSUME NEW j \in 1 .. i - 1, Starts(s[j], p, process),
             \A k \in j + 1 .. i - 1 : ~Turns(s[k], p)
      PROVE  Truthful(u, map, i, p, process)
  <2>1. ASSUME NEW k \in j + 1 .. i - 1 PROVE ~Turns(u[k], p)
    <3>1. k \in 1 .. i - 1 OBVIOUS
    <3>2. QED BY <1>2, <3>1
  <2>2. Starts(u[j], p, process) BY <1>2
  <2>3. QED BY <2>1, <2>2 DEF Truthful
<1>3. QED BY <1>1, <1>2 DEF Truthful

\* Events that do not mention the id may follow, ...
LEMMA AbsentLonger ==
  ASSUME NEW s, NEW map, NEW i \in Nat, NEW n \in Nat, NEW p, i <= n,
         \A k \in i .. n - 1 : ~Mentions(s[k], p), Absent(s, map, i, p)
  PROVE  Absent(s, map, n, p)
<1>1. CASE p \notin DOMAIN map /\ \A k \in 1 .. i - 1 : ~Mentions(s[k], p)
  <2>1. ASSUME NEW k \in 1 .. n - 1 PROVE ~Mentions(s[k], p)
    <3>1. k \in 1 .. i - 1 \/ k \in i .. n - 1 OBVIOUS
    <3>2. QED BY <1>1, <3>1
  <2>2. QED BY <1>1, <2>1 DEF Absent
<1>2. ASSUME NEW j \in 1 .. i - 1, Ends(s[j], p), \A k \in j + 1 .. i - 1 : ~Mentions(s[k], p)
      PROVE  Absent(s, map, n, p)
  <2>1. ASSUME NEW k \in j + 1 .. n - 1 PROVE ~Mentions(s[k], p)
    <3>1. k \in j + 1 .. i - 1 \/ k \in i .. n - 1 OBVIOUS
    <3>2. QED BY <1>2, <3>1
  <2>2. j \in 1 .. n - 1 OBVIOUS
  <2>3. QED BY <1>2, <2>1, <2>2 DEF Absent
<1>3. QED BY <1>1, <1>2 DEF Absent

\* ... or that neither begin nor end its life.
LEMMA TruthfulLonger ==
  ASSUME NEW s, NEW map, NEW i \in Nat, NEW n \in Nat, NEW p, NEW process, i <= n,
         \A k \in i .. n - 1 : ~Turns(s[k], p), Truthful(s, map, i, p, process)
  PROVE  Truthful(s, map, n, p, process)
<1>1. CASE TrueOf(InfoOf(map, p), process) /\ \A k \in 1 .. i - 1 : ~Turns(s[k], p)
  <2>1. ASSUME NEW k \in 1 .. n - 1 PROVE ~Turns(s[k], p)
    <3>1. k \in 1 .. i - 1 \/ k \in i .. n - 1 OBVIOUS
    <3>2. QED BY <1>1, <3>1
  <2>2. QED BY <1>1, <2>1 DEF Truthful
<1>2. ASSUME NEW j \in 1 .. i - 1, Starts(s[j], p, process),
             \A k \in j + 1 .. i - 1 : ~Turns(s[k], p)
      PROVE  Truthful(s, map, n, p, process)
  <2>1. ASSUME NEW k \in j + 1 .. n - 1 PROVE ~Turns(s[k], p)
    <3>1. k \in j + 1 .. i - 1 \/ k \in i .. n - 1 OBVIOUS
    <3>2. QED BY <1>2, <3>1
  <2>2. j \in 1 .. n - 1 OBVIOUS
  <2>3. QED BY <1>2, <2>1, <2>2 DEF Truthful
<1>3. QED BY <1>1, <1>2 DEF Truthful

\* The first event is handled, and the map is what it made of it.
LEMMA AbsentTail ==
  ASSUME NEW S, NEW s \in Seq(S), s # <<>>, NEW i \in 2 .. Len(s) + 1, NEW p,
         NEW map, NEW map2, Absent(s, map, i, p),
         Ends(s[1], p) => p \notin DOMAIN map2,
         ~Mentions(s[1], p) /\ p \notin DOMAIN map => p \notin DOMAIN map2
  PROVE  Absent(Tail(s), map2, i - 1, p)
<1> DEFINE t == Tail(s)
<1>1. \A k \in 1 .. i - 2 : t[k] = s[k + 1] OBVIOUS
<1> HIDE DEF t
<1>2. ASSUME NEW j \in 1 .. i - 1, \A k \in j + 1 .. i - 1 : ~Mentions(s[k], p)
      PROVE  \A k \in j .. i - 2 : ~Mentions(t[k], p)
  <2> TAKE k \in j .. i - 2
  <2>1. k \in 1 .. i - 2 /\ k + 1 \in j + 1 .. i - 1 OBVIOUS
  <2>2. ~Mentions(s[k + 1], p) BY <1>2, <2>1
  <2>3. t[k] = s[k + 1] BY <1>1, <2>1
  <2>4. QED BY <2>2, <2>3
<1>3. CASE p \notin DOMAIN map /\ \A k \in 1 .. i - 1 : ~Mentions(s[k], p)
  <2>1. 1 \in 1 .. i - 1 /\ \A k \in 1 + 1 .. i - 1 : ~Mentions(s[k], p) BY <1>3
  <2>2. p \notin DOMAIN map2 BY <1>3, <2>1
  <2>3. \A k \in 1 .. i - 2 : ~Mentions(t[k], p) BY <1>2, <2>1
  <2>4. QED BY <2>2, <2>3 DEF Absent, t
<1>4. ASSUME NEW j \in 1 .. i - 1, Ends(s[j], p), \A k \in j + 1 .. i - 1 : ~Mentions(s[k], p)
      PROVE  Absent(Tail(s), map2, i - 1, p)
  <2>1. \A k \in j .. i - 2 : ~Mentions(t[k], p) BY <1>2, <1>4
  <2>2. CASE j = 1 BY <1>4, <2>1, <2>2 DEF Absent, t
  <2>3. CASE j > 1
    <3>1. j - 1 \in 1 .. (i - 1) - 1 BY <2>3
    <3>2. t[j - 1] = s[j] BY <1>1, <3>1
    <3>3. \A k \in (j - 1) + 1 .. (i - 1) - 1 : ~Mentions(t[k], p) BY <2>1
    <3>4. QED BY <1>4, <3>1, <3>2, <3>3 DEF Absent, t
  <2>4. QED BY <2>2, <2>3
<1>5. QED BY <1>3, <1>4 DEF Absent

LEMMA TruthfulTail ==
  ASSUME NEW S, NEW s \in Seq(S), s # <<>>, NEW i \in 2 .. Len(s) + 1, NEW p, NEW process,
         NEW map, NEW map2, Truthful(s, map, i, p, process),
         Starts(s[1], p, process) => TrueOf(InfoOf(map2, p), process),
         ~Turns(s[1], p) /\ TrueOf(InfoOf(map, p), process) => TrueOf(InfoOf(map2, p), process)
  PROVE  Truthful(Tail(s), map2, i - 1, p, process)
<1> DEFINE t == Tail(s)
<1>1. \A k \in 1 .. i - 2 : t[k] = s[k + 1] OBVIOUS
<1> HIDE DEF t
<1>2. ASSUME NEW j \in 1 .. i - 1, \A k \in j + 1 .. i - 1 : ~Turns(s[k], p)
      PROVE  \A k \in j .. i - 2 : ~Turns(t[k], p)
  <2> TAKE k \in j .. i - 2
  <2>1. k \in 1 .. i - 2 /\ k + 1 \in j + 1 .. i - 1 OBVIOUS
  <2>2. ~Turns(s[k + 1], p) BY <1>2, <2>1
  <2>3. t[k] = s[k + 1] BY <1>1, <2>1
  <2>4. QED BY <2>2, <2>3
<1>3. CASE TrueOf(InfoOf(map, p), process) /\ \A k \in 1 .. i - 1 : ~Turns(s[k], p)
  <2>1. 1 \in 1 .. i - 1 /\ \A k \in 1 + 1 .. i - 1 : ~Turns(s[k], p) BY <1>3
  <2>2. TrueOf(InfoOf(map2, p), process) BY <1>3, <2>1
  <2>3. \A k \in 1 .. i - 2 : ~Turns(t[k], p) BY <1>2, <2>1
  <2>4. QED BY <2>2, <2>3 DEF Truthful, t
<1>4. ASSUME NEW j \in 1 .. i - 1, Starts(s[j], p, process),
             \A k \in j + 1 .. i - 1 : ~Turns(s[k], p)
      PROVE  Truthful(Tail(s), map2, i - 1, p, process)
  <2>1. \A k \in j .. i - 2 : ~Turns(t[k], p) BY <1>2, <1>4
  <2>2. CASE j = 1 BY <1>4, <2>1, <2>2 DEF Truthful, t
  <2>3. CASE j > 1
    <3>1. j - 1 \in 1 .. (i - 1) - 1 BY <2>3
    <3>2. t[j - 1] = s[j] BY <1>1, <3>1
    <3>3. \A k \in (j - 1) + 1 .. (i - 1) - 1 : ~Turns(t[k], p) BY <2>1
    <3>4. QED BY <1>4, <3>1, <3>2, <3>3 DEF Truthful, t
  <2>4. QED BY <2>2, <2>3
<1>5. QED BY <1>3, <1>4 DEF Truthful

-----------------------------------------------------------------------------
(* What the cache will hold *)

IsInfo(info) == info = [real |-> info.real, adopted |-> info.adopted, image |-> info.image]
Entries(map) == \A p \in DOMAIN map : IsInfo(map[p])

\* When all is handled, the cache will have nothing of an id that no process has, ...
Deaths ==
  \A p \in Pids : running[p] = Gone => Absent(stream, process_map_, Len(stream) + 1, p)

\* ... what is true of the others, ...
Lives ==
  \A p \in Pids : running[p] # Gone =>
    Truthful(stream, process_map_, Len(stream) + 1, p, running[p])

\* ... and nothing of a process that starts when its start is handled.
Births ==
  \A i \in 1 .. Len(stream) :
    LET e == stream[i]
    IN  e.kind = "Start" => /\ Absent(stream, process_map_, i, e.child)
                            /\ e.child \notin {e.pid, e.adopted}

CacheInv == Entries(process_map_) /\ (~gap => Deaths /\ Lives /\ Births)

LEMMA InitiallySettled == Init => CacheInv
<1> SUFFICES ASSUME Init PROVE CacheInv
  OBVIOUS
<1>1. process_map_ = [p \in {} |-> NewInfo] /\ stream = <<>> BY DEF Init
<1>2. Len(stream) = 0 BY <1>1
<1>3. DOMAIN process_map_ = {} BY <1>1
<1>4. Entries(process_map_) BY <1>3 DEF Entries
<1>5. Deaths BY <1>2, <1>3 DEF Deaths, Absent
<1>6. Births BY <1>2 DEF Births
<1>7. Lives
  <2>1. PICK old \in SUBSET Pids : \E image \in [old -> Images] :
          running = [p \in Pids |->
            IF p \in old THEN [image |-> image[p], real |-> NoParent, adopted |-> NoParent]
            ELSE Gone]
    BY DEF Init
  <2>2. ASSUME NEW p \in Pids, running[p] # Gone
        PROVE  running[p].real = NoParent /\ running[p].adopted = NoParent
    BY <2>1, <2>2
  <2>3. ASSUME NEW p \in Pids PROVE InfoOf(process_map_, p) = NewInfo
    BY <1>3 DEF InfoOf
  <2>4. \A p \in Pids : running[p] # Gone => TrueOf(InfoOf(process_map_, p), running[p])
    BY <2>2, <2>3 DEF TrueOf, NewInfo
  <2>5. QED BY <1>2, <2>4 DEF Lives, Truthful
<1>8. QED BY <1>4, <1>5, <1>6, <1>7 DEF CacheInv

-----------------------------------------------------------------------------
(* The kernel, as the cache sees it *)

\* An event is put behind the others, or lost.
LEMMA Appended ==
  ASSUME Typed, NEW e \in Event, stream' = Emitted(stream, <<e>>)
  PROVE  /\ Len(stream) \in Nat /\ Len(stream') \in Nat /\ Len(stream) <= Len(stream')
         /\ \A i \in 1 .. Len(stream) : stream'[i] = stream[i]
         /\ \A i \in Len(stream) + 1 .. Len(stream') : i = Len(stream) + 1 /\ stream'[i] = e
         /\ Len(stream) # Buffers => Len(stream') = Len(stream) + 1
<1>1. stream \in Seq(Event) /\ Len(stream) \in Nat /\ Len(stream) <= Buffers BY DEF Typed
<1>2. <<e>> \in Seq(Event) /\ Len(<<e>>) = 1 /\ <<e>>[1] = e /\ <<e>> # <<>> OBVIOUS
<1>3. /\ stream' \in Seq(Event) /\ Len(stream) <= Len(stream')
      /\ \A i \in 1 .. Len(stream) : stream'[i] = stream[i]
      /\ \A i \in Len(stream) + 1 .. Len(stream') :
           i - Len(stream) \in 1 .. Len(<<e>>) /\ stream'[i] = <<e>>[i - Len(stream)]
      /\ Len(stream) < Buffers => Len(stream') > Len(stream)
  BY <1>1, <1>2, EmittedFacts
<1>4. Len(stream') \in Nat BY <1>3
<1>5. \A i \in Len(stream) + 1 .. Len(stream') : i = Len(stream) + 1 /\ stream'[i] = e
  BY <1>1, <1>2, <1>3
<1>6. Buffers \in Nat BY FileEventsAssumption
<1>7. Len(stream) # Buffers => Len(stream') = Len(stream) + 1
  BY <1>1, <1>3, <1>4, <1>5, <1>6
<1>8. QED BY <1>1, <1>3, <1>4, <1>5, <1>7

\* Events that wait keep what was said of them when others follow.
LEMMA BirthsKept ==
  ASSUME Births, process_map_' = process_map_, Len(stream) \in Nat, Len(stream') \in Nat,
         \A i \in 1 .. Len(stream) : stream'[i] = stream[i]
  PROVE  \A i \in 1 .. Len(stream) :
           stream'[i].kind = "Start" =>
             /\ Absent(stream', process_map_, i, stream'[i].child)
             /\ stream'[i].child \notin {stream'[i].pid, stream'[i].adopted}
<1> SUFFICES ASSUME NEW i \in 1 .. Len(stream), stream'[i].kind = "Start"
             PROVE  /\ Absent(stream', process_map_, i, stream'[i].child)
                    /\ stream'[i].child \notin {stream'[i].pid, stream'[i].adopted}
  OBVIOUS
<1>1. stream'[i] = stream[i] OBVIOUS
<1>2. /\ Absent(stream, process_map_, i, stream[i].child)
      /\ stream[i].child \notin {stream[i].pid, stream[i].adopted}
  BY <1>1 DEF Births
<1>3. \A k \in 1 .. i - 1 : stream'[k] = stream[k] BY <1>1
<1>4. i \in Nat OBVIOUS
<1>5. Absent(stream', process_map_, i, stream[i].child) BY <1>2, <1>3, <1>4, AbsentSame
<1>6. QED BY <1>1, <1>2, <1>5

\* An event of a file.
LEMMA FileEventSettled ==
  ASSUME Typed, CacheInv, NEW e \in Event, e.kind \in Kinds, stream' = Emitted(stream, <<e>>),
         running' = running, process_map_' = process_map_, gap' = gap
  PROVE  CacheInv'
<1> DEFINE n == Len(stream)
           m == Len(stream')
<1>1. /\ n \in Nat /\ m \in Nat /\ n <= m
      /\ \A i \in 1 .. n : stream'[i] = stream[i]
      /\ \A i \in n + 1 .. m : i = n + 1 /\ stream'[i] = e
  BY Appended
<1>2. \A p : ~Mentions(e, p) /\ ~Turns(e, p) BY DEF Mentions, Turns, Ends, Kinds
<1>3. \A p : \A i \in n + 1 .. m : ~Mentions(stream'[i], p) /\ ~Turns(stream'[i], p)
  BY <1>1, <1>2
<1>4. Entries(process_map_)' BY DEF CacheInv, Entries
<1> SUFFICES ASSUME ~gap PROVE (Deaths /\ Lives /\ Births)'
  BY <1>4 DEF CacheInv
<1>5. Deaths /\ Lives /\ Births BY DEF CacheInv
<1> HIDE DEF n, m
<1>6. n + 1 \in Nat /\ m + 1 \in Nat /\ n + 1 <= m + 1 BY <1>1
<1>7. \A k \in 1 .. (n + 1) - 1 : stream'[k] = stream[k] BY <1>1
<1>8. \A p : \A i \in n + 1 .. (m + 1) - 1 : ~Mentions(stream'[i], p) /\ ~Turns(stream'[i], p)
  BY <1>1, <1>3
<1>9. ASSUME NEW p \in Pids, running[p] = Gone PROVE Absent(stream', process_map_, m + 1, p)
  <2>1. Absent(stream, process_map_, n + 1, p) BY <1>5, <1>9 DEF Deaths, n
  <2>2. Absent(stream', process_map_, n + 1, p) BY <1>6, <1>7, <2>1, AbsentSame
  <2>3. QED BY <1>6, <1>8, <2>2, AbsentLonger
<1>10. ASSUME NEW p \in Pids, running[p] # Gone
       PROVE  Truthful(stream', process_map_, m + 1, p, running[p])
  <2>1. Truthful(stream, process_map_, n + 1, p, running[p]) BY <1>5, <1>10 DEF Lives, n
  <2>2. Truthful(stream', process_map_, n + 1, p, running[p])
    BY <1>6, <1>7, <2>1, TruthfulSame
  <2>3. QED BY <1>6, <1>8, <2>2, TruthfulLonger
<1>11. \A i \in 1 .. n :
         stream'[i].kind = "Start" =>
           /\ Absent(stream', process_map_, i, stream'[i].child)
           /\ stream'[i].child \notin {stream'[i].pid, stream'[i].adopted}
  BY <1>1, <1>5, BirthsKept DEF n, m
<1>12. \A i \in n + 1 .. m : stream'[i].kind # "Start" BY <1>1 DEF Kinds
<1>13. \A i \in 1 .. m : i \in 1 .. n \/ i \in n + 1 .. m BY <1>1
<1>14. Births' BY <1>11, <1>12, <1>13 DEF Births, m
<1>15. Deaths' BY <1>9 DEF Deaths, m
<1>16. Lives' BY <1>10 DEF Lives, m
<1>17. QED BY <1>14, <1>15, <1>16

LEMMA StartSettled ==
  ASSUME Typed, CacheInv, process_map_' = process_map_,
         NEW real \in Pids, NEW adopted \in Pids, NEW p \in Pids, NEW image \in Images,
         StartProcess(real, adopted, p, image)
  PROVE  CacheInv'
<1> DEFINE n == Len(stream)
           m == Len(stream')
           e == StartEvent(real, p, adopted)
<1>0. e \in Event BY DEF StartEvent, Event, OnProcesses
<1>1. stream' = Emitted(stream, <<e>>) BY DEF StartProcess
<1>2. running' = [running EXCEPT ![p] = [image |-> image, real |-> real, adopted |-> adopted]]
  BY DEF StartProcess
<1>3. running[real] # Gone /\ running[adopted] # Gone /\ running[p] = Gone BY DEF StartProcess
<1>4. e.kind = "Start" /\ e.child = p /\ e.pid = real /\ e.adopted = adopted BY DEF StartEvent
<1>5. gap' = (gap \/ Len(stream) = Buffers) BY DEF StartProcess
<1> HIDE DEF e
<1>6. /\ n \in Nat /\ m \in Nat /\ n <= m
      /\ \A i \in 1 .. n : stream'[i] = stream[i]
      /\ \A i \in n + 1 .. m : i = n + 1 /\ stream'[i] = e
      /\ n # Buffers => m = n + 1
  BY <1>0, <1>1, Appended
<1>7. Entries(process_map_)' BY DEF CacheInv, Entries
<1> SUFFICES ASSUME ~gap' PROVE (Deaths /\ Lives /\ Births)'
  BY <1>7 DEF CacheInv
<1>8. ~gap /\ n # Buffers BY <1>5
<1>9. Deaths /\ Lives /\ Births BY <1>8 DEF CacheInv
<1> HIDE DEF n, m
<1>10. m = n + 1 /\ stream'[n + 1] = e /\ n + 1 \in 1 .. m BY <1>6, <1>8
<1>11. n + 1 \in Nat /\ m + 1 \in Nat /\ n + 1 <= m + 1 BY <1>6
<1>12. \A k \in 1 .. (n + 1) - 1 : stream'[k] = stream[k] BY <1>6
<1>13. \A i \in n + 1 .. (m + 1) - 1 : stream'[i] = e BY <1>6
<1>14. running'[p] = [image |-> image, real |-> real, adopted |-> adopted]
       /\ \A q \in Pids \ {p} : running'[q] = running[q]
  BY <1>2 DEF Typed
<1>15. running'[p] # Gone BY <1>14, FileEventsAssumption DEF Gone
<1>16. ASSUME NEW q \in Pids, running'[q] = Gone
       PROVE  Absent(stream', process_map_, m + 1, q)
  <2>1. q # p /\ running[q] = Gone BY <1>14, <1>15, <1>16
  <2>2. ~Mentions(e, q) BY <1>3, <1>4, <2>1 DEF Mentions, Turns, Ends
  <2>3. Absent(stream, process_map_, n + 1, q) BY <1>9, <2>1 DEF Deaths, n
  <2>4. Absent(stream', process_map_, n + 1, q) BY <1>11, <1>12, <2>3, AbsentSame
  <2>5. \A i \in n + 1 .. (m + 1) - 1 : ~Mentions(stream'[i], q) BY <1>13, <2>2
  <2>6. QED BY <1>11, <2>4, <2>5, AbsentLonger
<1>17. ASSUME NEW q \in Pids, running'[q] # Gone
       PROVE  Truthful(stream', process_map_, m + 1, q, running'[q])
  <2>1. CASE q = p
    <3>1. Starts(stream'[n + 1], q, running'[q]) BY <1>4, <1>10, <1>14, <2>1 DEF Starts
    <3>2. n + 1 \in 1 .. (m + 1) - 1 /\ \A k \in (n + 1) + 1 .. (m + 1) - 1 : FALSE
      BY <1>6, <1>10
    <3>3. QED BY <3>1, <3>2 DEF Truthful
  <2>2. CASE q # p
    <3>1. running'[q] = running[q] BY <1>14, <2>2
    <3>2. Truthful(stream, process_map_, n + 1, q, running'[q])
      BY <1>9, <1>17, <3>1 DEF Lives, n
    <3>3. Truthful(stream', process_map_, n + 1, q, running'[q])
      BY <1>11, <1>12, <3>2, TruthfulSame
    <3>4. ~Turns(e, q) BY <1>4, <2>2 DEF Turns, Ends
    <3>5. \A i \in n + 1 .. (m + 1) - 1 : ~Turns(stream'[i], q) BY <1>13, <3>4
    <3>6. QED BY <1>11, <3>3, <3>5, TruthfulLonger
  <2>3. QED BY <2>1, <2>2
<1>18. \A i \in 1 .. n :
         stream'[i].kind = "Start" =>
           /\ Absent(stream', process_map_, i, stream'[i].child)
           /\ stream'[i].child \notin {stream'[i].pid, stream'[i].adopted}
  BY <1>6, <1>9, BirthsKept DEF n, m
<1>19. Absent(stream', process_map_, n + 1, p)
  <2>1. Absent(stream, process_map_, n + 1, p) BY <1>3, <1>9 DEF Deaths, n
  <2>2. QED BY <1>11, <1>12, <2>1, AbsentSame
<1>20. p \notin {real, adopted} BY <1>3
<1>21. \A i \in 1 .. m : i \in 1 .. n \/ i = n + 1 BY <1>6, <1>10
<1>22. Births' BY <1>4, <1>10, <1>18, <1>19, <1>20, <1>21 DEF Births, m
<1>23. Deaths' BY <1>16 DEF Deaths, m
<1>24. Lives' BY <1>17 DEF Lives, m
<1>25. QED BY <1>22, <1>23, <1>24

LEMMA EndSettled ==
  ASSUME Typed, CacheInv, process_map_' = process_map_, NEW p \in Pids, EndProcess(p)
  PROVE  CacheInv'
<1> DEFINE n == Len(stream)
           m == Len(stream')
           e == EndEvent(p)
<1>0. e \in Event BY DEF EndEvent, Event, OnProcesses
<1>1. stream' = Emitted(stream, <<e>>) BY DEF EndProcess
<1>2. running' = [running EXCEPT ![p] = Gone] BY DEF EndProcess
<1>4. e.kind = "End" /\ e.pid = p BY DEF EndEvent
<1>5. gap' = (gap \/ Len(stream) = Buffers) BY DEF EndProcess
<1> HIDE DEF e
<1>6. /\ n \in Nat /\ m \in Nat /\ n <= m
      /\ \A i \in 1 .. n : stream'[i] = stream[i]
      /\ \A i \in n + 1 .. m : i = n + 1 /\ stream'[i] = e
      /\ n # Buffers => m = n + 1
  BY <1>0, <1>1, Appended
<1>7. Entries(process_map_)' BY DEF CacheInv, Entries
<1> SUFFICES ASSUME ~gap' PROVE (Deaths /\ Lives /\ Births)'
  BY <1>7 DEF CacheInv
<1>8. ~gap /\ n # Buffers BY <1>5
<1>9. Deaths /\ Lives /\ Births BY <1>8 DEF CacheInv
<1> HIDE DEF n, m
<1>10. m = n + 1 /\ stream'[n + 1] = e /\ n + 1 \in 1 .. m BY <1>6, <1>8
<1>11. n + 1 \in Nat /\ m + 1 \in Nat /\ n + 1 <= m + 1 BY <1>6
<1>12. \A k \in 1 .. (n + 1) - 1 : stream'[k] = stream[k] BY <1>6
<1>13. \A i \in n + 1 .. (m + 1) - 1 : stream'[i] = e BY <1>6
<1>14. running'[p] = Gone /\ \A q \in Pids \ {p} : running'[q] = running[q] BY <1>2 DEF Typed
<1>15. \A q : q # p => ~Mentions(e, q) /\ ~Turns(e, q) BY <1>4 DEF Mentions, Turns, Ends
<1>16. ASSUME NEW q \in Pids, running'[q] = Gone
       PROVE  Absent(stream', process_map_, m + 1, q)
  <2>1. CASE q = p
    <3>1. Ends(stream'[n + 1], q) BY <1>4, <1>10, <2>1 DEF Ends
    <3>2. n + 1 \in 1 .. (m + 1) - 1 /\ \A k \in (n + 1) + 1 .. (m + 1) - 1 : FALSE
      BY <1>6, <1>10
    <3>3. QED BY <3>1, <3>2 DEF Absent
  <2>2. CASE q # p
    <3>1. running[q] = Gone BY <1>14, <1>16, <2>2
    <3>2. Absent(stream, process_map_, n + 1, q) BY <1>9, <3>1 DEF Deaths, n
    <3>3. Absent(stream', process_map_, n + 1, q) BY <1>11, <1>12, <3>2, AbsentSame
    <3>4. \A i \in n + 1 .. (m + 1) - 1 : ~Mentions(stream'[i], q) BY <1>13, <1>15, <2>2
    <3>5. QED BY <1>11, <3>3, <3>4, AbsentLonger
  <2>3. QED BY <2>1, <2>2
<1>17. ASSUME NEW q \in Pids, running'[q] # Gone
       PROVE  Truthful(stream', process_map_, m + 1, q, running'[q])
  <2>1. q # p /\ running'[q] = running[q] BY <1>14, <1>17
  <2>2. Truthful(stream, process_map_, n + 1, q, running'[q])
    BY <1>9, <1>17, <2>1 DEF Lives, n
  <2>3. Truthful(stream', process_map_, n + 1, q, running'[q])
    BY <1>11, <1>12, <2>2, TruthfulSame
  <2>4. \A i \in n + 1 .. (m + 1) - 1 : ~Turns(stream'[i], q) BY <1>13, <1>15, <2>1
  <2>5. QED BY <1>11, <2>3, <2>4, TruthfulLonger
<1>18. \A i \in 1 .. n :
         stream'[i].kind = "Start" =>
           /\ Absent(stream', process_map_, i, stream'[i].child)
           /\ stream'[i].child \notin {stream'[i].pid, stream'[i].adopted}
  BY <1>6, <1>9, BirthsKept DEF n, m
<1>19. \A i \in 1 .. m : i \in 1 .. n \/ i = n + 1 BY <1>6, <1>10
<1>20. Births' BY <1>4, <1>10, <1>18, <1>19 DEF Births, m
<1>21. Deaths' BY <1>16 DEF Deaths, m
<1>22. Lives' BY <1>17 DEF Lives, m
<1>23. QED BY <1>20, <1>21, <1>22

\* A session that ends without a loss had no process event.
LEMMA LossSettled ==
  ASSUME Typed, CacheInv, process_map_' = process_map_, LoseSession
  PROVE  CacheInv'
<1> DEFINE lost == {stream[i] : i \in DOMAIN stream}
<1>1. stream' = <<>> /\ running' = running BY DEF LoseSession
<1>2. gap' = (gap \/ \E e \in lost : e.kind \in {"Start", "End"}) BY DEF LoseSession
<1>3. Entries(process_map_)' BY DEF CacheInv, Entries
<1> SUFFICES ASSUME ~gap' PROVE (Deaths /\ Lives /\ Births)'
  BY <1>3 DEF CacheInv
<1>4. Deaths /\ Lives /\ Births /\ \A e \in lost : e.kind \notin {"Start", "End"}
  BY <1>2 DEF CacheInv
<1>5. Len(stream) \in Nat /\ DOMAIN stream = 1 .. Len(stream) BY DEF Typed
<1>6. \A p : \A k \in 1 .. Len(stream) : ~Mentions(stream[k], p) /\ ~Turns(stream[k], p)
  <2> TAKE p
  <2> TAKE k \in 1 .. Len(stream)
  <2>1. stream[k] \in lost BY <1>5
  <2>2. QED BY <1>4, <2>1 DEF Mentions, Turns, Ends
<1>7. Len(stream') = 0 BY <1>1
<1>8. \A p \in Pids : running[p] = Gone => p \notin DOMAIN process_map_
  BY <1>4, <1>5, <1>6 DEF Deaths, Absent, Mentions, Turns
<1>9. \A p \in Pids : running[p] # Gone => TrueOf(InfoOf(process_map_, p), running[p])
  <2> SUFFICES ASSUME NEW p \in Pids, running[p] # Gone
               PROVE  TrueOf(InfoOf(process_map_, p), running[p])
    OBVIOUS
  <2>1. Truthful(stream, process_map_, Len(stream) + 1, p, running[p]) BY <1>4 DEF Lives
  <2>2. \A j \in 1 .. Len(stream) : ~Starts(stream[j], p, running[p])
    BY <1>6 DEF Starts, Turns
  <2>3. QED BY <1>5, <2>1, <2>2 DEF Truthful
<1>10. Deaths' BY <1>1, <1>7, <1>8 DEF Deaths, Absent
<1>11. Lives' BY <1>1, <1>7, <1>9 DEF Lives, Truthful
<1>12. Births' BY <1>7 DEF Births
<1>13. QED BY <1>10, <1>11, <1>12

LEMMA KernelSettled == IInv /\ CacheInv /\ Kernel => CacheInv'
<1> SUFFICES ASSUME IInv, CacheInv, Kernel PROVE CacheInv'
  OBVIOUS
<1>1. Typed /\ process_map_' = process_map_ BY KernelFrame DEF IInv
<1>2. ASSUME NEW e \in OnFiles, stream' = Emitted(stream, <<e>>), running' = running, gap' = gap
      PROVE  CacheInv'
  <2>1. e \in Event /\ e.kind \in Kinds BY DEF Event, OnFiles
  <2>2. QED BY <1>1, <1>2, <2>1, FileEventSettled
<1>3. ASSUME NEW o \in Objects, NEW f \in Watched \cup {Elsewhere}, OpenFile(o, f) PROVE CacheInv'
  <2>1. FileEvent("Create", Another, o, Opened(f, FALSE)) \in OnFiles
    BY DEF FileEvent, Opened, OnFiles, Kinds, Files
  <2>2. QED BY <1>2, <1>3, <2>1 DEF OpenFile
<1>4. ASSUME NEW o \in Objects, NEW p \in {Another, System}, WriteFile(p, o) PROVE CacheInv'
  <2> DEFINE e == IF p = System THEN ObjectEvent("Write", p, o)
                  ELSE FileEvent("Write", p, o, opened[o])
  <2>1. opened[o] \in FileState BY <1>1 DEF Typed, FileStates
  <2>2. e \in OnFiles BY <2>1 DEF FileEvent, ObjectEvent, Closed, FileState, OnFiles, Kinds
  <2>3. stream' = Emitted(stream, <<e>>) /\ running' = running /\ gap' = gap
    BY <1>4 DEF WriteFile
  <2> HIDE DEF e
  <2>4. QED BY <1>2, <2>2, <2>3
<1>5. ASSUME NEW o \in Objects, CloseFile(o) PROVE CacheInv'
  <2>1. ObjectEvent("Close", Another, o) \in OnFiles BY DEF ObjectEvent, FileEvent, Closed, OnFiles, Kinds
  <2>2. QED BY <1>2, <1>5, <2>1 DEF CloseFile
<1>6. ASSUME NEW o \in Objects, OtherOperation(o) PROVE CacheInv'
  <2>1. ObjectEvent("Other", Another, o) \in OnFiles BY DEF ObjectEvent, FileEvent, Closed, OnFiles, Kinds
  <2>2. QED BY <1>2, <1>6, <2>1 DEF OtherOperation
<1>7. ASSUME NEW o \in Objects, NEW g \in Watched \cup {Elsewhere}, RenameFile(o, g)
       PROVE  CacheInv'
  <2>1. ObjectEvent("Other", Another, o) \in OnFiles
    BY DEF ObjectEvent, FileEvent, Closed, OnFiles, Kinds
  <2>2. QED BY <1>2, <1>7, <2>1 DEF RenameFile
<1>8. ASSUME NEW real \in Pids, NEW adopted \in Pids, NEW p \in Pids, NEW image \in Images,
             StartProcess(real, adopted, p, image)
      PROVE  CacheInv'
  BY <1>1, <1>8, StartSettled
<1>9. ASSUME NEW p \in Pids, EndProcess(p) PROVE CacheInv'
  BY <1>1, <1>9, EndSettled
<1>10. CASE LoseSession BY <1>1, <1>10, LossSettled
<1>11. QED BY <1>3, <1>4, <1>5, <1>6, <1>7, <1>8, <1>9, <1>10 DEF Kernel

-----------------------------------------------------------------------------
(* The consumer, as the cache sees it *)

\* An entry with other values, of whatever types they are.
LEMMA ImageAltered ==
  ASSUME NEW info, IsInfo(info), NEW image
  PROVE  [info EXCEPT !.image = image] =
           [real |-> info.real, adopted |-> info.adopted, image |-> image]
<1> SUFFICES ASSUME NEW R, NEW D, NEW I, info \in [real : R, adopted : D, image : I], image \in I
             PROVE  [info EXCEPT !.image = image] =
                      [real |-> info.real, adopted |-> info.adopted, image |-> image]
  <2>1. info = [real |-> info.real, adopted |-> info.adopted, image |-> info.image] BY DEF IsInfo
  <2>2. [real |-> info.real, adopted |-> info.adopted, image |-> info.image]
          \in [real : {info.real}, adopted : {info.adopted}, image : {info.image, image}]
    OBVIOUS
  <2>3. info \in [real : {info.real}, adopted : {info.adopted}, image : {info.image, image}]
    BY <2>1, <2>2, Zenon
  <2>4. image \in {info.image, image} OBVIOUS
  <2>5. QED BY <2>3, <2>4, Zenon
<1>1. QED OBVIOUS

WithParents(info, real, adopted) == [info EXCEPT !.real = real, !.adopted = adopted]

LEMMA ParentsAltered ==
  ASSUME NEW info, IsInfo(info), NEW real, NEW adopted
  PROVE  WithParents(info, real, adopted) =
           [real |-> real, adopted |-> adopted, image |-> info.image]
<1> SUFFICES ASSUME NEW R, NEW D, NEW I, info \in [real : R, adopted : D, image : I],
                    real \in R, adopted \in D
             PROVE  WithParents(info, real, adopted) =
                      [real |-> real, adopted |-> adopted, image |-> info.image]
  <2>1. info = [real |-> info.real, adopted |-> info.adopted, image |-> info.image] BY DEF IsInfo
  <2>2. [real |-> info.real, adopted |-> info.adopted, image |-> info.image]
          \in [real : {info.real, real}, adopted : {info.adopted, adopted}, image : {info.image}]
    OBVIOUS
  <2>3. info \in [real : {info.real, real}, adopted : {info.adopted, adopted}, image : {info.image}]
    BY <2>1, <2>2, Zenon
  <2>4. real \in {info.real, real} /\ adopted \in {info.adopted, adopted} OBVIOUS
  <2>5. QED BY <2>3, <2>4, Zenon
<1> DEFINE half == [info EXCEPT !.real = real]
<1>2. /\ half \in [real : R, adopted : D, image : I]
      /\ half.image = info.image /\ half.real = real
  OBVIOUS
<1>3. WithParents(info, real, adopted) = [half EXCEPT !.adopted = adopted]
  BY DEF WithParents
<1> HIDE DEF half
<1>4. [half EXCEPT !.adopted = adopted] =
        [real |-> half.real, adopted |-> adopted, image |-> half.image]
  BY <1>2
<1>5. [half EXCEPT !.adopted = adopted] =
        [real |-> real, adopted |-> adopted, image |-> info.image]
  BY <1>2, <1>4
<1>6. QED BY <1>3, <1>5, Zenon

LEMMA InfoIsInfo == ASSUME NEW map, Entries(map), NEW p PROVE IsInfo(InfoOf(map, p))
<1>1. IsInfo(NewInfo) BY DEF IsInfo, NewInfo
<1>2. QED BY <1>1 DEF InfoOf, Entries

\* map2 differs from map in what it says of q only.
AltersOnly(map, map2, q) ==
  \A x : x # q => /\ InfoOf(map2, x) = InfoOf(map, x)
                  /\ (x \in DOMAIN map2) <=> (x \in DOMAIN map)

LEMMA Unaltered ==
  ASSUME NEW map, NEW map2, NEW q, AltersOnly(map, map2, q), NEW x, x # q
  PROVE  /\ InfoOf(map2, x) = InfoOf(map, x)
         /\ (x \in DOMAIN map2) <=> (x \in DOMAIN map)
BY DEF AltersOnly

LEMMA PutFacts ==
  ASSUME NEW map, Entries(map), NEW q, NEW info, IsInfo(info)
  PROVE  /\ Entries(Put(map, q, info)) /\ InfoOf(Put(map, q, info), q) = info
         /\ AltersOnly(map, Put(map, q, info), q)
<1> DEFINE put == Put(map, q, info)
<1>1. DOMAIN put = DOMAIN map \cup {q} /\ put[q] = info
      /\ \A x \in DOMAIN map : x # q => put[x] = map[x]
  BY DEF Put
<1> HIDE DEF put
<1>2. Entries(put) BY <1>1 DEF Entries
<1>3. InfoOf(put, q) = info BY <1>1 DEF InfoOf
<1>4. AltersOnly(map, put, q) BY <1>1 DEF InfoOf, AltersOnly
<1>5. QED BY <1>2, <1>3, <1>4 DEF put

\* A name is looked up: another entry does not change, and what was true stays true if
\* the answer is.
LEMMA LookedUp ==
  ASSUME NEW map, Entries(map), NEW q, NEW a, NEW map2, map2 = GetImageFileName(map, q, a)
  PROVE  /\ Entries(map2) /\ AltersOnly(map, map2, q)
         /\ \A process : a \in {process.image, Nulls, NoImage} /\ TrueOf(InfoOf(map, q), process)
                         => TrueOf(InfoOf(map2, q), process)
         /\ InfoOf(map2, q).image \in {InfoOf(map, q).image, a}
<1> DEFINE info == [InfoOf(map, q) EXCEPT !.image = a]
<1>1. CASE map2 = map BY <1>1 DEF AltersOnly
<1>2. CASE map2 # map
  <2>1. map2 = Put(map, q, info) BY <1>2 DEF GetImageFileName, UpdateImageFileName
  <2>2. IsInfo(InfoOf(map, q)) BY InfoIsInfo
  <2>3. info = [real |-> InfoOf(map, q).real, adopted |-> InfoOf(map, q).adopted, image |-> a]
    BY <2>2, ImageAltered
  <2> HIDE DEF info
  <2>4. IsInfo(info) /\ info.image = a /\ info.real = InfoOf(map, q).real
        /\ info.adopted = InfoOf(map, q).adopted
    BY <2>3 DEF IsInfo
  <2>5. Entries(map2) /\ InfoOf(map2, q) = info /\ AltersOnly(map, map2, q)
    BY <2>1, <2>4, PutFacts
  <2>6. QED BY <2>4, <2>5 DEF TrueOf
<1>3. QED BY <1>1, <1>2

\* What the cache learns from an event: the process it ends is forgotten, those it does
\* not mention are left alone, what is true of a process stays true if it is but its
\* parent, and of the one that starts it is true if nothing was known of the id.
CacheLearns(e) ==
  /\ Entries(process_map_')
  /\ \A p : /\ Ends(e, p) => p \notin DOMAIN process_map_'
            /\ ~Mentions(e, p) => (p \in DOMAIN process_map_' <=> p \in DOMAIN process_map_)
  /\ \A p \in Pids :
       running[p] # Gone =>
         /\ ~Turns(e, p) /\ TrueOf(InfoOf(process_map_, p), running[p]) =>
              TrueOf(InfoOf(process_map_', p), running[p])
         /\ Starts(e, p, running[p]) /\ p \notin DOMAIN process_map_
              /\ p \notin {e.pid, e.adopted} =>
              TrueOf(InfoOf(process_map_', p), running[p])

LEMMA AnswersTrue ==
  ASSUME NEW p, running[p] # Gone, NEW a \in Answers(p)
  PROVE  a \in {running[p].image, Nulls, NoImage}
BY DEF Answers

LEMMA StartLearns ==
  ASSUME Entries(process_map_), NEW e \in Event, e.kind = "Start", ProcessStart(e)
  PROVE  CacheLearns(e)
<1> DEFINE c == e.child
           real == e.pid
           adopted == e.adopted
<1>1. PICK a1 \in Answers(c), a2 \in Answers(real), a3 \in Answers(adopted) :
        process_map_' =
          AddProcess(GetImageFileName(GetImageFileName(GetImageFileName(
            process_map_, c, a1), real, a2), adopted, a3), c, real, adopted)
  BY DEF ProcessStart
<1> DEFINE m0 == process_map_
           m1 == GetImageFileName(m0, c, a1)
           m2 == GetImageFileName(m1, real, a2)
           m3 == GetImageFileName(m2, adopted, a3)
           m4 == process_map_'
           info == WithParents(InfoOf(m3, c), real, adopted)
<1>2. Entries(m1) /\ AltersOnly(m0, m1, c) /\ InfoOf(m1, c).image \in {InfoOf(m0, c).image, a1}
  BY LookedUp
<1> HIDE DEF m1
<1>3. /\ Entries(m2) /\ AltersOnly(m1, m2, real)
      /\ \A process : a2 \in {process.image, Nulls, NoImage} /\ TrueOf(InfoOf(m1, real), process)
                      => TrueOf(InfoOf(m2, real), process)
  BY <1>2, LookedUp
<1> HIDE DEF m2
<1>4. /\ Entries(m3) /\ AltersOnly(m2, m3, adopted)
      /\ \A process : a3 \in {process.image, Nulls, NoImage} /\ TrueOf(InfoOf(m2, adopted), process)
                      => TrueOf(InfoOf(m3, adopted), process)
  BY <1>3, LookedUp
<1>5. m4 = Put(m3, c, info) BY <1>1 DEF AddProcess, WithParents, m1, m2
<1> HIDE DEF m3
<1>6. IsInfo(InfoOf(m3, c)) BY <1>4, InfoIsInfo
<1>7. info = [real |-> real, adopted |-> adopted, image |-> InfoOf(m3, c).image]
  BY <1>6, ParentsAltered
<1> HIDE DEF info
<1>8. IsInfo(info) /\ info.real = real /\ info.adopted = adopted
      /\ info.image = InfoOf(m3, c).image
  BY <1>7 DEF IsInfo
<1>9. Entries(m4) /\ InfoOf(m4, c) = info /\ AltersOnly(m3, m4, c)
  BY <1>4, <1>5, <1>8, PutFacts
<1> HIDE DEF m0, m4, c, real, adopted
<1>10. ASSUME NEW p, p # c, p # real, p # adopted
       PROVE  (p \in DOMAIN m4) <=> (p \in DOMAIN m0)
  <2>1. (p \in DOMAIN m1) <=> (p \in DOMAIN m0) BY <1>2, <1>10, Unaltered
  <2>2. (p \in DOMAIN m2) <=> (p \in DOMAIN m1) BY <1>3, <1>10, Unaltered
  <2>3. (p \in DOMAIN m3) <=> (p \in DOMAIN m2) BY <1>4, <1>10, Unaltered
  <2>4. (p \in DOMAIN m4) <=> (p \in DOMAIN m3) BY <1>9, <1>10, Unaltered
  <2>5. QED BY <2>1, <2>2, <2>3, <2>4, Zenon
<1>11. ASSUME NEW p \in Pids, running[p] # Gone, p # c, TrueOf(InfoOf(m0, p), running[p])
       PROVE  TrueOf(InfoOf(m4, p), running[p])
  <2>1. InfoOf(m1, p) = InfoOf(m0, p) BY <1>2, <1>11, Unaltered
  <2>2. TrueOf(InfoOf(m1, p), running[p]) BY <1>11, <2>1, Zenon
  <2>3. TrueOf(InfoOf(m2, p), running[p])
    <3>1. CASE p = real BY <1>3, <1>11, <2>2, <3>1, AnswersTrue
    <3>2. CASE p # real
      <4>1. InfoOf(m2, p) = InfoOf(m1, p) BY <1>3, <3>2, Unaltered
      <4>2. QED BY <2>2, <4>1, Zenon
    <3>3. QED BY <3>1, <3>2
  <2>4. TrueOf(InfoOf(m3, p), running[p])
    <3>1. CASE p = adopted BY <1>4, <1>11, <2>3, <3>1, AnswersTrue
    <3>2. CASE p # adopted
      <4>1. InfoOf(m3, p) = InfoOf(m2, p) BY <1>4, <3>2, Unaltered
      <4>2. QED BY <2>3, <4>1, Zenon
    <3>3. QED BY <3>1, <3>2
  <2>5. InfoOf(m4, p) = InfoOf(m3, p) BY <1>9, <1>11, Unaltered
  <2>6. QED BY <2>4, <2>5, Zenon
<1>12. ASSUME NEW p \in Pids, running[p] # Gone, Starts(e, p, running[p]),
              p \notin DOMAIN m0, p \notin {real, adopted}
       PROVE  TrueOf(InfoOf(m4, p), running[p])
  <2>1. p = c /\ real = running[p].real /\ adopted = running[p].adopted
    BY <1>12 DEF Starts, c, real, adopted
  <2>2. InfoOf(m0, c).image = NoImage BY <1>12, <2>1 DEF InfoOf, NewInfo
  <2>3. a1 \in {running[p].image, Nulls, NoImage} BY <1>12, <2>1, AnswersTrue
  <2>4. InfoOf(m2, c) = InfoOf(m1, c) BY <1>3, <1>12, <2>1, Unaltered
  <2>5. InfoOf(m3, c) = InfoOf(m2, c) BY <1>4, <1>12, <2>1, Unaltered
  <2>6. InfoOf(m3, c).image \in {running[p].image, Nulls, NoImage}
    BY <1>2, <2>2, <2>3, <2>4, <2>5
  <2>7. QED BY <1>8, <1>9, <2>1, <2>6 DEF TrueOf
<1>13. \A p : ~Turns(e, p) => p # c BY DEF Turns, c
<1>14. \A p : ~Mentions(e, p) => p # c /\ p # real /\ p # adopted
  BY DEF Mentions, Turns, c, real, adopted
<1>15. \A p : ~Ends(e, p) BY DEF Ends
<1>16. QED BY <1>9, <1>10, <1>11, <1>12, <1>13, <1>14, <1>15 DEF CacheLearns, m0, m4, real, adopted

LEMMA EndLearns ==
  ASSUME Entries(process_map_), NEW e \in Event, e.kind = "End", ProcessEnd(e)
  PROVE  CacheLearns(e)
<1> DEFINE q == e.pid
<1>1. PICK a \in Answers(q) :
        process_map_' = RemoveProcess(GetImageFileName(process_map_, q, a), q)
  BY DEF ProcessEnd
<1> DEFINE m1 == GetImageFileName(process_map_, q, a)
<1>2. Entries(m1) /\ AltersOnly(process_map_, m1, q) BY LookedUp
<1>3. /\ DOMAIN process_map_' = DOMAIN m1 \ {q}
      /\ \A x \in DOMAIN m1 \ {q} : process_map_'[x] = m1[x]
  BY <1>1 DEF RemoveProcess
<1> HIDE DEF m1
<1>4. Entries(process_map_') BY <1>2, <1>3 DEF Entries
<1>5. ASSUME NEW p, p # q
      PROVE  /\ InfoOf(process_map_', p) = InfoOf(process_map_, p)
             /\ (p \in DOMAIN process_map_') <=> (p \in DOMAIN process_map_)
  <2>1. /\ InfoOf(m1, p) = InfoOf(process_map_, p)
        /\ (p \in DOMAIN m1) <=> (p \in DOMAIN process_map_)
    BY <1>2, <1>5, Unaltered
  <2>2. (p \in DOMAIN process_map_') <=> (p \in DOMAIN m1) BY <1>3, <1>5
  <2>3. InfoOf(process_map_', p) = InfoOf(m1, p) BY <1>3, <1>5, <2>2 DEF InfoOf
  <2>4. QED BY <2>1, <2>2, <2>3
<1>6. \A p : Ends(e, p) <=> p = q BY DEF Ends
<1>7. \A p : (~Turns(e, p) => p # q) /\ (~Mentions(e, p) => p # q)
  BY <1>6 DEF Turns, Mentions
<1>8. \A p : \A process : ~Starts(e, p, process) BY DEF Starts
<1>9. QED BY <1>3, <1>4, <1>5, <1>6, <1>7, <1>8 DEF CacheLearns

LEMMA HandlerLearns ==
  ASSUME Entries(process_map_), NEW e \in Event, stream # <<>>, e = Head(stream), ProcessEvent
  PROVE  CacheLearns(e)
<1>1. ASSUME process_map_' = process_map_, e.kind \notin {"Start", "End"} PROVE CacheLearns(e)
  BY <1>1 DEF CacheLearns, Ends, Turns, Mentions, Starts
<1>2. CASE FilterOut(e)
  <2>1. e.pid = Self BY <1>2 DEF FilterOut, OverallEventFilter
  <2>2. e.kind \notin {"Start", "End"}
    BY <2>1, FileEventsAssumption DEF Event, OnFiles, OnProcesses, Kinds
  <2>3. QED BY <1>1, <1>2, <2>2 DEF FilterOut, processVars
<1>3. CASE ProcessFileIoEvent(e)
  <2>1. e.kind \notin {"Start", "End"} BY <1>3 DEF ProcessFileIoEvent
  <2>2. QED BY <1>1, <1>3, <2>1 DEF ProcessFileIoEvent, processVars
<1>4. CASE ProcessProcessEvent(e)
  BY <1>4, StartLearns, EndLearns DEF ProcessProcessEvent
<1>5. QED BY <1>2, <1>3, <1>4 DEF ProcessEvent

\* The first event is handled.
LEMMA ConsumerSettled == IInv /\ CacheInv /\ ProcessEvent => CacheInv'
<1> SUFFICES ASSUME IInv, CacheInv, ProcessEvent PROVE CacheInv'
  OBVIOUS
<1> DEFINE e == stream[1]
           n == Len(stream)
           m == Len(stream')
<1>1. Typed /\ stream # <<>> /\ stream \in Seq(Event) /\ n \in Nat \ {0}
  BY DEF IInv, Typed, ProcessEvent
<1>2. e \in Event /\ e = Head(stream) BY <1>1
<1>3. (PrintDebugW \/ PrintNothing) /\ running' = running /\ gap' = gap
  BY <1>1, <1>2, HandlerFacts
<1>4. /\ stream' \in Seq(Event) /\ n - 1 <= m
      /\ \A i \in 1 .. n - 1 : stream'[i] = Tail(stream)[i]
      /\ \A i \in n .. m : stream'[i].kind \in Kinds
  BY <1>1, <1>3, PrintFacts
<1>5. CacheLearns(e) BY <1>1, <1>2, HandlerLearns DEF CacheInv
<1>6. n \in Nat \ {0} /\ m \in Nat /\ n - 1 \in Nat BY <1>1, <1>4
<1> HIDE DEF e, n, m
<1>7. Entries(process_map_') BY <1>5 DEF CacheLearns
<1> SUFFICES ASSUME ~gap PROVE (Deaths /\ Lives /\ Births)'
  BY <1>3, <1>7 DEF CacheInv
<1>8. Deaths /\ Lives /\ Births BY DEF CacheInv
<1>9. \A p : \A i \in n .. m : ~Mentions(stream'[i], p) /\ ~Turns(stream'[i], p)
  BY <1>4 DEF Mentions, Turns, Ends, Kinds
<1>10. e.kind = "Start" => e.child \notin DOMAIN process_map_ /\ e.child \notin {e.pid, e.adopted}
  <2>1. 1 \in 1 .. n BY <1>1 DEF n
  <2>2. SUFFICES ASSUME e.kind = "Start"
                 PROVE  e.child \notin DOMAIN process_map_ /\ e.child \notin {e.pid, e.adopted}
    OBVIOUS
  <2>3. Absent(stream, process_map_, 1, e.child) /\ e.child \notin {e.pid, e.adopted}
    BY <1>8, <2>1, <2>2 DEF Births, e, n
  <2>4. e.child \notin DOMAIN process_map_ BY <2>3 DEF Absent
  <2>5. QED BY <2>3, <2>4
<1>11. ASSUME NEW i \in 2 .. n + 1, NEW p, Absent(stream, process_map_, i, p)
       PROVE  Absent(stream', process_map_', i - 1, p)
  <2>1. Ends(e, p) => p \notin DOMAIN process_map_' BY <1>5 DEF CacheLearns
  <2>2. ~Mentions(e, p) /\ p \notin DOMAIN process_map_ => p \notin DOMAIN process_map_'
    BY <1>5 DEF CacheLearns
  <2>3. Absent(Tail(stream), process_map_', i - 1, p)
    BY <1>1, <1>11, <2>1, <2>2, AbsentTail DEF e, n
  <2>4. \A k \in 1 .. (i - 1) - 1 : stream'[k] = Tail(stream)[k]
    <3> TAKE k \in 1 .. (i - 1) - 1
    <3>1. k \in 1 .. n - 1 BY <1>6
    <3>2. QED BY <1>4, <3>1
  <2>5. i - 1 \in Nat BY <1>6
  <2>6. QED BY <2>3, <2>4, <2>5, AbsentSame
<1>12. ASSUME NEW i \in 2 .. n + 1, NEW p \in Pids, running[p] # Gone,
              Truthful(stream, process_map_, i, p, running[p])
       PROVE  Truthful(stream', process_map_', i - 1, p, running[p])
  <2>1. Starts(e, p, running[p]) => TrueOf(InfoOf(process_map_', p), running[p])
    <3>1. Starts(e, p, running[p]) => e.kind = "Start" /\ e.child = p BY DEF Starts
    <3>2. QED BY <1>5, <1>10, <1>12, <3>1 DEF CacheLearns
  <2>2. ~Turns(e, p) /\ TrueOf(InfoOf(process_map_, p), running[p]) =>
          TrueOf(InfoOf(process_map_', p), running[p])
    BY <1>5, <1>12 DEF CacheLearns
  <2>3. Truthful(Tail(stream), process_map_', i - 1, p, running[p])
    BY <1>1, <1>12, <2>1, <2>2, TruthfulTail DEF e, n
  <2>4. \A k \in 1 .. (i - 1) - 1 : stream'[k] = Tail(stream)[k]
    <3> TAKE k \in 1 .. (i - 1) - 1
    <3>1. k \in 1 .. n - 1 BY <1>6
    <3>2. QED BY <1>4, <3>1
  <2>5. i - 1 \in Nat BY <1>6
  <2>6. QED BY <2>3, <2>4, <2>5, TruthfulSame
<1>13. n + 1 \in 2 .. n + 1 /\ (n + 1) - 1 = n /\ n \in Nat /\ m + 1 \in Nat /\ n <= m + 1
       /\ (m + 1) - 1 = m
  BY <1>4, <1>6
<1>14. ASSUME NEW p \in Pids, running[p] = Gone PROVE Absent(stream', process_map_', m + 1, p)
  <2>1. Absent(stream, process_map_, n + 1, p) BY <1>8, <1>14 DEF Deaths, n
  <2>2. Absent(stream', process_map_', n, p) BY <1>11, <1>13, <2>1
  <2>3. QED BY <1>9, <1>13, <2>2, AbsentLonger
<1>15. ASSUME NEW p \in Pids, running[p] # Gone
       PROVE  Truthful(stream', process_map_', m + 1, p, running[p])
  <2>1. Truthful(stream, process_map_, n + 1, p, running[p]) BY <1>8, <1>15 DEF Lives, n
  <2>2. Truthful(stream', process_map_', n, p, running[p]) BY <1>12, <1>13, <1>15, <2>1
  <2>3. QED BY <1>9, <1>13, <2>2, TruthfulLonger
<1>16. ASSUME NEW i \in 1 .. m, stream'[i].kind = "Start"
       PROVE  /\ Absent(stream', process_map_', i, stream'[i].child)
              /\ stream'[i].child \notin {stream'[i].pid, stream'[i].adopted}
  <2>1. i \notin n .. m BY <1>4, <1>16 DEF Kinds
  <2>2. i \in 1 .. n - 1 BY <1>6, <2>1
  <2>3. stream'[i] = stream[i + 1] BY <1>1, <1>4, <2>2 DEF n
  <2>4. i + 1 \in 1 .. n /\ i + 1 \in 2 .. n + 1 /\ (i + 1) - 1 = i BY <1>6, <2>2
  <2>5. /\ Absent(stream, process_map_, i + 1, stream'[i].child)
        /\ stream'[i].child \notin {stream'[i].pid, stream'[i].adopted}
    BY <1>8, <1>16, <2>3, <2>4 DEF Births, n
  <2>6. QED BY <1>11, <2>4, <2>5
<1>17. Births' BY <1>16 DEF Births, m
<1>18. Deaths' BY <1>3, <1>14 DEF Deaths, m
<1>19. Lives' BY <1>3, <1>15 DEF Lives, m
<1>20. QED BY <1>17, <1>18, <1>19

-----------------------------------------------------------------------------
(* The cache settles *)

\* What the cache will hold when all is handled is invariant.
THEOREM Settling == Spec => [](IInv /\ CacheInv)
<1>1. Init => IInv /\ CacheInv BY Initially, InitiallySettled
<1>2. IInv /\ CacheInv /\ [Next]_vars => (IInv /\ CacheInv)'
  <2> SUFFICES ASSUME IInv, CacheInv, [Next]_vars PROVE (IInv /\ CacheInv)'
    OBVIOUS
  <2>1. IInv' BY Inductive
  <2>2. CASE Kernel BY <2>1, <2>2, KernelSettled
  <2>3. CASE ProcessEvent BY <2>1, <2>3, ConsumerSettled
  <2>4. CASE UNCHANGED vars
    <3>1. UNCHANGED <<running, stream, process_map_, gap>> BY <2>4 DEF vars, processVars
    <3>2. CacheInv' BY <3>1 DEF CacheInv, Entries, Deaths, Lives, Births
    <3>3. QED BY <2>1, <3>2
  <2>5. QED BY <2>2, <2>3, <2>4 DEF Next
<1>3. QED BY <1>1, <1>2, PTL DEF Spec

\* When all events are handled and none of a process was lost, the cache holds nothing of
\* processes that ended, and of the others their own names and parents: for any number of
\* processes and buffers, though an id be used again while events of its earlier processes
\* wait.  (GetImageFileName, AddProcess, RemoveProcess)
THEOREM CacheSettled == Spec => []CacheSettles
<1>1. IInv /\ CacheInv => CacheSettles
  <2> SUFFICES ASSUME IInv, CacheInv, stream = <<>>, ~gap, NEW p \in DOMAIN process_map_
               PROVE  /\ running[p] # Gone
                      /\ process_map_[p].image \in {running[p].image, Nulls, NoImage}
                      /\ process_map_[p].real = running[p].real
                      /\ process_map_[p].adopted = running[p].adopted
    BY DEF CacheSettles
  <2>1. p \in Pids BY DEF IInv, Typed
  <2>2. Deaths /\ Lives BY DEF CacheInv
  <2>3. Len(stream) + 1 = 1 OBVIOUS
  <2>4. ~Absent(stream, process_map_, 1, p) BY DEF Absent
  <2>5. running[p] # Gone BY <2>1, <2>2, <2>3, <2>4 DEF Deaths
  <2>6. Truthful(stream, process_map_, 1, p, running[p]) BY <2>1, <2>2, <2>3, <2>5 DEF Lives
  <2>7. TrueOf(InfoOf(process_map_, p), running[p]) BY <2>6 DEF Truthful
  <2>8. TrueOf(process_map_[p], running[p]) BY <2>7 DEF InfoOf
  <2>9. QED BY <2>5, <2>8 DEF TrueOf
<1>2. QED BY <1>1, Settling, PTL

=============================================================================
