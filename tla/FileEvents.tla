------------------------------ MODULE FileEvents ------------------------------
(***************************************************************************)
(* What the event service makes of the kernel's events (etw/consumer.cpp,  *)
(* manager/).  Write events name a file object only; the consumer knows    *)
(* its path from the create event, and knows a process by what it finds    *)
(* when it asks.  It handles the events one by one and later than they     *)
(* happened: objects and process ids may have been given away since.  What *)
(* it logs is itself written to a file, which the kernel reports, too.     *)
(*                                                                         *)
(* The kernel is part of the model: files are opened, written and closed,  *)
(* processes start and end, and the cache manager writes for them.         *)
(***************************************************************************)
EXTENDS Integers, Sequences

CONSTANTS
  Objects,       \* addresses of file objects
  Watched,       \* files below NapierOne-tiny
  Elsewhere,     \* a file or directory that is not watched
  LogFile,       \* log.txt
  Pids,          \* process ids the kernel hands out
  Images,        \* image paths
  Self, System,  \* the ids of the service and of the cache manager
  Buffers,       \* events the session can hold
  Threshold,     \* DEBUG_LOG_THRESHOLD
  MaxEvents      \* bound on what others do

NoPath == "no path"
NoImage == "no image"     \* the empty string

ASSUME FileEventsAssumption ==
  /\ Buffers \in Nat \ {0} /\ Threshold \in Nat \ {0} /\ MaxEvents \in Nat
  /\ {Elsewhere, LogFile, NoPath} \cap Watched = {}
  /\ Self # System /\ {Self, System} \cap Pids = {}
  /\ NoImage \notin Images

VARIABLES
  opened,            \* kernel: the path a file object was opened by, the path its file has
                     \* now, and whether its create event reached the session
  running,           \* kernel: the image of every process, and its two parents
  stream,            \* session: the events that are not handled yet
  budget,            \* what others may still do
  obj_to_name_map_,  \* FileNameObjMap
  resolved,          \* kWin32Path knows the drive
  process_map_,      \* ProcessManager
  log,               \* debug: the object of the open log file and debug_count
  written,           \* the last event, if a process wrote, and the path logged with it
  told,              \* the last create event of an object was accepted
  gap                \* a process event was lost

fileVars == <<obj_to_name_map_, resolved, told>>
processVars == <<process_map_>>
vars == <<opened, running, stream, budget, fileVars, processVars, log, written, gap>>

NoObject == "no object"
Nulls == "nulls"          \* a string of null characters
Files == Watched \cup {Elsewhere, LogFile}
Nothing == [path |-> NoPath]
Closed == [file |-> NoPath, now |-> NoPath, announced |-> FALSE]
Opened(f, announced) == [file |-> f, now |-> f, announced |-> announced]
NoParent == "no parent"
Gone == [image |-> NoImage, real |-> NoParent, adopted |-> NoParent]

-----------------------------------------------------------------------------
(* Events *)

\* Only create events name a file.  What a write event carries of it serves Attribution.
FileEvent(kind, pid, o, opening) ==
  [kind |-> kind, pid |-> pid, object |-> o,
   file |-> opening.file, now |-> opening.now, announced |-> opening.announced]
ObjectEvent(kind, pid, o) == FileEvent(kind, pid, o, Closed)
StartEvent(real, p, adopted) == [kind |-> "Start", pid |-> real, child |-> p, adopted |-> adopted]
EndEvent(p) == [kind |-> "End", pid |-> p]

\* A session whose buffers are full loses events.
Emitted(s, events) ==
  LET all == s \o events
  IN  IF Len(all) > Buffers THEN SubSeq(all, 1, Buffers) ELSE all

-----------------------------------------------------------------------------
(* The kernel *)

Spend == budget > 0 /\ budget' = budget - 1

\* Which process it is that reads or writes makes no difference to the consumer.
Another == "another"
Process == \E p \in Pids : running[p] # Gone

\* A file object is used again for another file once it is closed.
OpenFile(o, f) ==
  LET announced == Len(stream) < Buffers
  IN  /\ Spend
      /\ Process /\ opened[o] = Closed
      /\ opened' = [opened EXCEPT ![o] = Opened(f, announced)]
      /\ stream' = Emitted(stream, <<FileEvent("Create", Another, o, Opened(f, FALSE))>>)
      /\ UNCHANGED <<running, fileVars, processVars, log, written, gap>>

\* The cache manager writes what is dirty under its own id.
WriteFile(p, o) ==
  /\ Spend
  /\ p = System \/ (Process /\ o # log.object)
  /\ opened[o] # Closed
  /\ stream' = Emitted(stream, <<IF p = System THEN ObjectEvent("Write", p, o)
                                ELSE FileEvent("Write", p, o, opened[o])>>)
  /\ UNCHANGED <<opened, running, fileVars, processVars, log, written, gap>>

CloseFile(o) ==
  /\ Spend
  /\ Process /\ opened[o] # Closed /\ o # log.object
  /\ opened' = [opened EXCEPT ![o] = Closed]
  /\ stream' = Emitted(stream, <<ObjectEvent("Close", Another, o)>>)
  /\ UNCHANGED <<running, fileVars, processVars, log, written, gap>>

\* A file gets a path that no open file has, through one of its objects.  The consumer
\* passes over the event and keeps the path the objects were opened by.
RenameFile(o, g) ==
  /\ Spend
  /\ Process /\ opened[o] # Closed /\ o # log.object
  /\ \A x \in Objects : opened[x].now # g
  /\ opened' = [x \in Objects |->
       [opened[x] EXCEPT !.now = IF @ = opened[o].now THEN g ELSE @]]
  /\ stream' = Emitted(stream, <<ObjectEvent("Other", Another, o)>>)
  /\ UNCHANGED <<running, fileVars, processVars, log, written, gap>>

\* Deleting, flushing and the rest, which the consumer passes over, too.
OtherOperation(o) ==
  /\ Spend
  /\ Process /\ opened[o] # Closed /\ o # log.object
  /\ stream' = Emitted(stream, <<ObjectEvent("Other", Another, o)>>)
  /\ UNCHANGED <<opened, running, fileVars, processVars, log, written, gap>>

\* A process is started by one that may name another as its parent.
StartProcess(real, adopted, p, image) ==
  /\ Spend
  /\ running[real] # Gone /\ running[adopted] # Gone /\ running[p] = Gone
  /\ running' = [running EXCEPT ![p] = [image |-> image, real |-> real, adopted |-> adopted]]
  /\ stream' = Emitted(stream, <<StartEvent(real, p, adopted)>>)
  /\ gap' = (gap \/ Len(stream) = Buffers)
  /\ UNCHANGED <<opened, fileVars, processVars, log, written>>

EndProcess(p) ==
  /\ Spend
  /\ running[p] # Gone
  /\ running' = [running EXCEPT ![p] = Gone]
  /\ stream' = Emitted(stream, <<EndEvent(p)>>)
  /\ gap' = (gap \/ Len(stream) = Buffers)
  /\ UNCHANGED <<opened, fileVars, processVars, log, written>>

\* The session ends and StartEventCollector starts another; the maps survive.
LoseSession ==
  LET lost == {stream[i] : i \in DOMAIN stream}
      IsProcess(e) == e.kind \in {"Start", "End"}
  IN  /\ Spend
      /\ stream # <<>>
      /\ stream' = <<>>
      /\ opened' = [o \in Objects |->
           [opened[o] EXCEPT !.announced =
              @ /\ ~\E e \in lost : e.kind = "Create" /\ e.object = o]]
      /\ gap' = (gap \/ \E e \in lost : IsProcess(e))
      /\ UNCHANGED <<running, fileVars, processVars, log, written>>

-----------------------------------------------------------------------------
(* The log *)

\* WriteDebugToFileW: the file is opened for the first line and again after every
\* Threshold lines; a line is dropped while there is no file.  What it does to the
\* files is [opened, log, events].
InitDebugLog(files, o) ==
  [opened |-> [files EXCEPT ![o] = Opened(LogFile, FALSE)],
   log |-> [object |-> o, count |-> 0],
   events |-> <<FileEvent("Create", Self, o, Opened(LogFile, FALSE))>>]

NotOpened(files) == [opened |-> files, log |-> [object |-> NoObject, count |-> 0], events |-> <<>>]

FreeObjects(files) == {o \in Objects : files[o] = Closed}
Openings(files) ==
  {InitDebugLog(files, o) : o \in FreeObjects(files)} \cup {NotOpened(files)}

\* Mutant of WriteLine: the file is closed one line late.
WriteLineLate(ready) ==
  IF ready.log.object = NoObject THEN {ready}
  ELSE LET o == ready.log.object
           line == <<ObjectEvent("Write", Self, o)>>
           close == <<ObjectEvent("Close", Self, o)>>
           closed == [ready.opened EXCEPT ![o] = Closed]
       IN  IF ready.log.count < Threshold
           THEN {[ready EXCEPT !.log.count = @ + 1, !.events = @ \o line]}
           ELSE {[again EXCEPT !.events = ready.events \o line \o close \o @] :
                   again \in Openings(closed)}

WriteLine(ready) ==
  IF ready.log.object = NoObject THEN {ready}
  ELSE LET o == ready.log.object
           line == <<ObjectEvent("Write", Self, o)>>
           close == <<ObjectEvent("Close", Self, o)>>
           closed == [ready.opened EXCEPT ![o] = Closed]
       IN  IF ready.log.count + 1 < Threshold
           THEN {[ready EXCEPT !.log.count = @ + 1, !.events = @ \o line]}
           ELSE {[again EXCEPT !.events = ready.events \o line \o close \o @] :
                   again \in Openings(closed)}

WriteDebugToFileW ==
  UNION {WriteLine(ready) :
           ready \in IF log.object = NoObject THEN Openings(opened)
                     ELSE {[opened |-> opened, log |-> log, events |-> <<>>]}}

PrintDebugW ==
  \E outcome \in WriteDebugToFileW :
    /\ opened' = outcome.opened
    /\ log' = outcome.log
    /\ stream' = Emitted(Tail(stream), outcome.events)

PrintNothing == stream' = Tail(stream) /\ UNCHANGED <<opened, log>>

-----------------------------------------------------------------------------
(* The consumer *)

\* Mutant of OverallEventFilter: the service's own events pass.
OverallEventFilterNone(pid) == pid # NoObject

OverallEventFilter(pid) == pid # Self

\* Mutant of MapObjectWithPath: a path that is there is kept.
MapObjectWithPathOnce(o, path) ==
  [obj_to_name_map_ EXCEPT ![o] = IF @ = NoPath THEN path ELSE @]

MapObjectWithPath(o, path) == [obj_to_name_map_ EXCEPT ![o] = path]

GetPathByObject(o) == obj_to_name_map_[o]

\* Before the drive is known a file must be opened to learn it, which may fail.
GetWin32Path(f) == {f} \cup IF resolved THEN {} ELSE {NoPath}

ProcessCreate(e) ==
  \E path \in GetWin32Path(e.file) :
    /\ resolved' = (resolved \/ path # NoPath)
    /\ IF path \in Watched
       THEN obj_to_name_map_' = MapObjectWithPath(e.object, path) /\ PrintDebugW
       ELSE UNCHANGED obj_to_name_map_ /\ PrintNothing
    /\ told' = [told EXCEPT ![e.object] = path \in Watched]
    /\ written' = Nothing

\* Writes of the cache manager are logged without a path.
ProcessWrite(e) ==
  LET path == IF e.pid = System THEN NoPath ELSE GetPathByObject(e.object)
  IN  /\ IF e.pid = System \/ path # NoPath THEN PrintDebugW ELSE PrintNothing
      /\ written' = IF e.pid = System THEN Nothing ELSE [event |-> e, path |-> path]
      /\ UNCHANGED fileVars

ProcessClose(e) ==
  LET path == GetPathByObject(e.object)
  IN  /\ IF path # NoPath THEN PrintDebugW ELSE PrintNothing
      /\ written' = Nothing
      /\ UNCHANGED fileVars

PassOver(e) ==
  /\ PrintNothing
  /\ written' = Nothing
  /\ UNCHANGED fileVars

ProcessFileIoEvent(e) ==
  /\ \/ e.kind = "Create" /\ ProcessCreate(e)
     \/ e.kind = "Write" /\ ProcessWrite(e)
     \/ e.kind = "Close" /\ ProcessClose(e)
     \/ e.kind = "Other" /\ PassOver(e)
  /\ UNCHANGED processVars

-----------------------------------------------------------------------------
(* ProcessManager: a map from process ids to what is known of them *)

NewInfo == [real |-> NoParent, adopted |-> NoParent, image |-> NoImage]
InfoOf(map, p) == IF p \in DOMAIN map THEN map[p] ELSE NewInfo
Put(map, p, info) == [q \in DOMAIN map \cup {p} |-> IF q = p THEN info ELSE map[q]]

AddProcess(map, p, real, adopted) ==
  Put(map, p, [InfoOf(map, p) EXCEPT !.real = real, !.adopted = adopted])

RemoveProcess(map, p) == [q \in DOMAIN map \ {p} |-> map[q]]

UpdateImageFileName(map, p, image) == Put(map, p, [InfoOf(map, p) EXCEPT !.image = image])

\* The system's answer.  When it has none, the buffer of null characters that was to
\* hold it passes for a name; a path that cannot be converted is no name.
Answers(p) ==
  {Nulls} \cup IF running[p] = Gone THEN {} ELSE {running[p].image, NoImage}

GetImageFileName(map, p, answer) ==
  IF InfoOf(map, p).image # NoImage \/ answer = NoImage THEN map
  ELSE UpdateImageFileName(map, p, answer)

ProcessStart(e) ==
  \E a1 \in Answers(e.child), a2 \in Answers(e.pid), a3 \in Answers(e.adopted) :
    LET m1 == GetImageFileName(process_map_, e.child, a1)
        m2 == GetImageFileName(m1, e.pid, a2)
        m3 == GetImageFileName(m2, e.adopted, a3)
    IN  process_map_' = AddProcess(m3, e.child, e.pid, e.adopted)

\* Mutant of ProcessEnd: the name is looked up after the entry was removed.
ProcessEndSwapped(e) ==
  \E a \in Answers(e.pid) :
    process_map_' = GetImageFileName(RemoveProcess(process_map_, e.pid), e.pid, a)

ProcessEnd(e) ==
  \E a \in Answers(e.pid) :
    process_map_' = RemoveProcess(GetImageFileName(process_map_, e.pid, a), e.pid)

ProcessProcessEvent(e) ==
  /\ \/ e.kind = "Start" /\ ProcessStart(e)
     \/ e.kind = "End" /\ ProcessEnd(e)
  /\ written' = Nothing
  /\ PrintDebugW
  /\ UNCHANGED fileVars

FilterOut(e) ==
  /\ ~OverallEventFilter(e.pid)
  /\ written' = Nothing
  /\ told' = IF e.kind = "Create" THEN [told EXCEPT ![e.object] = FALSE] ELSE told
  /\ PrintNothing
  /\ UNCHANGED <<obj_to_name_map_, resolved, processVars>>

ProcessEvent ==
  /\ stream # <<>>
  /\ LET e == Head(stream)
     IN  \/ FilterOut(e)
         \/ OverallEventFilter(e.pid) /\ (ProcessFileIoEvent(e) \/ ProcessProcessEvent(e))
  /\ UNCHANGED <<running, budget, gap>>

-----------------------------------------------------------------------------
\* Some processes are older than the session.
Init ==
  /\ opened = [o \in Objects |-> Closed]
  /\ \E old \in SUBSET Pids : \E image \in [old -> Images] :
       /\ old # {}
       /\ running = [p \in Pids |->
            IF p \in old THEN [image |-> image[p], real |-> NoParent, adopted |-> NoParent]
            ELSE Gone]
  /\ stream = <<>>
  /\ budget = MaxEvents
  /\ obj_to_name_map_ = [o \in Objects |-> NoPath]
  /\ resolved = FALSE
  /\ process_map_ = [p \in {} |-> NewInfo]
  /\ log = [object |-> NoObject, count |-> 0]
  /\ written = Nothing
  /\ told = [o \in Objects |-> FALSE]
  /\ gap = FALSE

Kernel ==
  \/ \E o \in Objects :
       \/ \E f \in Watched \cup {Elsewhere} : OpenFile(o, f)
       \/ \E p \in {Another, System} : WriteFile(p, o)
       \/ \E g \in Watched \cup {Elsewhere} : RenameFile(o, g)
       \/ CloseFile(o) \/ OtherOperation(o)
  \/ \E real, adopted, p \in Pids, image \in Images : StartProcess(real, adopted, p, image)
  \/ \E p \in Pids : EndProcess(p)
  \/ LoseSession

Next == Kernel \/ ProcessEvent

Spec == Init /\ [][Next]_vars /\ WF_vars(ProcessEvent)

-----------------------------------------------------------------------------
(* Properties *)

\* Every variable keeps its type, and the session its capacity; the log is opened
\* again before its count reaches the threshold.
TypeOK ==
  /\ opened \in
       [Objects -> [file : Files \cup {NoPath}, now : Files \cup {NoPath}, announced : BOOLEAN]]
  /\ DOMAIN running = Pids
  /\ Len(stream) <= Buffers
  /\ budget \in 0 .. MaxEvents
  /\ obj_to_name_map_ \in [Objects -> Watched \cup {NoPath}]
  /\ resolved \in BOOLEAN /\ gap \in BOOLEAN
  /\ told \in [Objects -> BOOLEAN]
  /\ DOMAIN process_map_ \subseteq Pids
  /\ log.object \in Objects \cup {NoObject} /\ log.count \in 0 .. Threshold - 1

\* The file was renamed after the object was opened.
Renamed(e) == e.now # e.file

\* However often the address of the file object was used before, a write of a process
\* is logged with the path of the file it changed if the file was not renamed since
\* the object was opened, and with the path it was opened by, which names another file
\* or none, if it was: renaming is passed over.  Provided the create event of the
\* object reached the session and was accepted; one that is not leaves the path the
\* address had before.  (ProcessFileIoEvent)
Attribution ==
  LET e == written.event
  IN  written # Nothing /\ e.announced /\ told[e.object] =>
        written.path = IF Renamed(e) THEN e.file ELSE e.now

\* When all events are handled and no process event was lost, whatever is known of a
\* process id is true of the process that has it now, also if the id was reused
\* while the events waited: no entry outlives its process, and names and parents are
\* not those of a predecessor.  (GetImageFileName, AddProcess, RemoveProcess)
CacheSettles ==
  stream = <<>> /\ ~gap =>
    \A p \in DOMAIN process_map_ :
      /\ running[p] # Gone
      /\ process_map_[p].image \in {running[p].image, Nulls, NoImage}
      /\ process_map_[p].real = running[p].real
      /\ process_map_[p].adopted = running[p].adopted

\* When others stop, the service comes to rest: what it logs does not make it log
\* more, though its log file may get the address of a watched file's object.
\* (OverallEventFilter)
ComesToRest == <>[](stream = <<>>)

=============================================================================
