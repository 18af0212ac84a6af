----------------------------- MODULE SelfDefense -----------------------------
(***************************************************************************)
(* driver/function/self_defense.cpp: the process map of the driver and the *)
(* callbacks that fill, read and empty it.                                 *)
(*                                                                         *)
(* A thread of the pool Threads runs one callback at a time on behalf of   *)
(* the process cur.  Every lock acquisition, every access to the map and   *)
(* every scan of the directory list is a step of its own; the release of a *)
(* mutex is part of the last step made under it.  Reads of the map that    *)
(* the code makes without the mutex may overlap a mutation: they may miss  *)
(* an entry that is there, and what is read through an iterator whose node *)
(* has been erased is any value.                                           *)
(*                                                                         *)
(* External (the Windows kernel): process objects and their identifiers,   *)
(* when the callbacks are called, guarded mutexes, the system time.        *)
(***************************************************************************)
EXTENDS Integers, FiniteSets

CONSTANTS Threads,         \* kernel threads that run callbacks
          Pids,            \* process identifiers
          System,          \* the process that exists as long as the kernel does
          Images,          \* image paths of processes
          ProtectedPaths,  \* the paths a directory of kProtectedDirList prefixes
          EmptyPath,       \* String<WCHAR>()
          Absent,          \* kProcessMap->End(): no entry
          Nobody,          \* no thread: a free mutex; no process
          Requests,        \* the file requests made: "open", "setinfo"
          Grace,           \* 5000000: half a second in units of 100 ns
          MaxTime,         \* bound: the largest value of KeQuerySystemTime
          ClockModulus     \* 2^64: the width of ULONG64

ASSUME ThreadAssumption == /\ Nobody \notin Threads /\ Nobody \notin Pids
                           /\ Nobody \notin Pids \X {"plain", "protected"}
ASSUME ProcessAssumption == System \in Pids
ASSUME PathAssumption == /\ ProtectedPaths \subseteq Images
                         /\ EmptyPath \notin Images
ASSUME RequestAssumption == Requests \subseteq {"open", "setinfo"}
ASSUME EntryAssumption ==
    Absent \notin [path : Images \cup {EmptyPath}, prot : BOOLEAN, start : 0 .. MaxTime]
ASSUME TimeAssumption == /\ Grace \in Nat \ {0}
                         /\ MaxTime \in Nat
                         /\ Grace <= MaxTime
                         /\ ClockModulus \in Nat
                         /\ ClockModulus > MaxTime + Grace

VARIABLES os,         \* the process objects of the kernel
          now,        \* KeQuerySystemTime
          map,        \* kProcessMap
          mapMutex,   \* kProcessMapMutex: its owner
          dirMutex,   \* kDirMutex: its owner
          pc,         \* where each thread is
          fr          \* the local variables of the callback each thread runs

vars == <<os, now, map, mapMutex, dirMutex, pc, fr>>

Paths == Images \cup {EmptyPath}

\* The clock counts from 1601: a present time is far from 0, the value a start
\* time has when an entry is recorded without one.
Times == Grace .. MaxTime
Unstamped == 0
Stamps == Times \cup {Unstamped}

\* A process object is created ("born"), runs ("live") once its creation has
\* been announced, has run its last instruction ("exiting"), has had its end
\* announced ("dead") and gives its identifier back ("free").
Phases == {"free", "born", "live", "exiting", "dead"}
Process == [phase : Phases, image : Paths]
NoProcess == [phase |-> "free", image |-> EmptyPath]

\* ProcessInfo
Entry == [path : Paths, prot : BOOLEAN, start : Stamps]

Labels == {"idle", "born", "name", "copy", "dir", "scan", "parent", "inherit",
           "stamp", "enter", "insert", "erase", "ask", "find", "answer",
           "peek", "age", "decide", "done"}

Frame == [op : {"none", "create", "exit", "handle", "open", "setinfo"},
          cur : Pids \cup {Nobody},       \* PsGetCurrentProcessId()
          pid : Pids \cup {Nobody},       \* the process the callback is about
          stage : {"none", "new", "source", "target", "file", "dest"},
          path : Paths,                   \* process_path, file_path
          prot : BOOLEAN,                 \* is_protected
          fresh : BOOLEAN,                \* the lookup missed: to be recorded
          it : {"end", "node", "freed"},  \* an iterator held without the mutex
          start : Stamps,                 \* start_time
          result : {"none", "pass", "filtered", "denied"}]

NoFrame == [op |-> "none", cur |-> Nobody, pid |-> Nobody, stage |-> "none",
            path |-> EmptyPath, prot |-> FALSE, fresh |-> FALSE, it |-> "end",
            start |-> Unstamped, result |-> "none"]
-----------------------------------------------------------------------------
(* Operators on the state *)

Known(p) == map[p] # Absent

\* IsInProtectedDirectory, without its mutex
InProtectedDirectory(path) == path \in ProtectedPaths

\* What IsProtectedProcess answers for an entry it finds
Verdict(entry) == entry.prot \/ InProtectedDirectory(entry.path)

\* Mutant of MapInsert: an entry that is there is overwritten.
MapAssign(p, entry) == [map EXCEPT ![p] = entry]

\* Map::Insert keeps the entry that is there
MapInsert(p, entry) == IF Known(p) THEN map ELSE [map EXCEPT ![p] = entry]

\* Mutant of AskedOf: PreObCallback takes the target for the source.
AskedSwapped(f) == IF f.stage = "target" \/ f.op # "handle" THEN f.cur ELSE f.pid

\* The process IsProtectedProcess is being asked about
AskedOf(f) == IF f.stage = "target" THEN f.pid ELSE f.cur
Asked(t) == AskedOf(fr[t])

\* The image name the kernel returns for a process identifier; the query may fail
ImageNames(p) == IF os[p].phase = "free" THEN {EmptyPath}
                                         ELSE {os[p].image, EmptyPath}

\* Another thread is inside Map::Insert or Map::Erase
Restructuring(t) == \E u \in Threads \ {t} : pc[u] \in {"insert", "erase"}

\* Mutant of TimeDifference: a signed difference
SignedDifference(c, s) == c - s

\* The ULONG64 difference of two times
TimeDifference(c, s) == (c - s) % ClockModulus

\* Thread t goes from one label to another with the locals f.
Step(t, from, to, f) == /\ pc[t] = from
                        /\ pc' = [pc EXCEPT ![t] = to]
                        /\ fr' = [fr EXCEPT ![t] = f]

\* The callback has its result; locals nobody reads any more are cleared.
Finish(t, from, result) ==
    Step(t, from, "done", [fr[t] EXCEPT !.result = result, !.path = EmptyPath])

\* The thread is idle and process p has a thread to run in
Free(t, p) == pc[t] = "idle" /\ os[p].phase = "live"
-----------------------------------------------------------------------------
(* The kernel around the driver *)

SetClock == /\ \E n \in Times \ {now} : now' = n
            /\ UNCHANGED <<os, map, mapMutex, dirMutex, pc, fr>>

\* A thread of process c creates process p.
Fork(t, c, p) ==
    /\ Free(t, c)
    /\ os[p].phase = "free"
    /\ \E image \in Images :
         os' = [os EXCEPT ![p] = [phase |-> "born", image |-> image]]
    /\ Step(t, "idle", "born", [NoFrame EXCEPT !.op = "create", !.cur = c,
                                               !.pid = p, !.stage = "new"])
    /\ UNCHANGED <<now, map, mapMutex, dirMutex>>

\* The creation is announced once the process can be looked up.
Announce(t) == /\ Step(t, "born", "name", fr[t])
               /\ UNCHANGED <<os, now, map, mapMutex, dirMutex>>

\* The last thread of process p exits; no other thread runs for p.
Exit(t, p) ==
    /\ p # System
    /\ Free(t, p)
    /\ \A u \in Threads : fr[u].cur # p
    /\ os' = [os EXCEPT ![p].phase = "exiting"]
    /\ Step(t, "idle", "enter", [NoFrame EXCEPT !.op = "exit", !.cur = p, !.pid = p])
    /\ UNCHANGED <<now, map, mapMutex, dirMutex>>

\* The last reference to the object is gone; the identifier may be reused.
Reap(p) == /\ os[p].phase = "dead"
           /\ \A t \in Threads : fr[t].pid # p
           /\ os' = [os EXCEPT ![p] = NoProcess]
           /\ UNCHANGED <<now, map, mapMutex, dirMutex, pc, fr>>

\* A thread of c opens a handle to p or to one of its threads: PreObCallback.
\* It does nothing for kernel callers and for a process that opens itself.
OpenHandle(t, c, p) ==
    /\ Free(t, c)
    /\ os[p].phase # "free"
    /\ LET f == [NoFrame EXCEPT !.op = "handle", !.cur = c, !.pid = p,
                                !.stage = "source"]
       IN  \/ /\ c = System \/ c = p
              /\ Step(t, "idle", "done", [f EXCEPT !.result = "pass"])
           \/ /\ c # System /\ c # p
              /\ Step(t, "idle", "ask", f)
    /\ UNCHANGED <<os, now, map, mapMutex, dirMutex>>

\* A thread of c opens or creates a file, or sets its information:
\* PreCreateFile and PreSetInformationFile, past the kernel-mode tests.
FileRequest(t, c, op) ==
    /\ Free(t, c)
    /\ c # System
    /\ Step(t, "idle", "ask", [NoFrame EXCEPT !.op = op, !.cur = c, !.stage = "source"])
    /\ UNCHANGED <<os, now, map, mapMutex, dirMutex>>

\* The callback returns to the kernel.
Return(t) ==
    /\ Step(t, "done", "idle", NoFrame)
    /\ \/ /\ fr[t].op = "create"
          /\ os' = [os EXCEPT ![fr[t].pid].phase = "live"]
       \/ /\ fr[t].op = "exit"
          /\ os' = [os EXCEPT ![fr[t].pid].phase = "dead"]
       \/ /\ fr[t].op \in {"handle", "open", "setinfo"}
          /\ UNCHANGED os
    /\ UNCHANGED <<now, map, mapMutex, dirMutex>>
-----------------------------------------------------------------------------
(* IsInProtectedDirectory, called from four places *)

DirLock(t) == /\ Step(t, "dir", "scan", fr[t])
              /\ dirMutex = Nobody
              /\ dirMutex' = t
              /\ UNCHANGED <<os, now, map, mapMutex>>

\* The creation callback asks about the image of the new process: when it is
\* outside the directories, the entry of the parent is consulted.
ScanNew(t) ==
    LET hit == InProtectedDirectory(fr[t].path)
    IN  /\ fr[t].stage = "new"
        /\ Step(t, "scan", IF hit THEN "stamp" ELSE "parent", [fr[t] EXCEPT !.prot = hit])
        /\ UNCHANGED mapMutex

\* IsProtectedProcess asks about a process it has not found ...
ScanFresh(t) ==
    /\ fr[t].stage \in {"source", "target"}
    /\ fr[t].fresh
    /\ Step(t, "scan", "insert", [fr[t] EXCEPT !.prot = InProtectedDirectory(fr[t].path)])
    /\ UNCHANGED mapMutex

\* ... or about the path of an entry: it then unlocks the process map and returns.
ScanRecorded(t) ==
    /\ fr[t].stage \in {"source", "target"}
    /\ ~fr[t].fresh
    /\ Step(t, "scan", "answer", [fr[t] EXCEPT !.prot = InProtectedDirectory(fr[t].path),
                                               !.path = EmptyPath])
    /\ mapMutex' = Nobody

\* A request for a file elsewhere is let through.
ScanFile(t) ==
    /\ fr[t].stage = "file"
    /\ \/ /\ InProtectedDirectory(fr[t].path)
          /\ Step(t, "scan", "decide", [fr[t] EXCEPT !.path = EmptyPath])
       \/ /\ ~InProtectedDirectory(fr[t].path)
          /\ Finish(t, "scan", "pass")
    /\ UNCHANGED mapMutex

\* The destination of a link or a rename
ScanDestination(t) ==
    /\ fr[t].stage = "dest"
    /\ Finish(t, "scan", IF InProtectedDirectory(fr[t].path) THEN "denied" ELSE "pass")
    /\ UNCHANGED mapMutex

\* The directory list is scanned and unlocked.
DirScan(t) ==
    /\ \/ ScanNew(t) \/ ScanFresh(t) \/ ScanRecorded(t)
       \/ ScanFile(t) \/ ScanDestination(t)
    /\ dirMutex' = Nobody
    /\ UNCHANGED <<os, now, map>>
-----------------------------------------------------------------------------
(* kProcessMapMutex and IsProtectedProcess *)

MapLock(t, from, to) == /\ Step(t, from, to, fr[t])
                        /\ mapMutex = Nobody
                        /\ mapMutex' = t
                        /\ UNCHANGED <<os, now, map, dirMutex>>

Ask(t) == MapLock(t, "ask", "find")

\* Mutant of FindProtected: it returns without unlocking.
FindProtectedLocked(t) ==
    /\ pc[t] = "find"
    /\ Known(Asked(t)) /\ map[Asked(t)].prot
    /\ Step(t, "find", "answer", [fr[t] EXCEPT !.prot = TRUE])
    /\ UNCHANGED <<os, now, map, mapMutex, dirMutex>>

\* An entry found protected answers at once.
FindProtected(t) ==
    /\ pc[t] = "find"
    /\ Known(Asked(t)) /\ map[Asked(t)].prot
    /\ Step(t, "find", "answer", [fr[t] EXCEPT !.prot = TRUE])
    /\ mapMutex' = Nobody
    /\ UNCHANGED <<os, now, map, dirMutex>>

\* The path of an entry found plain is looked up in the directory list.
FindPlain(t) ==
    /\ pc[t] = "find"
    /\ Known(Asked(t)) /\ ~map[Asked(t)].prot
    /\ Step(t, "find", "dir", [fr[t] EXCEPT !.path = map[Asked(t)].path])
    /\ UNCHANGED <<os, now, map, mapMutex, dirMutex>>

\* Mutant of FindMissing: the map is unlocked while the image name is queried.
FindMissingUnlocked(t, name) ==
    /\ pc[t] = "find"
    /\ ~Known(Asked(t))
    /\ name \in ImageNames(Asked(t))
    /\ Step(t, "find", "dir", [fr[t] EXCEPT !.path = name, !.fresh = TRUE])
    /\ mapMutex' = Nobody
    /\ UNCHANGED <<os, now, map, dirMutex>>

\* So is the image name of a process that is not recorded.
FindMissing(t, name) ==
    /\ pc[t] = "find"
    /\ ~Known(Asked(t))
    /\ name \in ImageNames(Asked(t))
    /\ Step(t, "find", "dir", [fr[t] EXCEPT !.path = name, !.fresh = TRUE])
    /\ UNCHANGED <<os, now, map, mapMutex, dirMutex>>

\* Mutant of EntryOf: the time of an answer is recorded as the start time.
EntryStampedLate(f) == [path |-> f.path, prot |-> f.prot,
                        start |-> IF f.start = Unstamped THEN now ELSE f.start]

\* Map::Insert and the unlock, for IsProtectedProcess and for the creation callback
EntryOf(f) == [path |-> f.path, prot |-> f.prot, start |-> f.start]

Recorded(t) == IF fr[t].op = "create" THEN fr[t].pid ELSE Asked(t)

Insert(t) ==
    /\ pc[t] = "insert"
    /\ map' = MapInsert(Recorded(t), EntryOf(fr[t]))
    /\ Step(t, "insert", IF fr[t].op = "create" THEN "done" ELSE "answer",
            [fr[t] EXCEPT !.path = EmptyPath, !.fresh = FALSE, !.start = Unstamped])
    /\ mapMutex' = Nobody
    /\ UNCHANGED <<os, now, dirMutex>>

\* The caller goes on with the answer: a protected process may do anything, and
\* anything may be done to a plain one.
AnswerPass(t) ==
    /\ IF fr[t].stage = "source" THEN fr[t].prot ELSE ~fr[t].prot
    /\ Finish(t, "answer", "pass")
    /\ UNCHANGED <<os, now, map, mapMutex, dirMutex>>

\* PreObCallback asks about the target too ...
AskTarget(t) ==
    /\ fr[t].op = "handle" /\ fr[t].stage = "source" /\ ~fr[t].prot
    /\ Step(t, "answer", "ask", [fr[t] EXCEPT !.stage = "target"])
    /\ UNCHANGED <<os, now, map, mapMutex, dirMutex>>

\* ... and looks at the start time of one that is protected.
TargetProtected(t) ==
    /\ fr[t].op = "handle" /\ fr[t].stage = "target" /\ fr[t].prot
    /\ Step(t, "answer", "peek", fr[t])
    /\ UNCHANGED <<os, now, map, mapMutex, dirMutex>>

\* A plain process makes a file request: the full path name is checked.
CheckFile(t, name) ==
    /\ fr[t].op \in {"open", "setinfo"} /\ ~fr[t].prot
    /\ Step(t, "answer", "dir", [fr[t] EXCEPT !.stage = "file", !.path = name])
    /\ UNCHANGED <<os, now, map, mapMutex, dirMutex>>
-----------------------------------------------------------------------------
(* ProcessNotifyCallback *)

\* GetProcessImageName(pid) searches the map without the mutex: it finds a
\* node, or asks the kernel.
NameKnown(t) ==
    /\ pc[t] = "name"
    /\ Known(fr[t].pid)
    /\ Step(t, "name", "copy", [fr[t] EXCEPT !.it = "node"])
    /\ UNCHANGED <<os, now, map, mapMutex, dirMutex>>

NameQuery(t, name) ==
    /\ pc[t] = "name"
    /\ ~Known(fr[t].pid) \/ Restructuring(t)
    /\ name \in ImageNames(fr[t].pid)
    /\ Step(t, "name", "dir", [fr[t] EXCEPT !.path = name])
    /\ UNCHANGED <<os, now, map, mapMutex, dirMutex>>

\* The path is copied out of the node the search returned.
Copy(t, name) ==
    /\ pc[t] = "copy"
    /\ fr[t].it = "node" => name = map[fr[t].pid].path
    /\ Step(t, "copy", "dir", [fr[t] EXCEPT !.path = name, !.it = "end"])
    /\ UNCHANGED <<os, now, map, mapMutex, dirMutex>>

LockParent(t) == MapLock(t, "parent", "inherit")

\* Mutant of Inherit: every child of a recorded process is protected.
InheritAlways(t) ==
    /\ pc[t] = "inherit"
    /\ Step(t, "inherit", "stamp", [fr[t] EXCEPT !.prot = Known(fr[t].cur)])
    /\ mapMutex' = Nobody
    /\ UNCHANGED <<os, now, map, dirMutex>>

\* A child of a process whose entry is protected is protected.
Inherit(t) ==
    /\ pc[t] = "inherit"
    /\ LET c == fr[t].cur
       IN  Step(t, "inherit", "stamp", [fr[t] EXCEPT !.prot = Known(c) /\ map[c].prot])
    /\ mapMutex' = Nobody
    /\ UNCHANGED <<os, now, map, dirMutex>>

\* Mutant of Stamp: the time is rounded up to the next tick.
StampAhead(t) == /\ Step(t, "stamp", "enter", [fr[t] EXCEPT !.start = now + 1])
                 /\ UNCHANGED <<os, now, map, mapMutex, dirMutex>>

\* KeQuerySystemTime, before the mutex is taken again
Stamp(t) == /\ Step(t, "stamp", "enter", [fr[t] EXCEPT !.start = now])
            /\ UNCHANGED <<os, now, map, mapMutex, dirMutex>>

Enter(t) == MapLock(t, "enter", IF fr[t].op = "create" THEN "insert" ELSE "erase")

\* Mutant of Erase: the mutex is kept.
EraseLocked(t) ==
    LET p == fr[t].pid
    IN  /\ pc[t] = "erase"
        /\ pc' = [pc EXCEPT ![t] = "done"]
        /\ map' = [map EXCEPT ![p] = Absent]
        /\ fr' = [u \in Threads |->
                    IF fr[u].pid = p /\ fr[u].it = "node"
                    THEN [fr[u] EXCEPT !.it = "freed"] ELSE fr[u]]
        /\ UNCHANGED <<os, now, mapMutex, dirMutex>>

\* Erase frees the node: an iterator that points to it no longer does.
Erase(t) ==
    LET p == fr[t].pid
    IN  /\ pc[t] = "erase"
        /\ pc' = [pc EXCEPT ![t] = "done"]
        /\ map' = [map EXCEPT ![p] = Absent]
        /\ fr' = [u \in Threads |->
                    IF fr[u].pid = p /\ fr[u].it = "node"
                    THEN [fr[u] EXCEPT !.it = "freed"] ELSE fr[u]]
        /\ mapMutex' = Nobody
        /\ UNCHANGED <<os, now, dirMutex>>
-----------------------------------------------------------------------------
(* PreObCallback, after both processes have been asked about *)

\* The entry of the target is searched without the mutex.
PeekNode(t) ==
    /\ pc[t] = "peek"
    /\ Known(fr[t].pid)
    /\ Step(t, "peek", "age", [fr[t] EXCEPT !.it = "node"])
    /\ UNCHANGED <<os, now, map, mapMutex, dirMutex>>

PeekMiss(t) ==
    /\ pc[t] = "peek"
    /\ ~Known(fr[t].pid) \/ Restructuring(t)
    /\ Finish(t, "peek", "filtered")
    /\ UNCHANGED <<os, now, map, mapMutex, dirMutex>>

\* A process that started less than Grace ago is left alone; the access to any
\* other one is filtered.
Young(start) == TimeDifference(now, start) < Grace

Age(t, start) ==
    /\ pc[t] = "age"
    /\ fr[t].it = "node" => start = map[fr[t].pid].start
    /\ Finish(t, "age", IF Young(start) THEN "pass" ELSE "filtered")
    /\ UNCHANGED <<os, now, map, mapMutex, dirMutex>>
-----------------------------------------------------------------------------
(* PreCreateFile and PreSetInformationFile, for a path in a protected directory *)

\* The parameters of a create that are looked at; dispositions are the
\* FILE_SUPERSEDE (0) .. FILE_OVERWRITE_IF (5) of the Windows headers.
Creates == [disposition : 0 .. 5, deleteOnClose : BOOLEAN,
            writeData : BOOLEAN, appendData : BOOLEAN]

\* FlagOn(disposition, FILE_OPEN) tests the lowest bit.
CreateDenied(r) == \/ r.deleteOnClose
                   \/ r.disposition % 2 = 0
                   \/ r.writeData
                   \/ r.appendData

DecideCreate(t) ==
    /\ fr[t].op = "open"
    /\ \E r \in Creates :
         Finish(t, "decide", IF CreateDenied(r) THEN "denied" ELSE "pass")
    /\ UNCHANGED <<os, now, map, mapMutex, dirMutex>>

\* The information classes that change the size or the short name, or delete,
\* are denied; others, and a destination that cannot be resolved, let through.
DecideSetInfo(t) ==
    /\ fr[t].op = "setinfo"
    /\ \E result \in {"pass", "denied"} : Finish(t, "decide", result)
    /\ UNCHANGED <<os, now, map, mapMutex, dirMutex>>

\* A link or a rename is decided by its destination.
CheckDestination(t, name) ==
    /\ fr[t].op = "setinfo"
    /\ Step(t, "decide", "dir", [fr[t] EXCEPT !.stage = "dest", !.path = name])
    /\ UNCHANGED <<os, now, map, mapMutex, dirMutex>>
-----------------------------------------------------------------------------
(* The driver is loaded: nothing is recorded of the processes that run. *)
Init == /\ os \in [Pids -> [phase : {"live"}, image : Images] \cup {NoProcess}]
        /\ os[System].phase = "live"
        /\ now \in Times
        /\ map = [p \in Pids |-> Absent]
        /\ mapMutex = Nobody
        /\ dirMutex = Nobody
        /\ pc = [t \in Threads |-> "idle"]
        /\ fr = [t \in Threads |-> NoFrame]

Begin(t) == \E c \in Pids : \/ Exit(t, c)
                            \/ \E p \in Pids : Fork(t, c, p) \/ OpenHandle(t, c, p)
                            \/ \E op \in Requests : FileRequest(t, c, op)

Acquire(t) == DirLock(t) \/ Ask(t) \/ LockParent(t) \/ Enter(t)

Run(t) ==
    \/ Announce(t) \/ DirScan(t) \/ FindProtected(t) \/ FindPlain(t)
    \/ Insert(t) \/ AnswerPass(t) \/ AskTarget(t) \/ TargetProtected(t)
    \/ NameKnown(t) \/ Inherit(t) \/ Stamp(t) \/ Erase(t)
    \/ PeekNode(t) \/ PeekMiss(t) \/ DecideCreate(t) \/ DecideSetInfo(t)
    \/ Return(t)
    \/ \E name \in Paths : \/ FindMissing(t, name) \/ CheckFile(t, name)
                           \/ NameQuery(t, name) \/ Copy(t, name)
                           \/ CheckDestination(t, name)
    \/ \E start \in Stamps : Age(t, start)

Next == \/ SetClock
        \/ \E p \in Pids : Reap(p)
        \/ \E t \in Threads : Begin(t) \/ Acquire(t) \/ Run(t)

Spec == Init /\ [][Next]_vars

\* A callback that can go on does; a thread that waits for a guarded mutex gets
\* it if it is released again and again (the kernel wakes waiters in turn).
Fairness == \A t \in Threads : WF_vars(Run(t)) /\ SF_vars(Acquire(t))

FairSpec == Spec /\ Fairness
-----------------------------------------------------------------------------
(* Properties *)

TypeOK == /\ os \in [Pids -> Process]
          /\ now \in Times
          /\ map \in [Pids -> Entry \cup {Absent}]
          /\ mapMutex \in Threads \cup {Nobody}
          /\ dirMutex \in Threads \cup {Nobody}
          /\ pc \in [Threads -> Labels]
          /\ fr \in [Threads -> Frame]

InMapSectionOf(l, f) == \/ l \in {"find", "inherit", "insert", "erase"}
                        \/ l \in {"dir", "scan"} /\ f.stage \in {"source", "target"}
InMapSection(t) == InMapSectionOf(pc[t], fr[t])
WaitsForMap(t) == pc[t] \in {"ask", "parent", "enter"}

\* The mutexes are held exactly in the sections written for them, by one thread
\* at a time; kDirMutex is the inner one: no thread waits for kProcessMapMutex
\* with a mutex in hand, and none locks a mutex again that it holds (guarded
\* mutexes are not recursive, and IsProtectedProcess calls GetProcessImageName
\* and IsInProtectedDirectory with the map locked).
MutexDiscipline ==
    \A t \in Threads :
        /\ InMapSection(t) <=> (mapMutex = t)
        /\ (pc[t] = "scan") <=> (dirMutex = t)
        /\ WaitsForMap(t) => (mapMutex # t /\ dirMutex # t)

\* An access is filtered, and a file request denied, only to a process that is
\* on record as plain: the classification the callback acted on is still the
\* one of the map when it returns, whatever other callbacks did meanwhile.
OnlyPlainRestricted ==
    \A t \in Threads :
        pc[t] = "done" /\ fr[t].result \in {"filtered", "denied"} =>
            Known(fr[t].cur) /\ ~Verdict(map[fr[t].cur])

\* An entry with a start time was recorded by the creation callback of the
\* process that has the identifier now: it is not the remains of an earlier
\* one, and its path is the image of this process (or the query failed).
StampedTruthful ==
    \A p \in Pids :
        Known(p) /\ map[p].start # Unstamped =>
            /\ os[p].phase \in {"born", "live", "exiting"}
            /\ map[p].path \in {os[p].image, EmptyPath}

\* The first record wins and lasts: no step changes an entry, and only the
\* termination callback of its process drops it.
FirstRecordWins ==
    [][\A p \in Pids : Known(p) /\ map'[p] # map[p] =>
            map'[p] = Absent /\ os[p].phase = "exiting"]_vars

\* A process outside the protected directories is recorded as protected only
\* while the process that creates it is itself on record as protected.
InheritanceSound ==
    [][\A p \in Pids :
          ~Known(p) /\ map'[p] # Absent =>
              (map'[p].prot /\ ~InProtectedDirectory(map'[p].path) =>
                  \E t \in Threads : /\ fr[t].op = "create" /\ fr[t].pid = p
                                     /\ Known(fr[t].cur) /\ map[fr[t].cur].prot)]_vars

\* The exemption of young processes is given only for a recorded start time
\* that lies less than Grace before the present, even after the clock was set
\* back (unless the entry was erased while the callback held its iterator).
GraceIsRecent ==
    [][\A t \in Threads :
          LET start == map[fr[t].pid].start
          IN  pc[t] = "age" /\ fr[t].it = "node" /\ pc'[t] = "done"
                  /\ fr'[t].result = "pass" =>
              start # Unstamped /\ start <= now /\ now < start + Grace]_vars

\* Every callback returns.
CallbackReturns == \A t \in Threads : pc[t] # "idle" ~> pc[t] = "idle"

\* IsProtectedProcess answers as if in one step, and one record of a process
\* has one classification: the map with its mutexes implements ProcessCache.
TagOf(v) == IF v THEN "protected" ELSE "plain"
Tag == [p \in Pids |-> IF Known(p) THEN TagOf(Verdict(map[p])) ELSE "unknown"]
Told == [t \in Threads |-> IF pc[t] = "answer" THEN <<Asked(t), TagOf(fr[t].prot)>>
                                               ELSE Nobody]
Cache == INSTANCE ProcessCache WITH tag <- Tag, told <- Told, NoAnswer <- Nobody
CacheSpec == Cache!Spec

\* What the comments say.  Line 126: "If parent process is protected, then child
\* process is also protected".
ChildInherits ==
    \A t \in Threads :
        /\ pc[t] = "done" /\ fr[t].op = "create"
        /\ Known(fr[t].cur) /\ map[fr[t].cur].prot
        => Verdict(map[fr[t].pid])

\* Line 13: the map takes a PID to the full path of the process, its protection
\* and its start time.
PathOfProcess ==
    \A p \in Pids : Known(p) /\ os[p].phase = "live" =>
        map[p].path \in {os[p].image, EmptyPath}
-----------------------------------------------------------------------------
(* The inductive invariant *)

QueryStages == {"source", "target"}
QueryOps == {"handle", "open", "setinfo"}

\* Which labels, stages and locals go together.
ShapeOf(l, f) ==
    /\ l = "idle" => f = NoFrame
    /\ f.op = "none" => l = "idle"
    /\ f.op = "create" =>
         /\ l \in {"born", "name", "copy", "dir", "scan", "parent", "inherit",
                   "stamp", "enter", "insert", "done"}
         /\ f.stage = "new" /\ f.result = "none"
    /\ f.op = "exit" =>
         l \in {"enter", "erase", "done"} /\ f.stage = "none" /\ f.result = "none"
    /\ f.op = "handle" =>
         /\ l \in {"ask", "find", "dir", "scan", "insert", "answer", "peek", "age", "done"}
         /\ f.stage \in QueryStages
         /\ l \in {"peek", "age"} => f.stage = "target"
    /\ f.op \in {"open", "setinfo"} =>
         \/ /\ f.stage = "source"
            /\ l \in {"ask", "find", "dir", "scan", "insert", "answer", "done"}
         \/ /\ f.stage \in {"file", "dest"}
            /\ l \in {"dir", "scan", "decide", "done"}
    /\ f.op \in QueryOps => f.start = Unstamped
    /\ f.result \in {"filtered", "denied"} => f.stage # "source"

Shape == \A t \in Threads : ShapeOf(pc[t], fr[t])

\* The process a callback is about is in the phase the callback is for, and the
\* process it runs for is alive.
InProcessOf(f) ==
    /\ f.op = "create" => /\ f.cur \in Pids /\ os[f.cur].phase = "live"
                          /\ f.pid \in Pids /\ os[f.pid].phase = "born"
    /\ f.op = "exit" => f.pid \in Pids /\ os[f.pid].phase = "exiting"
    /\ f.op \in QueryOps => f.cur \in Pids /\ os[f.cur].phase = "live"
    /\ f.op = "handle" => f.pid \in Pids /\ os[f.pid].phase # "free"

InProcess ==
    /\ \A t \in Threads : InProcessOf(fr[t])
    /\ \A t, u \in Threads :
         /\ fr[t].op \in {"create", "exit"}
         /\ fr[u].op \in {"create", "exit"}
         /\ fr[t].pid = fr[u].pid
         => t = u

\* An iterator points to an entry until the entry is erased; the creation
\* callback cannot see that happen.
IteratorOf(l, f) ==
    /\ f.it = "node" => f.pid \in Pids /\ Known(f.pid)
    /\ f.op = "create" => (f.it = "node" <=> l = "copy") /\ f.it # "freed"

Iterators == \A t \in Threads : IteratorOf(pc[t], fr[t])

\* What IsProtectedProcess has found is still so while it holds the map.
LookupOf(l, f) ==
    /\ l \in {"dir", "scan"} /\ f.stage \in QueryStages =>
         IF f.fresh THEN ~Known(AskedOf(f))
         ELSE /\ Known(AskedOf(f)) /\ ~map[AskedOf(f)].prot
              /\ f.path = map[AskedOf(f)].path
    /\ l = "insert" /\ f.op \in QueryOps =>
         ~Known(AskedOf(f)) /\ (f.prot <=> InProtectedDirectory(f.path))
    /\ l \in {"ask", "find", "answer"} => ~f.fresh

Lookup == \A t \in Threads : LookupOf(pc[t], fr[t])

\* What was answered of the calling process remains on record.
AnsweredOf(l, f) ==
    /\ l = "answer" /\ f.stage = "source" =>
         Known(f.cur) /\ (f.prot <=> Verdict(map[f.cur]))
    /\ f.op \in QueryOps /\ f.stage # "source" =>
         Known(f.cur) /\ ~Verdict(map[f.cur])

Answered == \A t \in Threads : AnsweredOf(pc[t], fr[t])

\* What the creation callback is about to record; what the termination callback
\* has erased is not recorded with a start time again.
RecordingOf(l, f) ==
    /\ /\ f.op = "create"
       /\ l \in {"dir", "scan", "parent", "inherit", "stamp", "enter", "insert"}
       => f.path \in {os[f.pid].image, EmptyPath} \/ Known(f.pid)
    /\ /\ f.op = "create" /\ f.prot
       /\ l \in {"stamp", "enter", "insert"}
       /\ ~InProtectedDirectory(f.path)
       => Known(f.cur) /\ map[f.cur].prot
    /\ f.op = "exit" /\ l = "done" =>
         ~Known(f.pid) \/ map[f.pid].start = Unstamped

Recording == \A t \in Threads : RecordingOf(pc[t], fr[t])

IInv == /\ TypeOK /\ MutexDiscipline /\ Shape /\ InProcess /\ Iterators
        /\ Lookup /\ Answered /\ Recording /\ StampedTruthful
=============================================================================
