# A TLA+ development of Windows-Kernel-Events-Trace

The repository holds a Windows minifilter driver that protects a directory and
the processes started from it (`driver/`), a console program that loads it
(`RunDriver/`), and a service that collects kernel events through ETW, follows
the files that processes write and evaluates them (`EtwService/`). This
directory holds specifications of its parts, the instances TLC checks and the
theorems TLAPS proves. Paths below are relative to `src/`.

## 1. The system

### Driver

**Process self-defense** (`driver/function/self_defense.cpp`).
State: `kProcessMap` (process identifier to path, protection, start time) under
`kProcessMapMutex`; `kProtectedDirList` under `kDirMutex`.
Operations: the process notify callback (records a process when it is created,
erases it when it ends), the object callback `PreObCallback` (takes access
rights from a handle that a plain process opens to a protected one),
`PreCreateFile` and `PreSetInformationFile` (deny changes of protected files to
plain processes), and below them `IsProtectedProcess`, which records a process
it does not find, `GetProcessImageName` and `IsInProtectedDirectory`.
The callbacks run in any thread of the system, at any time relative to each
other; `GetProcessImageName` and the start-time test of `PreObCallback` read the
map without its mutex.
Correct when: mutexes are ordered and always released; what is on record of a
process belongs to that process, lasts as long as the process and is the same
for every callback; restrictions fall on plain processes only; a child of a
protected process is protected; the half-second exemption of new processes is
given to new processes only.

**Minifilter framework** (`driver/template/MiniFs.cpp`, `register.cpp`).
State: `kFilterHandle`, `kFltFuncVector` (which component handles which
operation), one completion context per operation in flight, `kComPort`.
Operations: `DriverEntry`, `DriverUnload`, `MiniFsUnload`,
`MiniFsPreOperation`, `MiniFsPostOperation`. It calls the registration
functions of self-defense and dispatches file operations to it.
Hard: start may fail half-way; unload races with operations in flight.
Correct when: every completion context is freed exactly once; no callback
touches a list or a context that has been freed; after a failed start or an
unload no callback is left registered.

**Containers** (`driver/std/`): `Map` and `Set` (red-black trees), `Vector`,
`String`, shared pointer, KMP search. Sequential; each object is guarded by its
user. Correct when they implement finite maps, finite sets and sequences, and
when capacity never exceeds what is allocated.

**Communication port** (`driver/com/comport`): one client connection;
connect and disconnect handlers against `Send` and `Close`. **Device control**
(`driver/com/ioctl`) is compiled but its registration is commented out.

### Service

**Event collector** (`EtwService/main.cpp`, `etw/provider.cpp`): a thread that
starts the trace session (stopping an older one of the same name), opens it,
waits for the event schema and processes events until the session ends, then
starts over after 50 ms.

**Event consumer** (`etw/consumer.cpp`) runs in that thread: it filters events
by process and dispatches file events (a create event maps the file object to a
path; write and close events look it up) and process events (start and end).
**Event decoder** (`etw/wmieventclass.cpp`): finds the class of an event and the
offsets of its properties. **File manager, process manager**
(`manager/file_manager.cpp`, `manager/process_manager.cpp`): the map from file
objects to paths, the queue of file events under a mutex, the process cache
under a mutex. The thread that consumes events is their only user. **Evaluation** (`manager/manager.cpp`): drains the queue, counts
files, sizes and directories per process, has files identified by TrID and
compares the share of unrecognised ones with a threshold (the call is commented
out at `main.cpp:90`, so is the producer of the queue). **Service control**
(`service/service.cpp`), **debug log**, **support routines**.
Hard: events arrive late, out of order or not at all; identifiers and object
addresses are reused; files vanish between the phases of an evaluation; the
session is lost and restarted.
Correct when: an event is attributed to the path its object was opened by; cached process
data belongs to the process; each queued event is evaluated once; one batch's
counters relate to the files it checked; the collector comes back after every
loss.

## 2. Plan

| # | Module | Models | Abstract specification | Proved |
|---|--------|--------|------------------------|--------|
| 1 | `SelfDefense` | self-defense | `ProcessCache` | invariants, action properties, refinement |
| 2 | `MiniFilter` | load, unload, operations in flight, port | `Rundown` | invariants, both refinements |
| 3 | `KernelVector` | `vector.h` | `VectorSequence` | invariants, `OperationsExact` |
| 4 | `EventDecoder`, `EventSchema` | event layouts, property walk, record constructors | where the kernel writes | invariants |
| 5 | `FileEvents` | consumer, object map, process cache, log | attribution of events | attribution, process cache |
| 6 | `Collector`, `EventService` | trace session, service life cycle, installation | a session that is consumed | invariants, action properties |
| 7 | `KernelMap` | `map.h`, `set.h` | a finite set of keys | invariants |

The order is that in which the modules were written: first what runs in the
kernel and concurrently, then what the service does with events, then the
containers below. What a next round would add: `ComPort::Send` and the device
control once something calls them, `Evaluation` once its producer does, and
the string class, whose memory discipline resembles the vector's.

`MiniFilter` composes with `SelfDefense` through the callbacks that its load and
unload register: it says when they may be called, `SelfDefense` what they do. `EventService`
extends `Collector`: the process it starts and ends owns the thread `Collector`
describes. `FileEvents` takes from both that a session may end with its events
(`LoseSession`), and from `EventDecoder` that a record holds what the kernel wrote.
Modules that are proved about use no RECURSIVE operator.

## 3. Self-defense

### What the modules are

- `SelfDefense.tla`: the component. `ProcessCache.tla`: what it promises.
- `MCSelfDefense.tla`: symmetry and bounds for TLC. `SelfDefenseProofs.tla`: the proofs.

State: `map` is `kProcessMap` (`Absent` stands for no entry), `mapMutex` and
`dirMutex` are the owners of the two mutexes, `fr[t]` holds the locals of the
callback that thread `t` runs and `pc[t]` where it is. `os` and `now` are the
kernel's: the process objects and the system time.

One action is one stretch of code between two points where another thread can
be noticed: a lock, an access to the map, a scan of the directory list. The
release of a mutex belongs to the last access made under it.

| Code | Actions |
|------|---------|
| `ProcessNotifyCallback`, creation | `Fork`, `Announce`, `NameKnown` / `NameQuery`, `Copy`, `DirLock`, `DirScan` (`ScanNew`), `LockParent`, `Inherit`, `Stamp`, `Enter`, `Insert`, `Return` |
| `ProcessNotifyCallback`, termination | `Exit`, `Enter`, `Erase`, `Return` |
| `IsProtectedProcess` | `Ask`, `FindProtected`, `FindPlain`, `FindMissing`, `DirLock`, `DirScan`, `Insert` |
| `PreObCallback` | `OpenHandle`, a lookup of the source, `AnswerPass` / `AskTarget`, a lookup of the target, `TargetProtected`, `PeekNode` / `PeekMiss`, `Age`, `Return` |
| `PreCreateFile` | `FileRequest`, a lookup, `CheckFile`, `DirScan` (`ScanFile`), `DecideCreate`, `Return` |
| `PreSetInformationFile` | the same, then `DecideSetInfo`, `CheckDestination`, `DirScan` (`ScanDestination`) |

Abstractions. A path is a member of `Images` or empty; `ProtectedPaths` are those
that a directory of the list prefixes. The data of a request (disposition,
desired access, information class) is left to a nondeterministic choice
between the branches it selects. `SetClock` moves the system time to any value
of `Grace .. MaxTime`: times count from 1601, so a present time is never
within half a second of 0, the start time of an entry that has none.

Unlocked reads. `PreObCallback` and `GetProcessImageName` use the map
without its mutex. A read that overlaps `Insert` or `Erase` of another thread
may miss an entry, and a value read through an iterator whose node has been
erased meanwhile is any value of its type. That such a read may also fault is
outside the model.

External. Process identifiers are given back after the last reference to the
process object is gone; the creation callback runs in a thread of the creating
process when the new one can already be looked up; the termination callback
runs in the last thread of the process. A guarded mutex has one owner.

### Runs

| Run | Instance | Question |
|-----|----------|----------|
| `self_defense_processes` | 2 threads, 3 processes, 2 images, handles only | Is what is recorded true of the process, kept until it ends, and acted on consistently? `TypeOK`, `OnlyPlainRestricted`, `StampedTruthful`, `FirstRecordWins`, `InheritanceSound`. Does the component implement `ProcessCache`? `CacheSpec` |
| `self_defense_liveness` | 2 threads, 2 processes, all requests; or 1 thread, 3 processes, handles and a clock 1 .. 2; `Grace` 1, fair | Are the mutexes released and taken in order, whichever way a callback leaves (`MutexDiscipline`)? Does every callback return (`CallbackReturns`, no deadlock)? Is the exemption given to new processes only, also when the clock is set (`GraceIsRecent`)? |
| `self_defense_child` | 2 threads, 3 processes | violated: `ChildInherits` |
| `self_defense_path` | 2 threads, 3 processes | violated: `PathOfProcess` |

Bounds. Two threads are enough for every race of a callback with another one;
that the mutexes hold with more threads is proved (`MutexesKept`). Three processes are a parent, a
child and a bystander (`System` never exits and is the first creator); an
identifier is reused without bound. Two images are one inside and one outside
the directories. `MaxTime` matters only for the run with `GraceIsRecent`: a process
may be stamped at either time and asked about at either, so that it is new, no
longer new, or stamped in the future of a clock that was set back, where the
unsigned difference wraps. A test of the age needs two processes beside `System`,
which is never restricted; with the clock, two threads and file requests that would
be too many states for liveness. `SmallStep` of `MCSelfDefense.tla` therefore joins
two instances, one with the clock and one with the second thread. It holds back only
the clock and the beginning of callbacks, of which fairness says nothing, and never a
callback on its way. `GraceIsRecent` is proved without these bounds
(`GraceJustified`).
`ClockModulus` is the width of the time type, larger than
every sum of a time and `Grace` as 2^64 is. File requests are left out (`Requests = {}`) where the
question is about process identifiers: they add lookups of the source and nothing
else.

Fairness. A callback that can go on does (`WF`): kernel threads are scheduled.
A thread that waits for a mutex that is released again and again gets it (`SF`):
guarded mutexes wake their waiters in turn. Nothing is assumed of the start of
callbacks, of process exits or of the clock.

### Findings

- `IsProtectedProcess` records every process it does not find
  (`self_defense.cpp:443`), also one whose creation callback has yet to insert
  its entry. `Map::Insert` keeps the entry that is there, so what the callback
  computed from the parent is lost, against "If parent process is protected,
  then child process is also protected" (`self_defense.cpp:126`). Run
  `self_defense_child`.
- The same insertion after the termination callback leaves an entry nobody
  erases, and the next process with the identifier is found under the path of
  the old one, against the description of the map (`self_defense.cpp:13`). Run
  `self_defense_path`. `StampedTruthful` says what remains true: an entry with
  a start time is never such a leftover.

### Proofs

For any sets of threads, identifiers and images, under the named assumptions of
`SelfDefense.tla`:

| Theorem | States |
|---------|--------|
| `Invariance` | `Spec => []IInv` |
| `TypeCorrect`, `MutexesKept`, `StampsTruthful`, `RestrictionsJustified` | the four state invariants of the runs |
| `RecordsLast`, `InheritanceJustified`, `GraceJustified` | the three action properties |
| `ImplementsCache` | `Spec => CacheSpec`: the refinement |

The inductive invariant `IInv` is the conjunction of the type invariant, the
mutex discipline, `StampedTruthful` and six parts that say what a thread in the
middle of a callback may rely on: `Shape` (which labels, stages and locals go
together), `InProcess` (the process a callback is about is in the phase the
callback is for, and has one creation or termination callback at a time),
`Iterators` (an iterator points to an entry until it is erased), `Lookup` (what
`IsProtectedProcess` found is still so while it holds the map), `Answered` (what
was answered of the calling process remains on record) and `Recording` (what
the creation callback is about to insert). Without `Lookup` the insertion of a
missing entry could overwrite one; without `Answered` a record could change
between the answer about the source and the decision; without `Recording` the
path of a stamped entry could be that of another process. `IInv` was checked by
TLC on the small instance before it was proved.

The proof has one lemma per part: each part speaks of one thread's frame, so a
step is split into the thread that moves and the others, whose facts survive
because the step leaves `map` and `os` as they need them.

Only model-checked: `CallbackReturns` (liveness under fairness). The two
refuted statements have counterexamples and no theorem.

### Not modelled

Path normalisation (the device, UNC
and dot forms of `self_defense.cpp:541-716`), the masks of access rights that
`PreObCallback` clears (which rights are cleared is a constant; whether is
modelled), and the debug messages. Registration and unload of the callbacks are
in `MiniFilter`.

## 4. Minifilter

### What the modules are

- `MiniFilter.tla`: `DriverEntry`, the two unload routines, the pre- and
  post-operation routines, the port and the registrations of self-defense.
- `Rundown.tla`: what whatever is freed at unload owes to its users. It is
  implemented twice, by the list of filter functions and by the tables of
  self-defense.
- `MiniFilterProofs.tla`: the proofs.

State: `ctl` is where the one thread is that runs `DriverEntry` and the unload
routines. `notify` and `object` are the two registrations of self-defense
(`kHandleRegistration` is the handle of the second), `filter` is the state of
`kFilterHandle`, `funcs` of `kFltFuncVector`, `tables` of `kProcessMap` and
`kProtectedDirList`, `server` and `client` of the ports `server_port_` and
`client_port_`. `call[c]` is where a call into the driver is and of what kind,
`context[c]` its completion context.

| Code | Actions |
|------|---------|
| `DriverEntry`, `reg::DrvRegister`, `reg::FltRegister`, `reg::PostFltRegister` | `Load`, `RegisterNotify`, `RegisterObject`, `FltRegister`, `RegisterFilter`, `StartFiltering`, `Undo`, `CreatePort`, `CreatePortWithoutFilter` |
| `MiniFsUnload`, `reg::FltUnload` | `ClosePort`, `UnregisterFilter`, `Drained`, `FreeList` |
| `DriverUnload`, `self_defense::DrvUnload` | `RemoveNotify`, `NotifyRemoved`, `UnregisterObject`, `ObjectUnregistered`, `FreeTables` |
| `MiniFsPreOperation` | `PreOperation`, `Dispatch`, `FunctionCompletes`, `FunctionPasses` |
| `MiniFsPostOperation` | `PostOperation`, `PostScan` |
| `ConnectHandler`, `DisonnectHandler` | `Connect`, `Disconnect` |
| `ProcessNotifyCallback`, `PreObCallback` | `Notified`, `NotificationReturns` |

`FileKinds` sorts the operations of `kCallbacks` by what the routines tell apart:
those the list has a function for, the others, and `IRP_MJ_SHUTDOWN`, which is
registered without a post-operation (`MiniFs.h:198-201`). A context allocated for
an operation that has no post-operation would never be freed. None is, because
the system is shut down by the kernel, whose requests are passed on before the
allocation (`MiniFs.cpp:265`): that the requester is the kernel is in `Begin`.
`AllocCompletionContext` does not fail: `operator new` tries until it succeeds
(`std/memory/memory.cpp:3-8`). All functions of the list are pre-operations, so
the search of the post-operation calls nothing.

External. Each registration may fail. Unregistering stops new calls and returns
when those in progress have; the filter manager waits for operations whose
post-operation is to come and for the connection of the port, not for those that
were passed on. A driver whose `DriverEntry` fails is removed without its unload
routine; what it left registered may then be called, and the machine may stop, as
it may on a handle that is not one. A stopped machine is started again
(`Reboot`).

### Runs

| Run | Instance | Question |
|-----|----------|----------|
| `minifilter` | 3 calls, fair | Is every context freed once (`ContextsOwned`)? Are the list and the tables there for whoever uses them (`ListRundown`, `TablesRundown`)? Does an unloaded driver leave anything behind (`QuietWhenAbsent`)? Does an unload end (`UnloadEnds`)? |

Bounds. Calls do not see each other; each meets the control thread. Three let
one be in every stage while a second and a third are in others, and let a
notification of each registration and an operation be in progress at once, so
that each wait of the unload is for its own calls. Loads, unloads, reboots and
connections are not bounded.

Fairness. An unload that has begun proceeds (`WF` on `FinishUnload`), a call in
the driver or below it returns (`WF` on `Proceed`), and a client whose process
ends or closes its handle is disconnected (`WF` on `Disconnect`). Nothing is
assumed about new calls or new connections: a client that reconnects for ever
would hold up `FltUnregisterFilter`, and `UnloadEnds` holds because `Close` comes
first.

### Proofs

For any set of calls: `Invariance`, and from it `TypeCorrect`, `ContextsKept`,
`QuietAfterUnload` and the two refinements `ListProtected` and `TablesProtected`.
The invariant `IInv` adds to the type invariant and `ContextsOwned`: `FilterAt`,
`ListAt`, `TablesAt` and `PortAt` (what there is at each label of the control
thread), `RegistrationAt` (when a notification may be registered) and `CallsAt`
(which calls there may be). `CallsAt` is the heart: it carries the wait of each
unregistration, past which no call of its kind is left, to the point where the
memory is freed. The refinements follow because nobody uses what is not there
and each step moves either the control thread or one call.

Only model-checked: `UnloadEnds`.

### Not modelled

`ComPort::Send` (nobody calls it) and `SendRecvHandler` (it looks at its
arguments only), the instance callbacks, which attach to every volume,
`kComPort` and `kDrvFuncVector` themselves (the first is never freed, the second
never filled). That callbacks of a driver whose `DriverEntry` failed remain
registered is in the model (`CallFailedDriver`); nothing in the repository says
otherwise, so no property is refuted by it.

## 5. Kernel vector

`KernelVector.tla` is `vector.h`: `size`, `space` and `elements` are `size_`,
`space_` and what `elements_` points to, of several vectors, as operands of the
copies and joins. Each operation of the class is an action of that name
(`Append` and `operator+=` are `AppendAll`, `operator+` is `Plus`, `operator=` is
`AssignInPlace` and `AssignAnew`). `PushBack` takes a reference: `PushBackOwn` is
the call with an element of the vector itself, which is read after `Reserve` has freed
the storage it was in (`vector.h:369-380`) and is then any value. `Reserve`, which most of them begin with, is
`Room` and `Larger` for the storage and the space. An access outside the storage
reads `Raw` and writes nowhere, and `Raw` is also what new storage holds.
`VectorSequence.tla` says what the operations are on sequences.

Two runs, with two vectors of at most three elements of two values:

- `kernel_vector` checks all operations in every order. `SizeWithinSpace`: the
  size stays within `space_`, by which every operation decides whether to
  allocate. `StorageKept`: no operation but `Clear` makes `space_` differ from
  what has been allocated. `OperationsExact`: as long as they agree, the
  operations do to the elements what `VectorSequence` says, also when they move them
  to new storage and when a vector is appended to itself. Four cases are not claimed,
  because the code does otherwise: `Erase`, `AssignInPlace`, `Resize` with a value
  other than the default, and `PushBackOwn` without room for one more.
- `kernel_vector_clear` finds `CapacityAllocated` violated.

Bounds. Three elements give a first, a middle and a last one. `FirstSpace`, 8 in
the code, is 1, so that `PushBack` doubles the space twice within the bound.
`MaxSpace` bounds what `Clear` may record: it could add to the space for ever.

Findings. `Clear` adds `size_` to `space_` (`vector.h:363`) against "Capacity is
not changed" (`vector.h:86`); a later `PushBack` stores outside of the storage.
The four cases that `OperationsExact` leaves out are translated as they are: `Erase`
stops its loop one element early (`vector.h:430`), so that the last element is lost;
assignment with enough space returns from inside its copy loop (`vector.h:246`);
`Resize` fills with the default (`vector.h:345`) and not with `val`, which is "for
custom values when resizing" (`vector.h:65`), as `VectorSequence` does; `PushBack`
reads an element of its own vector after it was freed. The driver calls none of them
in a way that shows it.

Proofs (`KernelVectorProofs.tla`), for any set of vectors and values and any
bounds: `Invariance` (`IInv` is the type invariant and `SizeWithinSpace`, which
is inductive with it), `TypeCorrect`, `SpaceSuffices`, and `StorageHonest` for
`StorageKept`. Three lemmas carry them, one for each way of storing: in place,
after making room, in new storage. `VectorsAreSequences` is `OperationsExact`: what
an operation leaves in the storage up to its size is the sequence that
`VectorSequence` makes of the old one, with the same four cases left out. `RoomContent` and `BecomesSequence` say so
of making room and of storing; each operation has a lemma (`...Exact`) that
compares the two element by element, with the operand being the vector itself as
a case of its own.

Not modelled: iterators, which are compared by the elements they point to
(`vector.h:191`) and have no user, `Data`, which hands out the storage, and
allocation failure, which does not return.

## 6. Event decoder

`EventSchema.tla` lists the event classes of `etw/event/`: what the kernel's
events of each carry, and for each record which properties its constructor looks
up, tests, copies or points to. `EventDecoder.tla` is the walk of
`etw/wmieventclass.cpp` and the common form of the constructors.

| Code | Definitions |
|------|-------------|
| `GetEventPropertyValue` | the operator of that name: the size of a property |
| `GetPropertyList` | `PropertyIndex`, `GetPropertyList` |
| `GetEventCategoryClass`, `GetEventClass` | the operators of those names |
| `GetPropertyInfo` | `NextPlace`, `Walk`, `WalkOf`, `GetPropertyInfo` |
| a record's constructor, first event of its type | `Reject` (a size is 0), `Locate` |
| a later event | `Reuse`: the offsets are static |
| a class that is not there | `LosesClass`: the null class is used, the service crashes and is started again (`Restart`) |

State: the layout and the repository of the machine, chosen once; the kept
offsets per type; the event at hand and its record. A record holds, for each
member, the name of the property whose bytes it got.

Run `event_decoder`: every layout the service declares, with WMI describing the
class as documented, without one property, with one more at any place, or with
one of another kind or count; always listed in the reverse of its order, with
other categories and an older version before it. `WalkExact`: the walk finds each
property where the kernel wrote it or says that it does not know.
`DecodedTruthfully` and `KeptPlacesHold`: so do the records, also with offsets
that were kept from an event whose strings and SID had other lengths, which is
why the constructor of process events looks its strings up each time.
`NeverHalfDecoded`: the numbers of a record are all there or none is.

Bounds. One deviation of the description at a time; lengths 0 and 2 for every
string, SID and unsized property; two types per layout, so that the offsets of
one are not used for the other. `OffsetModulus` is the width of the kept
offsets, far above any offset here as 2^32 is; `LengthModulus` that of the lengths of
strings, which are cast to `USHORT` (`wmieventclass.cpp:574, 578`). That a length is
below it is assumed: an event has at most 64 KB.

What the kernel writes (`EncodedSize`, by `ValueSize`) is stated from the documented
kinds of values and not by way of `GetEventPropertyValue`, so that a wrong size in
the code would show.

What the properties leave out is what the code leaves out: a class that lacks a
property the constructor wants (`GetPropertyInfo` then answers with the size of
the last property and no place, so the constructor reads outside the event), an
array whose class does not say how long it is (size 0), and an array of objects,
whose count is multiplied twice (`Described` gives such kinds a count of 1; no
documented class has one). Failing COM calls are not modelled, nor is a property
without `WmiDataId` (`wmieventclass.cpp:407-411`): every property of the documented
classes has one.

### Proofs

`EventDecoderProofs.tla` proves `TypeOK`, `WalkExact`, `DecodedTruthfully`,
`NeverHalfDecoded` and `KeptPlacesHold` for strings, SIDs and unsized properties of
every length that fits the length type, both pointer sizes, any number of types and
every width of the kept offsets above 1024. The layouts are those of the service: they are
definitions, and so is what WMI may say of them (`Described`, one deviation at a
time). The argument goes from a property to an event:

- What the walk takes a property for is what the kernel wrote, or 0 (`Sizes`).
- `Starts` and `Walk` are recursive functions of the property list. Their values
  are proved by induction on the list's length: `StartsBegin` says that the first
  gives sums of sizes, `WalkEnds` that the second is the list of places up to the
  first size that is not understood. The library's induction theorems cannot be
  used (their parameter is an operator); `Ind` proves induction for a set of
  naturals instead, from the pigeonhole theorem on finite sets.
- So a property that is listed is found where it begins, or not at all
  (`InfoThere`, `KnownInfo`), and what is found at a place is the property that
  begins there (`Found`): no property takes 0 bytes, so no two begin together.
- In every layout, and in whatever WMI says of it, no string or SID lies before a
  property whose offset is kept (`ReadersSound`, `DescribedFits`, `ReadersFit`),
  and a fixed offset is less than 1024, hence the assumption on `OffsetModulus`.
  This is the fact that makes the static offsets right.
- The numbers that WMI gives properties put them in order, whatever the order
  of enumeration (`PutInPlace`); the reverse stands for it.
- Hence what a constructor learns at one event is true of all events of the
  class (`LearnedOnce`), and this is what the invariant says of every type whose
  offsets are kept (`Kept`). `IInv` adds that the event is one the kernel writes and
  that a record exists only after one; the properties are not inductive without,
  since a kept offset is used at events that come long after.

Everything a run checks of the decoder is proved. `RegistryTypeGroup1` calls its first
property `InitialTime` where the code has a space in the name, which the provers
cannot read.

## 7. File events

`FileEvents.tla` has the kernel that produces events and the thread that handles
them, `ProcessEvent`, one event a step: all state of the service below belongs to
that thread, so that a step is a whole handler.

| Code | Definitions |
|------|-------------|
| `KernelConsumer::ProcessEvent`, `OverallEventFilter` | `ProcessEvent`, `FilterOut` |
| `ProcessFileIoEvent` | `ProcessCreate`, `ProcessWrite`, `ProcessClose`, `PassOver` |
| `ProcessProcessEvent`, `ProcessManager` | `ProcessStart`, `ProcessEnd`, `GetImageFileName`, `AddProcess`, `RemoveProcess` |
| `FileNameObjMap`, `GetWin32Path` | `MapObjectWithPath`, `GetPathByObject`, `GetWin32Path` |
| `debug::WriteDebugToFileW` | `WriteDebugToFileW`, `WriteLine`, `InitDebugLog` |
| kernel (external) | `OpenFile`, `RenameFile`, `WriteFile`, `CloseFile`, `OtherOperation`, `StartProcess`, `EndProcess`, `LoseSession` |

State: `obj_to_name_map_`, `process_map_`, `resolved` (`kWin32Path` is filled at
the first success) and `log` are the service's. `stream` holds the events not
handled yet; one that finds it full is lost. `opened` and `running` are what is
true now: of an object, the path it was opened by and the path its file has, which
differ once the file is renamed. The paths a write event carries, `announced`,
`told`, `written` and `gap` are there for the properties: whether the create event
of an object reached the session and the map, what was logged, whether a process
event was lost.

Abstractions. Which process reads or writes makes no difference to the consumer
unless it is the service or the system: the others are one (`Another`). A handler
logs lines of several `PrintDebugW` calls; one stands for
them, and the ones of `GetImageFileName` are left out. Process events are
modelled as delivered, as their handlers expect, although their flag is commented
out of the session (`main.cpp:24`). Events with process id 0 are dropped like
the service's own and are left out. When the image name of a process cannot be
queried, the buffer that was to hold it is cached (`process_manager.cpp:67`):
`Nulls`.

Run `file_events`. `Attribution`: though objects are given away and events wait, a
write is logged under the path of the file it changed if the file was not renamed
since the object was opened, and under the path the object was opened by if it was.
The second half is what the code does and not what a reader of the log would wish:
the handler sees the Rename event ("File might be renamed", `consumer.cpp:190`) and
passes it over (`consumer.cpp:227-239`), so the log names a file that is no longer
there or is another one by then. Another condition is
that the create event of the object was seen and accepted; it is needed, because
nothing ever leaves the map (`RemoveObject` is commented out, `consumer.cpp:352`):
when the kernel reuses the address for a file outside the watched directories,
its writes are logged under the old path. The log file is not renamed: the service
has it open. `CacheSettles`: when all is handled
and no process event was lost, every entry of the process cache is true of the
process that has the id now. `ComesToRest`: what the service logs makes it log
no more, because its own events are filtered out; the log file may get the
object of a watched file. Writes of the cache manager are logged whatever they
are to, the log file included; the model takes them from the budget
(`MaxEvents`), so that this loop, of which each turn needs a flush of the
system, is not in `ComesToRest`.

Bounds. Two objects let one be reused while the log has the other; two watched
files let an object change from one to another; two process ids beside the
service and the system let one start the other and be reused. Four actions of
others are open, close, open, write, the shortest way to the path of another
object, and open, rename, write, the shortest way to an old path. The
threshold of log lines is 2, so that the log is opened again often.

Fairness: `WF` of `ProcessEvent`, as `ProcessTrace` calls back while there are
events.

Proofs (`FileEventsProofs.tla`), for any objects, files, processes, session
capacity and log threshold: `Invariance`, `TypeCorrect`, and `WritesAttributed`
for `Attribution`. `Attribution` says nothing of events that still wait, so it is
not inductive. `IInv` adds what the service will know of an object when it gets
to a place of the stream: the path of the last create event before that place, or
what it knows now if there is none (`Heard`). `Waiting` says so of every write in
the stream, `Standing` of every open object at the end of it. An event of the
kernel puts one event behind (`OneEvent`); a handler takes the first one away and
puts what the log caused behind the rest (`PrintFacts`), and what it learns is what
the first event said (`Learns`, `HeardTail`). The lemmas on `Heard` speak of
sequences of any length. Only model-checked: `ComesToRest`
(liveness).

The same module proves `CacheSettled`, which is `CacheSettles`, for any
processes. Its invariant `CacheInv` replays the process events that wait, as long
as none was lost (`~gap`): after the last event that mentions an id, the cache has
no entry of it (`Absent`) or one that is true of a process (`Truthful`). `Deaths`
says so of ids that no process has, at the end of the stream; `Lives` of the
processes that run; `Births` of the moment before each start event that waits,
whose handler adds an entry only if there is none. It rests on one assumption
that `FileEvents` names: the path of an image is not the empty string, by which
`GetImageFileName` says that it knows none (`NoImage`).

## 8. Event service

`Collector.tla` is the collector thread with the trace session it needs:
`BeginTrace`, `StopSession`, `BeginTraceAgain` for `KernelProvider::BeginTrace`
(`StopSession` may fail, and nobody looks at its result, `provider.cpp:71`),
`Open`, `Init_` (`etw::Init`, which waits for WMI), `StartProcessing`,
`ProcessTraceReturns` and `Again` for the loop of `ServiceMain`. `EventService.tla`
adds the process around it: `ServiceMain`, `ServiceCtrlHandler`, `MainReturns`,
`ExitProcess`; the service control manager with its registry entry (`entry`) and
`Boot`; and the run of the executable that installs the service, `RunService`:
`Stop`, `Delete`, `Create`, `Run`, `ExitInstaller`.

Run `event_service`, with six disturbances (an installation, a boot, a crash, a
shutdown, a failing call, another program that takes or stops the session, a
kernel without resources, a WMI that stops), which is enough for two
installations with a crash and a stolen session between them.

- `NothingLeftOver`: a session outlives the process that started it; the next
  process consumes what was left only if it tried to stop that very session and
  could not. Then `StartTrace` answers `ERROR_ALREADY_EXISTS` again, which is accepted
  (`main.cpp:31`), and the session is consumed as it is. The history variable
  `spared` records the failure, for as long as the session and the process last.
- `InstallationLasts`: an installation that finds no service running and is
  granted its calls leaves an entry. If the service runs, `Delete` marks the
  entry, `Create` meets it and nothing is created: after the next boot there is
  no service. The condition `~found` says so.
- `ShutdownEnds`: the service ends although `ServiceMain` joins threads that
  never end, since `main` returns when the dispatcher does.
- `CollectsInTheEnd`: once nothing disturbs, a running service comes to process
  events for good, whatever state the session and the handle were in. The
  condition excludes the `ServiceMain` that could not create its directory and
  returned (`main.cpp:69`): the process then stays without a collector. The
  session may be another program's: a second `ERROR_ALREADY_EXISTS` is taken for
  success (`provider.cpp:73`), and the events are then those the other program
  asked for.

Run `event_service_stop` finds `InstallationStops` violated: "If the service is
running, stop the service" (`service.cpp:99`), which the installation calls first
(`main.cpp:112`). The service accepts only the shutdown control (`service.cpp:196`), the
result of `ControlService` is not looked at, and the service runs on. Two
disturbances are enough: one installation to have a service, another to stop it.

Fairness: threads and processes are scheduled (`Threads`, `ServiceMain`,
`MainReturns`, `InstallerStep`); a lack of resources passes and WMI comes up.
Nothing is assumed of the rest.

Proofs (`EventServiceProofs.tla`), for any number of disturbances: `Invariance`,
`TypeCorrect`, and `NothingLeft` and `Installs` for `NothingLeftOver` and
`InstallationLasts`. `IInv` adds to the type
invariant `Owned` (the collector thread has stopped what was left, or tried to, before
it takes or opens a session; a live handle is in use and of a session that is there) and
`Achieved` (an installation that found no service running has the service control
manager to itself; after a deletion that did not fail there is no entry, after a
creation there is one). Only model-checked: `ShutdownEnds` and
`CollectsInTheEnd` (liveness).

Not modelled: the objects each round of the collector leaks, the handles of
`OpenTrace` that are forgotten with them, uninitialised session properties
(`provider.h`; the crash they may cause is `Crash`), the debug build, which runs
`ServiceMain` without a service.

## 9. Kernel map

`KernelMap.tla` is the red-black tree of `map.h`, which `set.h` repeats for keys
alone: the map of definitions refers partly to one and partly to the other. A
node is named by its key. Descents are recursive functions; the loops of
`InsertFixup` and `DeleteFixup` are steps of one iteration each (`FixInsertion`,
`FixErasure`), with the mirrored halves of the code written once, for a side and
its opposite. An erasure of a range is a sequence of erasures, each from the node
the last one returned.

Run `kernel_map`: all trees over eight keys that the operations can make, in
any order. `Ordered` (the tree holds exactly the keys that were passed to `Insert`
and whose nodes were not given to `Erase` since, where the search looks for them), `Balanced`, `Linked` (pointers agree, the
sentinel is sound, the size is right), `Traversable` (iteration and bounds), and
`RepairsShort` (a repair takes at most logarithmically many rounds, so it ends).
Eight keys are enough for every branch of the two repairs, and for either loop to
run more than once.

The keys of `Ordered` are a history of their own, `contents`: `Insert` adds the key it
is given, before the new node is linked anywhere, and an erasure takes away the
node it is given, one by one for a range. Nothing of it is read off the tree.

Three operations follow a pointer to nothing or do not end, which the model has
as `Crash`: copying a map that is not empty, since the copy looks for its own
sentinel in the other tree (`map.h:764`); using a map that was moved from, which has no
sentinel; erasing a range past its last element. A range that does not crash may
erase other keys than those between its ends, since `Erase` returns the node that
took the erased one's place; the tree stays sound. A set that is constructed from
a range has no comparison (`set.h:209`). The driver uses none of these, and no
text of the repository promises otherwise.

### Proofs

For any finite set of keys, `KernelMapProofs.tla` proves `MapInvariant` and from it
`MapTypes` (`TypeOK`), `PointersAgree` (`Linked`), `ContentsOrdered` (`Ordered`),
`StaysBalanced` (`Balanced`), `IterationInOrder` (`Traversable`) and `RepairsEnd`
(`RepairsShort`). The trees of the proofs are the arrays of pointers that the code
changes, not terms.

- A tree `t` has a shape `u` (`Shape`): the set of keys below each node, which is the
  node and what is below its children, smaller keys on the left and greater ones
  on the right; each child points back to its parent; a node outside the tree has
  no pointers. It has weights `b` (`Weighed`): the black nodes on a way down from
  each node, the same on both sides. Both are witnesses that the lemmas take
  along from step to step, so that nothing has to be computed by recursion to
  know what an assignment does to the tree.
- `KernelMapRepairs.tla` says what the code does to them. `RotateShape`: after a
  rotation only the two nodes that turned have other keys below. `RedUncle`,
  `TurnLine` and `TurnInner` are the cases of `InsertFixup`, `RedSibling`,
  `BlackNephews`, `NearNephew` and `FarNephew` those of `DeleteFixup`. Hence
  `InsertFixupMends` and `DeleteFixupRestores`: an iteration leads from a tree in
  the middle of a repair to another one at the node it goes on with. In the
  middle of an insertion only the node at hand may be a red child of a red node
  (`Mend`); in the middle of an erasure the ways through the node at hand pass one
  black node less (`Short`). The sentinel counts as a node here: `DeleteFixup`
  starts from its parent, which is set for that purpose only.
- `Unlink` of a node with two children is several assignments in an order that
  matters. They are proved to be two steps: the successor is spliced out
  (`SpliceCut`), and it takes the place of the erased node (`RenameCut`).
- `Outermost`, `Descend`, `Bound`, `Neighbour`, `Below` and `BlackHeight` are recursive
  functions. That a function can be defined from its values at the children
  (`TreeRecursion`), and what it then is at each node, follows by induction over the
  nodes below, which `TreeInduction` gives for sets of nodes. The way up of
  `Neighbour` is the other way round: what holds of the root and is handed down
  holds of all nodes (`Downward`).
- `MapInv` says that the tree is `Settled` between the operations, `Mending` while an
  insertion is repaired and `Losing` while an erasure is, each with the keys it
  has. The properties speak of the time between operations only (`op.fix = "none"`),
  so they are not inductive: what the next iteration does depends on where the
  last one stopped. `Returnable` adds that what an erasure returned is a key of the
  map or the sentinel, since the next step of a range erases it.

- A repair is short because each round that goes on leaves the node at hand with one
  more black node on the ways down from it (`Risen` for an insertion, `Climbed` for
  an erasure), and a node with b of them has at least 2^b - 1 keys below it (`Heavy`).
  So `MapInv` bounds the rounds taken by the black nodes below the node at hand, and
  the tree would have to be larger to allow more rounds. The provers know
  nothing of powers of two: here 2^n is the number of subsets of `1 .. n`, of
  which `FS_SUBSET` says as much, and half of those of `1 .. n + 1` have the last
  element (`PowerDoubles`).

`TLC` checks the same properties over eight keys.

## 10. Not modelled

- **Evaluation** (`manager/manager.cpp`): its call is commented out
  (`main.cpp:90`), and so is what fills its queue. No run of the service reaches it.
- **Device control** (`com/ioctl`): its registration is commented out.
- **Driver communication**: opens the device of that registration; **named
  mutex** and **shared pointer**: no user.
- **Kernel string and matching**, **support routines**: pure functions of
  strings, whose results enter the models as choices.
- **Kernel memory, files and mutexes**, **filter helpers**, **driver loader**:
  single calls of the system without state of their own; a mutex is a variable
  of `SelfDefense`.
- Handlers of disk, registry, thread, page-fault and system-call events: their
  calls are commented out in `consumer.cpp`; the decoding of their events is in
  `EventDecoder`.
