-------------------------- MODULE MiniFilterProofs --------------------------
(* Proofs about MiniFilter, for any set of calls. *)
EXTENDS MiniFilter, TLAPS

USE DEF Loading, Unloading, Controls, FileKinds, Listed, WithPost, Kinds, Stages

-----------------------------------------------------------------------------
(* Calls *)

\* A call that is outside is of no kind.
LEMMA OutsideCall == /\ Outside \in Call
                     /\ Outside.stage = "outside" /\ Outside.kind = "none"
  BY DEF Outside, Call

\* A notification that is in progress is in its function.
LEMMA NotificationInFunction ==
  ASSUME TypeOK, CallsAt, NEW c \in Calls, call[c].kind \in {"notify", "object"}
  PROVE  At(c) = "function"
<1>1. call[c] \in Call
  BY DEF TypeOK
<1>2. call[c] # Outside
  BY OutsideCall
<1> QED
  BY <1>1, <1>2 DEF Call, CallsAt, At

\* Move takes one call to a stage and leaves the others where they are.
LEMMA MovedCall ==
  ASSUME TypeOK, NEW c \in Calls, NEW stage \in Stages, NEW kind \in Kinds,
         Move(c, stage, kind)
  PROVE  /\ call' \in [Calls -> Call]
         /\ call'[c].stage = stage /\ call'[c].kind = kind
         /\ \A d \in Calls \ {c} : call'[d] = call[d]
<1> DEFINE moved == [stage |-> stage, kind |-> kind]
<1>1. moved \in Call /\ moved.stage = stage /\ moved.kind = kind
  BY DEF Call
<1>2. call' = [call EXCEPT ![c] = moved]
  BY DEF Move
<1> HIDE DEF moved
<1> QED
  BY <1>1, <1>2 DEF TypeOK

LEMMA LeftCall ==
  ASSUME TypeOK, NEW c \in Calls, Move(c, "outside", "none")
  PROVE  /\ call' \in [Calls -> Call]
         /\ call'[c].stage = "outside" /\ call'[c].kind = "none"
         /\ \A d \in Calls \ {c} : call'[d] = call[d]
<1>1. call' = [call EXCEPT ![c] = Outside]
  BY DEF Move
<1> QED
  BY <1>1, OutsideCall DEF TypeOK

-----------------------------------------------------------------------------
(* The inductive invariant *)

LEMMA InitIInv == Init => IInv
<1> SUFFICES ASSUME Init PROVE IInv
  OBVIOUS
<1>1. \A c \in Calls : At(c) = "outside" /\ call[c].kind = "none"
  BY OutsideCall DEF Init, At
<1>2. TypeOK
  BY OutsideCall DEF Init, TypeOK
<1> QED
  BY <1>1, <1>2 DEF Init, IInv, ContextsOwned, FilterAt, ListAt, TablesAt, PortAt,
                    CallsAt, RegistrationAt

\* The control thread: what is there at each label, and which calls there may be.
LEMMA Control ==
  ASSUME IInv, DriverEntry \/ CallFailedDriver \/ ClosePort \/ FinishUnload
  PROVE  IInv'
<1> USE DEF Go, driver, IInv, TypeOK, FilterAt, ListAt, TablesAt, PortAt,
            RegistrationAt, CallsAt, ContextsOwned, At
<1>1. CASE Load
  BY <1>1 DEF Load
<1>2. CASE RegisterNotify
  BY <1>2 DEF RegisterNotify
<1>3. CASE RegisterObject
  BY <1>3 DEF RegisterObject
<1>4. CASE FltRegister
  BY <1>4 DEF FltRegister
<1>5. CASE RegisterFilter
  BY <1>5 DEF RegisterFilter
<1>6. CASE StartFiltering
  BY <1>6 DEF StartFiltering
<1>7. CASE Undo
  BY <1>7 DEF Undo
<1>8. CASE CreatePort
  BY <1>8 DEF CreatePort
<1>9. CASE CreatePortWithoutFilter
  BY <1>9 DEF CreatePortWithoutFilter
<1>10. CASE CallFailedDriver
  BY <1>10 DEF CallFailedDriver
<1>11. CASE ClosePort
  BY <1>11 DEF ClosePort
<1>12. CASE UnregisterFilter
  BY <1>12 DEF UnregisterFilter
<1>13. CASE Drained
  BY <1>13 DEF Drained, Watched
<1>14. CASE FreeList
  BY <1>14 DEF FreeList
<1>15. CASE RemoveNotify
  BY <1>15 DEF RemoveNotify
<1>16. CASE NotifyRemoved
  <2>1. \A c \in Calls : call[c].kind # "notify"
    BY <1>16, NotificationInFunction DEF NotifyRemoved, InNotification
  <2> QED
    BY <1>16, <2>1 DEF NotifyRemoved
<1>17. CASE UnregisterObject
  BY <1>17 DEF UnregisterObject
<1>18. CASE ObjectUnregistered
  <2>1. \A c \in Calls : call[c].kind # "object"
    BY <1>18, NotificationInFunction DEF ObjectUnregistered, InNotification
  <2> QED
    BY <1>18, <2>1 DEF ObjectUnregistered
<1>19. CASE FreeTables
  BY <1>19 DEF FreeTables
<1> QED
  BY <1>1, <1>2, <1>3, <1>4, <1>5, <1>6, <1>7, <1>8, <1>9, <1>10,
     <1>11, <1>12, <1>13, <1>14, <1>15, <1>16, <1>17, <1>18, <1>19 DEF DriverEntry, FinishUnload

\* A call changes its own stage and context only.
LEMMA Progress ==
  ASSUME IInv, NEW c \in Calls, Begin(c) \/ Proceed(c)
  PROVE  IInv'
<1> USE DEF IInv, FilterAt, ListAt, TablesAt, PortAt, RegistrationAt, CallsAt,
            ContextsOwned, At
<1>0. UNCHANGED <<ctl, driver, stopped>> /\ call[c] \in Call
  BY DEF Begin, Proceed, PreOperation, Notified, Dispatch, FunctionCompletes,
         FunctionPasses, CompleteUnseen, PostOperation, PostScan,
         NotificationReturns, Move, TypeOK
<1>a. call[c].stage # "outside" => call[c].kind \in Kinds /\ call[c].stage \in Stages
  BY <1>0, OutsideCall DEF Call
<1>b. call[c].stage = "outside" => call[c].kind = "none" /\ context[c] = "none"
  BY <1>0, OutsideCall DEF Call, TypeOK
<1>1. ASSUME NEW kind \in FileKinds, NEW user \in BOOLEAN, kind = "shutdown" => ~user,
             PreOperation(c, kind, user)
      PROVE  IInv'
  <2>1. CASE user
    <3>1. Move(c, "dispatch", kind) /\ context' = [context EXCEPT ![c] = "live"]
      BY <1>1, <2>1 DEF PreOperation
    <3> QED
      BY <1>0, <1>1, <2>1, <3>1, MovedCall DEF PreOperation, driver, TypeOK
  <2>2. CASE ~user
    <3>1. Move(c, "unwatched", kind) /\ UNCHANGED context
      BY <1>1, <2>2 DEF PreOperation
    <3> QED
      BY <1>0, <1>1, <1>b, <3>1, MovedCall DEF PreOperation, driver, TypeOK
  <2> QED
    BY <1>1, <2>1, <2>2
<1>2. ASSUME NEW kind \in {"notify", "object"}, Notified(c, kind)
      PROVE  IInv'
  <2>1. Move(c, "function", kind) /\ UNCHANGED context
    BY <1>2 DEF Notified
  <2> QED
    BY <1>0, <1>2, <1>b, <2>1, MovedCall DEF Notified, driver, TypeOK
<1>3. CASE Dispatch(c)
  <2>1. CASE call[c].kind \in Listed
    BY <1>0, <1>a, <1>3, <2>1, MovedCall DEF Dispatch, driver, TypeOK
  <2>2. CASE call[c].kind \notin Listed
    BY <1>0, <1>a, <1>3, <2>2, MovedCall DEF Dispatch, driver, TypeOK
  <2> QED
    BY <2>1, <2>2
<1>4. CASE FunctionCompletes(c)
  BY <1>0, <1>4, LeftCall DEF FunctionCompletes, Deallocate, driver, TypeOK
<1>5. CASE FunctionPasses(c)
  BY <1>0, <1>a, <1>5, MovedCall DEF FunctionPasses, driver, TypeOK
<1>6. CASE CompleteUnseen(c)
  BY <1>0, <1>a, <1>6, LeftCall DEF CompleteUnseen, driver, TypeOK
<1>7. CASE PostOperation(c)
  <2>1. CASE Move(c, "outside", "none") /\ Deallocate(c)
    BY <1>0, <1>7, <2>1, LeftCall DEF PostOperation, Deallocate, driver, TypeOK
  <2>2. CASE Move(c, "scan", call[c].kind) /\ UNCHANGED context
    BY <1>0, <1>a, <1>7, <2>2, MovedCall DEF PostOperation, driver, TypeOK
  <2> QED
    BY <1>7, <2>1, <2>2 DEF PostOperation
<1>8. CASE PostScan(c)
  BY <1>0, <1>8, LeftCall DEF PostScan, Deallocate, driver, TypeOK
<1>9. CASE NotificationReturns(c)
  BY <1>0, <1>9, LeftCall DEF NotificationReturns, driver, TypeOK
<1> QED
  BY <1>1, <1>2, <1>3, <1>4, <1>5, <1>6, <1>7, <1>8, <1>9 DEF Begin, Proceed

\* The inductive invariant holds in every reachable state.
THEOREM Invariance == Spec => []IInv
<1>1. ASSUME IInv, [Next]_vars
      PROVE  IInv'
  <2>1. CASE DriverEntry \/ CallFailedDriver \/ ClosePort \/ FinishUnload
    BY <1>1, <2>1, Control
  <2>2. CASE Reboot
    <3>1. Init'
      BY <2>2 DEF Reboot, Init
    <3> QED
      BY <3>1, InitIInv, PTL
  <2>3. CASE Connect \/ Disconnect
    <3>1. UNCHANGED <<ctl, notify, object, filter, funcs, tables, server, call,
                      context, stopped>>
      BY <2>3 DEF Connect, Disconnect
    <3>2. client' \in BOOLEAN /\ (client' => server \/ client)
      BY <2>3 DEF Connect, Disconnect
    <3>3. TypeOK'
      BY <1>1, <3>1, <3>2 DEF IInv, TypeOK
    <3>4. PortAt'
      BY <1>1, <3>1, <3>2 DEF IInv, PortAt
    <3>5. ContextsOwned' /\ CallsAt'
      BY <1>1, <3>1 DEF IInv, ContextsOwned, CallsAt, At
    <3>6. FilterAt' /\ ListAt' /\ TablesAt' /\ RegistrationAt'
      BY <1>1, <3>1 DEF IInv, FilterAt, ListAt, TablesAt, RegistrationAt
    <3> QED
      BY <3>3, <3>4, <3>5, <3>6 DEF IInv
  <2>4. ASSUME NEW c \in Calls, Begin(c) \/ Proceed(c)
        PROVE  IInv'
    BY <1>1, <2>4, Progress
  <2>5. CASE UNCHANGED vars
    BY <1>1, <2>5 DEF vars, IInv, TypeOK, ContextsOwned, FilterAt, ListAt,
       TablesAt, PortAt, CallsAt, RegistrationAt, At
  <2> QED
    BY <1>1, <2>1, <2>2, <2>3, <2>4, <2>5 DEF Next
<1> QED
  BY <1>1, InitIInv, PTL DEF Spec

-----------------------------------------------------------------------------
(* What follows from it *)

\* Every variable keeps its type (MiniFs.cpp, register.cpp).
THEOREM TypeCorrect == Spec => []TypeOK
<1>1. IInv => TypeOK
  BY DEF IInv
<1> QED
  BY <1>1, Invariance, PTL

\* The completion context that MiniFsPreOperation allocates is freed once, on
\* whichever way the operation ends, and is there for as long as it may be used.
THEOREM ContextsKept == Spec => []ContextsOwned
<1>1. IInv => ContextsOwned
  BY DEF IInv
<1> QED
  BY <1>1, Invariance, PTL

\* MiniFsUnload and DriverUnload leave no callback, port, allocation or call
\* in the driver behind.
THEOREM QuietAfterUnload == Spec => []QuietWhenAbsent
<1>1. ASSUME IInv, ctl = "absent", NEW c \in Calls
      PROVE  At(c) \in {"outside", "unwatched"} /\ context[c] = "none"
  <2>1. call[c] \in Call
    BY <1>1 DEF IInv, TypeOK
  <2>2. filter = "none"
    BY <1>1 DEF IInv, FilterAt
  <2>3. CASE call[c] = Outside
    BY <1>1, <2>3, OutsideCall DEF IInv, ContextsOwned, TypeOK, At
  <2>4. CASE call[c] # Outside
    <3>1. call[c].kind \in Kinds /\ call[c].stage \in Stages
      BY <2>1, <2>4 DEF Call
    <3>2. call[c].kind \in FileKinds
      BY <1>1, <3>1, NotificationInFunction DEF IInv, CallsAt
    <3>3. At(c) = "unwatched"
      BY <1>1, <2>2, <3>2 DEF IInv, CallsAt
    <3> QED
      BY <1>1, <3>3 DEF IInv, ContextsOwned, TypeOK
  <2> QED
    BY <2>3, <2>4
<1>2. IInv => QuietWhenAbsent
  BY <1>1 DEF IInv, QuietWhenAbsent, FilterAt, ListAt, TablesAt, PortAt, RegistrationAt
<1> QED
  BY <1>2, Invariance, PTL

-----------------------------------------------------------------------------
(* The list of functions and the tables of self-defense are run down *)

\* Nobody uses what is not there.
LEMMA UsersProtected == IInv => /\ funcs # "live" => ListUsers = {}
                                /\ tables # "live" => TableUsers = {}
<1> SUFFICES ASSUME IInv, NEW c \in Calls
             PROVE  /\ funcs # "live" => c \notin ListUsers
                    /\ tables # "live" => c \notin TableUsers
  BY DEF ListUsers, TableUsers
<1>1. c \in ListUsers => funcs = "live"
  <2>1. SUFFICES ASSUME c \in ListUsers PROVE funcs = "live"
    OBVIOUS
  <2>2. filter \in {"started", "draining"}
    BY <2>1 DEF ListUsers, IInv, CallsAt
  <2> QED
    BY <2>2 DEF IInv, TypeOK, FilterAt, ListAt
<1>2. c \in TableUsers => tables = "live"
  <2>1. SUFFICES ASSUME c \in TableUsers PROVE tables = "live"
    OBVIOUS
  <2>2. call[c].kind \in {"create", "setinfo", "notify", "object"}
    BY <2>1 DEF TableUsers, IInv, CallsAt
  <2>3. ctl # "absent"
    BY <2>1, <2>2 DEF TableUsers, IInv, CallsAt, FilterAt
  <2> QED
    BY <2>3 DEF IInv, TablesAt
<1> QED
  BY <1>1, <1>2

\* The control thread moves no call.
LEMMA ControlUsers ==
  ASSUME DriverEntry \/ CallFailedDriver \/ ClosePort \/ FinishUnload \/ Connect \/ Disconnect
  PROVE  UNCHANGED call
BY DEF DriverEntry, FinishUnload, Load, RegisterNotify, RegisterObject, FltRegister,
       RegisterFilter, StartFiltering, Undo, CreatePort, CreatePortWithoutFilter,
       CallFailedDriver, ClosePort, UnregisterFilter, Drained, FreeList, RemoveNotify,
       NotifyRemoved, UnregisterObject, ObjectUnregistered, FreeTables, Connect,
       Disconnect, Go

\* A call in progress moves itself only.
LEMMA ProgressUsers ==
  ASSUME NEW c \in Calls, IInv, Begin(c) \/ Proceed(c)
  PROVE  /\ UNCHANGED <<funcs, tables>>
         /\ \A d \in Calls \ {c} : call'[d] = call[d]
BY DEF Begin, Proceed, PreOperation, Notified, Dispatch, FunctionCompletes,
       FunctionPasses, CompleteUnseen, PostOperation, PostScan, NotificationReturns,
       Move, driver, IInv, TypeOK

\* When one call moves, a set of calls that use something gains or loses it.
LEMMA UserMoves ==
  ASSUME NEW c \in Calls, NEW S \in SUBSET Calls, NEW T \in SUBSET Calls,
         \A d \in Calls \ {c} : d \in S <=> d \in T
  PROVE  T = S \cup {c} \/ T = S \ {c}
<1>1. CASE c \in T
  BY <1>1
<1>2. CASE c \notin T
  BY <1>2
<1> QED
  BY <1>1, <1>2

\* The list of filter functions is there for every pre- and post-operation that
\* walks it: FltUnload frees it when the last one has left (register.cpp).
THEOREM ListProtected == Spec => ListRundown
<1>1. Init => List!Init
  BY OutsideCall DEF Init, List!Init, ListUsers, At
<1>2. ASSUME IInv, IInv', [Next]_vars
      PROVE  [List!Next]_<<funcs = "live", ListUsers>>
  <2>0. /\ ListUsers \in SUBSET Calls /\ ListUsers' \in SUBSET Calls
        /\ funcs # "live" => ListUsers = {}
        /\ funcs' # "live" => ListUsers' = {}
    <3>1. (/\ funcs # "live" => ListUsers = {}
           /\ tables # "live" => TableUsers = {})'
      BY <1>2, UsersProtected, PTL
    <3> QED
      BY <1>2, <3>1, UsersProtected DEF ListUsers
  <2>1. CASE UNCHANGED call
    <3>1. ListUsers' = ListUsers
      BY <2>1 DEF ListUsers, At
    <3> QED
      BY <2>0, <3>1 DEF List!Next, List!Provide, List!Release
  <2>2. CASE Reboot
    <3>1. funcs' # "live"
      BY <2>2 DEF Reboot
    <3> QED
      BY <2>0, <3>1 DEF List!Next, List!Restart
  <2>3. ASSUME NEW c \in Calls, Begin(c) \/ Proceed(c)
        PROVE  [List!Next]_<<funcs = "live", ListUsers>>
    <3>1. UNCHANGED funcs /\ \A d \in Calls \ {c} : call'[d] = call[d]
      BY <1>2, <2>3, ProgressUsers
    <3>2. ListUsers' = ListUsers \cup {c} \/ ListUsers' = ListUsers \ {c}
      <4>1. \A d \in Calls \ {c} : d \in ListUsers <=> d \in ListUsers'
        BY <3>1 DEF ListUsers, At
      <4> QED
        BY <2>0, <4>1, UserMoves
    <3>3. CASE ListUsers' = ListUsers \ {c}
      BY <3>1, <3>3 DEF List!Next, List!Leave
    <3>4. CASE ListUsers' = ListUsers \cup {c}
      BY <2>0, <3>1, <3>4 DEF List!Next, List!Enter
    <3> QED
      BY <3>2, <3>3, <3>4
  <2> QED
    BY <1>2, <2>1, <2>2, <2>3, ControlUsers DEF Next, vars
<1> QED
  BY <1>1, <1>2, Invariance, PTL DEF Spec, ListRundown, List!Spec

\* The process map and the directory list are there for every callback of
\* self-defense: DrvUnload deletes them last (self_defense.cpp).
THEOREM TablesProtected == Spec => TablesRundown
<1>1. Init => Tables!Init
  BY OutsideCall DEF Init, Tables!Init, TableUsers, At
<1>2. ASSUME IInv, IInv', [Next]_vars
      PROVE  [Tables!Next]_<<tables = "live", TableUsers>>
  <2>0. /\ TableUsers \in SUBSET Calls /\ TableUsers' \in SUBSET Calls
        /\ tables # "live" => TableUsers = {}
        /\ tables' # "live" => TableUsers' = {}
    <3>1. (/\ funcs # "live" => ListUsers = {}
           /\ tables # "live" => TableUsers = {})'
      BY <1>2, UsersProtected, PTL
    <3> QED
      BY <1>2, <3>1, UsersProtected DEF TableUsers
  <2>1. CASE UNCHANGED call
    <3>1. TableUsers' = TableUsers
      BY <2>1 DEF TableUsers, At
    <3> QED
      BY <2>0, <3>1 DEF Tables!Next, Tables!Provide, Tables!Release
  <2>2. CASE Reboot
    <3>1. tables' # "live"
      BY <2>2 DEF Reboot
    <3> QED
      BY <2>0, <3>1 DEF Tables!Next, Tables!Restart
  <2>3. ASSUME NEW c \in Calls, Begin(c) \/ Proceed(c)
        PROVE  [Tables!Next]_<<tables = "live", TableUsers>>
    <3>1. UNCHANGED tables /\ \A d \in Calls \ {c} : call'[d] = call[d]
      BY <1>2, <2>3, ProgressUsers
    <3>2. TableUsers' = TableUsers \cup {c} \/ TableUsers' = TableUsers \ {c}
      <4>1. \A d \in Calls \ {c} : d \in TableUsers <=> d \in TableUsers'
        BY <3>1 DEF TableUsers, At
      <4> QED
        BY <2>0, <4>1, UserMoves
    <3>3. CASE TableUsers' = TableUsers \ {c}
      BY <3>1, <3>3 DEF Tables!Next, Tables!Leave
    <3>4. CASE TableUsers' = TableUsers \cup {c}
      BY <2>0, <3>1, <3>4 DEF Tables!Next, Tables!Enter
    <3> QED
      BY <3>2, <3>3, <3>4
  <2> QED
    BY <1>2, <2>1, <2>2, <2>3, ControlUsers DEF Next, vars
<1> QED
  BY <1>1, <1>2, Invariance, PTL DEF Spec, TablesRundown, Tables!Spec
=============================================================================
