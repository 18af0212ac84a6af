----------------------------- MODULE MiniFilter -----------------------------
(***************************************************************************)
(* driver/template: the driver is loaded, registers its callbacks, filters *)
(* file operations and is unloaded (MiniFs.cpp, register.cpp), with what   *)
(* self_defense.cpp and comport.cpp register and release on the way.       *)
(*                                                                         *)
(* One thread of the system runs DriverEntry and the unload routines; ctl  *)
(* is where it is.  Each member of Calls is a call into the driver: a file *)
(* operation between its pre- and its post-operation, or a process or      *)
(* handle notification.                                                    *)
(*                                                                         *)
(* External (the Windows kernel): a registration may fail; what is         *)
(* unregistered gets no new calls, and unregistering returns when the      *)
(* calls in progress have; the filter manager drains the operations that   *)
(* await a post-operation.  A call into a driver that is gone, and the use *)
(* of a handle that is not one, may stop the machine.                      *)
(***************************************************************************)
EXTENDS Integers, FiniteSets

CONSTANT Calls    \* calls into the driver that may overlap

VARIABLES ctl,      \* where the thread that loads and unloads is
          notify,   \* the process notify routine
          object,   \* the object callbacks (kHandleRegistration)
          filter,   \* kFilterHandle
          funcs,    \* kFltFuncVector
          tables,   \* kProcessMap and kProtectedDirList
          server,   \* server_port_ is open
          client,   \* client_port_ is connected
          call,     \* the state of each call
          context,  \* the completion context of each call
          stopped   \* the machine has stopped

vars == <<ctl, notify, object, filter, funcs, tables, server, client, call,
          context, stopped>>

driver == <<notify, object, filter, funcs, tables, server, client>>

Loading == {"notify", "object", "list", "filter", "start", "undo", "port"}
Unloading == {"unregister", "drain", "free", "unnotify", "waitnotify",
              "unobject", "waitobject", "freetables"}
Controls == {"absent", "loaded", "failed"} \cup Loading \cup Unloading

\* The operations kCallbacks registers: those the list has a function for,
\* the others, and the one without a post-operation.
FileKinds == {"create", "setinfo", "other", "shutdown"}
Listed == {"create", "setinfo"}
WithPost == FileKinds \ {"shutdown"}

Kinds == FileKinds \cup {"notify", "object"}

\* A call is outside, in the pre-operation before or in the function it calls,
\* passed on with or without a post-operation to come, or in the post-operation.
Stages == {"dispatch", "function", "below", "unwatched", "scan"}

Outside == [stage |-> "outside", kind |-> "none"]
Call == [stage : Stages, kind : Kinds] \cup {Outside}

At(c) == call[c].stage
InNotification(kind) == \E c \in Calls : At(c) = "function" /\ call[c].kind = kind

\* Calls the filter manager waits for when the filter is unregistered
Watched == {c \in Calls : call[c].kind \in FileKinds /\ At(c) # "unwatched"}

TypeOK == /\ ctl \in Controls
          /\ notify \in {"none", "registered", "failed"}
          /\ object \in {"none", "registered", "failed"}
          /\ filter \in {"none", "registered", "started", "draining", "failed", "gone"}
          /\ funcs \in {"none", "live", "freed"}
          /\ tables \in {"none", "live", "freed"}
          /\ server \in BOOLEAN
          /\ client \in BOOLEAN
          /\ call \in [Calls -> Call]
          /\ context \in [Calls -> {"none", "live"}]
          /\ stopped \in BOOLEAN

Init == /\ ctl = "absent"
        /\ notify = "none" /\ object = "none" /\ filter = "none"
        /\ funcs = "none" /\ tables = "none"
        /\ server = FALSE /\ client = FALSE
        /\ call = [c \in Calls |-> Outside]
        /\ context = [c \in Calls |-> "none"]
        /\ stopped = FALSE

\* The control thread goes from one label to another.
Go(from, to) == /\ ~stopped
                /\ ctl = from
                /\ ctl' = to
                /\ UNCHANGED <<call, context>>
-----------------------------------------------------------------------------
(* DriverEntry *)

\* self_defense::DrvRegister creates the map and the list of directories ...
Load == /\ Go("absent", "notify")
        /\ tables' = "live"
        /\ UNCHANGED <<notify, object, filter, funcs, server, client, stopped>>

\* ... and goes on whether or not it can register the process notify routine ...
RegisterNotify == /\ Go("notify", "object")
                  /\ notify' \in {"registered", "failed"}
                  /\ UNCHANGED <<object, filter, funcs, tables, server, client, stopped>>

\* ... or the object callbacks.
RegisterObject == /\ Go("object", "list")
                  /\ object' \in {"registered", "failed"}
                  /\ UNCHANGED <<notify, filter, funcs, tables, server, client, stopped>>

\* reg::FltRegister makes the list of functions before the filter is registered.
FltRegister == /\ Go("list", "filter")
               /\ funcs' = "live"
               /\ UNCHANGED <<notify, object, filter, tables, server, client, stopped>>

RegisterFilter == /\ \/ Go("filter", "start") /\ filter' = "registered"
                     \/ Go("filter", "port") /\ filter' = "failed"
                  /\ UNCHANGED <<notify, object, funcs, tables, server, client, stopped>>

StartFiltering == /\ \/ Go("start", "port") /\ filter' = "started"
                     \/ Go("start", "undo") /\ UNCHANGED filter
                  /\ UNCHANGED <<notify, object, funcs, tables, server, client, stopped>>

\* A filter that could not start is unregistered.
Undo == /\ Go("undo", "port")
        /\ filter' = "gone"
        /\ UNCHANGED <<notify, object, funcs, tables, server, client, stopped>>

\* reg::PostFltRegister creates the port, or fails to; DriverEntry returns.
CreatePort == /\ filter = "started"
              /\ Go("port", "loaded")
              /\ server' \in BOOLEAN
              /\ UNCHANGED <<notify, object, filter, funcs, tables, client, stopped>>

\* It does so even when there is no filter: the handle it passes is not one,
\* and DriverEntry returns a failure.
CreatePortWithoutFilter == /\ filter # "started"
                           /\ Go("port", "failed")
                           /\ stopped' \in BOOLEAN
                           /\ UNCHANGED driver

\* After a failure the driver is gone, and its callbacks may still be called.
CallFailedDriver == /\ Go("failed", "failed")
                    /\ notify = "registered" \/ object = "registered"
                    /\ stopped' = TRUE
                    /\ UNCHANGED driver
-----------------------------------------------------------------------------
(* MiniFsUnload and DriverUnload *)

\* Mutant of ClosePort: the port is left open.
ClosePortNot == /\ Go("loaded", "unregister")
                /\ UNCHANGED <<driver, stopped>>

\* reg::FltUnload closes the port, ...
ClosePort == /\ Go("loaded", "unregister")
             /\ server' = FALSE
             /\ UNCHANGED <<notify, object, filter, funcs, tables, client, stopped>>

\* Mutant of UnregisterFilter: the list is freed at once.
UnregisterFilterFreed == /\ Go("unregister", "drain")
                         /\ filter' = "draining"
                         /\ funcs' = "freed"
                         /\ UNCHANGED <<notify, object, tables, server, client, stopped>>

\* ... unregisters the filter, ...
UnregisterFilter == /\ Go("unregister", "drain")
                    /\ filter' = "draining"
                    /\ UNCHANGED <<notify, object, funcs, tables, server, client, stopped>>

\* ... which returns when no operation and no connection is left, ...
Drained == /\ Go("drain", "free")
           /\ Watched = {}
           /\ ~client
           /\ filter' = "gone"
           /\ UNCHANGED <<notify, object, funcs, tables, server, client, stopped>>

\* ... and frees the list.
FreeList == /\ Go("free", "unnotify")
            /\ funcs' = "freed"
            /\ UNCHANGED <<notify, object, filter, tables, server, client, stopped>>

\* Mutant of RemoveNotify: the map is deleted before the callbacks are gone.
RemoveNotifyLast == /\ Go("unnotify", "waitnotify")
                    /\ notify' = "none"
                    /\ tables' = "freed"
                    /\ UNCHANGED <<object, filter, funcs, server, client, stopped>>

\* self_defense::DrvUnload removes the notify routine, registered or not, ...
RemoveNotify == /\ Go("unnotify", "waitnotify")
                /\ notify' = "none"
                /\ UNCHANGED <<object, filter, funcs, tables, server, client, stopped>>

NotifyRemoved == /\ Go("waitnotify", "unobject")
                 /\ ~InNotification("notify")
                 /\ UNCHANGED <<driver, stopped>>

\* ... unregisters the object callbacks, also when there is no handle, ...
UnregisterObject == /\ Go("unobject", "waitobject")
                    /\ object' = "none"
                    /\ stopped' \in {FALSE, object = "failed"}
                    /\ UNCHANGED <<notify, filter, funcs, tables, server, client>>

ObjectUnregistered == /\ Go("waitobject", "freetables")
                      /\ ~InNotification("object")
                      /\ UNCHANGED <<driver, stopped>>

\* ... and deletes the map and the list of directories; the driver is removed.
FreeTables == /\ Go("freetables", "absent")
              /\ tables' = "freed"
              /\ filter' = "none"
              /\ UNCHANGED <<notify, object, funcs, server, client, stopped>>

\* A machine that stopped, or has a driver that failed, is started again.
Reboot == /\ stopped \/ ctl = "failed"
          /\ ctl' = "absent"
          /\ notify' = "none" /\ object' = "none" /\ filter' = "none"
          /\ funcs' = "none" /\ tables' = "none"
          /\ server' = FALSE /\ client' = FALSE
          /\ call' = [c \in Calls |-> Outside]
          /\ context' = [c \in Calls |-> "none"]
          /\ stopped' = FALSE
-----------------------------------------------------------------------------
(* The connection of the port: ConnectHandler and DisonnectHandler *)

Connect == /\ ~stopped
           /\ server /\ ~client
           /\ client' = TRUE
           /\ UNCHANGED <<ctl, notify, object, filter, funcs, tables, server,
                          call, context, stopped>>

Disconnect == /\ ~stopped
              /\ client
              /\ client' = FALSE
              /\ UNCHANGED <<ctl, notify, object, filter, funcs, tables, server,
                             call, context, stopped>>
-----------------------------------------------------------------------------
(* MiniFsPreOperation and MiniFsPostOperation *)

Move(c, stage, kind) ==
    /\ ~stopped
    /\ call' = [call EXCEPT ![c] = IF stage = "outside" THEN Outside
                                   ELSE [stage |-> stage, kind |-> kind]]
    /\ UNCHANGED <<ctl, driver, stopped>>

\* Mutant of Deallocate: what has been freed is still pointed to.
DeallocateDangling(c) == context' = [context EXCEPT ![c] = "freed"]

Deallocate(c) == context' = [context EXCEPT ![c] = "none"]

\* Mutant of PreOperation: requests of the kernel get a context too.
PreOperationOfAll(c, kind, user) ==
    /\ filter = "started" /\ At(c) = "outside" /\ kind \in FileKinds
    /\ context' = [context EXCEPT ![c] = "live"]
    /\ Move(c, "dispatch", kind)

\* A request of the kernel, or without a file object, is passed on; any other
\* gets a context.  The system is shut down by the kernel.
PreOperation(c, kind, user) ==
    /\ filter = "started" /\ At(c) = "outside" /\ kind \in FileKinds
    /\ \/ /\ ~user
          /\ Move(c, "unwatched", kind)
          /\ UNCHANGED context
       \/ /\ user
          /\ context' = [context EXCEPT ![c] = "live"]
          /\ Move(c, "dispatch", kind)

\* The list is searched for functions that handle the operation.
Dispatch(c) == /\ At(c) = "dispatch"
               /\ Move(c, IF call[c].kind \in Listed THEN "function" ELSE "below",
                       call[c].kind)
               /\ UNCHANGED context

\* Mutant of FunctionCompletes: the context of a completed operation is kept.
FunctionCompletesOnly(c) == /\ At(c) = "function" /\ call[c].kind \in FileKinds
                            /\ Move(c, "outside", "none")
                            /\ UNCHANGED context

\* The function completes the operation (FLT_PREOP_COMPLETE) ...
FunctionCompletes(c) == /\ At(c) = "function" /\ call[c].kind \in FileKinds
                        /\ Move(c, "outside", "none")
                        /\ Deallocate(c)

\* ... or lets it go on (FLT_PREOP_SUCCESS_WITH_CALLBACK).
FunctionPasses(c) == /\ At(c) = "function" /\ call[c].kind \in FileKinds
                     /\ Move(c, "below", call[c].kind)
                     /\ UNCHANGED context

\* An operation nobody waits for ends below; so does one that has no
\* post-operation.
CompleteUnseen(c) ==
    /\ At(c) \in {"unwatched", "below"}
    /\ At(c) = "below" => call[c].kind \notin WithPost
    /\ Move(c, "outside", "none")
    /\ UNCHANGED context

\* A failed operation has its context freed; one that succeeded, and one that
\* is drained with either status, ...
PostOperation(c) ==
    /\ At(c) = "below" /\ call[c].kind \in WithPost
    /\ \/ /\ Move(c, "outside", "none")
          /\ Deallocate(c)
       \/ /\ Move(c, "scan", call[c].kind)
          /\ UNCHANGED context

\* ... after the list has been searched for post-operations: there are none.
PostScan(c) == /\ At(c) = "scan"
               /\ Move(c, "outside", "none")
               /\ Deallocate(c)
-----------------------------------------------------------------------------
(* Process and handle notifications: ProcessNotifyCallback, PreObCallback *)

Notified(c, kind) ==
    /\ ctl # "failed"
    /\ At(c) = "outside"
    /\ \/ kind = "notify" /\ notify = "registered"
       \/ kind = "object" /\ object = "registered"
    /\ Move(c, "function", kind)
    /\ UNCHANGED context

NotificationReturns(c) == /\ At(c) = "function" /\ call[c].kind \in {"notify", "object"}
                          /\ Move(c, "outside", "none")
                          /\ UNCHANGED context
-----------------------------------------------------------------------------
DriverEntry == \/ Load \/ RegisterNotify \/ RegisterObject \/ FltRegister
               \/ RegisterFilter \/ StartFiltering \/ Undo \/ CreatePort
               \/ CreatePortWithoutFilter

\* What follows the first step of an unload
FinishUnload == \/ UnregisterFilter \/ Drained \/ FreeList \/ RemoveNotify
                \/ NotifyRemoved \/ UnregisterObject \/ ObjectUnregistered
                \/ FreeTables

Begin(c) == \/ \E kind \in FileKinds, user \in BOOLEAN :
                 (kind = "shutdown" => ~user) /\ PreOperation(c, kind, user)
            \/ \E kind \in {"notify", "object"} : Notified(c, kind)

Proceed(c) == \/ Dispatch(c) \/ FunctionCompletes(c) \/ FunctionPasses(c)
              \/ CompleteUnseen(c) \/ PostOperation(c) \/ PostScan(c)
              \/ NotificationReturns(c)

Next == \/ DriverEntry \/ CallFailedDriver \/ ClosePort \/ FinishUnload \/ Reboot
        \/ Connect \/ Disconnect
        \/ \E c \in Calls : Begin(c) \/ Proceed(c)

Spec == Init /\ [][Next]_vars

\* An unload that has begun goes on, calls return, and a client whose port is
\* closed is disconnected.
Fairness == /\ WF_vars(FinishUnload)
            /\ WF_vars(Disconnect)
            /\ \A c \in Calls : WF_vars(Proceed(c))

FairSpec == Spec /\ Fairness
-----------------------------------------------------------------------------
(* Properties *)

\* Every context belongs to exactly one operation in progress: it is freed once
\* on every way out of the two routines and never forgotten.
ContextsOwned ==
    \A c \in Calls :
        (context[c] = "live") <=>
            (call[c].kind \in FileKinds /\ At(c) # "unwatched")

\* The functions of the list are used only while it is there: it implements
\* Rundown for the pre- and post-operations in progress ...
ListUsers == {c \in Calls : /\ At(c) \in {"dispatch", "function", "scan"}
                            /\ call[c].kind \in FileKinds}
List == INSTANCE Rundown WITH Users <- Calls, alive <- funcs = "live", users <- ListUsers
ListRundown == List!Spec

\* ... and so do the process map and the directory list for every callback of
\* self-defense.
TableUsers == {c \in Calls : At(c) = "function"}
Tables == INSTANCE Rundown WITH Users <- Calls, alive <- tables = "live", users <- TableUsers
TablesRundown == Tables!Spec

\* A driver that has been unloaded leaves nothing behind that could call it or
\* that it would have to free.
QuietWhenAbsent ==
    ctl = "absent" /\ ~stopped =>
        /\ notify # "registered" /\ object # "registered"
        /\ ~server /\ ~client
        /\ funcs # "live" /\ tables # "live"
        /\ \A c \in Calls : At(c) \in {"outside", "unwatched"} /\ context[c] = "none"

\* An unload comes to its end.
UnloadEnds == ctl = "unregister" ~> (ctl = "absent" \/ stopped)
-----------------------------------------------------------------------------
(* The inductive invariant *)

\* What there is at each label of the control thread
FilterAt ==
    /\ ctl \in {"absent", "notify", "object", "list", "filter"} => filter = "none"
    /\ ctl \in {"start", "undo"} => filter = "registered"
    /\ ctl = "port" => filter \in {"started", "failed", "gone"}
    /\ ctl \in {"loaded", "unregister"} => filter = "started"
    /\ ctl = "drain" => filter = "draining"
    /\ ctl \in {"free", "unnotify", "waitnotify", "unobject", "waitobject",
                "freetables"} => filter = "gone"
    /\ ctl = "failed" => filter \in {"failed", "gone"}

ListAt == (funcs = "live") <=>
              ctl \in {"filter", "start", "undo", "port", "loaded", "unregister",
                      "drain", "free", "failed"}

TablesAt == (tables = "live") <=> ctl # "absent"

PortAt == /\ server => ctl = "loaded"
          /\ client => ctl \in {"loaded", "unregister", "drain"}

\* Which calls there may be: operations only while there is a filter, and
\* notifications from their registration until it has been undone.
CallsAt ==
    \A c \in Calls :
        /\ call[c].kind \in FileKinds /\ At(c) # "unwatched" =>
             filter \in {"started", "draining"} /\ call[c].kind \in WithPost
        /\ At(c) = "function" => call[c].kind \in Listed \cup {"notify", "object"}
        /\ At(c) \in {"dispatch", "below", "unwatched", "scan"} => call[c].kind \in FileKinds
        /\ call[c].kind = "notify" =>
             ctl \notin {"absent", "notify", "unobject", "waitobject", "freetables"}
        /\ call[c].kind = "object" =>
             ctl \notin {"absent", "notify", "object", "freetables"}

RegistrationAt ==
    /\ notify = "registered" =>
         ctl \notin {"absent", "notify", "waitnotify", "unobject", "waitobject",
                    "freetables"}
    /\ object = "registered" =>
         ctl \notin {"absent", "notify", "object", "waitobject", "freetables"}

IInv == /\ TypeOK /\ ContextsOwned /\ FilterAt /\ ListAt /\ TablesAt /\ PortAt
        /\ CallsAt /\ RegistrationAt
=============================================================================
