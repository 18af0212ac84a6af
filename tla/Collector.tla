------------------------------- MODULE Collector -------------------------------
(***************************************************************************)
(* The thread that keeps a trace session and consumes it                   *)
(* (StartEventCollector of main.cpp, etw/provider.cpp, etw/consumer.cpp    *)
(* and Init of etw/wmieventclass.cpp).  The kernel knows a session by its  *)
(* name: it outlives the process that started it, any program may stop it, *)
(* and another may start one of the same name.                             *)
(***************************************************************************)

VARIABLES
  session,    \* kernel: who started the session of the name "Hieunt Kernel Logger":
              \* "ours", "left" (an earlier process of the service), "theirs" or "none"
  spared,     \* history: this process could not stop the present session
  refusing,   \* kernel: no resources for another session or handle
  wmi,        \* the WMI service answers
  collector,  \* where the collector thread is
  handle,     \* handle_trace_: "none", "live" (of the present session) or "stale"
  kServices   \* connected to WMI

kernelVars == <<session, spared, refusing, wmi>>
threadVars == <<collector, handle, kServices>>
collectorVars == <<kernelVars, threadVars>>

Steps == {"none", "begin", "stop", "again", "open", "connect", "start", "processing",
          "sleep", "returned"}

At(step) == collector = step
Goto(step) == collector' = step

\* StartTrace answers: a session of the name exists, the kernel refuses, or it starts.
StartTrace(exists, failed, started) ==
  \/ session # "none" /\ Goto(exists) /\ UNCHANGED session
  \/ session = "none" /\ refusing /\ Goto(failed) /\ UNCHANGED session
  \/ session = "none" /\ ~refusing /\ Goto(started) /\ session' = "ours"

\* Mutant of BeginTrace: a session of the name that is there is consumed.
BeginTraceTaken ==
  /\ At("begin")
  /\ StartTrace("open", "sleep", "open")
  /\ UNCHANGED <<spared, refusing, wmi, handle, kServices>>

\* Mutant of BeginTrace: a session of the name that is there is waited for.
BeginTraceWaits ==
  /\ At("begin")
  /\ StartTrace("sleep", "sleep", "open")
  /\ UNCHANGED <<spared, refusing, wmi, handle, kServices>>

\* BeginTrace: the session of the name is stopped and started anew.
BeginTrace ==
  /\ At("begin")
  /\ StartTrace("stop", "sleep", "open")
  /\ UNCHANGED <<spared, refusing, wmi, handle, kServices>>

\* A session that ends leaves its consumer a handle of no session.
EndSession ==
  /\ session' = "none" /\ spared' = FALSE
  /\ handle' = IF handle = "live" THEN "stale" ELSE handle

\* No one looks at the result of ControlTrace: the session may be left as it is.
StopSession ==
  /\ At("stop")
  /\ \/ EndSession
     \/ session # "none" /\ spared' = TRUE /\ UNCHANGED <<session, handle>>
  /\ Goto("again")
  /\ UNCHANGED <<refusing, wmi, kServices>>

\* A session that is there again, or still, is taken as it is.
BeginTraceAgain ==
  /\ At("again")
  /\ StartTrace("open", "sleep", "open")
  /\ UNCHANGED <<spared, refusing, wmi, handle, kServices>>

\* OpenTrace does not need the session; the consumer of the last round is not closed
\* but forgotten.
Open ==
  /\ At("open")
  /\ \/ Goto("connect") /\ handle' = IF session = "none" THEN "stale" ELSE "live"
     \/ refusing /\ Goto("sleep") /\ handle' = "none"
  /\ UNCHANGED <<kernelVars, kServices>>

\* Mutant of Init_: it is tried once, whether WMI answers or not.
InitOnce ==
  /\ At("connect")
  /\ kServices' = wmi
  /\ Goto("start")
  /\ UNCHANGED <<kernelVars, handle>>

\* etw::Init is tried every second until WMI answers.
Init_ ==
  /\ At("connect") /\ wmi
  /\ kServices' = TRUE
  /\ Goto("start")
  /\ UNCHANGED <<kernelVars, handle>>

\* ProcessTrace on a handle of no session fails, and the handle is closed.
StartProcessing ==
  /\ At("start")
  /\ \/ handle = "live" /\ Goto("processing") /\ UNCHANGED handle
     \/ handle = "stale" /\ Goto("sleep") /\ handle' = "none"
  /\ UNCHANGED <<kernelVars, kServices>>

\* ProcessTrace returns when the session has ended.
ProcessTraceReturns ==
  /\ At("processing") /\ handle = "stale"
  /\ Goto("sleep")
  /\ UNCHANGED <<kernelVars, handle, kServices>>

\* The loop of the collector thread in ServiceMain: whatever happened, once more.
Again ==
  /\ At("sleep")
  /\ Goto("begin")
  /\ UNCHANGED <<kernelVars, handle, kServices>>

CollectorStep ==
  \/ BeginTrace \/ StopSession \/ BeginTraceAgain \/ Open \/ Init_
  \/ StartProcessing \/ ProcessTraceReturns \/ Again

\* Other programs and the kernel.
OtherStarts == session = "none" /\ session' = "theirs" /\ UNCHANGED <<spared, refusing, wmi, threadVars>>
OtherStops ==
  /\ session # "none"
  /\ EndSession
  /\ UNCHANGED <<refusing, wmi, collector, kServices>>
KernelRefuses == ~refusing /\ refusing' = TRUE /\ UNCHANGED <<session, spared, wmi, threadVars>>
KernelRecovers == refusing /\ refusing' = FALSE /\ UNCHANGED <<session, spared, wmi, threadVars>>
WmiStops == wmi /\ wmi' = FALSE /\ UNCHANGED <<session, spared, refusing, threadVars>>
WmiStarts == ~wmi /\ wmi' = TRUE /\ UNCHANGED <<session, spared, refusing, threadVars>>

\* The threads end with their process; the session does not.
ThreadsEnd ==
  /\ Goto("none") /\ handle' = "none" /\ kServices' = FALSE
  /\ session' = IF session = "ours" THEN "left" ELSE session
  /\ spared' = FALSE
  /\ UNCHANGED <<refusing, wmi>>

MachineRestarts ==
  /\ Goto("none") /\ handle' = "none" /\ kServices' = FALSE
  /\ session' = "none" /\ spared' = FALSE /\ refusing' = FALSE /\ wmi' = FALSE

CollectorInit ==
  /\ session = "none" /\ spared = FALSE /\ refusing = FALSE /\ wmi = FALSE
  /\ collector = "none" /\ handle = "none" /\ kServices = FALSE

=============================================================================
