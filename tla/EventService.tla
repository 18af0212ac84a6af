----------------------------- MODULE EventService -----------------------------
(***************************************************************************)
(* The event service as a whole: its installation, its process and its     *)
(* collector (main.cpp, service/service.cpp).  The executable is run by    *)
(* hand to install itself: it stops and deletes the service there may be,  *)
(* creates it anew and runs it.  The service control manager (SCM) starts  *)
(* the service then and whenever the machine starts.                       *)
(***************************************************************************)
EXTENDS Collector, Naturals

CONSTANT MaxTrouble   \* bound on what happens from outside

ASSUME EventServiceAssumption == MaxTrouble \in Nat

VARIABLES
  entry,      \* SCM: the service is "absent", "present" or "marked" for deletion
  process,    \* SCM: "none", "starting", "running" or "stopped", which is about to exit
  watching,   \* the manager thread looks for ggez.txt
  installer,  \* where the process that installs is
  held,       \* it holds a handle of the service that it does not close
  found,      \* the service was running when it began
  failed,     \* a call of it failed for a reason of the system
  trouble     \* what may still happen from outside

scmVars == <<entry, process>>
installVars == <<installer, held, found, failed>>
vars == <<collectorVars, scmVars, watching, installVars, trouble>>

Trouble == trouble > 0 /\ trouble' = trouble - 1

-----------------------------------------------------------------------------
(* The service process *)

\* dwControlsAccepted
ControlsAccepted == {"shutdown"}

\* An entry that is marked goes when nothing refers to it any more.
Swept(e, p, h) == IF e = "marked" /\ p = "none" /\ ~h THEN "absent" ELSE e

\* The process ends and its threads with it, wherever they are.
ProcessEnds ==
  /\ process' = "none" /\ watching' = FALSE
  /\ entry' = Swept(entry, "none", held)
  /\ ThreadsEnd

\* ServiceMain: the control handler is registered and the service reported running.
\* Without the directory ServiceMain returns, and the process does nothing more; or
\* only the manager thread returns.
ServiceMain ==
  /\ process = "starting"
  /\ process' = "running"
  /\ \/ Goto("begin") /\ watching' = TRUE
     \/ Goto("begin") /\ watching' = FALSE
     \/ Goto("returned") /\ watching' = FALSE
  /\ UNCHANGED <<kernelVars, handle, kServices, entry, installVars, trouble>>

\* ServiceCtrlHandler: the service is reported stopped while its threads run.
ServiceCtrlHandler(control) ==
  /\ process = "running" /\ control \in ControlsAccepted
  /\ process' = "stopped"

Shutdown ==
  /\ Trouble
  /\ ServiceCtrlHandler("shutdown")
  /\ UNCHANGED <<collectorVars, entry, watching, installVars>>

\* Mutant of MainReturns: main waits for the collector thread.
MainReturnsJoined ==
  /\ process = "stopped" /\ collector \in {"none", "returned"}
  /\ ProcessEnds
  /\ UNCHANGED <<installVars, trouble>>

\* StartServiceCtrlDispatcher returns, and main does.
MainReturns ==
  /\ process = "stopped"
  /\ ProcessEnds
  /\ UNCHANGED <<installVars, trouble>>

\* ggez.txt is found, or the process is killed or crashes.
ExitProcess ==
  /\ Trouble
  /\ process = "running" /\ watching
  /\ ProcessEnds
  /\ UNCHANGED installVars

Crash ==
  /\ Trouble
  /\ process # "none"
  /\ ProcessEnds
  /\ UNCHANGED installVars

\* The machine starts, and an entry that is there starts automatically.
Boot ==
  /\ Trouble
  /\ MachineRestarts
  /\ entry' = Swept(entry, "none", FALSE)
  /\ process' = IF entry = "present" THEN "starting" ELSE "none"
  /\ watching' = FALSE
  /\ installer' = IF installer = "done" THEN "done" ELSE "cut off"
  /\ held' = FALSE
  /\ UNCHANGED <<found, failed>>

-----------------------------------------------------------------------------
(* RunService *)

\* A call may fail for a reason of the system.
Fails == Trouble /\ failed' = TRUE
Works == UNCHANGED <<failed, trouble>>

BeginInstallation ==
  /\ installer \in {"none", "done", "cut off"}
  /\ Trouble
  /\ installer' = "stop" /\ found' = (process # "none") /\ failed' = FALSE
  /\ UNCHANGED <<collectorVars, scmVars, watching, held>>

\* Stop: a control that is not accepted changes nothing, and no one looks at the result.
Stop ==
  /\ installer = "stop"
  /\ \/ ServiceCtrlHandler("stop")
     \/ ~("stop" \in ControlsAccepted /\ process = "running") /\ UNCHANGED process
  /\ installer' = "delete"
  /\ UNCHANGED <<collectorVars, entry, watching, held, found, failed, trouble>>

\* Mutant of Delete: the handle is not closed.
DeleteLeaks ==
  /\ installer = "delete"
  /\ \/ Works /\ entry' = IF entry = "present" THEN "marked" ELSE entry
     \/ Fails /\ UNCHANGED entry
  /\ held' = TRUE
  /\ installer' = "create"
  /\ UNCHANGED <<collectorVars, process, watching, found>>

\* Delete: the entry is marked; it goes at once if nothing refers to it.
Delete ==
  /\ installer = "delete"
  /\ \/ Works /\ entry' = Swept(IF entry = "present" THEN "marked" ELSE entry, process, FALSE)
     \/ Fails /\ UNCHANGED entry
  /\ installer' = "create"
  /\ UNCHANGED <<collectorVars, process, watching, held, found>>

\* Create: the handle of a service that exists is not closed.
Create ==
  /\ installer = "create"
  /\ \/ entry # "absent" /\ Works /\ held' = TRUE /\ UNCHANGED entry /\ installer' = "run"
     \/ entry = "absent" /\ Works /\ entry' = "present" /\ UNCHANGED held /\ installer' = "run"
     \/ entry = "absent" /\ Fails /\ UNCHANGED <<entry, held>> /\ installer' = "exit"
  /\ UNCHANGED <<collectorVars, process, watching, found>>

\* Run: a service that runs or is marked is not started; the handle of one that does
\* not start is not closed.
Run ==
  /\ installer = "run"
  /\ \/ entry = "present" /\ process = "none" /\ Works /\ process' = "starting" /\ UNCHANGED held
     \/ ~(entry = "present" /\ process = "none") /\ Works /\ UNCHANGED process /\ held' = TRUE
     \/ Fails /\ UNCHANGED process /\ held' \in {held, TRUE}
  /\ installer' = "exit"
  /\ UNCHANGED <<collectorVars, entry, watching, found>>

ExitInstaller ==
  /\ installer = "exit"
  /\ installer' = "done" /\ held' = FALSE
  /\ entry' = Swept(entry, process, FALSE)
  /\ UNCHANGED <<collectorVars, process, watching, found, failed, trouble>>

InstallerStep == Stop \/ Delete \/ Create \/ Run \/ ExitInstaller

-----------------------------------------------------------------------------
Init ==
  /\ CollectorInit
  /\ entry = "absent" /\ process = "none" /\ watching = FALSE
  /\ installer = "none" /\ held = FALSE /\ found = FALSE /\ failed = FALSE
  /\ trouble = MaxTrouble

Threads == CollectorStep /\ UNCHANGED <<scmVars, watching, installVars, trouble>>

Outside ==
  /\ Trouble
  /\ OtherStarts \/ OtherStops \/ KernelRefuses \/ WmiStops
  /\ UNCHANGED <<scmVars, watching, installVars>>

Recovery ==
  /\ KernelRecovers \/ WmiStarts
  /\ UNCHANGED <<scmVars, watching, installVars, trouble>>

Next ==
  \/ Threads \/ Outside \/ Recovery
  \/ ServiceMain \/ Shutdown \/ MainReturns \/ ExitProcess \/ Crash \/ Boot
  \/ BeginInstallation \/ InstallerStep

\* Threads and processes are scheduled; the kernel has room again some day, and WMI,
\* which starts after the service at boot, answers.
Fairness ==
  /\ WF_vars(Threads)
  /\ WF_vars(KernelRecovers /\ Recovery) /\ WF_vars(WmiStarts /\ Recovery)
  /\ WF_vars(ServiceMain) /\ WF_vars(MainReturns) /\ WF_vars(InstallerStep)

Spec == Init /\ [][Next]_vars /\ Fairness

-----------------------------------------------------------------------------
(* Properties *)

\* Every variable keeps its type, nothing of the service is left without its process,
\* and no events are processed before WMI, which describes them, is connected.
TypeOK ==
  /\ session \in {"ours", "left", "theirs", "none"}
  /\ spared \in BOOLEAN /\ refusing \in BOOLEAN /\ wmi \in BOOLEAN /\ kServices \in BOOLEAN
  /\ collector \in Steps /\ handle \in {"none", "live", "stale"}
  /\ entry \in {"absent", "present", "marked"}
  /\ process \in {"none", "starting", "running", "stopped"}
  /\ watching \in BOOLEAN /\ held \in BOOLEAN /\ found \in BOOLEAN /\ failed \in BOOLEAN
  /\ installer \in {"none", "stop", "delete", "create", "run", "exit", "done", "cut off"}
  /\ trouble \in 0 .. MaxTrouble
  /\ process \in {"none", "starting"} => collector = "none" /\ handle = "none" /\ ~kServices
  /\ collector \in {"start", "processing"} => kServices

\* What an earlier process left in the kernel, with its old events, is consumed only if
\* this process has tried to stop that very session and could not: whatever happens
\* between, no other way leads to it.  (BeginTrace, StartEventCollector)
NothingLeftOver == handle = "live" /\ session = "left" => spared

\* What the comment says: "If the service is running, stop the service"
\* (service.cpp:99), of what the installation does first (main.cpp:112).
InstallationStops == [][Stop => process' # "running"]_vars

\* An installation that finds no service running, and whose calls the system grants,
\* leaves one that is registered, so that it is there after the next boot, too.
\* (Service::Delete, Service::Create, Service::Run)
InstallationLasts ==
  installer = "exit" /\ ~found /\ ~failed => entry = "present"

\* A service that is told to shut down ends, though its threads never do.
\* (ServiceCtrlHandler, RunService)
ShutdownEnds == process = "stopped" ~> process # "stopped"

\* Whatever other programs did to the session, and whatever an earlier process left, a
\* service whose directory exists processes events for good.  (StartEventCollector)
CollectsInTheEnd ==
  <>[](process = "running" /\ collector # "returned")
    => <>[](collector = "processing" /\ handle = "live" /\ kServices)

=============================================================================
