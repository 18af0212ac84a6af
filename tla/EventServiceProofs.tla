-------------------------- MODULE EventServiceProofs --------------------------
(***************************************************************************)
(* What holds of the service and its collector however much happens from   *)
(* outside.  The type invariant is taken apart; to it the inductive        *)
(* invariant adds where a live handle may be, when what an earlier process *)
(* left is gone or could not be stopped, and what each step of an          *)
(* installation has achieved.                                              *)
(***************************************************************************)
EXTENDS EventService, TLAPS

Flags ==
  /\ spared \in BOOLEAN /\ refusing \in BOOLEAN /\ wmi \in BOOLEAN /\ kServices \in BOOLEAN
  /\ watching \in BOOLEAN /\ held \in BOOLEAN /\ found \in BOOLEAN /\ failed \in BOOLEAN

Places ==
  /\ session \in {"ours", "left", "theirs", "none"}
  /\ collector \in Steps /\ handle \in {"none", "live", "stale"}
  /\ entry \in {"absent", "present", "marked"}
  /\ process \in {"none", "starting", "running", "stopped"}
  /\ installer \in {"none", "stop", "delete", "create", "run", "exit", "done", "cut off"}
  /\ trouble \in 0 .. MaxTrouble

\* Nothing of the service is there before it runs.
Idle ==
  process \in {"none", "starting"} =>
    collector = "none" /\ handle = "none" /\ kServices = FALSE
Connected == collector \in {"start", "processing"} => kServices = TRUE

\* The thread has stopped what was left, or could not, before it takes or opens a session,
\* and a live handle is in use and of a session that is there.
Owned ==
  /\ collector \in {"again", "open", "connect", "start", "processing"} =>
        session # "left" \/ spared = TRUE
  /\ handle = "live" => collector \in {"connect", "start", "processing"} /\ session # "none"

\* An installation that found no service running has the SCM to itself until it runs
\* one.  A deletion that does not fail leaves no entry, a creation one.
Achieved ==
  /\ installer \in {"stop", "delete", "create"} /\ found = FALSE => process = "none"
  /\ installer = "create" /\ found = FALSE /\ failed = FALSE => entry = "absent"
  /\ installer \in {"run", "exit"} /\ found = FALSE /\ failed = FALSE => entry = "present"

IInv == Flags /\ Places /\ Idle /\ Connected /\ Owned /\ Achieved

-----------------------------------------------------------------------------
LEMMA TypeParts == TypeOK <=> Flags /\ Places /\ Idle /\ Connected
BY DEF TypeOK, Flags, Places, Idle, Connected

LEMMA Initially == Init => IInv
<1> SUFFICES ASSUME Init PROVE IInv
  OBVIOUS
<1>1. Flags BY DEF Init, CollectorInit, Flags
<1>2. Places BY EventServiceAssumption DEF Init, CollectorInit, Places, Steps
<1>3. Idle /\ Connected /\ Owned BY DEF Init, CollectorInit, Idle, Connected, Owned
<1>4. Achieved BY DEF Init, Achieved
<1>5. QED BY <1>1, <1>2, <1>3, <1>4 DEF IInv

\* A step of the collector thread: the process runs, and what the SCM and the
\* installation know is left alone.
LEMMA CollectorSteps ==
  ASSUME IInv, CollectorStep, UNCHANGED <<scmVars, watching, installVars, trouble>>
  PROVE  IInv'
<1>1. Achieved' BY DEF IInv, Achieved, scmVars, installVars
<1>2. collector \notin {"none", "returned"}
  BY DEF CollectorStep, BeginTrace, StopSession, BeginTraceAgain, Open, Init_, StartProcessing,
         ProcessTraceReturns, Again, At
<1>3. Idle' BY <1>2 DEF IInv, Idle, scmVars
<1>4. /\ Flags'
      /\ (session' \in {"ours", "left", "theirs", "none"} /\ collector' \in Steps
            /\ handle' \in {"none", "live", "stale"})
      /\ Owned' /\ Connected'
  <2>1. CASE BeginTrace
    <3>1. Flags' BY <2>1 DEF BeginTrace, StartTrace, IInv, Flags, scmVars, installVars, kernelVars
    <3>2. /\ session' \in {"ours", "left", "theirs", "none"} /\ collector' \in Steps
          /\ handle' \in {"none", "live", "stale"}
      BY <2>1 DEF BeginTrace, StartTrace, IInv, Places, Steps, Goto, kernelVars
    <3>3. Owned' BY <2>1 DEF BeginTrace, StartTrace, IInv, Places, Owned, At, Goto, kernelVars
    <3>4. Connected' BY <2>1 DEF BeginTrace, StartTrace, IInv, Connected, At, Goto, kernelVars
    <3>5. QED BY <3>1, <3>2, <3>3, <3>4
  <2>2. CASE StopSession
    <3>1. Flags' BY <2>2 DEF StopSession, EndSession, IInv, Flags, scmVars, installVars, kernelVars
    <3>2. /\ session' \in {"ours", "left", "theirs", "none"} /\ collector' \in Steps
          /\ handle' \in {"none", "live", "stale"}
      BY <2>2 DEF StopSession, EndSession, IInv, Places, Steps, Goto, kernelVars
    <3>3. Owned' BY <2>2 DEF StopSession, EndSession, IInv, Places, Owned, At, Goto, kernelVars
    <3>4. Connected' BY <2>2 DEF StopSession, EndSession, IInv, Connected, At, Goto, kernelVars
    <3>5. QED BY <3>1, <3>2, <3>3, <3>4
  <2>3. CASE BeginTraceAgain
    <3>1. Flags' BY <2>3 DEF BeginTraceAgain, StartTrace, IInv, Flags, scmVars, installVars, kernelVars
    <3>2. /\ session' \in {"ours", "left", "theirs", "none"} /\ collector' \in Steps
          /\ handle' \in {"none", "live", "stale"}
      BY <2>3 DEF BeginTraceAgain, StartTrace, IInv, Places, Steps, Goto, kernelVars
    <3>3. Owned' BY <2>3 DEF BeginTraceAgain, StartTrace, IInv, Places, Owned, At, Goto, kernelVars
    <3>4. Connected' BY <2>3 DEF BeginTraceAgain, StartTrace, IInv, Connected, At, Goto, kernelVars
    <3>5. QED BY <3>1, <3>2, <3>3, <3>4
  <2>4. CASE Open
    <3>1. Flags' BY <2>4 DEF Open, IInv, Flags, scmVars, installVars, kernelVars
    <3>2. /\ session' \in {"ours", "left", "theirs", "none"} /\ collector' \in Steps
          /\ handle' \in {"none", "live", "stale"}
      BY <2>4 DEF Open, IInv, Places, Steps, Goto, kernelVars
    <3>3. Owned' BY <2>4 DEF Open, IInv, Places, Owned, At, Goto, kernelVars
    <3>4. Connected' BY <2>4 DEF Open, IInv, Connected, At, Goto, kernelVars
    <3>5. QED BY <3>1, <3>2, <3>3, <3>4
  <2>5. CASE Init_
    <3>1. Flags' BY <2>5 DEF Init_, IInv, Flags, scmVars, installVars, kernelVars
    <3>2. /\ session' \in {"ours", "left", "theirs", "none"} /\ collector' \in Steps
          /\ handle' \in {"none", "live", "stale"}
      BY <2>5 DEF Init_, IInv, Places, Steps, Goto, kernelVars
    <3>3. Owned' BY <2>5 DEF Init_, IInv, Places, Owned, At, Goto, kernelVars
    <3>4. Connected' BY <2>5 DEF Init_, IInv, Connected, At, Goto, kernelVars
    <3>5. QED BY <3>1, <3>2, <3>3, <3>4
  <2>6. CASE StartProcessing
    <3>1. Flags' BY <2>6 DEF StartProcessing, IInv, Flags, scmVars, installVars, kernelVars
    <3>2. /\ session' \in {"ours", "left", "theirs", "none"} /\ collector' \in Steps
          /\ handle' \in {"none", "live", "stale"}
      BY <2>6 DEF StartProcessing, IInv, Places, Steps, Goto, kernelVars
    <3>3. Owned' BY <2>6 DEF StartProcessing, IInv, Places, Owned, At, Goto, kernelVars
    <3>4. Connected' BY <2>6 DEF StartProcessing, IInv, Connected, At, Goto, kernelVars
    <3>5. QED BY <3>1, <3>2, <3>3, <3>4
  <2>7. CASE ProcessTraceReturns
    <3>1. Flags' BY <2>7 DEF ProcessTraceReturns, IInv, Flags, scmVars, installVars, kernelVars
    <3>2. /\ session' \in {"ours", "left", "theirs", "none"} /\ collector' \in Steps
          /\ handle' \in {"none", "live", "stale"}
      BY <2>7 DEF ProcessTraceReturns, IInv, Places, Steps, Goto, kernelVars
    <3>3. Owned' BY <2>7 DEF ProcessTraceReturns, IInv, Places, Owned, At, Goto, kernelVars
    <3>4. Connected' BY <2>7 DEF ProcessTraceReturns, IInv, Connected, At, Goto, kernelVars
    <3>5. QED BY <3>1, <3>2, <3>3, <3>4
  <2>8. CASE Again
    <3>1. Flags' BY <2>8 DEF Again, IInv, Flags, scmVars, installVars, kernelVars
    <3>2. /\ session' \in {"ours", "left", "theirs", "none"} /\ collector' \in Steps
          /\ handle' \in {"none", "live", "stale"}
      BY <2>8 DEF Again, IInv, Places, Steps, Goto, kernelVars
    <3>3. Owned' BY <2>8 DEF Again, IInv, Places, Owned, At, Goto, kernelVars
    <3>4. Connected' BY <2>8 DEF Again, IInv, Connected, At, Goto, kernelVars
    <3>5. QED BY <3>1, <3>2, <3>3, <3>4
  <2>9. QED BY <2>1, <2>2, <2>3, <2>4, <2>5, <2>6, <2>7, <2>8 DEF CollectorStep
<1>5. Places' BY <1>4 DEF IInv, Places, scmVars, installVars
<1>6. QED BY <1>1, <1>3, <1>4, <1>5 DEF IInv

\* What may still happen from outside keeps its type.
LEMMA TroubleTyped == IInv /\ Trouble => trouble' \in 0 .. MaxTrouble
<1> SUFFICES ASSUME IInv, Trouble PROVE trouble' \in 0 .. MaxTrouble
  OBVIOUS
<1>1. trouble \in 0 .. MaxTrouble BY DEF IInv, Places
<1>2. trouble > 0 /\ trouble' = trouble - 1 BY DEF Trouble
<1>3. QED BY <1>1, <1>2, EventServiceAssumption

\* The kernel, WMI and other programs.
LEMMA OtherSteps ==
  ASSUME IInv, Outside \/ Recovery
  PROVE  IInv'
<1>1. UNCHANGED <<scmVars, watching, installVars, collector, kServices>>
  BY DEF Outside, Recovery, OtherStarts, OtherStops, KernelRefuses, KernelRecovers, WmiStops,
         WmiStarts, threadVars
<1>2. trouble' \in 0 .. MaxTrouble
  BY TroubleTyped DEF Outside, Recovery, IInv, Places
<1>3. Achieved' BY <1>1 DEF IInv, Achieved, scmVars, installVars
<1>4. spared' \in BOOLEAN /\ refusing' \in BOOLEAN /\ wmi' \in BOOLEAN
  BY DEF Outside, Recovery, OtherStarts, OtherStops, EndSession, KernelRefuses, KernelRecovers,
         WmiStops, WmiStarts, IInv, Flags
<1>5. Flags' BY <1>1, <1>4 DEF IInv, Flags, installVars
<1>6. CASE session' = session /\ spared' = spared /\ handle' = handle
  <2>1. Places' BY <1>1, <1>2, <1>6 DEF IInv, Places, scmVars, installVars
  <2>2. Idle' /\ Connected' BY <1>1, <1>6 DEF IInv, Idle, Connected, scmVars
  <2>3. Owned' BY <1>1, <1>6 DEF IInv, Owned
  <2>4. QED BY <1>3, <1>5, <2>1, <2>2, <2>3 DEF IInv
<1>7. CASE OtherStarts
  <2>1. handle' = handle /\ session' = "theirs" BY <1>7 DEF OtherStarts, threadVars
  <2>2. Places' BY <1>1, <1>2, <2>1 DEF IInv, Places, scmVars, installVars
  <2>3. Idle' /\ Connected' /\ Owned'
    BY <1>1, <2>1 DEF IInv, Idle, Connected, Owned, scmVars
  <2>4. QED BY <1>3, <1>5, <2>2, <2>3 DEF IInv
<1>8. CASE OtherStops
  <2>1. session' = "none" /\ handle' = IF handle = "live" THEN "stale" ELSE handle
    BY <1>8 DEF OtherStops, EndSession
  <2>2. Places' BY <1>1, <1>2, <2>1 DEF IInv, Places, scmVars, installVars
  <2>3. Idle' /\ Connected' /\ Owned'
    BY <1>1, <2>1 DEF IInv, Idle, Connected, Owned, Places, scmVars
  <2>4. QED BY <1>3, <1>5, <2>2, <2>3 DEF IInv
<1>9. QED
  BY <1>6, <1>7, <1>8
  DEF Outside, Recovery, KernelRefuses, KernelRecovers, WmiStops, WmiStarts, threadVars

\* The end of the process, on which several steps rest.
LEMMA EndOfProcess ==
  ASSUME IInv, ProcessEnds, UNCHANGED installVars, trouble' \in 0 .. MaxTrouble
  PROVE  IInv'
<1>1. Flags' BY DEF ProcessEnds, ThreadsEnd, IInv, Flags, installVars
<1>2. Places'
  BY DEF ProcessEnds, ThreadsEnd, Swept, IInv, Places, Steps, Goto, installVars
<1>3. Idle' /\ Connected' /\ Owned'
  BY DEF ProcessEnds, ThreadsEnd, Idle, Connected, Owned, Goto
<1>4. Achieved' BY DEF ProcessEnds, Swept, IInv, Achieved, installVars
<1>5. QED BY <1>1, <1>2, <1>3, <1>4 DEF IInv

LEMMA ServiceSteps ==
  ASSUME IInv, ServiceMain \/ Shutdown \/ MainReturns \/ ExitProcess \/ Crash \/ Boot
  PROVE  IInv'
<1>1. CASE ServiceMain
  <2>1. Flags' BY <1>1 DEF ServiceMain, IInv, Flags, installVars, kernelVars
  <2>2. Places' BY <1>1 DEF ServiceMain, IInv, Places, Steps, Goto, installVars, kernelVars
  <2>3. Idle' /\ Connected' /\ Owned'
    BY <1>1 DEF ServiceMain, IInv, Idle, Connected, Owned, Goto, kernelVars
  <2>4. Achieved' BY <1>1 DEF ServiceMain, IInv, Achieved, installVars
  <2>5. QED BY <2>1, <2>2, <2>3, <2>4 DEF IInv
<1>2. CASE Shutdown
  <2>1. /\ UNCHANGED <<collectorVars, entry, watching, installVars>>
        /\ process = "running" /\ process' = "stopped"
    BY <1>2 DEF Shutdown, ServiceCtrlHandler
  <2>2. trouble' \in 0 .. MaxTrouble BY <1>2, TroubleTyped DEF Shutdown
  <2>3. Flags' BY <2>1 DEF IInv, Flags, installVars, collectorVars, kernelVars, threadVars
  <2>4. Places'
    BY <2>1, <2>2 DEF IInv, Places, Steps, installVars, collectorVars, kernelVars, threadVars
  <2>5. Idle' /\ Connected' /\ Owned'
    BY <2>1 DEF IInv, Idle, Connected, Owned, collectorVars, kernelVars, threadVars
  <2>6. Achieved' BY <2>1 DEF IInv, Achieved, installVars
  <2>7. QED BY <2>3, <2>4, <2>5, <2>6 DEF IInv
<1>3. CASE MainReturns
  <2>1. trouble' \in 0 .. MaxTrouble BY <1>3 DEF MainReturns, IInv, Places
  <2>2. QED BY <1>3, <2>1, EndOfProcess DEF MainReturns
<1>4. CASE ExitProcess BY <1>4, EndOfProcess, TroubleTyped DEF ExitProcess
<1>5. CASE Crash BY <1>5, EndOfProcess, TroubleTyped DEF Crash
<1>6. CASE Boot
  <2>1. Flags' BY <1>6 DEF Boot, MachineRestarts, IInv, Flags
  <2>2. trouble' \in 0 .. MaxTrouble BY <1>6, TroubleTyped DEF Boot
  <2>3. Places' BY <1>6, <2>2 DEF Boot, MachineRestarts, Swept, IInv, Places, Steps, Goto
  <2>4. Idle' /\ Connected' /\ Owned'
    BY <1>6 DEF Boot, MachineRestarts, Idle, Connected, Owned, Goto
  <2>5. Achieved' BY <1>6 DEF Boot, Achieved
  <2>6. QED BY <2>1, <2>3, <2>4, <2>5 DEF IInv
<1>7. QED BY <1>1, <1>2, <1>3, <1>4, <1>5, <1>6

\* A step of an installation leaves the collector alone, and the process unless it is
\* the one that starts it.
LEMMA InstallerSteps ==
  ASSUME IInv, BeginInstallation \/ InstallerStep
  PROVE  IInv'
<1>1. UNCHANGED <<collectorVars, watching>> /\ (process' = process \/ process' = "starting")
  BY DEF BeginInstallation, InstallerStep, Stop, Delete, Create, Run, ExitInstaller, scmVars,
         ServiceCtrlHandler, ControlsAccepted
<1>2. trouble' \in 0 .. MaxTrouble
  <2>1. trouble' = trouble \/ Trouble
    BY DEF BeginInstallation, InstallerStep, Stop, Delete, Create, Run, ExitInstaller, Works, Fails
  <2>2. QED BY <2>1, TroubleTyped DEF IInv, Places
<1>3. Flags'
  <2>1. held' \in BOOLEAN
    BY DEF BeginInstallation, InstallerStep, Stop, Delete, Create, Run, ExitInstaller, IInv, Flags
  <2>2. found' \in BOOLEAN
    BY DEF BeginInstallation, InstallerStep, Stop, Delete, Create, Run, ExitInstaller, IInv, Flags
  <2>3. failed' \in BOOLEAN
    BY DEF BeginInstallation, InstallerStep, Stop, Delete, Create, Run, ExitInstaller, Works,
           Fails, IInv, Flags
  <2>4. QED BY <1>1, <2>1, <2>2, <2>3 DEF IInv, Flags, collectorVars, kernelVars, threadVars
<1>4. Places'
  <2>1. entry' \in {"absent", "present", "marked"}
    BY DEF BeginInstallation, InstallerStep, Stop, Delete, Create, Run, ExitInstaller, Swept, IInv,
           Places, scmVars
  <2>2. installer' \in {"stop", "delete", "create", "run", "exit", "done"}
    BY DEF BeginInstallation, InstallerStep, Stop, Delete, Create, Run, ExitInstaller
  <2>3. QED
    BY <1>1, <1>2, <2>1, <2>2 DEF IInv, Places, collectorVars, kernelVars, threadVars
<1>5. Connected' /\ Owned'
  BY <1>1 DEF IInv, Connected, Owned, collectorVars, kernelVars, threadVars
<1>6. Idle'
  <2>1. process' = "starting" => process \in {"none", "starting"}
    BY DEF BeginInstallation, InstallerStep, Stop, Delete, Create, Run, ExitInstaller, scmVars,
           ServiceCtrlHandler, ControlsAccepted
  <2>2. QED BY <1>1, <2>1 DEF IInv, Idle, collectorVars, kernelVars, threadVars
<1>7. Achieved'
  <2>1. CASE BeginInstallation BY <2>1 DEF BeginInstallation, Achieved, scmVars
  <2>2. CASE Stop
    BY <2>2 DEF Stop, ServiceCtrlHandler, ControlsAccepted, IInv, Achieved
  <2>3. CASE Delete
    <3>1. process' = process /\ found' = found /\ installer = "delete" /\ installer' = "create"
      BY <2>3 DEF Delete
    <3>2. ASSUME found = FALSE, failed' = FALSE PROVE entry' = "absent"
      <4>1. process = "none" BY <3>1, <3>2 DEF IInv, Achieved
      <4>2. entry' = Swept(IF entry = "present" THEN "marked" ELSE entry, process, FALSE)
        BY <2>3, <3>2 DEF Delete, Works, Fails
      <4>3. QED BY <4>1, <4>2 DEF Swept, IInv, Places
    <3>3. QED BY <3>1, <3>2 DEF IInv, Achieved
  <2>4. CASE Create
    <3>1. process' = process /\ found' = found /\ installer = "create"
            /\ installer' \in {"run", "exit"}
      BY <2>4 DEF Create
    <3>2. ASSUME found = FALSE, failed' = FALSE PROVE entry' = "present"
      <4>1. failed = FALSE BY <2>4, <3>2 DEF Create, Works, Fails
      <4>2. entry = "absent" BY <3>1, <3>2, <4>1 DEF IInv, Achieved
      <4>3. QED BY <2>4, <3>2, <4>2 DEF Create, Works, Fails
    <3>3. QED BY <3>1, <3>2 DEF Achieved
  <2>5. CASE Run
    <3>1. entry' = entry /\ found' = found /\ installer = "run" /\ installer' = "exit"
      BY <2>5 DEF Run
    <3>2. failed' = FALSE => failed = FALSE BY <2>5 DEF Run, Works, Fails
    <3>3. QED BY <3>1, <3>2 DEF IInv, Achieved
  <2>6. CASE ExitInstaller BY <2>6 DEF ExitInstaller, Achieved
  <2>7. QED BY <2>1, <2>2, <2>3, <2>4, <2>5, <2>6 DEF InstallerStep
<1>8. QED BY <1>3, <1>4, <1>5, <1>6, <1>7 DEF IInv

LEMMA Inductive == IInv /\ [Next]_vars => IInv'
<1> SUFFICES ASSUME IInv, [Next]_vars PROVE IInv'
  OBVIOUS
<1>1. CASE Threads BY <1>1, CollectorSteps DEF Threads
<1>2. CASE Outside \/ Recovery BY <1>2, OtherSteps
<1>3. CASE ServiceMain \/ Shutdown \/ MainReturns \/ ExitProcess \/ Crash \/ Boot
  BY <1>3, ServiceSteps
<1>4. CASE BeginInstallation \/ InstallerStep BY <1>4, InstallerSteps
<1>5. CASE UNCHANGED vars
  <2> USE <1>5 DEF vars, collectorVars, kernelVars, threadVars, scmVars, installVars
  <2>1. Flags' BY DEF IInv, Flags
  <2>2. Places' BY DEF IInv, Places
  <2>3. Idle' /\ Connected' /\ Owned' /\ Achieved'
    BY DEF IInv, Idle, Connected, Owned, Achieved
  <2>4. QED BY <2>1, <2>2, <2>3 DEF IInv
<1>6. QED BY <1>1, <1>2, <1>3, <1>4, <1>5 DEF Next

-----------------------------------------------------------------------------
\* The inductive invariant holds in every behaviour of the service.
THEOREM Invariance == Spec => []IInv
BY Initially, Inductive, PTL DEF Spec

\* Every variable keeps its type, nothing of the service is left without its process,
\* and no events are processed before WMI is connected.
THEOREM TypeCorrect == Spec => []TypeOK
<1>1. IInv => TypeOK BY TypeParts DEF IInv
<1>2. QED BY <1>1, Invariance, PTL

\* What an earlier process left in the kernel is consumed only if this process could not
\* stop it, however many processes, boots and other programs there were.  (BeginTrace)
THEOREM NothingLeft == Spec => []NothingLeftOver
<1>1. IInv => NothingLeftOver BY DEF IInv, Places, Owned, NothingLeftOver
<1>2. QED BY <1>1, Invariance, PTL

\* An installation that finds no service running, and whose calls are granted, leaves one
\* that is registered.  (Service::Delete, Service::Create, Service::Run)
THEOREM Installs == Spec => []InstallationLasts
<1>1. IInv => InstallationLasts
  <2> SUFFICES ASSUME IInv, installer = "exit", ~found, ~failed PROVE entry = "present"
    BY DEF InstallationLasts
  <2>1. found = FALSE /\ failed = FALSE BY DEF IInv, Flags
  <2>2. QED BY <2>1 DEF IInv, Achieved
<1>2. QED BY <1>1, Invariance, PTL

=============================================================================
