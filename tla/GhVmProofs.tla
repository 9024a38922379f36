----------------------------- MODULE GhVmProofs -----------------------------
(***************************************************************************)
(* Theorems about GhVm, for any number of vcpus, any bound on the loads    *)
(* and any sets of failing calls: the safety properties of gh_main.c and   *)
(* of the loading path, without bounds.                                    *)
(***************************************************************************)
EXTENDS GhVm, TLAPS

-----------------------------------------------------------------------------
(* The inductive invariant, in three parts                                 *)

\* Who can be active: gh_destroy_vm starts when, and only when, the last file is
\* closed, and no ioctl outlives its file.
Refs ==
  /\ (destroy # "idle") <=> (~vmFd /\ vcpuFds = {})
  /\ \A v \in Vcpus : run[v] # "idle" => v \in vcpuFds
  /\ loader # "idle" => vmFd
  /\ (object = "freed") <=> (destroy = "done")
  /\ destroy = "idle" => stopTry = 0
  /\ destroy = "stop" => stopTry \in 0..1

\* What vm_lock protects: GH_VM_SET_FW_NAME as a whole, and the first run from
\* its test of the status to RUNNING, so that no EXITED is recorded in between.
Starting(v) == run[v] \in {"start", "started"}
Locked ==
  /\ loader # "idle" => lock = "loader"
  /\ \A v \in Vcpus : Starting(v) => lock = "vcpu" /\ status # "EXITED"
  /\ \A u, v \in Vcpus : Starting(u) /\ Starting(v) => u = v

\* How far loading has come, and what that means has been acquired.
RunsIdle == \A v \in Vcpus : run[v] = "idle"
Bare     == (mem = "host" \/ AssignedBefore) /\ shmem = "host" /\ ~resources
Unnamed  == ~fwName /\ works = {} /\ RunsIdle
Empty    == Unnamed /\ mem = "host" /\ shmem = "host" /\ ~resources /\ ~secure /\ ~vmid /\ status = "NO_STATE" /\ rm = "none"
Alloced  == Unnamed /\ Bare /\ ~secure /\ vmid /\ status = "LOAD" /\ rm = "alloc"
Owned    == vmid /\ secure /\ mem = "guest"
Given(s, r) == Unnamed /\ Owned /\ shmem = "host" /\ ~resources /\ status = s /\ rm = r
AwaitsReady ==
  /\ ~fwName /\ RunsIdle /\ Owned /\ shmem = "host" /\ ~resources
  /\ \/ status = "INIT" /\ rm = "init" /\ works = {}
     \/ status = "INIT" /\ rm = "ready" /\ works = {"READY"}
     \/ status = "READY" /\ rm = "ready" /\ works = {}
Loaded ==
  /\ fwName /\ Owned /\ resources /\ works \subseteq {"EXITED"}
  /\ status \in {"READY", "RUNNING", "EXITED"}

LoadStage ==
  /\ loader = "alloc" => Empty \/ Alloced
  /\ loader \in {"firmware", "mem"} => Alloced
  /\ loader = "config" => Given("LOAD", "alloc")
  /\ loader = "auth" => Given("AUTH", "config")
  /\ loader = "init" => Given("INIT", "auth")
  /\ loader = "waitready" => AwaitsReady
  /\ loader = "populate" => Given("READY", "ready")
  /\ loader = "shmem" => Unnamed /\ Owned /\ resources /\ status = "READY" /\ rm = "ready"
  /\ loader = "idle" /\ destroy = "idle" => Empty \/ Alloced \/ Loaded
DestroyStage ==
  /\ destroy \in {"stop", "stopwait", "vcpus", "cleanup"} => Alloced \/ Loaded
  /\ destroy = "unpopulate" => fwName /\ secure
  /\ destroy \in {"reset", "resetwait", "reclaim"} => fwName /\ secure /\ ~resources
  /\ destroy = "dealloc" => Bare
  /\ destroy \in {"free", "done"} => Bare /\ ~vmid

\* What the status says of the Resource Manager's view of the VM.
Stopped == {"exited", "reset"}
RunStage ==
  /\ \A v \in Vcpus : run[v] = "start" => rm = "ready"
  /\ \A v \in Vcpus : Starting(v) => status = "READY"
  /\ destroy = "idle" /\ status = "READY" => rm = "ready" \/ \E v \in Vcpus : run[v] = "started"
  /\ rm = "running" => status = "RUNNING" \/ \E v \in Vcpus : run[v] = "started"
  /\ "EXITED" \in works \/ status = "EXITED" => rm \in Stopped
  /\ "RESET" \in works \/ status = "RESET" => rm = "reset"
  /\ "READY" \in works \/ rm = "init" => loader = "waitready"
Ended == {"vcpus", "cleanup", "unpopulate", "reset", "resetwait", "reclaim", "dealloc", "free", "done"}
PowerStage ==
  /\ destroy \in Ended => rm # "running"
  /\ events \in {"EARLY_POWEROFF", "POWEROFF"} => destroy \in Ended

Base == TypeOK /\ Refs /\ Locked
Stages == LoadStage /\ DestroyStage /\ RunStage /\ PowerStage
Inv == Base /\ (ReportedOrUnsent => Stages)

-----------------------------------------------------------------------------
(* Types, files and vm_lock, whatever fails                                *)

\* The variables that are truth values, on their own: arithmetic and sets need
\* another prover than these.
Bools ==
  /\ fwName \in BOOLEAN /\ runOnce \in BOOLEAN /\ secure \in BOOLEAN
  /\ vmFd \in BOOLEAN /\ vmid \in BOOLEAN /\ resources \in BOOLEAN

LEMMA BoolStep == ASSUME Bools, Next PROVE Bools'
<1> USE DEF Bools, memVars, loadVars, runVars, fdVars, endVars, LoadTo, LoadReturn
<1>1. CASE SetFwName \/ LoadAlloc \/ LoadFirmware \/ LoadWaitReady
  BY <1>1, Zenon DEF SetFwName, LoadAlloc, LoadFirmware, LoadWaitReady
<1>2. CASE LoadMem
  BY <1>2, Zenon DEF LoadMem
<1>3. CASE LoadConfig \/ LoadAuth \/ LoadInit
  BY <1>3, Zenon DEF LoadConfig, LoadAuth, LoadInit, LoadRpc, ConfigureFailed
<1>4. CASE LoadPopulate \/ LoadShmem
  BY <1>4, Zenon DEF LoadPopulate, LoadShmem, ConfigureFailed
<1>5. CASE CloseVm \/ WaitForExit \/ WaitForExitDone \/ ExitedWork \/ RmReady \/ RmExit
  BY <1>5, Zenon DEF CloseVm, WaitForExit, WaitForExitDone, ExitedWork, RmReady, RmExit
<1>6. ASSUME NEW v \in Vcpus, CreateVcpu(v) \/ CloseVcpu(v) \/ RunVcpu(v) PROVE Bools'
  BY <1>6, Zenon DEF CreateVcpu, CloseVcpu, RunVcpu
<1>7. ASSUME NEW v \in Vcpus, RunStartRpc(v) \/ RunStarted(v) \/ RunExited(v) \/ RunInterrupted(v) PROVE Bools'
  BY <1>7, Zenon DEF RunStartRpc, RunStarted, RunExited, RunInterrupted
<1>8. ASSUME NEW s \in works, StatusWork(s) PROVE Bools'
  BY <1>8, Zenon DEF StatusWork
<1>9. CASE DestroyStop \/ DestroyStopWait \/ DestroyVcpus \/ DestroyCleanup \/ DestroyUnpopulate
  BY <1>9, Zenon DEF DestroyStop, DestroyStopWait, DestroyVcpus, DestroyCleanup, DestroyUnpopulate
<1>10. CASE DestroyReset \/ DestroyResetWait \/ DestroyReclaim \/ DestroyDealloc \/ DestroyFree
  BY <1>10, Zenon DEF DestroyReset, DestroyResetWait, DestroyReclaim, DestroyDealloc, DestroyFree
<1> QED
  BY <1>1, <1>2, <1>3, <1>4, <1>5, <1>6, <1>7, <1>8, <1>9, <1>10, Zenon DEF Next, Loader, RunStep, Destroy

LEMMA LoaderBase == ASSUME Base, Bools', Loader PROVE Base'
<1> USE VcpusAssumption DEF Base, Bools, TypeOK, Refs, Locked, Starting, memVars, loadVars, runVars, fdVars,
        endVars, LoadTo, LoadReturn, LoadSteps, Statuses
<1>1. CASE SetFwName
  BY <1>1 DEF SetFwName
<1>2. CASE LoadAlloc
  BY <1>2 DEF LoadAlloc
<1>3. CASE LoadFirmware
  BY <1>3 DEF LoadFirmware
<1>4. CASE LoadMem
  BY <1>4 DEF LoadMem, Before
<1>5. CASE LoadConfig
  BY <1>5 DEF LoadConfig, LoadRpc, ConfigureFailed
<1>6. CASE LoadAuth
  BY <1>6 DEF LoadAuth, LoadRpc, ConfigureFailed
<1>7. CASE LoadInit
  BY <1>7 DEF LoadInit, LoadRpc, ConfigureFailed
<1>8. CASE LoadWaitReady
  BY <1>8 DEF LoadWaitReady
<1>9. CASE LoadPopulate
  BY <1>9 DEF LoadPopulate, ConfigureFailed
<1>10. CASE LoadShmem
  BY <1>10 DEF LoadShmem, Before
<1> QED
  BY <1>1, <1>2, <1>3, <1>4, <1>5, <1>6, <1>7, <1>8, <1>9, <1>10 DEF Loader

LEMMA FileBase ==
  ASSUME Base, Bools', CloseVm \/ \E v \in Vcpus : CreateVcpu(v) \/ CloseVcpu(v)
  PROVE  Base'
<1> USE VcpusAssumption DEF Base, Bools, TypeOK, Refs, Locked, Starting, memVars, loadVars, runVars, fdVars,
        endVars, DestroyBegins, DestroySteps
<1>1. ASSUME NEW v \in Vcpus, CreateVcpu(v) PROVE Base'
  BY <1>1 DEF CreateVcpu
<1>2. ASSUME NEW v \in Vcpus, CloseVcpu(v) PROVE Base'
  BY <1>2 DEF CloseVcpu
<1>3. CASE CloseVm
  BY <1>3 DEF CloseVm
<1> QED
  BY <1>1, <1>2, <1>3

LEMMA RunBase == ASSUME Base, Bools', NEW v \in Vcpus, RunStep(v) PROVE Base'
<1> USE VcpusAssumption DEF Base, Bools, TypeOK, Refs, Locked, Starting, memVars, loadVars, runVars, fdVars,
        endVars, RunReturn, RunTo, RunSteps, Statuses
<1>1. CASE RunVcpu(v)
  BY <1>1 DEF RunVcpu, NotStartable
<1>2. CASE RunStartRpc(v)
  BY <1>2 DEF RunStartRpc
<1>3. CASE RunStarted(v)
  BY <1>3 DEF RunStarted
<1>4. CASE RunExited(v)
  BY <1>4 DEF RunExited
<1>5. CASE RunInterrupted(v)
  BY <1>5 DEF RunInterrupted
<1> QED
  BY <1>1, <1>2, <1>3, <1>4, <1>5 DEF RunStep

LEMMA NotifBase ==
  ASSUME Base, Bools',
         \/ (\E s \in works : StatusWork(s)) \/ ExitedWork \/ RmReady \/ RmExit
         \/ WaitForExit \/ WaitForExitDone
  PROVE  Base'
<1> USE VcpusAssumption DEF Base, Bools, TypeOK, Refs, Locked, Starting, memVars, loadVars, runVars, fdVars,
        endVars, Statuses
<1>1. CASE \E s \in works : StatusWork(s)
  BY <1>1 DEF StatusWork, StatusNotified
<1>2. CASE ExitedWork
  BY <1>2 DEF ExitedWork, ExitLockFree
<1>3. CASE RmReady
  <2>1. works' \subseteq {"READY", "EXITED", "RESET"}
    BY <1>3 DEF RmReady
  <2> QED
    BY <1>3, <2>1 DEF RmReady
<1>4. CASE RmExit
  BY <1>4 DEF RmExit
<1>5. CASE WaitForExit
  BY <1>5 DEF WaitForExit
<1>6. CASE WaitForExitDone
  BY <1>6 DEF WaitForExitDone
<1> QED
  BY <1>1, <1>2, <1>3, <1>4, <1>5, <1>6

LEMMA DestroyBase == ASSUME Base, Bools', Destroy PROVE Base'
<1> USE VcpusAssumption DEF Base, Bools, TypeOK, Refs, Locked, Starting, memVars, loadVars, runVars, fdVars,
        endVars, DestroyTo, DestroySteps, Statuses
<1>1. CASE DestroyStop
  <2>a. works' \subseteq {"READY", "EXITED", "RESET"}
    BY <1>1 DEF DestroyStop
  <2>b. stopTry' \in 0..2
    BY <1>1 DEF DestroyStop
  <2>0. works' \subseteq {"READY", "EXITED", "RESET"} /\ stopTry' \in 0..2 /\ destroy' \in DestroySteps
    BY <1>1, <2>a, <2>b DEF DestroyStop, StopRetry
  <2>1. TypeOK'
    BY <1>1, <2>0 DEF DestroyStop, StopRetry
  <2>2. Refs'
    BY <1>1 DEF DestroyStop, StopRetry
  <2>3. Locked'
    BY <1>1 DEF DestroyStop, StopRetry
  <2> QED
    BY <2>1, <2>2, <2>3
<1>2. CASE DestroyStopWait
  BY <1>2 DEF DestroyStopWait
<1>10. CASE DestroyResetWait
  BY <1>10 DEF DestroyResetWait
<1>3. CASE DestroyVcpus
  <2>a. vcpuFds = {} /\ vcpuFds' = {}
    BY <1>3 DEF DestroyVcpus
  <2>b. vcpuId' \in 0..MaxVcpus
    <3> HIDE DEF Refs, Locked
    <3> QED BY <1>3 DEF DestroyVcpus, SkipMissing
  <2>0. vcpus' \subseteq Vcpus /\ vcpuFds' \subseteq vcpus' /\ vcpuId' \in 0..MaxVcpus
    BY <1>3, <2>a, <2>b DEF DestroyVcpus
  <2>1. TypeOK'
    BY <1>3, <2>0 DEF DestroyVcpus, SkipMissing
  <2>2. Refs'
    BY <1>3 DEF DestroyVcpus, SkipMissing
  <2>3. Locked'
    BY <1>3 DEF DestroyVcpus, SkipMissing
  <2> QED
    BY <2>1, <2>2, <2>3
<1>4. CASE DestroyCleanup
  BY <1>4 DEF DestroyCleanup, CleanupEntry
<1>5. CASE DestroyUnpopulate
  BY <1>5 DEF DestroyUnpopulate
<1>6. CASE DestroyReset
  <2>0. works' \subseteq {"READY", "EXITED", "RESET"}
    BY <1>6 DEF DestroyReset
  <2>1. TypeOK'
    BY <1>6, <2>0 DEF DestroyReset
  <2>2. Refs'
    BY <1>6 DEF DestroyReset
  <2>3. Locked'
    BY <1>6 DEF DestroyReset
  <2> QED
    BY <2>1, <2>2, <2>3
<1>7. CASE DestroyReclaim
  BY <1>7 DEF DestroyReclaim, SomeOf
<1>8. CASE DestroyDealloc
  BY <1>8 DEF DestroyDealloc
<1>9. CASE DestroyFree
  BY <1>9 DEF DestroyFree
<1> QED
  BY <1>1, <1>2, <1>3, <1>4, <1>5, <1>6, <1>7, <1>8, <1>9, <1>10 DEF Destroy

LEMMA InitBase == Init => Base
<1> SUFFICES ASSUME Init PROVE Base
  OBVIOUS
<1>1. Bools
  BY Zenon DEF Init, Bools
<1>2. /\ allowed \in 0..MaxVcpus /\ vcpuId \in 0..MaxVcpus /\ loads \in 0..MaxLoads /\ stopTry \in 0..2
  BY VcpusAssumption DEF Init
<1>3. TypeOK
  BY <1>1, <1>2 DEF Init, Bools, TypeOK, Statuses, LoadSteps, RunSteps, DestroySteps
<1>4. vmFd
  BY Zenon DEF Init
<1> QED
  BY <1>2, <1>3, <1>4 DEF Init, Base, Refs, Locked, Starting

LEMMA BaseStep == Base /\ [Next]_vars => Base'
<1> SUFFICES ASSUME Base, [Next]_vars PROVE Base'
  OBVIOUS
<1>1. CASE UNCHANGED vars
  BY <1>1 DEF vars, memVars, loadVars, runVars, fdVars, endVars, Base, TypeOK, Refs, Locked, Starting
<1>2. CASE Next
  <2>1. Bools'
    BY <1>2, BoolStep DEF Base, TypeOK, Bools
  <2> QED
    BY <1>2, <2>1, LoaderBase, FileBase, RunBase, NotifBase, DestroyBase DEF Next
<1> QED
  BY <1>1, <1>2

\* Every variable keeps its type; in particular gh_stop_vm makes at most two
\* attempts and vcpu_id never leaves vm->vcpus, for any number of vcpus.
THEOREM TypeCorrect == Spec => []TypeOK
<1>1. Base => TypeOK
  BY DEF Base
<1> QED
  BY <1>1, InitBase, BaseStep, PTL DEF Spec

-----------------------------------------------------------------------------
(* An exit is not lost to the start it overtook                            *)

LEMMA ExitKept == ASSUME Base, Next, status = "EXITED" PROVE status' # "RUNNING"
<1> USE DEF memVars, loadVars, runVars, fdVars, endVars
<1>1. ASSUME NEW v \in Vcpus, RunStarted(v) PROVE FALSE
  BY <1>1 DEF RunStarted, Base, Locked, Starting
<1>2. CASE Loader
  BY <1>2 DEF Loader, SetFwName, LoadAlloc, LoadFirmware, LoadMem, LoadConfig, LoadAuth, LoadInit, LoadRpc,
     LoadWaitReady, LoadPopulate, LoadShmem
<1>3. CASE CloseVm \/ WaitForExit \/ WaitForExitDone \/ ExitedWork \/ RmReady \/ RmExit
  BY <1>3 DEF CloseVm, WaitForExit, WaitForExitDone, ExitedWork, RmReady, RmExit
<1>4. ASSUME NEW s \in works, StatusWork(s) PROVE status' # "RUNNING"
  BY <1>4 DEF StatusWork, StatusNotified
<1>5. ASSUME NEW v \in Vcpus, CreateVcpu(v) \/ CloseVcpu(v) \/ (RunStep(v) /\ ~RunStarted(v))
      PROVE status' # "RUNNING"
  BY <1>5 DEF CreateVcpu, CloseVcpu, RunStep, RunVcpu, RunStartRpc, RunExited, RunInterrupted
<1>6. CASE Destroy
  BY <1>6 DEF Destroy, DestroyStop, DestroyStopWait, DestroyVcpus, DestroyCleanup, DestroyUnpopulate,
     DestroyReset, DestroyResetWait, DestroyReclaim, DestroyDealloc, DestroyFree
<1> QED
  BY <1>1, <1>2, <1>3, <1>4, <1>5, <1>6 DEF Next, RunStep

\* gh_vm_start never overwrites an EXITED that gh_notif_vm_exited has recorded:
\* vm_lock keeps the notification out from the test of the status to RUNNING.
THEOREM ExitStands == Spec => ExitNotOverwritten
<1>1. Base /\ [Next]_vars => [status = "EXITED" => status' # "RUNNING"]_vars
  BY ExitKept
<1> QED
  BY <1>1, InitBase, BaseStep, PTL DEF Spec, ExitNotOverwritten

-----------------------------------------------------------------------------
(* The stages, when only calls fail whose failure the code reports         *)

LEMMA CannotFail ==
  ASSUME ReportedOrUnsent
  PROVE  /\ ~May("metadata") /\ ~May("share") /\ ~May("config") /\ ~May("auth") /\ ~May("init")
         /\ ~May("initfail") /\ ~May("populate") /\ ~May("shmem") /\ ~May("stop")
         /\ ~May("unpopulate") /\ ~May("reclaim") /\ ~May("dealloc")
BY DEF ReportedOrUnsent, Reported, Unwound, May

LEMMA ErrnoUnnames == LoadReturn("errno") => ~fwName'
<1>1. ("errno" = "0") = FALSE
  OBVIOUS
<1> QED
  BY <1>1, Zenon DEF LoadReturn

LEMMA LoaderStages == ASSUME Base, Base', Stages, ReportedOrUnsent, Loader PROVE Stages'
<1> USE CannotFail DEF Stages, LoadStage, DestroyStage, RunStage, PowerStage, Empty, Alloced, Given, AwaitsReady,
        Loaded, Owned, Unnamed, Bare, AssignedBefore, May, RunsIdle, Starting, memVars, loadVars, runVars, fdVars, endVars, LoadTo, LoadReturn
<1>0. destroy = "idle" /\ destroy' = "idle" /\ UNCHANGED <<destroy, run, works>>
  BY DEF Base, Refs, Loader, SetFwName, LoadAlloc, LoadFirmware, LoadMem, LoadConfig, LoadAuth, LoadInit,
     LoadRpc, LoadWaitReady, LoadPopulate, LoadShmem
<1>1. CASE SetFwName
  BY <1>0, <1>1 DEF SetFwName, Base, Locked
<1>2. CASE LoadAlloc
  <2>1. ~fwName'
    BY <1>2, ErrnoUnnames DEF LoadAlloc
  <2>2. vmid' = TRUE \/ vmid' = vmid
    BY <1>2 DEF LoadAlloc
  <2>3. vmid' \/ vmid' = vmid
    BY <2>2, Zenon
  <2> QED
    BY <1>0, <1>2, <2>1, <2>3 DEF LoadAlloc
<1>3. CASE LoadFirmware
  <2>1. ~fwName'
    BY <1>3, ErrnoUnnames DEF LoadFirmware
  <2> QED
    BY <1>0, <1>3, <2>1 DEF LoadFirmware
<1>4. CASE LoadMem
  <2>1. ~fwName'
    BY <1>4, ErrnoUnnames DEF LoadMem
  <2>2. \/ mem' = "guest" /\ secure' = TRUE /\ loader' = "config"
        \/ mem' \in Before(MemCount) /\ secure' = secure /\ May("assign") /\ loader' = "idle"
    BY <1>4 DEF LoadMem
  <2>3. CASE mem' = "guest" /\ secure' = TRUE /\ loader' = "config"
    <3>1. secure'
      BY <2>3, Zenon
    <3> QED
      BY <1>0, <1>4, <2>1, <2>3, <3>1 DEF LoadMem
  <2>4. CASE mem' \in Before(MemCount) /\ secure' = secure /\ May("assign") /\ loader' = "idle"
    <3>1. mem' = "host" \/ AssignedBefore'
      BY <1>4, <2>4 DEF LoadMem, Before
    <3>2. ~secure'
      BY <1>4, <2>4 DEF LoadMem
    <3>3. Alloced'
      BY <1>0, <1>4, <2>1, <2>4, <3>1, <3>2 DEF LoadMem
    <3> QED
      BY <1>0, <1>4, <2>4, <3>3 DEF LoadMem
  <2> QED
    BY <2>2, <2>3, <2>4
<1>5. CASE LoadConfig
  BY <1>0, <1>5 DEF LoadConfig, LoadRpc, Base, Locked
<1>6. CASE LoadAuth
  BY <1>0, <1>6 DEF LoadAuth, LoadRpc, Base, Locked
<1>7. CASE LoadInit
  BY <1>0, <1>7 DEF LoadInit, LoadRpc, Base, Locked
<1>8. CASE LoadWaitReady
  BY <1>0, <1>8 DEF LoadWaitReady, WaitedFor, Base, Locked
<1>9. CASE LoadPopulate
  BY <1>0, <1>9 DEF LoadPopulate, Base, Locked
<1>10. CASE LoadShmem
  BY <1>0, <1>10 DEF LoadShmem, Base, Locked
<1> QED
  BY <1>1, <1>2, <1>3, <1>4, <1>5, <1>6, <1>7, <1>8, <1>9, <1>10 DEF Loader

LEMMA FileStages ==
  ASSUME Base, Base', Stages, ReportedOrUnsent, CloseVm \/ \E v \in Vcpus : CreateVcpu(v) \/ CloseVcpu(v)
  PROVE  Stages'
<1> USE DEF Stages, LoadStage, DestroyStage, RunStage, PowerStage, Empty, Alloced, Given, AwaitsReady,
        Loaded, Owned, Unnamed, Bare, AssignedBefore, May, RunsIdle, Starting, memVars, loadVars, runVars, fdVars, endVars,
        DestroyBegins, Ended
<1>1. ASSUME NEW v \in Vcpus, CreateVcpu(v) PROVE Stages'
  BY <1>1 DEF CreateVcpu
<1>2. ASSUME NEW v \in Vcpus, CloseVcpu(v) PROVE Stages'
  BY <1>2 DEF CloseVcpu, Base, Refs
<1>3. CASE CloseVm
  BY <1>3 DEF CloseVm, Base, Refs
<1> QED
  BY <1>1, <1>2, <1>3

LEMMA RunStages == ASSUME Base, Base', Stages, ReportedOrUnsent, NEW v \in Vcpus, RunStep(v) PROVE Stages'
<1> USE DEF Stages, LoadStage, DestroyStage, RunStage, PowerStage, Empty, Alloced, Given, AwaitsReady,
        Loaded, Owned, Unnamed, Bare, AssignedBefore, May, RunsIdle, Starting, memVars, loadVars, runVars, fdVars, endVars,
        RunReturn, RunTo
<1>0. run[v] # "idle" \/ v \in vcpuFds
  BY DEF RunStep, RunVcpu, RunStartRpc, RunStarted, RunExited, RunInterrupted
<1>i. destroy = "idle" /\ destroy' = "idle" /\ run \in [Vcpus -> RunSteps]
  BY <1>0 DEF Base, TypeOK, Refs, RunStep, RunVcpu, RunStartRpc, RunStarted, RunExited, RunInterrupted
<1>1. CASE RunVcpu(v)
  BY <1>i, <1>1 DEF RunVcpu, NotStartable, Base, Locked
<1>2. CASE RunStartRpc(v)
  BY <1>i, <1>2 DEF RunStartRpc, Stopped, Ended, Base, Locked
<1>3. CASE RunStarted(v)
  BY <1>i, <1>3 DEF RunStarted, Base, Locked
<1>4. CASE RunExited(v)
  BY <1>i, <1>4 DEF RunExited
<1>5. CASE RunInterrupted(v)
  BY <1>i, <1>5 DEF RunInterrupted
<1> QED
  BY <1>1, <1>2, <1>3, <1>4, <1>5 DEF RunStep

LEMMA NotifStages ==
  ASSUME Base, Base', Stages, ReportedOrUnsent,
         \/ (\E s \in works : StatusWork(s)) \/ ExitedWork \/ RmReady \/ RmExit
         \/ WaitForExit \/ WaitForExitDone
  PROVE  Stages'
<1> USE CannotFail DEF Stages, LoadStage, DestroyStage, RunStage, PowerStage, Empty, Alloced, Given, AwaitsReady,
        Loaded, Owned, Unnamed, Bare, AssignedBefore, May, RunsIdle, Starting, memVars, loadVars, runVars, fdVars, endVars
<1>1. ASSUME NEW s \in works, StatusWork(s) PROVE Stages'
  BY <1>1 DEF StatusWork, StatusNotified, Base, TypeOK, Refs, Locked
<1>2. CASE ExitedWork
  BY <1>2 DEF ExitedWork, ExitLockFree, Stopped, Base, TypeOK, Refs, Locked
<1>3. CASE RmReady
  BY <1>3 DEF RmReady, Stopped, Base, Refs
<1>4. CASE RmExit
  BY <1>4 DEF RmExit, Stopped, Base, Refs
<1>5. CASE WaitForExit
  BY <1>5 DEF WaitForExit
<1>6. CASE WaitForExitDone
  BY <1>6 DEF WaitForExitDone
<1> QED
  BY <1>1, <1>2, <1>3, <1>4, <1>5, <1>6

LEMMA DestroyStages == ASSUME Base, Base', Stages, ReportedOrUnsent, Destroy PROVE Stages'
<1> USE CannotFail DEF Stages, LoadStage, DestroyStage, RunStage, PowerStage, Empty, Alloced, Given, AwaitsReady,
        Loaded, Owned, Unnamed, Bare, AssignedBefore, May, RunsIdle, Starting, memVars, loadVars, runVars, fdVars, endVars,
        DestroyTo, Ended
<1>0. loader = "idle" /\ loader' = "idle" /\ RunsIdle /\ UNCHANGED run /\ destroy' # "idle"
  BY DEF Base, TypeOK, Refs, Destroy, DestroyStop, DestroyStopWait, DestroyVcpus, DestroyCleanup, DestroyUnpopulate,
     DestroyReset, DestroyResetWait, DestroyReclaim, DestroyDealloc, DestroyFree
<1>1. CASE DestroyStop
  BY <1>0, <1>1 DEF DestroyStop, StopNeeded, StopRetry, Stopped
<1>2. CASE DestroyStopWait
  BY <1>0, <1>2 DEF DestroyStopWait, WaitedFor, Stopped
<1>3. CASE DestroyVcpus
  BY <1>0, <1>3 DEF DestroyVcpus
<1>4. CASE DestroyCleanup
  BY <1>0, <1>4 DEF DestroyCleanup, CleanupEntry
<1>5. CASE DestroyUnpopulate
  BY <1>0, <1>5 DEF DestroyUnpopulate
<1>6. CASE DestroyReset
  BY <1>0, <1>6 DEF DestroyReset, Stopped
<1>7. CASE DestroyResetWait
  BY <1>0, <1>7 DEF DestroyResetWait, WaitedFor
<1>8. CASE DestroyReclaim
  BY <1>0, <1>8 DEF DestroyReclaim
<1>9. CASE DestroyDealloc
  BY <1>0, <1>9 DEF DestroyDealloc
<1>10. CASE DestroyFree
  BY <1>0, <1>10 DEF DestroyFree
<1> QED
  BY <1>1, <1>2, <1>3, <1>4, <1>5, <1>6, <1>7, <1>8, <1>9, <1>10 DEF Destroy

LEMMA InvStep == Inv /\ [Next]_vars => Inv'
<1> SUFFICES ASSUME Inv, [Next]_vars PROVE Inv'
  OBVIOUS
<1>1. Base'
  BY BaseStep DEF Inv
<1>2. may' = may
  BY DEF Next, vars, Loader, SetFwName, LoadAlloc, LoadFirmware, LoadMem, LoadConfig, LoadAuth, LoadInit,
     LoadRpc, LoadWaitReady, LoadPopulate, LoadShmem, CloseVm, WaitForExit, WaitForExitDone, CreateVcpu,
     CloseVcpu, RunStep, RunVcpu, RunStartRpc, RunStarted, RunExited, RunInterrupted, StatusWork, ExitedWork,
     RmReady, RmExit, Destroy, DestroyStop, DestroyStopWait, DestroyVcpus, DestroyCleanup, DestroyUnpopulate,
     DestroyReset, DestroyResetWait, DestroyReclaim, DestroyDealloc, DestroyFree
<1>3. ASSUME ReportedOrUnsent PROVE Stages'
  <2>1. CASE UNCHANGED vars
    BY <1>3, <2>1 DEF Inv, vars, memVars, loadVars, runVars, fdVars, endVars, Stages, LoadStage, DestroyStage,
       RunStage, PowerStage, Empty, Alloced, Given, AwaitsReady, Loaded, Owned, Unnamed, Bare, AssignedBefore, May, RunsIdle, Starting
  <2>2. CASE Next
    BY <1>1, <1>3, <2>2, LoaderStages, FileStages, RunStages, NotifStages, DestroyStages DEF Inv, Next
  <2> QED
    BY <2>1, <2>2
<1> QED
  BY <1>1, <1>2, <1>3 DEF Inv, ReportedOrUnsent

LEMMA Invariance == Spec => []Inv
<1>1. Init => Inv
  <2> SUFFICES ASSUME Init PROVE Stages
    BY InitBase DEF Inv
  <2>1. ~fwName /\ ~vmid /\ ~resources
    BY Zenon DEF Init
  <2> QED
    BY <2>1 DEF Init, Stages, LoadStage, DestroyStage, RunStage, PowerStage, Ended, Empty, Unnamed, Bare, AssignedBefore, May, RunsIdle, Starting
<1> QED
  BY <1>1, InvStep, PTL DEF Spec

\* A GH_VM_SET_FW_NAME that returned 0 left a VM that is ready to run or has run,
\* with its memory and its resources, in every behaviour whose failures the code
\* unwinds from, sent requests or not.
THEOREM LoadedVmIsReady == Spec => []LoadSuccessMeansReady
<1>1. Inv => LoadSuccessMeansReady
  BY DEF Inv, Base, Refs, Stages, LoadStage, Empty, Alloced, Loaded, Given, AwaitsReady, Unnamed, Owned,
     TypeOK, LoadSteps, LoadSuccessMeansReady, LoadedIsReady
<1> QED
  BY <1>1, Invariance, PTL

\* gh_destroy_vm gives back the memory, the VMID and the hypervisor resources,
\* from whichever status the last close found and however late the exit comes.
THEOREM DestroyGivesBack == Spec => []NothingLeftBehind
<1>1. Inv => NothingLeftBehind
  BY DEF Inv, Base, Refs, Stages, DestroyStage, Bare, NothingLeftBehind
<1> QED
  BY <1>1, Invariance, PTL

\* Clients hear EARLY_POWEROFF and POWEROFF only of a VM that no longer runs, also
\* when gh_stop_vm's request was lost and the VM left by itself.
THEOREM PoweroffIsTrue == Spec => []PoweroffMeansStopped
<1>1. Inv => PoweroffMeansStopped
  BY DEF Inv, Stages, PowerStage, PoweroffMeansStopped
<1> QED
  BY <1>1, Invariance, PTL
=============================================================================
