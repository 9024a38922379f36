-------------------------------- MODULE GhVm --------------------------------
(***************************************************************************)
(* The life of one VM object: gh_main.c (create, vcpu creation, run, exit  *)
(* and status notifications, destruction by the last file reference) and   *)
(* the loading path of gh_secure_vm_loader.c (GH_VM_SET_FW_NAME), for a VM *)
(* scheduled by the hypervisor.                                            *)
(*                                                                         *)
(* Processes: the thread that loads the image through the VM fd, one       *)
(* thread per vcpu fd, a thread in GH_VM_WAIT_FOR_EXIT, the thread whose   *)
(* close() drops the last reference and runs gh_destroy_vm, and the workers*)
(* that deliver the Resource Manager's notifications in any order.         *)
(* vm_lock is held across RPCs exactly where the code holds it.            *)
(***************************************************************************)
EXTENDS Naturals, FiniteSets

CONSTANTS
  Vcpus,     \* vcpu ids user space may create: a subset of 0..MaxVcpus-1
  MaxVcpus,  \* GH_MAX_VCPUS
  Allowed,   \* vcpus the Resource Manager reports (gh_get_nr_vcpus, at least 1)
  MemCount,  \* fw_mem_count of the secure VM's device node: its firmware regions
  ShmemCount,\* sh_mem_count: its shared memory regions
  DenseVcpus,\* user space creates vcpus 0, 1, ... in order
  MaxLoads,  \* bound on GH_VM_SET_FW_NAME calls
  FaultSets  \* the sets of calls that may fail together

ASSUME VcpusAssumption ==
  /\ MaxVcpus \in Nat \ {0} /\ Vcpus \subseteq 0..(MaxVcpus - 1)
  /\ Allowed \in 1..MaxVcpus /\ MemCount \in Nat \ {0} /\ ShmemCount \in Nat
  /\ DenseVcpus \in BOOLEAN /\ MaxLoads \in Nat
FaultNames == {"alloc", "firmware", "metadata", "assign", "share", "config", "auth", "init",
               "initfail", "populate", "shmem", "start", "stop", "reset", "unpopulate",
               "reclaim", "dealloc", "unsent"}
ASSUME FaultsAssumption == FaultSets \subseteq SUBSET FaultNames

VARIABLES
  object,     \* "live" or "freed": struct gh_vm
  status,     \* vm->status.vm_status
  lock,       \* holder of vm->vm_lock, or "free"
  fwName,     \* vm->fw_name is not empty
  runOnce,    \* vm->vm_run_once
  secure,     \* vm->is_secure_vm
  allowed,    \* vm->allowed_vcpus
  vcpus,      \* ids with vm->vcpus[id] set; created_vcpus is their number
  vmFd,       \* the VM fd is open
  vcpuFds,    \* vcpu ids whose fd is open; users_count counts vmFd and these
  loader,     \* program counter of GH_VM_SET_FW_NAME
  loads,      \* GH_VM_SET_FW_NAME calls so far
  run,        \* [Vcpus -> program counter of GH_VCPU_RUN]
  runRet,     \* [Vcpus -> "none", "reason", "errno"]
  waiter,     \* program counter of GH_VM_WAIT_FOR_EXIT
  destroy,    \* program counter of gh_destroy_vm
  stopTry,    \* gh_stop_vm: first attempt or forced one
  vcpuId,     \* the loop variable vcpu_id of gh_destroy_vm
  events,     \* last power event notified to clients
  mem,        \* who has the firmware regions: "host", "guest", or the guest in "part"
  shmem,      \* who has the shared memory regions
  vmid,       \* a VMID is allocated
  resources,  \* hypervisor resources are populated
  rm,         \* the Resource Manager's view of the VM
  works,      \* notifications on their way
  may         \* the calls that may fail in this behaviour; never changes

memVars  == <<mem, shmem, vmid, resources>>
loadVars == <<loader, loads, fwName, secure, allowed>>
runVars  == <<run, runRet, runOnce>>
fdVars   == <<vcpus, vmFd, vcpuFds>>
endVars  == <<object, destroy, stopTry, vcpuId>>
vars == <<status, lock, waiter, events, memVars, loadVars, runVars, fdVars, endVars, rm, works, may>>

Statuses == {"NO_STATE", "LOAD", "AUTH", "INIT", "READY", "RUNNING", "EXITED", "RESET"}
LoadSteps == {"idle", "alloc", "firmware", "mem", "config", "auth", "init", "waitready",
              "populate", "shmem"}
RunSteps == {"idle", "start", "started", "wait"}
DestroySteps == {"idle", "stop", "stopwait", "vcpus", "cleanup", "unpopulate", "reset", "resetwait",
                 "reclaim", "dealloc", "free", "done"}

TypeOK ==
  /\ object \in {"live", "freed"} /\ status \in Statuses
  /\ lock \in {"free", "loader", "vcpu"}
  /\ fwName \in BOOLEAN /\ runOnce \in BOOLEAN /\ secure \in BOOLEAN
  /\ allowed \in 0..MaxVcpus
  /\ vcpus \subseteq Vcpus /\ vmFd \in BOOLEAN /\ vcpuFds \subseteq vcpus
  /\ loader \in LoadSteps /\ loads \in 0..MaxLoads
  /\ run \in [Vcpus -> RunSteps] /\ runRet \in [Vcpus -> {"none", "reason", "errno"}]
  /\ waiter \in {"idle", "wait", "done"}
  /\ destroy \in DestroySteps /\ stopTry \in 0..2 /\ vcpuId \in 0..MaxVcpus
  /\ events \in {"none", "BEFORE_POWERUP", "POWERUP_FAIL", "EARLY_POWEROFF", "POWEROFF"}
  /\ mem \in {"host", "part", "guest"} /\ shmem \in {"host", "part", "guest"}
  /\ vmid \in BOOLEAN /\ resources \in BOOLEAN
  /\ rm \in {"none", "alloc", "config", "auth", "init", "initfailed", "ready", "running", "exited", "reset"}
  /\ works \subseteq {"READY", "EXITED", "RESET"} /\ may \in FaultSets

\* gh_create_vm and the file of GH_CREATE_VM.
Init ==
  /\ object = "live" /\ status = "NO_STATE" /\ lock = "free"
  /\ fwName = FALSE /\ runOnce = FALSE /\ secure = FALSE /\ allowed = 0
  /\ vcpus = {} /\ vmFd = TRUE /\ vcpuFds = {}
  /\ loader = "idle" /\ loads = 0
  /\ run = [v \in Vcpus |-> "idle"] /\ runRet = [v \in Vcpus |-> "none"]
  /\ waiter = "idle"
  /\ destroy = "idle" /\ stopTry = 0 /\ vcpuId = 0
  /\ events = "none"
  /\ mem = "host" /\ shmem = "host" /\ vmid = FALSE /\ resources = FALSE
  /\ rm = "none" /\ works = {} /\ may \in FaultSets

May(fault) == fault \in may

\* gh_rm_vm_start, gh_rm_vm_stop and gh_rm_vm_reset do not look at the pointer
\* gh_rm_call returns, or return an error code it has not set: a request that was
\* never sent may be taken for carried out.
UnsentIsZero == May("unsent")

\* gh_wait_for_vm_status and its interruptible variant.
WaitedForIgnored(s) == TRUE
WaitedFor(s) == status = s

-----------------------------------------------------------------------------
(* GH_VM_SET_FW_NAME: gh_vm_ioctl_set_fw_name, all of it under vm_lock.    *)

LoadTo(step) == loader' = step /\ UNCHANGED <<loads, fwName, lock>>
\* Back in gh_vm_ioctl_set_fw_name: ret decides whether fw_name is stored.
LoadReturn(ret) ==
  /\ loader' = "idle" /\ lock' = "free"
  /\ fwName' = (ret = "0")
  /\ UNCHANGED loads

\* -EEXIST if an image is loaded already.
SetFwName ==
  /\ loader = "idle" /\ vmFd /\ lock = "free" /\ ~fwName
  /\ loads < MaxLoads /\ loads' = loads + 1
  /\ lock' = "loader" /\ loader' = "alloc"
  /\ UNCHANGED <<may, status, waiter, events, memVars, fwName, secure, allowed, runVars, fdVars, endVars, rm, works>>

\* gh_rm_vm_alloc_vmid, which fails for a VMID that is already allocated.
LoadAlloc ==
  /\ loader = "alloc"
  /\ \/ /\ ~vmid
        /\ vmid' = TRUE /\ status' = "LOAD" /\ rm' = "alloc" /\ LoadTo("firmware")
     \/ /\ vmid \/ May("alloc")
        /\ LoadReturn("errno") /\ UNCHANGED <<vmid, status, rm>>
  /\ UNCHANGED <<may, waiter, events, mem, shmem, resources, secure, allowed, runVars, fdVars, endVars, works>>

\* request_firmware, gh_sec_load_metadata, qcom_mdt_load_no_init.  A metadata
\* failure leaves ret at 0.
LoadFirmware ==
  /\ loader = "firmware"
  /\ \/ LoadTo("mem")
     \/ May("firmware") /\ LoadReturn("errno")
     \/ May("metadata") /\ LoadReturn("0")
  /\ UNCHANGED <<may, status, waiter, events, memVars, secure, allowed, runVars, fdVars, endVars, rm, works>>

\* Of n regions given one by one, those before the one that failed.
Before(n) == {"host"} \cup {x \in {"part"} : n > 1}

\* gh_provide_mem.  A region that cannot be assigned ends it, and the ones before
\* stay assigned.  When the share fails all are taken back, some perhaps in vain,
\* and the result of the last one replaces ret.
LoadMem ==
  /\ loader = "mem"
  /\ \/ mem' = "guest" /\ secure' = TRUE /\ LoadTo("config")
     \/ May("assign") /\ mem' \in Before(MemCount) /\ LoadReturn("errno") /\ UNCHANGED secure
     \/ /\ May("share") /\ mem' \in (IF May("assign") THEN Before(MemCount) ELSE {"host"})
        /\ secure' = TRUE /\ LoadTo("config")
     \/ May("share") /\ May("assign") /\ mem' = "guest" /\ LoadReturn("errno") /\ UNCHANGED secure
  /\ UNCHANGED <<may, status, waiter, events, shmem, vmid, resources, allowed, runVars, fdVars, endVars, rm, works>>

\* gh_vm_configure failed: the shared-memory loop runs all the same, and its
\* result replaces the error when there is a region.
ConfigureFailed == IF ShmemCount > 0 THEN LoadTo("shmem") ELSE LoadReturn("errno")

\* gh_rm_vm_config_image, gh_rm_vm_auth_image, gh_rm_vm_init: one RPC each.
LoadRpc(step, fault, next, newStatus, newRm) ==
  /\ loader = step
  /\ \/ status' = newStatus /\ rm' = newRm /\ LoadTo(next)
     \/ May(fault) /\ ConfigureFailed /\ UNCHANGED <<status, rm>>
  /\ UNCHANGED <<may, waiter, events, memVars, secure, allowed, runVars, fdVars, endVars, works>>

LoadConfig == LoadRpc("config", "config", "auth", "AUTH", "config")
LoadAuth   == LoadRpc("auth", "auth", "init", "INIT", "auth")
LoadInit   == LoadRpc("init", "init", "waitready", status, "init")

\* gh_wait_for_vm_status(READY): uninterruptible, vm_lock held.
LoadWaitReady ==
  /\ loader = "waitready" /\ WaitedFor("READY")
  /\ LoadTo("populate")
  /\ UNCHANGED <<may, status, waiter, events, memVars, secure, allowed, runVars, fdVars, endVars, rm, works>>

\* gh_rm_populate_hyp_res, then allowed_vcpus.
LoadPopulate ==
  /\ loader = "populate"
  /\ \/ /\ resources' = TRUE /\ allowed' = Allowed
        /\ IF ShmemCount > 0 THEN LoadTo("shmem") ELSE LoadReturn("0")
     \/ /\ May("populate") /\ ConfigureFailed
        /\ resources' = TRUE /\ UNCHANGED allowed     \* some were, none rolled back
  /\ UNCHANGED <<may, status, waiter, events, mem, shmem, vmid, secure, runVars, fdVars, endVars, rm, works>>

\* gh_provide_shmem for every region until one fails, with the same rollback of
\* that one as in gh_provide_mem.
LoadShmem ==
  /\ loader = "shmem"
  /\ \/ shmem' = "guest" /\ LoadReturn("0")
     \/ May("shmem") /\ shmem' \in Before(ShmemCount) /\ LoadReturn("errno")
     \/ May("share") /\ shmem' \in Before(ShmemCount) /\ LoadReturn("0")
     \/ May("share") /\ May("shmem") /\ shmem' = "guest" /\ LoadReturn("errno")
  /\ UNCHANGED <<may, status, waiter, events, mem, vmid, resources, secure, allowed, runVars, fdVars, endVars, rm, works>>

Loader == \/ SetFwName \/ LoadAlloc \/ LoadFirmware \/ LoadMem \/ LoadConfig \/ LoadAuth
          \/ LoadInit \/ LoadWaitReady \/ LoadPopulate \/ LoadShmem

-----------------------------------------------------------------------------
(* Files: GH_CREATE_VCPU, close                                            *)

\* gh_vm_ioctl_create_vcpu under vm_lock; the new file takes a reference.
CreateVcpu(v) ==
  /\ vmFd /\ lock = "free" /\ v \notin vcpus /\ loader = "idle"
  /\ DenseVcpus => \A u \in Vcpus : u < v => u \in vcpus
  /\ vcpus' = vcpus \cup {v}
  /\ vcpuFds' = vcpuFds \cup {v}
  /\ UNCHANGED <<may, status, lock, waiter, events, memVars, loadVars, runVars, vmFd, endVars, rm, works>>

\* The last reference: gh_destroy_vm, in the closing thread.
DestroyBegins(fd, fds) ==
  IF ~fd /\ fds = {}
    THEN destroy' = (IF status = "NO_STATE" THEN "free" ELSE "stop")
    ELSE destroy' = destroy

CloseVm ==
  /\ vmFd /\ loader = "idle"
  /\ vmFd' = FALSE
  /\ DestroyBegins(FALSE, vcpuFds)
  /\ UNCHANGED <<may, status, lock, waiter, events, memVars, loadVars, runVars, vcpus, vcpuFds, object, stopTry, vcpuId, rm, works>>

\* gh_vcpu_release: the vcpu itself stays in vm->vcpus.
CloseVcpu(v) ==
  /\ v \in vcpuFds /\ run[v] = "idle"
  /\ vcpuFds' = vcpuFds \ {v}
  /\ DestroyBegins(vmFd, vcpuFds \ {v})
  /\ UNCHANGED <<may, status, lock, waiter, events, memVars, loadVars, runVars, vcpus, vmFd, object, stopTry, vcpuId, rm, works>>

-----------------------------------------------------------------------------
(* GH_VCPU_RUN: gh_vcpu_ioctl_run for a VM the hypervisor schedules        *)

RunReturn(v, ret) == run' = [run EXCEPT ![v] = "idle"] /\ runRet' = [runRet EXCEPT ![v] = ret]
RunTo(v, step)    == run' = [run EXCEPT ![v] = step] /\ UNCHANGED runRet

\* Why a first run is refused; vm_run_once is set before these tests.
NotStartable == \/ secure /\ Cardinality(vcpus) # allowed
                \/ status # "READY"

RunVcpu(v) ==
  /\ v \in vcpuFds /\ run[v] = "idle" /\ lock = "free"
  /\ \/ /\ status = "RUNNING" /\ RunTo(v, "wait")
        /\ UNCHANGED <<runOnce, lock, events>>
     \/ /\ status # "RUNNING" /\ runOnce /\ RunReturn(v, "errno")
        /\ UNCHANGED <<runOnce, lock, events>>
     \/ /\ status # "RUNNING" /\ ~runOnce /\ runOnce' = TRUE
        /\ IF NotStartable
             THEN RunReturn(v, "errno") /\ UNCHANGED <<lock, events>>
             ELSE RunTo(v, "start") /\ lock' = "vcpu" /\ events' = "BEFORE_POWERUP"
  /\ UNCHANGED <<may, status, waiter, memVars, loadVars, fdVars, endVars, rm, works>>

\* gh_vm_start: the RPC, RUNNING, unlock.  The VM runs from the RPC on.
RunStartRpc(v) ==
  /\ run[v] = "start"
  /\ \/ rm' = "running" /\ RunTo(v, "started") /\ UNCHANGED <<lock, events>>
     \/ UnsentIsZero /\ RunTo(v, "started") /\ UNCHANGED <<rm, lock, events>>
     \/ May("start") /\ RunReturn(v, "errno") /\ lock' = "free" /\ events' = "POWERUP_FAIL"
        /\ UNCHANGED rm
  /\ UNCHANGED <<may, status, waiter, memVars, loadVars, runOnce, fdVars, endVars, works>>

RunStarted(v) ==
  /\ run[v] = "started"
  /\ status' = "RUNNING" /\ lock' = "free"
  /\ RunTo(v, "wait")
  /\ UNCHANGED <<may, waiter, events, memVars, loadVars, runOnce, fdVars, endVars, rm, works>>

\* gh_wait_for_vm_status_intr(EXITED), then exit_type.
RunExited(v) ==
  /\ run[v] = "wait" /\ WaitedFor("EXITED")
  /\ RunReturn(v, "reason")
  /\ UNCHANGED <<may, status, lock, waiter, events, memVars, loadVars, runOnce, fdVars, endVars, rm, works>>

RunInterrupted(v) ==
  /\ run[v] = "wait"
  /\ RunReturn(v, "errno")
  /\ UNCHANGED <<may, status, lock, waiter, events, memVars, loadVars, runOnce, fdVars, endVars, rm, works>>

\* GH_VM_WAIT_FOR_EXIT finds the VM by name and waits without a reference.
WaitForExit ==
  /\ waiter = "idle" /\ object = "live" /\ fwName
  /\ waiter' = "wait"
  /\ UNCHANGED <<may, status, lock, events, memVars, loadVars, runVars, fdVars, endVars, rm, works>>

WaitForExitDone ==
  /\ waiter = "wait" /\ object = "live"
  /\ \/ WaitedFor("EXITED") /\ waiter' = "done"
     \/ waiter' = "idle"                          \* a signal
  /\ UNCHANGED <<may, status, lock, events, memVars, loadVars, runVars, fdVars, endVars, rm, works>>

-----------------------------------------------------------------------------
(* Notifications                                                           *)

\* gh_notif_vm_status: only READY and RESET count; no lock.
StatusNotifiedNoReset == {"READY"}
StatusNotifiedNoReady == {"RESET"}
StatusNotified == {"READY", "RESET"}
StatusWork(s) ==
  /\ s \in works \cap StatusNotified
  /\ works' = works \ {s}
  /\ status' = IF object = "live" THEN s ELSE status
  /\ UNCHANGED <<may, lock, waiter, events, memVars, loadVars, runVars, fdVars, endVars, rm>>

\* gh_notif_vm_exited takes vm_lock.
ExitLockNotTaken == TRUE
ExitLockFree == lock = "free"
ExitedWork ==
  /\ "EXITED" \in works
  /\ object = "live" => ExitLockFree
  /\ works' = works \ {"EXITED"}
  /\ status' = IF object = "live" THEN "EXITED" ELSE status
  /\ UNCHANGED <<may, lock, waiter, events, memVars, loadVars, runVars, fdVars, endVars, rm>>

-----------------------------------------------------------------------------
(* gh_destroy_vm                                                           *)

DestroyTo(step) == destroy' = step

\* gh_stop_vm tries once more, with GH_VM_STOP_FORCE_STOP, and gives up.
StopRetry(try) == IF try = 0 THEN "stop" ELSE "vcpus"

\* gh_exit_vm: not running is -ENODEV; else the stop RPC under vm_lock, which the
\* Resource Manager refuses for a VM that it has not started.
StopNotReady == status = "READY"
StopNeeded == status = "RUNNING"
DestroyStop ==
  /\ destroy = "stop" /\ lock = "free"
  /\ \/ /\ ~StopNeeded /\ DestroyTo("vcpus") /\ UNCHANGED <<stopTry, rm, works>>
     \/ /\ StopNeeded /\ rm # "ready" /\ DestroyTo("stopwait") /\ stopTry' = stopTry
        /\ rm' = "exited"
        /\ works' = IF rm = "running" THEN works \cup {"EXITED"} ELSE works
     \/ /\ StopNeeded /\ UnsentIsZero /\ DestroyTo("stopwait") /\ UNCHANGED <<stopTry, rm, works>>
     \/ /\ StopNeeded /\ (May("stop") \/ rm = "ready")
        /\ stopTry' = stopTry + 1
        /\ DestroyTo(StopRetry(stopTry))
        /\ UNCHANGED <<rm, works>>
  /\ UNCHANGED <<may, status, lock, waiter, events, memVars, loadVars, runVars, fdVars, object, vcpuId>>

\* gh_wait_for_vm_status(EXITED).
DestroyStopWait ==
  /\ destroy = "stopwait" /\ WaitedFor("EXITED")
  /\ DestroyTo("vcpus")
  /\ UNCHANGED <<may, status, lock, waiter, events, memVars, loadVars, runVars, fdVars, object, stopTry, vcpuId, rm, works>>

\* while (created_vcpus && vcpu_id < GH_MAX_VCPUS): a missing vcpu continues
\* without advancing vcpu_id.
SkipMissing(id) == id
DestroyVcpus ==
  /\ destroy = "vcpus"
  /\ IF vcpus # {} /\ vcpuId < MaxVcpus
       THEN /\ destroy' = destroy /\ events' = events
            /\ IF vcpuId \in vcpus
                 THEN vcpus' = vcpus \ {vcpuId} /\ vcpuId' = vcpuId + 1
                 ELSE vcpuId' = SkipMissing(vcpuId) /\ UNCHANGED vcpus
       ELSE /\ DestroyTo("cleanup") /\ events' = "EARLY_POWEROFF"
            /\ UNCHANGED <<vcpus, vcpuId>>
  /\ UNCHANGED <<may, status, lock, waiter, memVars, loadVars, runVars, vmFd, vcpuFds, object, stopTry, rm, works>>

\* gh_vm_cleanup: a switch on the status, read once, whose cases fall through.
\* EXITED, RUNNING and READY unpopulate first; a late RESET matches no case.
CleanupEntryReadySkips(s) ==
  CASE s \in {"EXITED", "RUNNING"}      -> "unpopulate"
    [] s \in {"READY", "INIT", "AUTH"}  -> "reset"
    [] s = "LOAD"                       -> "dealloc"
    [] OTHER                            -> "free"
CleanupEntry(s) ==
  CASE s \in {"EXITED", "RUNNING", "READY"} -> "unpopulate"
    [] s \in {"INIT", "AUTH"}               -> "reset"
    [] s = "LOAD"                           -> "dealloc"
    [] OTHER                                -> "free"

DestroyCleanup ==
  /\ destroy = "cleanup"
  /\ DestroyTo(CleanupEntry(status))
  /\ UNCHANGED <<may, status, lock, waiter, events, memVars, loadVars, runVars, fdVars, object, stopTry, vcpuId, rm, works>>

\* gh_rm_unpopulate_hyp_res; its failure is only reported.
DestroyUnpopulate ==
  /\ destroy = "unpopulate"
  /\ resources' = FALSE \/ (May("unpopulate") /\ UNCHANGED resources)
  /\ DestroyTo("reset")
  /\ UNCHANGED <<may, status, lock, waiter, events, mem, shmem, vmid, loadVars, runVars, fdVars, object, stopTry, vcpuId, rm, works>>

\* gh_rm_vm_reset.
DestroyReset ==
  /\ destroy = "reset"
  /\ \/ rm' = "reset" /\ works' = works \cup {"RESET"} /\ DestroyTo("resetwait")
     \/ UnsentIsZero /\ DestroyTo("resetwait") /\ UNCHANGED <<rm, works>>
     \/ May("reset") /\ DestroyTo("reclaim") /\ UNCHANGED <<rm, works>>
  /\ UNCHANGED <<may, status, lock, waiter, events, memVars, loadVars, runVars, fdVars, object, stopTry, vcpuId>>

DestroyResetWait ==
  /\ destroy = "resetwait" /\ WaitedFor("RESET")
  /\ DestroyTo("reclaim")
  /\ UNCHANGED <<may, status, lock, waiter, events, memVars, loadVars, runVars, fdVars, object, stopTry, vcpuId, rm, works>>

\* gh_secure_vm_loader_reclaim_fw looks the regions up by vm->fw_name.
SomeOf(x) == IF x = "host" THEN {"host"} ELSE {x, "part"}
DestroyReclaim ==
  /\ destroy = "reclaim"
  /\ \/ secure /\ fwName /\ mem' = "host" /\ shmem' = "host"
     \/ ~(secure /\ fwName) /\ UNCHANGED <<mem, shmem>>
     \/ secure /\ fwName /\ May("reclaim") /\ mem' \in SomeOf(mem) /\ shmem' \in {"host"} \cup SomeOf(shmem)
  /\ DestroyTo("dealloc")
  /\ UNCHANGED <<may, status, lock, waiter, events, vmid, resources, loadVars, runVars, fdVars, object, stopTry, vcpuId, rm, works>>

\* gh_rm_vm_dealloc_vmid.
DestroyDealloc ==
  /\ destroy = "dealloc"
  /\ vmid' = FALSE \/ (May("dealloc") /\ UNCHANGED vmid)
  /\ DestroyTo("free")
  /\ UNCHANGED <<may, status, lock, waiter, events, mem, shmem, resources, loadVars, runVars, fdVars, object, stopTry, vcpuId, rm, works>>

\* NO_STATE, POWEROFF, fw_name cleared, notifier unregistered, kfree.
DestroyFree ==
  /\ destroy = "free"
  /\ events' = IF status = "NO_STATE" THEN events ELSE "POWEROFF"
  /\ status' = "NO_STATE" /\ fwName' = FALSE
  /\ object' = "freed" /\ DestroyTo("done")
  /\ UNCHANGED <<may, lock, waiter, memVars, loader, loads, secure, allowed, runVars, fdVars, stopTry, vcpuId, rm, works>>

Destroy == \/ DestroyStop \/ DestroyStopWait \/ DestroyVcpus \/ DestroyCleanup
           \/ DestroyUnpopulate \/ DestroyReset \/ DestroyResetWait \/ DestroyReclaim \/ DestroyDealloc \/ DestroyFree

-----------------------------------------------------------------------------
(* The Resource Manager (external)                                         *)

\* VM_INIT ends: READY, or INIT_FAILED, a status gh_notif_vm_status ignores.
RmReady ==
  /\ rm = "init"
  /\ \/ rm' = "ready" /\ works' = works \cup {"READY"}
     \/ May("initfail") /\ rm' = "initfailed" /\ UNCHANGED works
  /\ UNCHANGED <<may, status, lock, waiter, events, memVars, loadVars, runVars, fdVars, endVars>>

\* The VM shuts down or crashes.
RmExit ==
  /\ rm = "running"
  /\ rm' = "exited" /\ works' = works \cup {"EXITED"}
  /\ UNCHANGED <<may, status, lock, waiter, events, memVars, loadVars, runVars, fdVars, endVars>>

-----------------------------------------------------------------------------
RunStep(v) == RunVcpu(v) \/ RunStartRpc(v) \/ RunStarted(v) \/ RunExited(v) \/ RunInterrupted(v)

Next ==
  \/ Loader \/ CloseVm \/ WaitForExit \/ WaitForExitDone
  \/ \E v \in Vcpus : CreateVcpu(v) \/ CloseVcpu(v) \/ RunStep(v)
  \/ (\E s \in works : StatusWork(s)) \/ ExitedWork
  \/ Destroy \/ RmReady \/ RmExit

Spec == Init /\ [][Next]_vars

\* Kernel threads that can run do, notifications are delivered, mutexes are
\* handed to their waiters (SF), the Resource Manager finishes VM_INIT.
\* User space owes nothing.
Fairness ==
  /\ WF_vars(LoadAlloc \/ LoadFirmware \/ LoadMem \/ LoadConfig \/ LoadAuth \/ LoadInit
             \/ LoadWaitReady \/ LoadPopulate \/ LoadShmem)
  /\ \A v \in Vcpus : WF_vars(RunStartRpc(v)) /\ WF_vars(RunStarted(v)) /\ WF_vars(RunExited(v))
  /\ \A s \in {"READY", "RESET"} : WF_vars(StatusWork(s))
  /\ SF_vars(ExitedWork) /\ SF_vars(DestroyStop)
  /\ WF_vars(DestroyStopWait \/ DestroyVcpus \/ DestroyCleanup \/ DestroyUnpopulate \/ DestroyReset
             \/ DestroyResetWait \/ DestroyReclaim \/ DestroyDealloc \/ DestroyFree)
  /\ WF_vars(RmReady)
FairSpec == Spec /\ Fairness

-----------------------------------------------------------------------------
(* Properties                                                              *)

\* An exit is never lost to the start that it overtook: once the EXITED
\* notification is recorded, gh_vm_start does not overwrite it with RUNNING.
ExitNotOverwritten == [][status = "EXITED" => status' # "RUNNING"]_vars

\* The failures gh_vm_ioctl_set_fw_name, gh_vcpu_ioctl_run and gh_vm_cleanup
\* unwind from, and those that they report and end on: a failed assignment is
\* reported too, but what was assigned before is not taken back.  The liveness
\* properties below are about behaviours with no other failures, the safety
\* properties also about those with requests that were not sent.
Unwound == {"alloc", "firmware", "start", "reset"}
Reported == Unwound \cup {"assign"}
OnlyReported == may \subseteq Reported
ReportedOrUnsent == may \subseteq Reported \cup {"unsent"}

\* A vcpu thread blocked in GH_VCPU_RUN returns once the VM has exited.
RunReturnsOnExit ==
  \A v \in Vcpus : OnlyReported /\ run[v] = "wait" /\ rm = "exited" ~> run[v] # "wait"

\* The last close() finishes: gh_destroy_vm is not stuck waiting for a status
\* nobody will set, nor in its vcpu loop.
DestroyFinishes == OnlyReported /\ destroy # "idle" ~> destroy = "done"

\* GH_VM_SET_FW_NAME returns.
SetFwNameReturns == OnlyReported /\ loader # "idle" ~> loader = "idle"

\* A GH_VM_SET_FW_NAME that returned 0 left an initialised VM with its memory.
LoadedIsReady ==
  fwName /\ object = "live" /\ destroy = "idle"
    => status \in {"READY", "RUNNING", "EXITED"} /\ mem = "guest" /\ resources

\* The same, when only calls fail whose failure the loading code reports.
LoadSuccessMeansReady == ReportedOrUnsent => LoadedIsReady

\* When the VM object is gone, so is everything acquired for it: the VMID is released,
\* the hypervisor resources are unpopulated, and the memory is back with the host.
\* Only regions that gh_provide_mem had assigned before the assignment of a later one
\* failed stay with the guest: gh_vm_cleanup, entered at LOAD, does not reclaim them.
AssignedBefore == mem = "part" /\ May("assign") /\ MemCount > 1 /\ ~secure
NothingLeftBehind ==
  ReportedOrUnsent /\ object = "freed"
    => ~vmid /\ ~resources /\ shmem = "host" /\ (mem = "host" \/ AssignedBefore)

\* Clients are told EARLY_POWEROFF/POWEROFF only after the VM left the running
\* state, as the Resource Manager sees it.
PoweroffMeansStopped ==
  ReportedOrUnsent /\ events \in {"EARLY_POWEROFF", "POWEROFF"} => rm # "running"
=============================================================================
