--------------------------- MODULE GhVirtioBackend ---------------------------
(***************************************************************************)
(* gh_secure_vm_virtio_backend.c: the virtio devices of one VM, from the   *)
(* load that initialises them to the exit that releases them.  For each    *)
(* device the hypervisor reports events, vdev_interrupt collects them, and *)
(* one user-space thread takes them with GH_WAIT_FOR_EVENT; the vcpu       *)
(* threads tell that thread of the VM's exit and wait until it let go.     *)
(*                                                                         *)
(* vdev_event and vdev_event_data are sets (of events, of queues) for the  *)
(* code's bit masks.  The guest, the hypervisor and user space are         *)
(* external: the guest waits for ack_reset after a reset and kicks queues  *)
(* only after DRIVER_OK; user space registers its ioeventfds between       *)
(* DRIVER_OK and GH_ACK_DRIVER_OK.  The irqfd is left out.                 *)
(***************************************************************************)
EXTENDS Integers, FiniteSets

CONSTANTS
  NumDevs,     \* devices in vb_dev_list
  Driven,      \* the devices the guest has a driver for
  Queues,      \* virtqueues of a device
  NumBufs,     \* shmem_entries
  Vcpus,       \* threads that call gh_virtio_mmio_app_exit
  EagerReset,  \* the guest may reset a device whose DRIVER_OK is not acknowledged
  MaxLoads,    \* bound on loads of the VM
  MaxFails     \* bound on failing calls while loading and releasing

ASSUME VirtioAssumption ==
  /\ NumDevs \in Nat \ {0} /\ Driven \subseteq 1..NumDevs /\ NumBufs \in Nat
  /\ EagerReset \in BOOLEAN /\ MaxLoads \in Nat /\ MaxFails \in Nat

Devs == 1..NumDevs
Bufs == 1..NumBufs
Host == 0

GuestEvents == {"NEW_BUFFER", "RESET_RQST", "INTERRUPT_ACK", "DRIVER_OK", "DRIVER_FAILED"}

VARIABLES
  \* struct virtio_backend_device
  vdevEvent, vdevData, evtAvail, curEvent, ackDriverOk, notify, refcount, ioctx, config,
  irq,       \* interrupt handlers registered for the device
  mapped,    \* config_shared_buf
  \* struct virt_machine
  hypAssignDone,
  owner,     \* the load whose VM a buffer is shared with, or Host
  \* threads
  app, hand, \* the event thread of a device, and the events it has to act on
  vcpu, at,  \* the vcpu threads in gh_virtio_mmio_app_exit, and their device
  \* the VM, the guest's drivers and the hypervisor
  phase, next, loads, fails,
  guest, hypEvent, hypData,
  told,      \* user space was given the guest's latest DRIVER_OK
  due        \* queues kicked since then whose eventfd was not signalled

evVars   == <<vdevEvent, vdevData, evtAvail, curEvent, ackDriverOk>>
resVars  == <<config, irq, mapped, hypAssignDone, owner>>
appVars  == <<app, hand>>
exitVars == <<vcpu, at, notify>>
lifeVars == <<phase, next, loads, fails>>
hypVars  == <<guest, hypEvent, hypData>>
vars == <<evVars, refcount, ioctx, resVars, appVars, exitVars, lifeVars, hypVars, told, due>>

AppSteps  == {"idle", "check", "sleep", "out", "done"}
VcpuSteps == {"idle", "mark", "wait", "asleep", "done"}
Phases    == {"off", "loading", "up", "exited", "releasing"}

TypeOK ==
  /\ vdevEvent \in [Devs -> SUBSET (GuestEvents \cup {"VM_EXIT"})]
  /\ vdevData \in [Devs -> SUBSET Queues] /\ evtAvail \in [Devs -> BOOLEAN]
  /\ curEvent \in [Devs -> SUBSET (GuestEvents \cup {"APP_EXIT"})]
  /\ ackDriverOk \in [Devs -> BOOLEAN] /\ notify \in [Devs -> BOOLEAN]
  /\ refcount \in [Devs -> 0..1] /\ ioctx \in [Devs -> SUBSET Queues]
  /\ config \in [Devs -> BOOLEAN] /\ irq \in [Devs -> 0..MaxLoads] /\ mapped \in [Devs -> BOOLEAN]
  /\ hypAssignDone \in BOOLEAN /\ owner \in [Bufs -> 0..MaxLoads]
  /\ app \in [Devs -> AppSteps] /\ hand \in [Devs -> SUBSET (GuestEvents \cup {"APP_EXIT"})]
  /\ vcpu \in [Vcpus -> VcpuSteps] /\ at \in [Vcpus -> Devs]
  /\ phase \in Phases /\ next \in 1..(NumDevs + 1) /\ loads \in 0..MaxLoads /\ fails \in 0..MaxFails
  /\ guest \in [Devs -> {"init", "ok", "failed", "resetting"}]
  /\ hypEvent \in [Devs -> SUBSET GuestEvents] /\ hypData \in [Devs -> SUBSET Queues]
  /\ told \in [Devs -> BOOLEAN] /\ due \in [Devs -> SUBSET Queues]

Init ==
  /\ vdevEvent = [d \in Devs |-> {}] /\ vdevData = [d \in Devs |-> {}]
  /\ evtAvail = [d \in Devs |-> FALSE] /\ curEvent = [d \in Devs |-> {}]
  /\ ackDriverOk = [d \in Devs |-> FALSE] /\ notify = [d \in Devs |-> FALSE]
  /\ refcount = [d \in Devs |-> 0] /\ ioctx = [d \in Devs |-> {}]
  /\ config = [d \in Devs |-> FALSE] /\ irq = [d \in Devs |-> 0] /\ mapped = [d \in Devs |-> FALSE]
  /\ hypAssignDone = FALSE /\ owner = [b \in Bufs |-> Host]
  /\ app = [d \in Devs |-> "done"] /\ hand = [d \in Devs |-> {}]
  /\ vcpu = [v \in Vcpus |-> "done"] /\ at = [v \in Vcpus |-> 1]
  /\ phase = "off" /\ next = 1 /\ loads = 0 /\ fails = 0
  /\ guest = [d \in Devs |-> "init"] /\ hypEvent = [d \in Devs |-> {}]
  /\ hypData = [d \in Devs |-> {}]
  /\ told = [d \in Devs |-> FALSE] /\ due = [d \in Devs |-> {}]

-----------------------------------------------------------------------------
(* Loading: gh_rm_populate_hyp_res calls gh_virtio_mmio_init per device.   *)

Budget == MaxFails - fails

StartLoad ==
  /\ phase = "off" /\ loads < MaxLoads
  /\ phase' = "loading" /\ next' = 1 /\ loads' = loads + 1
  /\ guest' = [d \in Devs |-> "init"] /\ hypEvent' = [d \in Devs |-> {}]
  /\ hypData' = [d \in Devs |-> {}]
  /\ told' = [d \in Devs |-> FALSE] /\ due' = [d \in Devs |-> {}]
  /\ UNCHANGED <<fails, evVars, refcount, ioctx, resVars, appVars, exitVars>>

\* share_vm_buffers failed at buffer b: b is assigned back, and the ones before
\* it are unshared, except those whose own unsharing fails.
RolledBack(b, stuck) == [i \in Bufs |-> IF i < b /\ i \in stuck THEN loads ELSE Host]

\* unshare_vm_buffers: in order, up to the first failure, after which
\* hyp_assign_done stays set.
UnshareVmBuffersStale == owner' = [b \in Bufs |-> Host] /\ UNCHANGED <<hypAssignDone, fails>>
UnshareVmBuffers ==
  /\ hypAssignDone
  /\ \/ hypAssignDone' = FALSE /\ owner' = [b \in Bufs |-> Host] /\ UNCHANGED fails
     \/ /\ Budget > 0 /\ fails' = fails + 1
        /\ \E b \in Bufs : owner' = [i \in Bufs |-> IF i < b THEN Host ELSE owner[i]]
        /\ UNCHANGED hypAssignDone

\* The buffers once gh_virtio_mmio_init has seen to it that they are shared.
Shared == IF hypAssignDone THEN owner ELSE [b \in Bufs |-> loads]

\* The load fails: the VM is destroyed with an empty fw_name, so that
\* gh_virtio_mmio_exit finds nothing to release.
LoadFails == phase' = "off" /\ next' = 1 /\ UNCHANGED loads

\* gh_virtio_mmio_init of device d up to the sharing of the buffers.
InitShareFails ==
  /\ phase = "loading" /\ next <= NumDevs /\ ~hypAssignDone /\ Budget > 0
  /\ \E b \in Bufs : \E stuck \in SUBSET (1..(b - 1)) :
       /\ Cardinality(stuck) < Budget
       /\ fails' = fails + 1 + Cardinality(stuck)
       /\ owner' = RolledBack(b, stuck)
  /\ LoadFails
  /\ UNCHANGED <<hypAssignDone, config, irq, mapped, evVars, refcount, ioctx, appVars, exitVars, hypVars, told, due>>

\* request_irq or ioremap fails (an interrupt that is still registered may be
\* the one requested): the buffers all devices share are unshared.
InitIrqFails ==
  /\ phase = "loading" /\ next <= NumDevs
  /\ \E cost \in (IF irq[next] > 0 THEN {0, 1} ELSE {1}), b \in 1..(NumBufs + 1) :
       LET all == IF b <= NumBufs THEN cost + 1 ELSE cost IN   \* unsharing b fails, too
       /\ all <= Budget /\ fails' = fails + all
       /\ hypAssignDone' = (b <= NumBufs)
       /\ owner' = [i \in Bufs |-> IF i < b THEN Host ELSE Shared[i]]
  /\ LoadFails
  /\ UNCHANGED <<config, irq, mapped, evVars, refcount, ioctx, appVars, exitVars, hypVars, told, due>>

\* init_vb_dev_open.
Opened(d) ==
  /\ evtAvail' = [evtAvail EXCEPT ![d] = FALSE]
  /\ vdevEvent' = [vdevEvent EXCEPT ![d] = {}] /\ vdevData' = [vdevData EXCEPT ![d] = {}]
  /\ curEvent' = [curEvent EXCEPT ![d] = {}] /\ notify' = [notify EXCEPT ![d] = FALSE]

InitDev ==
  /\ phase = "loading" /\ next <= NumDevs
  /\ hypAssignDone' = TRUE
  /\ owner' = Shared
  /\ irq' = [irq EXCEPT ![next] = @ + 1] /\ mapped' = [mapped EXCEPT ![next] = TRUE]
  /\ Opened(next)
  /\ next' = next + 1
  /\ UNCHANGED <<ackDriverOk, config, refcount, ioctx, appVars, vcpu, at, phase, loads, fails, hypVars, told, due>>

\* The load succeeds: the VM runs, and user space and the vcpus start.
Up ==
  /\ phase = "loading" /\ next > NumDevs
  /\ phase' = "up" /\ next' = 1
  /\ app' = [d \in Devs |-> "idle"] /\ hand' = [d \in Devs |-> {}]
  /\ vcpu' = [v \in Vcpus |-> "idle"] /\ at' = [v \in Vcpus |-> 1]
  /\ UNCHANGED <<loads, fails, evVars, notify, refcount, ioctx, resVars, hypVars, told, due>>

\* A later step of the load fails.
LateLoadFail ==
  /\ phase = "loading" /\ next > NumDevs /\ Budget > 0
  /\ fails' = fails + 1 /\ LoadFails
  /\ UNCHANGED <<evVars, refcount, ioctx, resVars, appVars, exitVars, hypVars, told, due>>

-----------------------------------------------------------------------------
(* The guest and the hypervisor (external).                                *)

Reports(d, e) == hypEvent' = [hypEvent EXCEPT ![d] = @ \cup {e}]
GuestSteps(d, from, to) ==
  /\ phase = "up" /\ d \in Driven /\ guest[d] \in from
  /\ guest' = [guest EXCEPT ![d] = to]
  /\ UNCHANGED <<evVars, refcount, ioctx, resVars, appVars, exitVars, lifeVars>>

GuestDriverOk(d) ==
  /\ GuestSteps(d, {"init"}, "ok") /\ Reports(d, "DRIVER_OK")
  /\ told' = [told EXCEPT ![d] = FALSE] /\ UNCHANGED <<hypData, due>>
GuestFails(d) ==
  /\ GuestSteps(d, {"init"}, "failed") /\ Reports(d, "DRIVER_FAILED")
  /\ UNCHANGED <<hypData, told, due>>
GuestKick(d, q) ==
  /\ GuestSteps(d, {"ok"}, "ok") /\ Reports(d, "NEW_BUFFER")
  /\ hypData' = [hypData EXCEPT ![d] = @ \cup {q}] /\ due' = [due EXCEPT ![d] = @ \cup {q}]
  /\ UNCHANGED told
GuestInterruptAck(d) ==
  /\ GuestSteps(d, {"ok"}, "ok") /\ Reports(d, "INTERRUPT_ACK")
  /\ UNCHANGED <<hypData, told, due>>
GuestReset(d) ==
  /\ GuestSteps(d, {"ok", "failed"}, "resetting") /\ Reports(d, "RESET_RQST")
  /\ guest[d] = "ok" /\ ~EagerReset => ackDriverOk[d] /\ told[d]
  /\ due' = [due EXCEPT ![d] = {}] /\ UNCHANGED <<hypData, told>>

GuestExits ==
  /\ phase = "up" /\ phase' = "exited"
  /\ UNCHANGED <<next, loads, fails, evVars, refcount, ioctx, resVars, appVars, exitVars, hypVars, told, due>>

-----------------------------------------------------------------------------
(* The interrupt and the event thread.                                     *)

\* signal_vqs: of the queues in dat, those with an eventfd are signalled.
Signalled(d, dat) == dat \cap ioctx[d]

\* One round of vdev_interrupt: get_event takes what the hypervisor has.
VdevInterrupt(d) ==
  /\ irq[d] > 0 /\ hypEvent[d] # {}
  /\ hypEvent' = [hypEvent EXCEPT ![d] = {}] /\ hypData' = [hypData EXCEPT ![d] = {}]
  /\ LET dat  == vdevData[d] \cup hypData[d]
         now  == "NEW_BUFFER" \in hypEvent[d] /\ ackDriverOk[d]
         sig  == IF now THEN Signalled(d, dat) ELSE {}
         left == IF now THEN hypEvent[d] \ {"NEW_BUFFER"} ELSE hypEvent[d] IN
     /\ due' = [due EXCEPT ![d] = @ \ sig]
     /\ vdevData' = [vdevData EXCEPT ![d] = dat \ sig]
     /\ vdevEvent' = [vdevEvent EXCEPT ![d] = @ \cup left]
     /\ evtAvail' = [evtAvail EXCEPT ![d] = @ \/ left # {}]
  /\ UNCHANGED <<curEvent, ackDriverOk, guest, refcount, ioctx, resVars, appVars, exitVars, lifeVars, told>>

AppStep(d, from, to) == app[d] = from /\ app' = [app EXCEPT ![d] = to]

\* GH_WAIT_FOR_EVENT: vb_dev_get.
WaitEnter(d) ==
  /\ phase \in {"up", "exited"} /\ hand[d] = {}
  /\ AppStep(d, "idle", "check")
  /\ refcount' = [refcount EXCEPT ![d] = @ + 1]
  /\ UNCHANGED <<hand, evVars, ioctx, resVars, exitVars, lifeVars, hypVars, told, due>>

\* loop_back: test evt_avail, and sleep on evt_queue until it is set.  When it
\* is, the thread goes on under vb_dev->lock: only this thread clears evt_avail.
WaitCheck(d) ==
  /\ ~evtAvail[d] /\ AppStep(d, "check", "sleep")
  /\ UNCHANGED <<hand, evVars, refcount, ioctx, resVars, exitVars, lifeVars, hypVars, told, due>>

\* vb_dev_put wakes the vcpu threads on notify_queue.
PutSilent(d) ==
  /\ refcount' = [refcount EXCEPT ![d] = @ - 1]
  /\ UNCHANGED vcpu
VbDevPut(d) ==
  /\ refcount' = [refcount EXCEPT ![d] = @ - 1]
  /\ vcpu' = [v \in Vcpus |-> IF vcpu[v] = "asleep" /\ at[v] = d /\ refcount[d] = 1 /\ notify[d]
                                THEN "wait" ELSE vcpu[v]]

\* A signal ends the sleep.
InterruptedPut(d) == VbDevPut(d)
WaitInterrupted(d) ==
  /\ AppStep(d, "sleep", "idle") /\ InterruptedPut(d)
  /\ UNCHANGED <<hand, evVars, ioctx, resVars, at, notify, lifeVars, hypVars, told, due>>

\* The section under vb_dev->lock: which event is taken, what is left in
\* vdev_event and vdev_event_data, and whether evt_avail is set again.
Took(d, cur, left, dat, again) ==
  /\ app[d] \in {"check", "sleep"} /\ evtAvail[d]
  /\ app' = [app EXCEPT ![d] = "out"]
  /\ curEvent' = [curEvent EXCEPT ![d] = cur]
  /\ vdevEvent' = [vdevEvent EXCEPT ![d] = left]
  /\ vdevData' = [vdevData EXCEPT ![d] = dat]
  /\ evtAvail' = [evtAvail EXCEPT ![d] = again]
  /\ UNCHANGED <<hand, refcount, resVars, exitVars, lifeVars, hypVars, told>>

TakeExit(d) ==
  /\ "VM_EXIT" \in vdevEvent[d]
  /\ Took(d, {"APP_EXIT"}, vdevEvent[d], vdevData[d], FALSE)
  /\ UNCHANGED <<ackDriverOk, ioctx, due>>

\* ack_driver_ok after EVENT_RESET_RQST was taken.
AckAfterResetKept(d) == ackDriverOk
AckAfterReset(d) == [ackDriverOk EXCEPT ![d] = FALSE]
TakeReset(d) ==
  /\ vdevEvent[d] \cap {"VM_EXIT", "RESET_RQST"} = {"RESET_RQST"}
  /\ LET left == vdevEvent[d] \ {"RESET_RQST"} IN Took(d, {"RESET_RQST"}, left, vdevData[d], left # {})
  /\ ackDriverOk' = AckAfterReset(d) /\ ioctx' = [ioctx EXCEPT ![d] = {}]
  /\ UNCHANGED due

\* evt_avail after EVENT_DRIVER_OK was taken.
StillAvailNever(d, left) == FALSE
StillAvail(d, left) == ~ackDriverOk[d] /\ left # {}
TakeDriverOk(d) ==
  /\ vdevEvent[d] \cap {"VM_EXIT", "RESET_RQST", "DRIVER_OK"} = {"DRIVER_OK"}
  /\ LET left == vdevEvent[d] \ {"DRIVER_OK"} IN
       Took(d, IF ackDriverOk[d] THEN {} ELSE {"DRIVER_OK"}, left, vdevData[d], StillAvail(d, left))
  /\ UNCHANGED <<ackDriverOk, ioctx, due>>

\* EVENT_NEW_BUFFER is for signal_vqs; what else is there is taken with it.
SignalledOnTakeNone(d) == {}
SignalledOnTake(d) == IF ackDriverOk[d] THEN Signalled(d, vdevData[d]) ELSE {}
TakeNewBuffer(d) ==
  /\ vdevEvent[d] \cap {"VM_EXIT", "RESET_RQST", "DRIVER_OK", "NEW_BUFFER"} = {"NEW_BUFFER"}
  /\ LET cur == vdevEvent[d] \ {"NEW_BUFFER"} IN
       Took(d, cur, {}, IF cur = {} THEN vdevData[d] \ SignalledOnTake(d) ELSE {}, FALSE)
  /\ due' = [due EXCEPT ![d] = @ \ SignalledOnTake(d)]
  /\ UNCHANGED <<ackDriverOk, ioctx>>

TakeInterruptAck(d) ==
  /\ "INTERRUPT_ACK" \in vdevEvent[d] /\ vdevEvent[d] \subseteq {"INTERRUPT_ACK", "DRIVER_FAILED"}
  /\ Took(d, {"INTERRUPT_ACK"}, vdevEvent[d] \ {"INTERRUPT_ACK"}, {}, FALSE)
  /\ UNCHANGED <<ackDriverOk, ioctx, due>>

\* EVENT_DRIVER_FAILED alone is none of the cases, and an event may be gone.
TakeNothing(d) ==
  /\ vdevEvent[d] \subseteq {"DRIVER_FAILED"}
  /\ Took(d, {}, vdevEvent[d], vdevData[d], FALSE)
  /\ UNCHANGED <<ackDriverOk, ioctx, due>>

\* Without an event the ioctl loops; with one it puts the device and returns.
WaitLoop(d) ==
  /\ AppStep(d, "out", "check") /\ curEvent[d] = {}
  /\ UNCHANGED <<hand, evVars, refcount, ioctx, resVars, exitVars, lifeVars, hypVars, told, due>>
WaitReturn(d) ==
  /\ AppStep(d, "out", IF "APP_EXIT" \in curEvent[d] THEN "done" ELSE "idle")
  /\ curEvent[d] # {}
  /\ VbDevPut(d)
  /\ hand' = [hand EXCEPT ![d] = curEvent[d] \cap {"RESET_RQST", "DRIVER_OK"}]
  /\ told' = [told EXCEPT ![d] = @ \/ ("DRIVER_OK" \in curEvent[d] /\ guest[d] = "ok")]
  /\ UNCHANGED <<evVars, ioctx, resVars, at, notify, lifeVars, hypVars, due>>

\* The ioctls user space answers an event with.
AppActs(d, e) == phase \in {"up", "exited"} /\ app[d] = "idle" /\ e \in hand[d]
IoEventFd(d, q) ==
  /\ AppActs(d, "DRIVER_OK") /\ q \notin ioctx[d]
  /\ ioctx' = [ioctx EXCEPT ![d] = @ \cup {q}]
  /\ UNCHANGED <<evVars, refcount, resVars, appVars, exitVars, lifeVars, hypVars, told, due>>
AckDriverOk(d) ==
  /\ AppActs(d, "DRIVER_OK") /\ ioctx[d] = Queues
  /\ ackDriverOk' = [ackDriverOk EXCEPT ![d] = TRUE]
  /\ hand' = [hand EXCEPT ![d] = @ \ {"DRIVER_OK"}]
  /\ UNCHANGED <<vdevEvent, vdevData, evtAvail, curEvent, app, refcount, ioctx, resVars, exitVars, lifeVars, hypVars, told, due>>
AckReset(d) ==
  /\ AppActs(d, "RESET_RQST")
  /\ guest' = [guest EXCEPT ![d] = IF @ = "resetting" THEN "init" ELSE @]
  /\ hand' = [hand EXCEPT ![d] = @ \ {"RESET_RQST"}]
  /\ UNCHANGED <<evVars, app, refcount, ioctx, resVars, exitVars, lifeVars, hypEvent, hypData, told, due>>

\* GH_SET_DEVICE_CONFIG_DATA, once in the life of a VM: user space calls it
\* before the guest's driver is up.
SetDeviceConfigData(d) ==
  /\ phase = "up" /\ d \in Driven /\ guest[d] = "init" /\ app[d] = "idle"
  /\ mapped[d] /\ ~config[d]
  /\ config' = [config EXCEPT ![d] = TRUE]
  /\ UNCHANGED <<irq, mapped, hypAssignDone, owner, evVars, refcount, ioctx, appVars, exitVars, lifeVars, hypVars, told, due>>

-----------------------------------------------------------------------------
(* gh_virtio_mmio_app_exit, by every vcpu thread that saw the exit.        *)

\* The next device of the list.
NextDev(v) ==
  IF at[v] < NumDevs
    THEN vcpu' = [vcpu EXCEPT ![v] = "mark"] /\ at' = [at EXCEPT ![v] = @ + 1]
    ELSE vcpu' = [vcpu EXCEPT ![v] = "done"] /\ UNCHANGED at

ExitStart(v) ==
  /\ phase = "exited" /\ vcpu[v] = "idle"
  /\ vcpu' = [vcpu EXCEPT ![v] = "mark"]
  /\ UNCHANGED <<at, notify, evVars, refcount, ioctx, resVars, appVars, lifeVars, hypVars, told, due>>

\* The event thread is told, and waited for if it is in an ioctl.
ExitMark(v) ==
  /\ vcpu[v] = "mark"
  /\ LET d == at[v] IN
     /\ vdevEvent' = [vdevEvent EXCEPT ![d] = {"VM_EXIT"}]
     /\ vdevData' = [vdevData EXCEPT ![d] = {}]
     /\ evtAvail' = [evtAvail EXCEPT ![d] = TRUE]
     /\ notify' = [notify EXCEPT ![d] = TRUE]
     /\ IF refcount[d] = 0 THEN NextDev(v) ELSE vcpu' = [vcpu EXCEPT ![v] = "wait"] /\ UNCHANGED at
  /\ UNCHANGED <<curEvent, ackDriverOk, refcount, ioctx, resVars, appVars, lifeVars, hypVars, told, due>>

ExitWait(v) ==
  /\ vcpu[v] = "wait"
  /\ IF refcount[at[v]] = 0 THEN NextDev(v) ELSE vcpu' = [vcpu EXCEPT ![v] = "asleep"] /\ UNCHANGED at
  /\ UNCHANGED <<notify, evVars, refcount, ioctx, resVars, appVars, lifeVars, hypVars, told, due>>

-----------------------------------------------------------------------------
(* The last close: gh_vm_cleanup, then gh_virtio_mmio_exit.                *)

Close ==
  /\ phase \in {"up", "exited"}
  /\ \A d \in Devs : app[d] \in {"idle", "done"}
  /\ \A v \in Vcpus : vcpu[v] \in {"idle", "done"}
  /\ phase' = "releasing" /\ next' = 1
  /\ app' = [d \in Devs |-> "done"] /\ vcpu' = [v \in Vcpus |-> "done"]
  /\ UNCHANGED <<hand, at, notify, loads, fails, evVars, refcount, ioctx, resVars, hypVars, told, due>>

\* config_data after the device was released.
ConfigFreed(d) == [config EXCEPT ![d] = FALSE]
ReleaseDev ==
  /\ phase = "releasing" /\ next <= NumDevs
  /\ ioctx' = [ioctx EXCEPT ![next] = {}]
  /\ config' = ConfigFreed(next)
  /\ ackDriverOk' = [ackDriverOk EXCEPT ![next] = FALSE]
  /\ irq' = [irq EXCEPT ![next] = @ - 1] /\ mapped' = [mapped EXCEPT ![next] = FALSE]
  /\ next' = next + 1
  /\ UNCHANGED <<vdevEvent, vdevData, evtAvail, curEvent, hypAssignDone, owner, refcount, appVars, exitVars, phase, loads, fails, hypVars, told, due>>

ReleaseBuffers ==
  /\ phase = "releasing" /\ next > NumDevs
  /\ UnshareVmBuffers
  /\ phase' = "off" /\ next' = 1
  /\ UNCHANGED <<loads, config, irq, mapped, evVars, refcount, ioctx, appVars, exitVars, hypVars, told, due>>

-----------------------------------------------------------------------------
AppNext(d) ==
  \/ WaitEnter(d) \/ WaitCheck(d) \/ WaitInterrupted(d)
  \/ TakeExit(d) \/ TakeReset(d) \/ TakeDriverOk(d) \/ TakeNewBuffer(d) \/ TakeInterruptAck(d) \/ TakeNothing(d)
  \/ WaitLoop(d) \/ WaitReturn(d)
  \/ (\E q \in Queues : IoEventFd(d, q)) \/ AckDriverOk(d) \/ AckReset(d) \/ SetDeviceConfigData(d)
GuestNext(d) ==
  \/ GuestDriverOk(d) \/ GuestFails(d) \/ (\E q \in Queues : GuestKick(d, q))
  \/ GuestInterruptAck(d) \/ GuestReset(d)
ExitNext(v) == ExitStart(v) \/ ExitMark(v) \/ ExitWait(v)
LifeNext ==
  \/ StartLoad \/ InitShareFails \/ InitIrqFails \/ InitDev \/ Up \/ LateLoadFail
  \/ GuestExits \/ Close \/ ReleaseDev \/ ReleaseBuffers

Next ==
  \/ LifeNext
  \/ \E d \in Devs : VdevInterrupt(d) \/ AppNext(d) \/ GuestNext(d)
  \/ \E v \in Vcpus : ExitNext(v)

Spec == Init /\ [][Next]_vars

\* A thread in an ioctl goes on, and so does a vcpu thread that saw the exit.
\* User space need not issue another ioctl, and the guest owes nothing.
InWait(d) ==
  \/ WaitCheck(d) \/ TakeExit(d) \/ TakeReset(d) \/ TakeDriverOk(d) \/ TakeNewBuffer(d)
  \/ TakeInterruptAck(d) \/ TakeNothing(d) \/ WaitLoop(d) \/ WaitReturn(d)
Fairness ==
  /\ \A d \in Devs : WF_vars(InWait(d))
  /\ \A v \in Vcpus : WF_vars(ExitMark(v)) /\ WF_vars(ExitWait(v))
FairSpec == Spec /\ Fairness

-----------------------------------------------------------------------------
(* Properties                                                              *)

\* The event thread is asleep and nothing is on its way to it.
Quiet(d) == app[d] = "sleep" /\ ~evtAvail[d]

\* GH_WAIT_FOR_EVENT does not sleep over an event it could return: clearing
\* evt_avail while taking one event never hides another (DRIVER_FAILED, which the
\* ioctl returns only together with a NEW_BUFFER, excepted).
EventNotMissed == \A d \in Devs : Quiet(d) => vdevEvent[d] \subseteq {"DRIVER_FAILED"}

\* Each DRIVER_OK of the guest is passed to user space: the ioctl does not drop
\* it as acknowledged on account of an earlier one.
DriverOkPassed == \A d \in Devs : Quiet(d) /\ hypEvent[d] = {} /\ guest[d] = "ok" => told[d]

\* A kicked queue is not forgotten: once DRIVER_OK is acknowledged, a kick whose
\* eventfd was not signalled is still with the hypervisor or in vdev_event_data
\* with an event that makes the event thread signal it.
KickNotLost ==
  \A d \in Devs : \A q \in due[d] :
    phase = "up" /\ ackDriverOk[d] /\ q \in ioctx[d] =>
      \/ q \in hypData[d] /\ "NEW_BUFFER" \in hypEvent[d]
      \/ q \in vdevData[d] /\ "NEW_BUFFER" \in vdevEvent[d] /\ ~Quiet(d)

\* A loaded VM, and no previous one, has all shared buffers.  A destroyed VM leaves
\* no handler, mapping, eventfd, acknowledgement or config data (which the next VM
\* could not set), if nothing failed; and buffers that are not marked as shared are
\* not shared, so that the next load shares them: a failed share_vm_buffers took all
\* of them back.
SharesBalanced ==
  /\ fails = 0 /\ phase \in {"up", "exited"} => \A b \in Bufs : owner[b] = loads
  /\ fails = 0 /\ phase = "off" =>
       /\ ~hypAssignDone
       /\ \A d \in Devs : irq[d] = 0 /\ ~mapped[d] /\ ioctx[d] = {} /\ ~ackDriverOk[d] /\ ~config[d]
  /\ ~hypAssignDone /\ fails <= 1 => \A b \in Bufs : owner[b] = Host

\* A vcpu thread in gh_virtio_mmio_app_exit comes back: every event thread it
\* waits for hears of the exit and lets go of its device.
ExitFinishes == \A v \in Vcpus : vcpu[v] \in {"mark", "wait", "asleep"} ~> vcpu[v] = "done"
=============================================================================
