# Gunyah drivers: TLA+ models, checks and proofs

This directory models the Linux drivers of this repository that talk to the
Gunyah hypervisor: the message queues, the Resource Manager (RM) RPC layer, the
table of VMs, memory parcels, the life of a VM and the population of its
resources, the proxy scheduler, the virtio backend, doorbells, interrupt lending
and the hypervisor console. Each module is written from the C code
(`PROJECT.json`, `map`, gives the lines of every definition).

## 1. The system

A primary VM loads guest VMs, runs their vcpus and shares memory, interrupts,
queues and virtio devices with them. Everything that changes a guest goes
through the RM, a VM of its own, over a pair of message queues.

| component | state | operations | talks to | what is hard | what makes it correct |
|---|---|---|---|---|---|
| message queue `gh_msgq.c` | per label: cap ids, irqs, cached `tx_full`, `rx_empty`, the client | register, unregister, send, recv, populate, reset, two interrupt handlers | hypervisor (hypercall, irq), its clients, RM resources | the flags are read unlocked and cached; entries come and go under sleeping callers | no sleeper with work to do and no wake-up coming; an entry outlives its users |
| RM RPC core `gh_rm_core.c` | idr of connections, the receive task's current connection, send lock | `gh_rm_call`, receive task, notification works | message queue, everyone | cyclic sequence numbers, fragments, aborted series, a task touching connections their owners free | the reply that returns is the caller's own and whole; nothing freed is touched; every call returns |
| resource population `gh_rm_core.c`, `irq.c` | the Linux interrupts mapped for a VM's resources | populate and unpopulate a VM's queues, doorbells, vcpus, VPM group, virtio devices, watchdog | all of those | one resource of many fails, `-EAGAIN` loops, a local variable carried from one resource to the next | what was populated is wired to its own interrupt and given back, once |
| VM table `gh_rm_iface.c`, `gh_rm_core.c` | vmid and identification per VM name | allocate, deallocate, look up, identify peers at probe and on READY | RPC core, everyone who has a name and needs a vmid | check, RPC and update under separate locks; vmids are reused | a row names the VM of that name |
| memory parcels `gh_rm_iface.c` | none of their own; the RM's parcels | share, lend, donate, append, accept, release, reclaim, notify | RPC core, memory notifier | multi-call requests and replies, undoing half of one, results of calls that were never sent | a region moves as a whole and comes back |
| other RPCs of `gh_rm_iface.c` | none | one wrapper per RPC | RPC core | validation of answers | the answer is passed on |
| VM lifecycle `gh_main.c` | status, `vm_lock`, vcpus, users, run-once | create, load, run, stop, wait, destroy, READY/RESET/EXITED notifications | RPC core, loader, proxy scheduler, virtio | notifications race RPC returns and each other; destruction from every intermediate state | no exit is lost, loading and destruction end, nothing stays with the guest |
| secure VM loader `gh_secure_vm_loader.c` | firmware and shared memory regions | load, reclaim, boot | lifecycle, SCM, RM | many steps, each may fail | success means a loaded VM |
| proxy scheduler `gh_proxy_sched.c` | table of VMs and their vcpus | populate, unpopulate, run, vcpu irq, wake all | RM callbacks, lifecycle | wake-ups against the thread that clears the flag; table without locks | no interrupt or exit is slept through; slots are released |
| virtio backend `gh_secure_vm_virtio_backend.c` | per device events, references, eventfds | event ioctls, irq thread, VM exit | hypervisor, user space, lifecycle | merged and consumed events, waiting for user threads | no event is lost, exit ends |
| doorbells `gh_dbl.c` | per label: caps, irq, clients | register, send, mask, populate, reset | RM resources | callback against unregister | no call into an unregistered client |
| interrupt lending `gh_irq_lend.c` | per label: state, handle | lend, accept, release, reclaim, notifications | RPC core | state changes around an RPC | lender and borrower agree |
| memory notifier `gh_mem_notifier.c` | handler per tag | register, unregister, call | notifications | handler called after unregister | a notification reaches whoever is registered |
| console `hvc_gunyah.c` | per name: output and input fifo, one work item | put, get, flush, open, close, input notification | VM table, RPC core | the work item is taken over by flush and close while others queue it again; the vmid is looked up once | output leaves once, in order, to the VM of that name |
| watchdog, PM operations, dump, udmabuf, arch glue | little or none | one hypercall or RPC each | | | |

Every hazard found while reading is in `PROJECT.json` under `hazards`, at its
line, with the properties that would catch it.

## 2. Modules

`MC*.tla` modules only add model values and symmetry sets; `*Proofs.tla` modules
hold the theorems. `GhResourcesProofs` holds those of `GhDbl` and of `GhResources`,
which composes it; `GhClientsProofs` those of `GhIrqLend` and of `GhConsole` over
`GhVmTable`, the small clients of the Resource Manager.

**GhMsgq** (`gh_msgq.c`): one label. `Dirs` says which directions exist;
`blocked[d]` is `tx_full` or `rx_empty`, `avail[d]` the free slots or queued
messages of the hypervisor's queue, `setup[d]` how far populate or reset of the
cap and irq has come, `dangling` that the entry was freed with users left. A
call is a program counter per thread: wait for the cap, check the irq, test the
flag (nonblocking), wait on the flag, hypercall under the spinlock (atomic, with
the flag update). An interrupt is latched by the hypervisor, cleared by the
handler and then wakes sleepers, as separate steps.

**GhRmCore** (RPC part of `gh_rm_core.c`): callers allocate a connection, take a
number from the cyclic idr, send the request's fragments under the send lock
into a bounded queue, wait and reap. The receive task handles one packet per
step; notification works run in any order. Connections are never reused, so a
dangling pointer stays visible. The RM is external: it answers each complete
request once, in any order, and may cut a series short; the history variable
`answer` records what it answered.

**GhRpc** is what `gh_rm_call` promises: a request is answered at most once and
before its call returns, the call returns that answer in one piece, its error code,
or `-EIO`; or it fails without the request ever being answered. And the notifier
chain is called only with whole notifications that were sent. `GhRmCore`
implements it (`RefinesRpc`, `INSTANCE ... WITH`) under the mapping `Stage`: a
request is new until its connection is allocated, open until the RM answers, over
when the connection is freed. Numbers, fragments, the send lock and the receive
task become stutters.

**GhVm** (`gh_main.c`, `gh_secure_vm_loader.c`): one hypervisor-scheduled VM. A
loading thread, a thread per vcpu, a waiter for the exit, the last close and
the notification works, with `vm_lock` held across RPCs as in the code. Each
behaviour fixes in `may`, one of `FaultSets`, which calls may fail; `Reported`
names those whose failure the code reports and ends on, which are those it unwinds
from (`Unwound`) and the assignment of memory; "unsent" lets VM_START, VM_STOP and
VM_RESET be taken for carried out although `gh_rm_call` could not send them. The
firmware regions (`MemCount`) are assigned one by one: `mem` is "part" when an
assignment failed after others, which `gh_provide_mem` does not take back.

**GhProxySched** (`gh_proxy_sched.c`, its callers in `gh_main.c` and
`gh_rm_core.c`): the slots of `gh_vms`, the vcpu threads in `gh_vcpu_run` step by
step, the vcpu interrupt, `gh_wakeup_all_vcpus` in its two steps, and the
load/destroy cycle that fills and empties the table. The hypervisor's answers
for the vcpu of a VM that has exited are a constant: it may fail the call or
report the vcpu powered off.

**GhVirtioBackend** (`gh_secure_vm_virtio_backend.c`, its callers in `gh_main.c`):
the virtio devices of one VM over several loads. `vdevEvent` and `vdevData` are
the bit masks as sets. The event thread of a device goes through
`GH_WAIT_FOR_EVENT` (reference, test, sleep, the section under `vb_dev->lock`
with one action per kind of event, loop or return); `VdevInterrupt` is one round
of the interrupt handler; the vcpu threads walk the devices in
`gh_virtio_mmio_app_exit`. `owner` says with which VM a buffer is shared, which
`hyp_assign_done` is supposed to summarise. The guest's driver and user space
are external: the guest kicks after `DRIVER_OK` and waits for `ack_reset`, user
space installs its eventfds between `DRIVER_OK` and `GH_ACK_DRIVER_OK`. `told`
and `due` are history: what user space has been given, and which kicks are owed.

**GhIrqLend** (`gh_irq_lend.c`, the RPCs in `gh_rm_iface.c`): both sides of one
label. Each side's call is split where it leaves the lock (state, RPC, state);
the RM is external and decides by handle; notifications are a set handled in any
order. `early` remembers that the owner reclaimed before it heard of a release.

**GhDbl** (`gh_dbl.c`): one label, its Tx and Rx client with the descriptor they
share, calls that validate, wait for the capability and make the hypercall, the
callback thread, and `gh_rm_core.c` populating and resetting both capabilities. Its
state "kept" is a population that a reset loop which ended early never came to.

**GhResources** (`gh_rm_populate_hyp_res`, `gh_rm_unpopulate_hyp_res`, `irq.c`, the
early returns of the drivers they call): composes `GhDbl` with the two loops. `at` is the loop
variable, `list` the VM's resources, one of each type; where the loop reaches a
doorbell it takes the steps of `GhDbl`, and the doorbell's clients run beside
it. Of the other drivers the interrupt they request (`num`) and the conditions
under which they refuse are kept. The two directions of the message queue are two
resources with one entry: a failed request frees it, and `orphans` are the
directions whose interrupt it was, which no reset finds again. Whether there is a
proxy scheduler, and a virtio backend, is fixed per behaviour (`Setups`). `irqMap` is what each Linux interrupt number is
mapped to; somebody else takes and gives back a number meanwhile (`other`), and
`clobbered` remembers that it was disposed of by us, and whether through the
number a driver reported or through one left in `irq` by an earlier resource.

**GhMemParcel** (memory calls of `gh_rm_iface.c`, `gh_mem_notifier.c`): one region,
an owner and a recipient VM. An action is one RPC with what its caller does up
to the next; every RPC may be refused, not be sent, or be carried out and
answered unusably, and results that the code reads uninitialised are a choice.
The list of fragments is kept newest first, as `list_add` builds it. The RM
(a parcel is taken back unless it is mapped, accepted only when whole) and the
two clients, who call the interface in the order of its documentation, are external.

**GhMemTransfer** is what those calls promise: the region is with the owner,
offered as a whole, held by the recipient or lost, and lost only after a call
whose failure excuses it. `GhMemParcel` implements it under the mapping `Where`
(`RefinesTransfer`, `INSTANCE ... WITH`): requests in several parts, replies in
several parts and their undoing become one step or a stutter. The excuses are
few: an unusable reply to the first share or accept call, a failing call that
undoes, and a release or reclaim that reports success although it was not sent.

**GhVmTable** (table part of `gh_rm_iface.c`, peers in `gh_rm_core.c`): the rows,
filled in the primary VM by loaders (check, VM_ALLOCATE, update; VM_DEALLOCATE,
clear) and in a secondary VM by `gh_vm_check_peer` and the READY notification.
The RM hands out any free vmid. A VM_DEALLOCATE that is carried out and answered with
the wrong size leaves the row behind. `reused` and `unlisted` are history: a vmid given
out while a row still has it, and VMs the table was never told of.

**GhConsole** (`hvc_gunyah.c`) extends `GhVmTable`: the console of one name. Two
runners may be in `gh_hvc_put_work_fn`: the work item, and a flush or close that
found it pending. `cancel_work_sync` is modelled by what the workqueue does: it
keeps the item's PENDING bit until the running work is over, so that
`schedule_work` has no effect meanwhile. History: `written` is what the RM took
and for whom, `lost` what failing writes dropped, `stranded` that characters
were left without a work item, `overlap` that both runners were at work,
`astray` that a vmid was given out again while the console still meant it.

## 3. Runs

All bounds are constants, named in the modules. Deadlock is checked for the
message queue; the other systems stop when their bounds are used up, and say so
with `CHECK_DEADLOCK FALSE`.

| run | instance | shows |
|---|---|---|
| `msgq_rx` | two receivers, depth 2, two resets, one failing `request_irq` | no lost wake-up for a receiver; a sleeper whose queue can serve it wakes up |
| `msgq_tx` | two senders and one receiver, depth 2, no reset | no lost wake-up for a sender; `GH_MSGQ_NONBLOCK` never sleeps when the caller is alone in its direction |
| `rm_calls` | two callers over two numbers; three calls, or two (`FaultyCalls`) with a notification, a cut series, an interrupted send, a failed allocation; fair | calls and notifications implement `GhRpc`: replies and notifications whole and the right one's; numbers owned across the wrap and, until a send fails, no leaked idr entry; no freed connection touched; every call whose request was sent returns |
| `vm_life` | two vcpus, two firmware regions, two loads; any call may fail, or only those in `Reported`, with or without unsent requests; fair | `RUNNING` never overwrites a recorded exit; with `Reported` failures and unsent requests: success means ready, nothing left behind but regions assigned before a failed assignment, power-off events only when stopped; with `Reported` failures alone, run, load and destruction end |
| `ps_run` | one VM, two vcpus in a table with room for three, two loads, two failing `request_irq` or wakeup sources, so that a VM may end up without vcpus in the table or with some at the wrong index; fair | no exit slept through, `GH_VCPU_RUN` returns after the exit; watchdog freezes balanced; until a failure, no interrupt slept through, a loaded VM is wired and a destroyed one leaves nothing in the table |
| `virtio` | two devices, one driven, one queue, two buffers, one vcpu, two loads, one failing step; fair | no event, `DRIVER_OK` or kick slept over; the exit finishes; until a failure, buffers, handlers and eventfds belong to the loaded VM and nothing is kept |
| `irq_lend` | three lends, one failing RPC; fair | exclusive use; what is accepted is what will be released; the release is heard |
| `res` | every resource type, both directions of the queue among them; the proxy scheduler taking or skipping the VM, or absent and with it the virtio backend; six interrupt numbers, two loads, one failing doorbell irq, one other failure, one foreign interrupt; fair | a loaded VM is wired to its own interrupts; unloading gives back those, after a failure all but the vcpus' and what a freed queue entry holds up, and, through reported numbers, only those; the loops end; the doorbell's descriptor is freed by the last one out, no handler after a reset, callers get their capability |
| `mem` | regions of up to five entries, two per request and per reply, three offers, three faults, one unregister; fair | the calls implement `GhMemTransfer`; the recipient's list has every entry exactly once and no fragment broken; offered memory comes back |
| `console` | two names, two VMs, two vmids, two characters out, one in, one flush or close, one failing RPC; at most four of loads, characters and calls (`MaxOps`); primary and secondary; fair | output neither lost, doubled nor left behind; table, output and input agree on who has which vmid |

Two threads are what the races need beside the interrupt: a waiter and one that
changes what it waits for. Depth 2 tells full, empty and between apart. Two
sequence numbers wrap within three calls. Two vcpus give first, last and
"another" vcpu. Two loads expose what the first one left. A second device that
the guest leaves alone is what the exit has to get past; three lends let a
notification of the first arrive in the third. Five entries in twos make a first,
a middle and a last request and reply, and three faults let a call, the call
that undoes it and the next offer go wrong. Two VMs over two vmids reuse one
within three loads, while the other keeps its name. Six interrupt numbers are
what a list needs, so that the foreign one is the seventh wanted. Two regions are
one that was assigned and one that failed. In the list of `res` the two directions of the
queue have a doorbell, a vcpu and the VPM group between them and the watchdog behind.

Each module with a `TypeOK` holds it on these instances; for `GhMsgq`, `GhIrqLend`,
`GhDbl` and `GhVm` it is proved (section 5).

### Where code and text disagree

Each of these is a run that TLC must find violated; `findings` quotes the line.

| run | what happens |
|---|---|
| `msgq_tx_reset` | a stale `tx_full` survives a reset and blocks senders of the next, empty queue |
| `ps_two_vms` | the hole a destroyed VM leaves hides the VMs behind it |

Others are in the models but have no run of their own. The instance named shows
each of them with the property in the last column:

| where | what happens | how to see it |
|---|---|---|
| `gh_msgq.c:555` | a failing `request_irq` frees an entry clients and the other direction still use | `dangling` becomes true in `msgq_rx` |
| `gh_rm_core.c:692` | failed sends leak idr entries until `-ENOSPC` becomes a sequence number | `rm_calls`: `IdrSound` without its `sendFails = 0` |
| `gh_rm_core.c:445` | an `ERR_PTR` passes the NULL test and stops the receive task | `rm_calls`: `CallReturns` without its exception for failed allocations |
| `gh_rm_core.c:1035` | `irq` of the previous resource is put again: by then it may be somebody else's | `res`: `UnpopulateExact` with "stale" among what must not be in `clobbered` |
| `gh_msgq.c:555` | that frees the entry of both directions: the first one's interrupt is never freed, and the unpopulating loop, which stops there, leaves those behind it too | `res`: `UnpopulateExact` without its `Behind(r)` |
| `gh_main.c:650` | regions assigned before a failed assignment stay with the guest when the VM is gone | `vm_life`: `NothingLeftBehind` without its `AssignedBefore` |
| `gh_rm_core.c:1003` | after a failed population the vcpu's handler stays, and the next load fails on it | `res`: `UnpopulateExact` without its `r = "VCPU"` |
| `gh_secure_vm_loader.c:206` | metadata that does not fit makes the load "succeed" | `LoadSuccessMeansReady` with "metadata" in `Reported` |
| `gh_main.c:301` | a gap in vcpu ids makes destruction spin | `vm_life` with vcpu 1 only and `DenseVcpus = FALSE`: `DestroyFinishes` |
| `gh_main.c:224` | memory stays with the guest after a failed `VM_CONFIG_IMAGE` | `NothingLeftBehind` with "config" in `Reported` |
| `gh_main.c:848` | `INIT_FAILED` leaves the load waiting forever under `vm_lock` | `SetFwNameReturns` with "initfail" in `Reported` |
| `gh_rm_iface.c:1227` | a VM_STOP or VM_RESET that was never sent may be waited for, a VM_START leaves a `RUNNING` VM that is not | `vm_life`: `DestroyFinishes` with "unsent" in `Reported` |
| `gh_proxy_sched.c:605` | clearing `abort_sleep` loses the exit's wake-up | `ps_run` with `ExitAnswers` containing "WFI": `ExitReachesSleepers` |
| `gh_proxy_sched.c:380` | a half-populated VM is never unpopulated | `ps_run`: `SlotsBalanced` without its `fails = 0` |
| `gh_proxy_sched.c:319` | the vcpus after a failed one have other indices than ids, and their interrupt wakes another thread | `ps_run`: `NoLostVirq` without its `fails = 0` |
| `gh_proxy_sched.c:522` | at `GH_MAX_VMS` VMs none can be unpopulated | `ps_run` with `NumSlots = 1`: `SlotsBalanced` |
| `gh_secure_vm_virtio_backend.c:434` | a `DRIVER_OK` from before a reset is passed on after it, and the new one dropped as acknowledged | `virtio` with `EagerReset = TRUE`: `DriverOkPassed` |
| `gh_secure_vm_virtio_backend.c:1303` | after a failed release or a late load failure the next VM runs without its buffers | `virtio`: `SharesBalanced` without its `fails = 0` |
| `gh_irq_lend.c:356` | after an early reclaim the old `LENT` notification replaces the handle inside `gh_irq_accept` | `AcceptedIsMine` without its `~early` |
| `gh_rm_iface.c:1828` | the fragments of a long accept come back in reverse order | `mem`: `AcceptedIsWhole` with `view[i + 1] = view[i] + 1` alone |
| `gh_rm_iface.c:1724`, `2206` | a release or reclaim that was not sent may report success; an unusable share reply leaves the parcel behind | `mem`: `RefinesTransfer` without the `excuse` of `Release`, `Reclaim` or `Share` |
| `gh_rm_iface.c:958`, `1030` | two loaders of one name both allocate; a vmid is given out again before the old row is cleared | `console`: `TableRoutes` without its `unlisted` or `reused` |
| `gh_rm_core.c:1514` | a peer that comes up during probe, or comes up again, is not identified | `console`: `TableRoutes` without its `unlisted` |
| `hvc_gunyah.c:144` | characters put while a flush cancels the work wait for the next ones | `console`: `OutputLeaves` without `stranded` |
| `hvc_gunyah.c:167` | flush and a newly queued work send chunks of one output in either order | `console`: `OutputIntact` without `overlap` |

The passing runs leave out exactly the triggers of these: `msgq_tx` has no
reset; the properties name the failure or the history they except, as the last
column says; those of `vm_life` speak of behaviours with `Reported` failures and
dense vcpu ids; `ps_run` has one VM, below the limit, whose vcpus fail after the
exit; the guest of `virtio` resets a device only once its `DRIVER_OK` is
acknowledged.

Met while reading, outside what the models tell apart or keep:

- `gh_main.c:1047`: `GH_VM_WAIT_FOR_EXIT` sleeps on a VM it found in `vm_list`
  without a reference; the VM may be freed meanwhile. `GhVm` has one VM that is
  never freed.
- `gh_secure_vm_virtio_backend.c:585`: an error return of `GH_ACK_RESET` keeps the
  reference `vb_dev_get` took, and the exit waits for it.
- `gh_secure_vm_virtio_backend.c:1387`: the release tests and puts `irq.ctx` without
  `vb_dev->lock`, which `irqfd_shutdown` holds when it does the same.
- `gh_rm_iface.c:125` says that `gh_rm_get_vmid` returns `-EINVAL` for an unknown
  name; it returns 0 with `GH_VMID_INVAL` (as `GetVmid` does). The tests
  `vm_name > GH_VM_MAX` (lines 70, 133, 947) let `GH_VM_MAX` through.
- `gh_rm_core.c:778`: the branch that allocates a virq is not reached, since the
  value it tests for has returned before. `GetIrq` never allocates.
- `irq.c:125`: `gh_put_irq` reads the `irq_data` after `irq_dispose_mapping`.
- `gh_main.c:664` donates a system VM's memory with two ACL entries, and
  `gh_rm_mem_donate` (`gh_rm_iface.c:2357`) takes exactly one.
- `gh_proxy_sched.c:246`: the watchdog of a VM that has no vcpus in the proxy
  scheduler's table is refused, which fails the population of its resources (`WdogRefused`).
- `gh_irq_lend.c:191`: when the lend RPC fails the entry stays
  `WAIT_RELEASE_OR_ACCEPT` with an old handle, which no reclaim frees
  (`LendRpcFails`).

## 4. Fairness

- `GhMsgq`: a latched interrupt is handled and its wake-ups happen. Callers and
  the peer owe nothing.
- `GhRmCore`: a thread that can run does (weak fairness per step); strong
  fairness for the send lock, since kernel mutexes queue their waiters. The RM
  reads, answers and sends. Notification works, cuts and failures owe nothing.
- `GhVm`: loader, vcpu and destroying threads run, notification works run, the
  RM ends an initialisation. Strong fairness for the two steps that compete for
  `vm_lock`. User space need not close or run anything, the guest need not exit.
- `GhProxySched`: vcpu threads, interrupts and the exit notification; nothing of
  user space or the guest.
- `GhVirtioBackend`: a thread inside `GH_WAIT_FOR_EVENT` goes on when it can, and
  so does a vcpu thread in `gh_virtio_mmio_app_exit`. User space need not issue
  another ioctl, and neither guest nor interrupt owes anything.
- `GhIrqLend`: notification works run; the clients owe nothing.
- `GhDbl`, `GhResources`: loading goes on and `gh_dbl_init` ends (weak), as do the
  callback thread and callers that are awake. Unloading is strongly fair:
  `free_irq` silences the interrupt before it waits for the callback thread, so a
  doorbell that keeps ringing does not hold it up.
- `GhMemParcel`: calls under way go on and notifications are delivered; the
  recipient's client does not keep the memory for ever. Nobody has to offer,
  register or unregister.
- `GhConsole`: a queued work runs, an RPC is answered, `cancel_work_sync` returns.
  Writers, VMs and the RM's input owe nothing.

## 5. Proofs

Everything here holds for every value of the constants, within the named
assumptions: sizes and bounds are naturals (positive where the code's are), the
sets of threads are finite where something is counted. Each proof
module has the inductive invariant first, as a conjunction of named parts with a
comment on each, then a lemma per group of actions with a case per action, then
the theorems. Before it was proved, each inductive invariant was checked with TLC.

| module | theorem | says | under |
|---|---|---|---|
| `GhMsgqProofs` | `TypeCorrect` | `TypeOK` | |
| | `ReceiverNotStranded` | `NoStrandedReceiver` | |
| | `SenderNotStranded` | `NoStrandedSender` | `MaxResets = 0`; with a reset it is false (`msgq_tx_reset`) |
| | `NonblockDoesNotSleep` | `NonblockNeverSleeps` | |
| `GhRmCoreProofs` | `RepliesStayIntact` | `RepliesIntact` of its inductive invariant: whole replies and notifications, in each state | `Roomy` |
| | `NoFreedConnectionUsed` | `NoUseAfterFree` | `Roomy` |
| | `IdrStaysSound` | `IdrSound` | `Roomy` |
| | `RpcRefined` | `RefinesRpc`: `GhRmCore` implements `GhRpc` | `[]Roomy` |
| `GhClientsProofs` | `TypeCorrect` | `TypeOK` of `GhIrqLend` | |
| | `UseIsExclusive` | `ExclusiveUse` | |
| | `AcceptedMatches` | `AcceptedIsMine` | |
| | `OutputStaysIntact` | `OutputIntact` | |
| | `TableRoutesRight` | `TableRoutes` | |
| `GhResourcesProofs` | `TypeCorrect` | `TypeOK` of `GhDbl` | |
| | `DescriptorOwned` | `DescOwned` | |
| | `HandlerGone` | `NoHandlerAfterReset` | |
| | `DoorbellsImplemented` | `GhResources` implements `GhDbl` | |
| | `DoorbellsStaySound` | `DescOwned` and `NoHandlerAfterReset`, of `GhResources` | |
| | `ResourcesConnected` | `PopulateWires` | |
| | `ResourcesReturned` | `UnpopulateExact` | |
| `GhVmProofs` | `TypeCorrect` | `TypeOK` | |
| | `ExitStands` | `ExitNotOverwritten` (an action property) | |
| | `LoadedVmIsReady` | `LoadSuccessMeansReady` | |
| | `DestroyGivesBack` | `NothingLeftBehind` | |
| | `PoweroffIsTrue` | `PoweroffMeansStopped` | |
| `GhProxySchedProofs` | `WdogIsBalanced` | `WdogBalanced` | `OneVm` |
| | `ExitWakesAll` | `ExitReachesSleepers` | `OneVm`, no "WFI" after the exit |
| | `SlotsAreBalanced` | `SlotsBalanced` | `OneVm` |
| | `NoVirqIsLost` | `NoLostVirq` | `OneVm` |
| `GhMemParcelProofs` | `AcceptedRegionIsWhole` | `AcceptedIsWhole` | |
| | `MemoryTransferRefined` | `RefinesTransfer`: `GhMemParcel` implements `GhMemTransfer` | |
| `GhVirtioBackendProofs` | `BuffersAreBalanced` | `SharesBalanced` | |
| | `NoEventIsMissed` | `EventNotMissed` | `Patient` |
| | `DriverOkIsPassed` | `DriverOkPassed` | `Patient` |
| | `NoKickIsLost` | `KickNotLost` | `Patient` |

The hypotheses are exactly the cases in which the code is not known to fail
(section 3). `Roomy`: the callers and the failed sends so far are together no more
than the idr's numbers (65535 in the code). Each failed send leaks a number; when
none is left, `gh_rm_call` stores `-ENOSPC` as the call's number, and `IdrSound` is
false (TLC shows it with `FaultyCalls = 3` in `rm_calls`). `OneVm`: one proxy-scheduled VM and `NumSlots > 1`, with any number
of vcpus; a second VM can be hidden by the hole of the first (`ps_two_vms`), and
with a table of one slot nothing is unpopulated. No "WFI" after the exit: else
clearing `abort_sleep` loses the exit's wake-up. `Patient`: the guest does not
reset a device before its `DRIVER_OK` was acknowledged. What a property itself
excepts (`fails = 0`, `~early`, `ReportedOrUnsent`, `AssignedBefore`, `Behind`) is in its
definition.

Why the invariants are needed:

- **Queues.** `NoStranded` says nothing of a flag that will send the next caller
  to sleep. `WakeInv(d)` adds that a set flag is honest (the queue cannot serve,
  or its interrupt is pending: `FlagHonest`), that a sleeper behind a clear flag
  is being woken (`SleepersCovered`), that what is queued before the handler
  exists is latched (`EarlyLatched`), and that without resets no handler is freed
  (`NoFreeing`). The one asymmetry between the directions, that a new queue is
  empty and so honours a stale `rx_empty` but not a stale `tx_full`, is
  `Sound(d)`. `NonblockInv` carries the cap and the clear flag from the tests to
  the waits when nobody else is in that direction to set it again.
- **RPC.** `Tokens` says that a request is in one place only (sent as a whole, with
  the RM, or answered) and that its caller waits meanwhile, so a reply always
  finds a live connection that still expects it. That needs the streams: the packets under way
  to the RM (`Requests`, `Senders`) are unbroken series, since the send lock is
  held over a series, and a series that is not whole, left behind by a failed
  send, is never answered; the packets from the RM (`Replies`, `Notifs`)
  are series of which at most the tail is missing, and the first of them continues
  what the receive task has gathered. `Current` says that `curr_connection` is a
  waiting caller's or a notification's whose work is not scheduled; `Payloads` what is gathered.
  `Owners` and `Numbers` tie callers, connections and idr; the leaked numbers
  are at most the failed sends (`Lost`), so that by counting there is a free one
  (`FreeNumber`) and `idr_alloc_cyclic` does not fail.
- **The abstract RPC.** `RpcRefined` needs `Answers` on top: nothing is answered
  while the request, or a part of it, is still with its caller, on the way or
  pending, so a call that fails ends an open request; and a reply packet under way,
  or a connection that has received one (`Bears`), says of length and error code what
  the RM answered. The receive task keeps both of a connection (`SameReply`)
  when it aborts, continues or completes it. Each step is then one of `GhRpc` or a
  stutter (`NextIsRpc`): `CallAlloc` calls, `RmReply` answers, `CallReturn`
  returns, `CallIdrInterrupted` and `CallFail` fail, `RmNotify` notifies and
  `NotifWork` delivers. Here `Roomy` is a hypothesis
  on the whole behaviour, since a refinement is one of all its steps.
- **Lending.** The two entries never see each other, so `UseInv` goes through the
  RM: if the owner's entry is free or its reclaim has gone through, the RM has
  given the interrupt back (`OwnerHasIt`); a borrower that takes it for its own
  has it accepted there (`BorrowerHasIt`); an owner in a call has left `NONE`
  (`LenderBusy`). The order of notifications drops out. For `AcceptedIsMine`,
  `OnePlace` says that without an early reclaim a lend is in one place: about to be
  notified, in a `LENT` of the current handle, with the borrower, in a `RELEASED`, or back.
- **Doorbells.** `regDone` is tied to `held` and `clientDesc` to the allocated
  descriptor; the handler is followed through population and reset (installed
  only between `request_threaded_irq` and `free_irq`, and `rx_irq` is set
  whenever a reset still has to free it).
- **Resources.** The loops share every variable of the doorbells, so the first step is
  that each of their steps is one of `GhDbl` or leaves it alone (`DoorbellStep`);
  then all that is proved of `GhDbl` holds of the composition. `ResInv` has the
  interrupt numbers (`Numbers`: a number a driver has stored is mapped to its own
  virq, and what the unloading loop may put a second time is nobody's of the list) and,
  by its place in the list, what is true of a resource a loop has `Passed`, left
  `Untouched` or `Returned`. After a failure the unloading loop stops early
  where a driver has nothing to reset; `InOrder` says why nothing behind that place
needs one, unless the place is a direction of the queue whose entry was freed. What a failed load left is followed, since the next one meets it. Lists
  are arbitrary injective sequences, so the proof argues by the position of a
  resource and never by a list's length.
- **Console output.** `OutputIntact` needs to know which character is where. Since
  characters are numbered as `put_chars` takes them, `put_fifo` is the interval from
  `Base + 1` to `accepted` (`Queued`); what is below is in exactly one of the two
  chunks, the Resource Manager's hands or `lost` (`Chunks`, `Gone`); and while the
  two runners have not overlapped, all that is written is below all that a chunk
  holds (`InTurn`). For the last clause, `Pump` says that characters in `put_fifo` are
  somebody's to send, unless `stranded`: the queued work item's, a runner's, or
  the flush's that took the pending bit; `Flushing` that a flush past
  `cancel_work_sync` that no output has overtaken is alone.
- **VM table.** `TableRoutes` relates a row to a VM only while both are at rest.
  `RowsOk` adds the vmid a deallocation has yet to clear (`Has`): no two VMs have a
  vmid in common, no two rows (`Apart`, `Single`), a row's vmid is one its VM
  has (`Named`, `Backed`), and a VM that is up is listed (`UpListed`). Each of
  these breaks when a vmid is given out while a row still has it, which is `reused`; the
  race of two loaders breaks only `UpListed`, for the VMs in `unlisted`. `Route` carries
  this to the vmid a runner looked up and to a notification under way; `Moves` says
  what one step of the table may do to them, and the rest of the console's proof
  uses no more of the table than that.
- **VM life.** `Refs` and `Locked` hold whatever fails: destruction starts only
  when every file is closed, and `vm_lock` keeps `EXITED` out between the first
  run's test and `RUNNING`. `Stages` holds for failures the code reports: how
  far loading and destruction have come and what they have acquired or given back
  by then, and what `status` and the notifications under way say of the RM's view.
- **Proxy scheduler.** `Table` and `Threads`: a thread inside `gh_vcpu_run`
  points at a vcpu of a slot in use, and no thread is there when the slot is
  filled or emptied. `LoadStage` counts the vcpus populated so far, with
  `nrVcpus`, index and handler, until a population fails. `Awaited`
  extends `NoLostVirq` to the thread that has its answer but has not yet tested
  `abort_sleep`: the window in which a wake-up could be lost.
- **Memory.** `OwnerStage` and `RecipientStage` say how much of the region the RM
  has been told of and has replied; the gathered fragments, newest first, flatten
  to the first `sent` entries with the RM's fragments unbroken (`Unbroken`). That the
  list then has each entry exactly once is its length and its set (`ViewIsRegion`).
  `OneTurn` says that notifications, callbacks and calls of the two sides exclude
  each other. That a flattened list grows at the front by one fragment is a fact
  about the recursive function in `FlattenSeq`; it is proved by a least
  counterexample. For the refinement, `Moves` says how a step may change
  where the region is (`Where`), and `MovesRefine` that each such move is a step of
  `GhMemTransfer` or a stutter. The step of the abstract specification is
  given its witness: the entries of the concrete region.
- **Virtio.** Each `DRIVER_OK` and reset is in one place only between hypervisor,
  `vdev_event`, the ioctl and user space (`Once`), which is why merging bits loses
  none; `Handshake` follows the guest through them, `Kicks` says which place still
  has a kick that is due, `Awake` that a thread may sleep only with nothing to
  take. `Shares` says per device what a load has acquired so far; that every buffer
  is the host's while `hypAssignDone` is clear is kept as long as at most one step of
  the hand-over failed.

Proving also corrected the models. `Where` and three operators of `GhRmCore` were
CASE expressions with overlapping arms, of which TLC takes the first and the
logic any: they are IF chains now. `NoLostVirq` did not hold once a failed
population has shifted vcpus to other indices, in a table with room for more
than the VM's vcpus, and says so; `ps_run` has that room now. `UnpopulateExact` said
that a proxied VM leaves only virtio's mappings, which is false of a list without
vcpus, for which the proxy scheduler has no slot; it speaks of that slot now, and
holds after failures too. `PopulateWires` did not need its exception for
clobbered numbers. In `GhConsole`, `astray` was set whenever a VM lost its vmid, as
`INVAL` counted as a vmid given out again, and excused `TableRoutes` from then on.

Every invariant and action property of the runs is proved. Only model-checked:
liveness (`SleeperWakes`, `CallReturns`, `RunReturnsOnExit`, `DestroyFinishes`,
`SetFwNameReturns`, `RunReturnsAfterExit`, `ExitFinishes`, `ReleaseIsHeard`,
`CallerGetsCap`, `LoadEnds`, `MemoryComesBack`, `OutputLeaves`), since fairness is out
of the prover's reach.

## 6. Not modelled, and the plan

Left out for good: logging, tracing, device-tree parsing, module load and removal,
registration of callbacks; the marshalling inside the RPC wrappers, and the
wrappers that are one RPC without state (time base, minidump, VM status, sg-list
look-up); dump and udmabuf I/O; watchdog, `reset.c` and `gh_arm.c` (no state of
their own), guest PM operations, the suspend interrupts that only log. In `GhMsgq` both
directions share only the entry's life; each run instantiates what it asks about.
In `GhVirtioBackend` the irqfd, the feature and queue registers and mmap are left
out. In `GhResources` a list has at most one resource of each type. The wrappers
of VM_CONFIG_IMAGE, VM_AUTH_IMAGE and VM_INIT check what they are given and simply
fail in `GhVm`; VM_DEALLOCATE, which may return anything when it was not sent, leaves
vmid and row alone then. Two windows are closed that only the RM's own conduct opens.
In `GhVmTable`, `Identify` is one step, although GET_ID (`gh_rm_core.c:812`) and the
update of the row (line 873) have the RPC's return between them: a vmid handed on to
another VM just then is not among the `reused`. In `GhIrqLend`, a release that is carried
out but answered with a payload, for which `gh_rm_iface.c:799` returns `-EINVAL` and the
borrower's entry stays `ACCEPTED`, does not happen: the RM answers it without one.

Built so far: queues, RPC, VM life, scheduler, virtio, lending and doorbells
first, then resource population composed with the doorbells, memory parcels with
their abstract specification, the VM table and the console over it, and the
abstract RPC. Next, in this order:

1. an abstract queue that `GhMsgq` implements;
2. the virtio irqfd.
