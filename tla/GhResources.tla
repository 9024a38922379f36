----------------------------- MODULE GhResources -----------------------------
(***************************************************************************)
(* gh_rm_populate_hyp_res and gh_rm_unpopulate_hyp_res of gh_rm_core.c:    *)
(* the two loops over the resources the Resource Manager reports for a VM, *)
(* the Linux interrupts they take and put (arch/arm64/gunyah/irq.c), and   *)
(* the drivers they hand them to.  The doorbells of the list are those of  *)
(* GhDbl, whose steps are taken here when the loop reaches them; of the    *)
(* other drivers only the interrupt they request is kept (their own        *)
(* modules have the rest).  Somebody else on the system maps and unmaps an *)
(* interrupt meanwhile.                                                    *)
(***************************************************************************)
EXTENDS GhDbl, Sequences, SequencesExt, FiniteSetsExt

CONSTANTS
  Lists,      \* the resource lists a VM may have: sequences over Res
  Setups,     \* the other drivers there may be: pairs of sched and virtio below
  NumIrqs,    \* how many Linux interrupt numbers there are
  MaxFaults,  \* bound on failures outside the doorbell driver
  MaxOthers   \* bound on interrupts somebody else maps

\* One resource of each type.  The doorbells' Tx comes before their Rx; the two
\* directions of the message queue have one label, and so one entry of the
\* capability list of gh_msgq.c.
MqDirs == {"MQ_TX", "MQ_RX"}
Res    == {"VCPU", "VPM", "DB_TX", "DB_RX", "VIRTIO", "WDOG"} \cup MqDirs
HasIrq == Res \ {"DB_TX", "WDOG"}

ASSUME ListsAssumption ==
  /\ \A l \in Lists : /\ l \in Seq(Res) /\ IsInjective(l)
                      /\ {"DB_TX", "DB_RX"} \subseteq ToSet(l)
                      /\ \A i, j \in DOMAIN l : l[i] = "DB_TX" /\ l[j] = "DB_RX" => i < j
  /\ Setups \subseteq {"absent", "skips", "takes"} \X BOOLEAN
  /\ NumIrqs \in Nat /\ MaxFaults \in Nat /\ MaxOthers \in Nat

Free == "free"
VARIABLES
  list,      \* res_entries of the VM
  sched,     \* gh_proxy_sched.c: "absent" (no callbacks), "skips" or "takes" this VM
  virtio,    \* virtio_backend.c has set gh_virtio_mmio_fn
  ph,        \* where the VM's loading or unloading is
  at,        \* the loop variable i
  irq,       \* irq of gh_rm_unpopulate_hyp_res (0 for -1: neither is put)
  irqMap,    \* [1..NumIrqs -> what the Linux interrupt is mapped to]
  num,       \* [HasIrq -> interrupt number the driver has stored and requested]
  orphans,   \* the directions of the queue whose entry was freed under their interrupt
  proxy,     \* the VM's slot: "none", "vcpus" (vcpu_count > 0), "active" (is_vcpu_info_populated)
  dblInit,   \* gh_dbl_initialized
  whole,     \* the last gh_rm_populate_hyp_res succeeded
  other,     \* the number of somebody else's interrupt, or 0
  clobbered, \* history: how somebody else's mapping was disposed of: "own" or "stale" number
  faults, others

dblVars  == vars
vmVars   == <<list, sched, virtio>>
someone  == <<other, others>>
proxied  == sched = "takes"
resVars  == <<vmVars, ph, at, irq, irqMap, num, orphans, proxy, dblInit, whole, someone, clobbered, faults>>
allVars  == <<dblVars, resVars>>

ResInit ==
  /\ Init
  /\ list \in Lists /\ (\E s \in Setups : sched = s[1] /\ virtio = s[2])
  /\ ph = "idle" /\ at = 1 /\ irq = 0 /\ irqMap = [k \in 1..NumIrqs |-> Free]
  /\ num = [r \in HasIrq |-> 0] /\ orphans = {} /\ proxy = "none" /\ dblInit = FALSE /\ whole = FALSE
  /\ other = 0 /\ clobbered = {} /\ faults = 0 /\ others = 0

-----------------------------------------------------------------------------
(* irq.c and the kernel's interrupt descriptors                            *)

\* irq_create_fwspec_mapping: the number a hardware interrupt has, else the
\* lowest free one, else 0.
NumberFor(x) ==
  LET has == {k \in DOMAIN irqMap : irqMap[k] = x}
      can == {k \in DOMAIN irqMap : irqMap[k] = Free}
  IN IF has # {} THEN Min(has) ELSE IF can # {} THEN Min(can) ELSE 0
MapTo(x) == irqMap' = [k \in DOMAIN irqMap |-> IF k = NumberFor(x) THEN x ELSE irqMap[k]]

\* gh_rm_get_irq: a resource without a virq gets 0 and no mapping.
GetIrq(r) == IF r \in HasIrq THEN NumberFor(r) ELSE 0
TakeIrq(r) == IF r \in HasIrq THEN MapTo(r) ELSE UNCHANGED irqMap

\* gh_rm_put_irq: whatever the number is mapped to by now.  gh_put_virq finds no
\* virq of its own, since gh_rm_get_irq never allocates one.
PutIrq(k, how) ==
  /\ irqMap' = [j \in DOMAIN irqMap |-> IF j = k THEN Free ELSE irqMap[j]]
  /\ clobbered' = clobbered \cup {h \in {how} : k # 0 /\ k = other /\ irqMap[k] = "other"}

\* Another VM or driver maps and unmaps its interrupt.
OtherMaps ==
  /\ other = 0 /\ clobbered = {} /\ NumberFor("other") # 0
  /\ others < MaxOthers /\ others' = others + 1
  /\ other' = NumberFor("other") /\ MapTo("other")
  /\ UNCHANGED <<dblVars, vmVars, orphans, ph, at, irq, num, proxy, dblInit, whole, clobbered, faults>>
OtherUnmaps ==
  /\ other # 0 /\ clobbered = {}
  /\ other' = 0 /\ irqMap' = [irqMap EXCEPT ![other] = Free]
  /\ UNCHANGED <<dblVars, vmVars, orphans, ph, at, irq, num, proxy, dblInit, whole, clobbered, faults, others>>

-----------------------------------------------------------------------------
(* gh_rm_populate_hyp_res                                                  *)

Here == list[at]
InLoop(phase, r) == ph = phase /\ at <= Len(list) /\ Here = r
NextEntry == at' = at + 1 /\ ph' = ph
FailsNow  == at' = 1 /\ ph' = "failed"
Fault     == faults < MaxFaults /\ faults' = faults + 1
NoFault   == UNCHANGED faults

\* gh_vm_configure on the READY notification.  GET_HYP_RESOURCES may fail.
Load ==
  /\ ph = "idle" /\ clobbered = {} /\ Populate
  /\ \/ ph' = "vcpus" /\ NoFault
     \/ ph' = "failed" /\ Fault
  /\ whole' = FALSE
  /\ UNCHANGED <<vmVars, orphans, at, irq, irqMap, num, proxy, dblInit, someone, clobbered>>

\* request_irq: not on an interrupt that has a handler, nor on none.
CanRequest(r) == GetIrq(r) # 0 /\ num[r] = 0
Requested(r)  == num' = [num EXCEPT ![r] = GetIrq(r)]

\* The first loop: gh_populate_vm_vcpu_info.  Without an interrupt, and when the
\* wakeup source cannot be created, the vcpu is left out and 0 returned.
VcpuStep ==
  LET tried == proxied /\ "VCPU" \in ToSet(list) IN
  /\ ph = "vcpus" /\ at' = 1
  /\ IF "VCPU" \in ToSet(list) THEN TakeIrq("VCPU") ELSE UNCHANGED irqMap
  /\ \/ tried /\ CanRequest("VCPU") /\ Requested("VCPU") /\ proxy' = "vcpus"
        /\ ph' = "res" /\ NoFault
     \/ tried /\ CanRequest("VCPU") /\ Fault                      \* wakeup source
        /\ ph' = "res" /\ UNCHANGED <<num, proxy>>
     \/ tried /\ GetIrq("VCPU") # 0                               \* request_irq
        /\ (IF num["VCPU"] # 0 THEN NoFault ELSE Fault)
        /\ ph' = "failed" /\ UNCHANGED <<num, proxy>>
     \/ (tried => GetIrq("VCPU") = 0) /\ ph' = "res" /\ NoFault /\ UNCHANGED <<num, proxy>>
  /\ UNCHANGED <<dblVars, vmVars, orphans, irq, dblInit, whole, someone, clobbered>>

\* gh_msgq_populate_cap_info, gh_populate_vm_vpm_grp_info (if the VM has vcpus in
\* the proxy scheduler) and gh_virtio_mmio_init (if there is a virtio backend)
\* request the interrupt.
RequestsNoVpm(r) == r \in MqDirs \/ (r = "VIRTIO" /\ virtio)
Requests(r) == \/ r \in MqDirs
               \/ r = "VIRTIO" /\ virtio
               \/ r = "VPM" /\ proxied /\ proxy # "none"

\* gh_msgq_populate_cap_info frees the entry of the label when request_irq fails,
\* with the interrupt of the other direction still requested on it.
FreesEntry(r) == orphans' = IF r \in MqDirs THEN orphans \cup {d \in MqDirs : num[d] # 0} ELSE orphans
RequestStep(r) ==
  /\ InLoop("res", r) /\ Requests(r) /\ TakeIrq(r)
  /\ \/ CanRequest(r) /\ Requested(r) /\ NextEntry /\ NoFault /\ UNCHANGED orphans
     \/ (IF CanRequest(r) THEN Fault ELSE NoFault) /\ FailsNow /\ FreesEntry(r) /\ UNCHANGED num
  /\ UNCHANGED <<dblVars, vmVars, irq, proxy, dblInit, whole, someone, clobbered>>

\* A vcpu is done already, a VPM group of an unproxied VM is skipped, and so is a
\* virtio device without a backend; the watchdog has no interrupt, and
\* gh_wdog_manage refuses a VM without vcpus of its own here.
WdogRefused == sched # "absent" /\ proxy = "none"
SkipStep(r) ==
  /\ InLoop("res", r) /\ r \in {"VCPU", "VPM", "VIRTIO", "WDOG"} /\ ~Requests(r) /\ TakeIrq(r)
  /\ IF r = "WDOG" /\ WdogRefused THEN FailsNow ELSE NextEntry
  /\ UNCHANGED <<dblVars, vmVars, orphans, irq, num, proxy, dblInit, whole, someone, clobbered, faults>>

\* gh_dbl_populate_cap_info; -EAGAIN, that is again, until the driver is there.
DblTxStep ==
  /\ InLoop("res", "DB_TX") /\ dblInit
  /\ \/ PopulateTx /\ UNCHANGED at
     \/ PopulateTxWake /\ at' = at + 1
  /\ UNCHANGED <<vmVars, orphans, ph, irq, irqMap, num, proxy, dblInit, whole, someone, clobbered, faults>>
DblRxStep ==
  /\ InLoop("res", "DB_RX") /\ dblInit
  /\ \/ PopulateRxIrq /\ GetIrq("DB_RX") # 0 /\ TakeIrq("DB_RX") /\ Requested("DB_RX") /\ UNCHANGED <<at, ph>>
     \/ PopulateRxIrqFails /\ GetIrq("DB_RX") # 0 /\ TakeIrq("DB_RX") /\ Requested("DB_RX") /\ FailsNow
     \/ rm = "rxirq" /\ GetIrq("DB_RX") = 0 /\ FailsNow /\ UNCHANGED <<dblVars, irqMap, num>>
     \/ PopulateRxCap /\ UNCHANGED <<at, ph, irqMap, num>>
     \/ PopulateRxWake /\ NextEntry /\ UNCHANGED <<irqMap, num>>
  /\ UNCHANGED <<vmVars, orphans, irq, proxy, dblInit, whole, someone, clobbered, faults>>

\* gh_populate_all_res_info(vmid, true).
LoadDone ==
  /\ ph = "res" /\ at > Len(list)
  /\ ph' = "on" /\ at' = 1 /\ whole' = TRUE
  /\ proxy' = IF proxied /\ proxy = "vcpus" THEN "active" ELSE proxy
  /\ UNCHANGED <<dblVars, vmVars, orphans, irq, irqMap, num, dblInit, someone, clobbered, faults>>

-----------------------------------------------------------------------------
(* gh_vm_cleanup: gh_rm_unpopulate_hyp_res, later gh_virtio_mmio_exit      *)

\* After a failed GET_HYP_RESOURCES everything stays as it is.
Unload ==
  /\ ph \in {"on", "failed"} /\ irq' = 0 /\ at' = 1
  /\ \/ /\ ph' = "unres" /\ NoFault
        /\ Unpopulate \/ PopulateStops \/ (rm = "untx" /\ UNCHANGED dblVars)
     \/ ph' = "leaked" /\ Fault /\ UNCHANGED dblVars
  /\ UNCHANGED <<vmVars, orphans, irqMap, num, proxy, dblInit, whole, someone, clobbered>>

\* The reset fails: the loop and the callback after it are skipped.
Stops ==
  /\ ph' = "cleanup" /\ at' = 1 /\ UNCHANGED <<irq, irqMap, num, clobbered>>
  /\ IF rm \in {"untx", "unrx"} THEN ResetStops ELSE UNCHANGED dblVars
\* *irq is set and put.
GivesBackStale(r) == irq' = irq /\ num' = [num EXCEPT ![r] = 0] /\ PutIrq(irq', "own") /\ NextEntry
GivesBack(r) == irq' = num[r] /\ num' = [num EXCEPT ![r] = 0] /\ PutIrq(irq', "own") /\ NextEntry
\* *irq is not set: what the previous resource left in it is put again.
PutsStale    == UNCHANGED <<irq, num>> /\ PutIrq(irq, "stale") /\ NextEntry

\* gh_msgq_reset_cap_info: no entry, or none with an interrupt of this direction.
HasEntry(r) == num[r] # 0 /\ r \notin orphans
ResetMq(r) ==
  /\ InLoop("unres", r) /\ r \in MqDirs
  /\ IF HasEntry(r) THEN GivesBack(r) /\ UNCHANGED dblVars ELSE Stops
  /\ UNCHANGED <<vmVars, orphans, proxy, dblInit, whole, someone, faults>>

\* gh_unpopulate_vm_vcpu_info only of an active VM, gh_unpopulate_vm_vpm_grp_info
\* of one with vcpus; virtio is left to gh_virtio_mmio_exit.
Resets(r) == num[r] # 0 /\ \/ r = "VCPU" /\ proxied /\ proxy = "active"
                           \/ r = "VPM" /\ proxied /\ proxy # "none"
ResetOther(r) ==
  /\ InLoop("unres", r) /\ r \in {"VCPU", "VPM", "VIRTIO"}
  /\ IF Resets(r) THEN GivesBack(r) ELSE PutsStale
  /\ UNCHANGED <<dblVars, vmVars, orphans, proxy, dblInit, whole, someone, faults>>
ResetWdog ==
  /\ InLoop("unres", "WDOG")
  /\ IF WdogRefused THEN Stops ELSE PutsStale /\ UNCHANGED dblVars
  /\ UNCHANGED <<vmVars, orphans, proxy, dblInit, whole, someone, faults>>

\* gh_dbl_reset_cap_info, with *irq = 0 for Tx.  Both wait for the driver too:
\* -EAGAIN is an error here.
ResetDblTx ==
  /\ InLoop("unres", "DB_TX")
  /\ IF dblInit THEN ResetTx /\ irq' = 0 /\ NextEntry /\ UNCHANGED <<irqMap, num, clobbered>> ELSE Stops
  /\ UNCHANGED <<vmVars, orphans, proxy, dblInit, whole, someone, faults>>
ResetDblRx ==
  /\ InLoop("unres", "DB_RX")
  /\ \/ rm = "unrx" /\ ~rxIrq /\ Stops
     \/ ResetRx /\ UNCHANGED <<ph, at, irq, irqMap, num, clobbered>>
     \/ ResetFree /\ GivesBack("DB_RX")
  /\ UNCHANGED <<vmVars, orphans, proxy, dblInit, whole, someone, faults>>

\* gh_populate_all_res_info(vmid, false).
UnloadDone ==
  /\ ph = "unres" /\ at > Len(list)
  /\ ph' = "cleanup" /\ at' = 1
  /\ proxy' = IF proxied /\ proxy = "active" THEN "none" ELSE proxy
  /\ UNCHANGED <<dblVars, vmVars, orphans, irq, irqMap, num, dblInit, whole, someone, clobbered, faults>>

\* gh_virtio_mmio_exit frees its interrupt but does not put it.
VirtioExit ==
  /\ ph = "cleanup" /\ ph' = "idle" /\ num' = [num EXCEPT !["VIRTIO"] = 0]
  /\ UNCHANGED <<dblVars, vmVars, orphans, at, irq, irqMap, proxy, dblInit, whole, someone, clobbered, faults>>

-----------------------------------------------------------------------------
\* The end of gh_dbl_init; its clients get -EAGAIN before.
DblInitForgotten == FALSE
DblInit ==
  /\ ~dblInit /\ dblInit' = TRUE
  /\ UNCHANGED <<dblVars, vmVars, orphans, ph, at, irq, irqMap, num, proxy, whole, someone, clobbered, faults>>
DblClients ==
  /\ dblInit /\ UNCHANGED resVars
  /\ (\E d \in Dirs : ClientNext(d)) \/ ThreadCheck \/ ThreadCall

LoadNext == VcpuStep \/ (\E r \in Res : RequestStep(r) \/ SkipStep(r)) \/ DblTxStep \/ DblRxStep \/ LoadDone
UnloadNext == (\E r \in Res : ResetMq(r) \/ ResetOther(r)) \/ ResetWdog \/ ResetDblTx \/ ResetDblRx
                \/ UnloadDone \/ VirtioExit

ResNext == Load \/ LoadNext \/ Unload \/ UnloadNext \/ OtherMaps \/ OtherUnmaps \/ DblInit \/ DblClients

ResSpec == ResInit /\ [][ResNext]_allVars

\* Loading and unloading go on, gh_dbl_init ends, and so do the threads of GhDbl
\* that are not asleep.  Unloading is strongly fair because free_irq silences the
\* interrupt before it waits: a doorbell that keeps ringing does not hold it up.
ResFairSpec ==
  /\ ResSpec
  /\ WF_allVars(LoadNext) /\ SF_allVars(UnloadNext) /\ WF_allVars(DblInit)
  /\ WF_allVars(ThreadCall /\ UNCHANGED resVars)
  /\ \A d \in Dirs : WF_allVars((WaitTest(d) \/ Hcall(d)) /\ UNCHANGED resVars)

-----------------------------------------------------------------------------
(* Properties                                                              *)

\* Has a driver that is to serve its interrupt when the VM is loaded.
Served(r) == \/ r \in MqDirs \cup {"DB_RX"}
             \/ r = "VIRTIO" /\ virtio
             \/ r \in {"VCPU", "VPM"} /\ proxy = "active"

\* When gh_rm_populate_hyp_res has succeeded every resource is connected: the
\* interrupt its driver requested is the one its own virq is mapped to, and both
\* doorbell capabilities are set, whatever the order of the list, the state the
\* previous load left and the interrupts others take meanwhile.
PopulateWires ==
  ph = "on" =>
    /\ \A r \in ToSet(list) \cap HasIrq : Served(r) => num[r] # 0 /\ irqMap[num[r]] = r
    /\ handler /\ capSet["TX"] /\ capSet["RX"]

\* At or behind a direction of the message queue whose entry was freed under its
\* interrupt: the unpopulating loop does not get past it.
Behind(r) == \E i, j \in DOMAIN list : i <= j /\ list[i] \in orphans /\ list[j] = r

\* gh_rm_unpopulate_hyp_res gives back what gh_rm_populate_hyp_res took.  After a
\* population that succeeded no driver keeps an interrupt; after one that failed
\* the proxy scheduler may keep its vcpus', and only when gh_msgq_populate_cap_info
\* freed the queue's entry under its first direction, that direction and what the
\* list has behind it keep theirs.  Of the mappings, a loop that came to its end leaves only
\* virtio's and, unless the proxy scheduler runs the VM, those of vcpus and VPM group.
\* And the number a driver reports is still its own when it is put: only one left in
\* irq by an earlier resource may meanwhile be somebody else's.
UnpopulateExact ==
  /\ ph = "idle" => \A r \in HasIrq : num[r] # 0 => ~whole /\ (r = "VCPU" \/ Behind(r))
  /\ ph = "unres" /\ at > Len(list) => \A k \in DOMAIN irqMap :
       irqMap[k] \in {Free, "other", "VIRTIO"} \/ (proxy # "active" /\ irqMap[k] \in {"VCPU", "VPM"})
  /\ "own" \notin clobbered

\* Loading ends once the doorbell driver is initialised, however often its answer
\* was -EAGAIN before, and unloading ends.
LoadEnds == /\ ph \in {"vcpus", "res"} ~> ph \in {"on", "failed"}
            /\ ph = "unres" ~> ph = "idle"
=============================================================================
