---------------------------- MODULE GhProxySched ----------------------------
(***************************************************************************)
(* The proxy scheduler, gh_proxy_sched.c: the table of proxy-scheduled VMs *)
(* (filled and emptied by the callbacks of gh_rm_populate_hyp_res and      *)
(* gh_rm_unpopulate_hyp_res), one thread per vcpu in gh_vcpu_run, the vcpu *)
(* interrupt handler, and gh_wakeup_all_vcpus, called by the VM's EXITED   *)
(* notification.  Nothing but the populate callbacks takes gh_vm_mutex.    *)
(*                                                                         *)
(* A vcpu is <<vm, n>>; n is the vcpu_id user space runs, and the order in *)
(* which the Resource Manager lists the vcpus.                             *)
(***************************************************************************)
EXTENDS Naturals, FiniteSets

CONSTANTS
  Vmids,       \* proxy-scheduled VMs
  PerVm,       \* vcpus of each VM
  NumSlots,    \* GH_MAX_VMS
  SlotVcpus,   \* GH_MAX_VCPUS_PER_VM
  MaxStarts,   \* bound on the number of times a VM is loaded
  MaxFails,    \* bound on request_irq and wakeup_source_register failures
  ExitAnswers  \* what gh_hcall_vcpu_run answers for a VM that has exited

ASSUME SizesAssumption ==
  /\ NumSlots \in Nat \ {0} /\ SlotVcpus \in Nat \ {0}
  /\ PerVm \in 1..SlotVcpus /\ MaxStarts \in Nat /\ MaxFails \in Nat
ASSUME AnswersAssumption == ExitAnswers # {} /\ ExitAnswers \subseteq {"WFI", "ERROR"}

NONE  == <<>>   \* GH_VMID_INVAL, GH_CAPID_INVAL, no handler
ASSUME VmidsAssumption == NONE \notin Vmids /\ IsFiniteSet(Vmids)

Slots == 1..NumSlots
Idx   == 0..(SlotVcpus - 1)
Vcpus == Vmids \X (0..(PerVm - 1))

VARIABLES
  slot,      \* [Slots -> record]: gh_vms
  nrVms, nrVcpus,
  handler,   \* [Vcpus -> NONE or <<slot, index>>]: gh_vcpu_irq_handler and its data
  phase,     \* [Vmids -> Phases]: where gh_main.c is with the VM
  next,      \* [Vmids -> 0..PerVm]: next vcpu resource to populate or unpopulate
  starts,    \* [Vmids -> 0..MaxStarts]
  kick,      \* [Vmids -> Slots]: the local variable vm of gh_wakeup_all_vcpus
  pc,        \* [Vcpus -> Steps]: gh_vcpu_run
  at,        \* [Vcpus -> Slots]: its local variable vm
  resp,      \* [Vcpus -> Answers]: ret and resp->vcpu_state
  sig,       \* threads with a signal pending
  wfi,       \* vcpus the hypervisor keeps waiting for an interrupt
  pend,      \* vcpus whose VIRQ is pending at the host
  freezes,   \* [Vcpus -> Nat]: FREEZE hypercalls not yet undone
  fails

slotVars == <<slot, nrVms, nrVcpus, handler>>
lifeVars == <<phase, next, starts, kick, fails>>
runVars  == <<pc, at, resp, sig, freezes>>
hypVars  == <<wfi, pend>>
vars == <<slotVars, lifeVars, runVars, hypVars>>

\* "exited": the VM is gone, its EXITED notification not handled yet;
\* "waking": gh_wakeup_all_vcpus has cleared is_active; "done": it returned.
Phases  == {"off", "vcpus", "allres", "up", "running", "exited", "waking", "done",
            "failed", "unvcpus", "unallres"}
Steps   == {"idle", "entry", "lookup", "reset", "hcall", "sleepchk", "sleep", "tail", "waitexit"}
Answers == {"READY", "RETRY", "WFI", "ERROR"}

\* gh_reset_vm.
EmptySlot == [id |-> NONE, count |-> 0, populated |-> FALSE, active |-> FALSE,
              cap |-> [x \in Idx |-> NONE], abort |-> [x \in Idx |-> FALSE],
              frozen |-> [x \in Idx |-> FALSE]]

TypeOK ==
  /\ \A i \in Slots : /\ slot[i].id \in Vmids \cup {NONE}
                      /\ slot[i].count \in 0..SlotVcpus
                      /\ slot[i].populated \in BOOLEAN /\ slot[i].active \in BOOLEAN
                      /\ slot[i].cap \in [Idx -> Vcpus \cup {NONE}]
                      /\ slot[i].abort \in [Idx -> BOOLEAN]
                      /\ slot[i].frozen \in [Idx -> BOOLEAN]
  /\ nrVms \in 0..NumSlots /\ nrVcpus \in 0..(NumSlots * SlotVcpus)
  /\ handler \in [Vcpus -> {NONE} \cup (Slots \X Idx)]
  /\ phase \in [Vmids -> Phases] /\ next \in [Vmids -> 0..PerVm]
  /\ starts \in [Vmids -> 0..MaxStarts] /\ kick \in [Vmids -> Slots]
  /\ pc \in [Vcpus -> Steps] /\ at \in [Vcpus -> Slots] /\ resp \in [Vcpus -> Answers]
  /\ sig \subseteq Vcpus /\ wfi \subseteq Vcpus /\ pend \subseteq Vcpus
  /\ freezes \in [Vcpus -> 0..2] /\ fails \in 0..MaxFails

\* gh_proxy_sched_init.
Init ==
  /\ slot = [i \in Slots |-> EmptySlot] /\ nrVms = 0 /\ nrVcpus = 0
  /\ handler = [v \in Vcpus |-> NONE]
  /\ phase = [m \in Vmids |-> "off"] /\ next = [m \in Vmids |-> 0]
  /\ starts = [m \in Vmids |-> 0] /\ kick = [m \in Vmids |-> 1] /\ fails = 0
  /\ pc = [v \in Vcpus |-> "idle"] /\ at = [v \in Vcpus |-> 1]
  /\ resp = [v \in Vcpus |-> "READY"] /\ sig = {}
  /\ wfi = {} /\ pend = {} /\ freezes = [v \in Vcpus |-> 0]

\* gh_get_vm: the first slot that is the VM's or free; when there is neither,
\* the loop ends on the last slot, whoever has it.
GetVm(m) ==
  LET hits == {i \in Slots : slot[i].id \in {m, NONE}}
  IN IF hits = {} THEN NumSlots ELSE CHOOSE i \in hits : \A j \in hits : i <= j

\* is_vm_supports_proxy, and gh_vm_supports_proxy_sched.
HasVcpus(m) == slot[GetVm(m)].id # NONE /\ slot[GetVm(m)].count > 0
SupportsProxy(m) == slot[GetVm(m)].populated /\ slot[GetVm(m)].count > 0

-----------------------------------------------------------------------------
(* Loading and destroying a VM, as gh_main.c and gh_rm_core.c drive it     *)

To(m, ph) == phase' = [phase EXCEPT ![m] = ph]

Load(m) ==
  /\ phase[m] = "off" /\ starts[m] < MaxStarts
  /\ starts' = [starts EXCEPT ![m] = @ + 1]
  /\ next' = [next EXCEPT ![m] = 0]
  /\ To(m, "vcpus")
  /\ UNCHANGED <<slotVars, kick, fails, runVars, hypVars>>

\* After gh_populate_vm_vcpu_info returned 0 for a vcpu, the next resource.
Advance(m) ==
  /\ next' = [next EXCEPT ![m] = @ + 1]
  /\ To(m, IF next[m] + 1 = PerVm THEN "allres" ELSE "vcpus")
  /\ UNCHANGED starts

RoomFor(i) == slot[i].count < SlotVcpus

\* gh_populate_vm_vcpu_info.  A slot that is populated already is left alone.
PopulateVcpu(m) ==
  LET i == GetVm(m)
      x == slot[i].count
      v == <<m, next[m]>>
      room == nrVcpus < NumSlots * SlotVcpus /\ RoomFor(i)
  IN
  /\ phase[m] = "vcpus"
  /\ \/ /\ slot[i].populated /\ nrVcpus < NumSlots * SlotVcpus
        /\ Advance(m) /\ UNCHANGED <<slotVars, fails>>
     \/ /\ ~slot[i].populated /\ room
        /\ handler' = [handler EXCEPT ![v] = <<i, x>>]
        /\ slot' = [slot EXCEPT ![i].id = m, ![i].cap[x] = v, ![i].count = @ + 1]
        /\ nrVcpus' = nrVcpus + 1
        /\ Advance(m) /\ UNCHANGED <<nrVms, fails>>
     \/ /\ ~slot[i].populated /\ room                 \* request_irq fails
        /\ fails < MaxFails /\ fails' = fails + 1
        /\ To(m, "failed") /\ UNCHANGED <<slotVars, next, starts>>
     \/ /\ ~slot[i].populated /\ room                 \* no wakeup source: ret stays 0
        /\ fails < MaxFails /\ fails' = fails + 1
        /\ Advance(m) /\ UNCHANGED slotVars
     \/ /\ nrVcpus >= NumSlots * SlotVcpus \/ (~slot[i].populated /\ ~RoomFor(i))
        /\ To(m, "failed") /\ UNCHANGED <<slotVars, next, starts, fails>>
  /\ UNCHANGED <<kick, runVars, hypVars>>

\* The limit on VMs is tested before either direction of the call.
AllResIgnored(m) == ~HasVcpus(m) \/ nrVms >= NumSlots

\* gh_populate_all_res_info(vmid, true).
PopulateAllRes(m) ==
  LET i == GetVm(m) IN
  /\ phase[m] = "allres"
  /\ IF AllResIgnored(m) \/ slot[i].populated THEN UNCHANGED <<slot, nrVms>>
     ELSE /\ slot' = [slot EXCEPT ![i].populated = TRUE, ![i].active = TRUE]
          /\ nrVms' = nrVms + 1
  /\ To(m, "up")
  /\ UNCHANGED <<nrVcpus, handler, next, starts, kick, fails, runVars, hypVars>>

\* gh_vm_start.
Start(m) ==
  /\ phase[m] = "up"
  /\ To(m, "running")
  /\ UNCHANGED <<slotVars, next, starts, kick, fails, runVars, hypVars>>

\* The VM shuts down, crashes or is stopped.
Exit(m) ==
  /\ phase[m] = "running"
  /\ To(m, "exited")
  /\ UNCHANGED <<slotVars, next, starts, kick, fails, runVars, hypVars>>

\* gh_notif_vm_exited sets EXITED and calls gh_wakeup_all_vcpus, which clears
\* is_active first ...
ExitDeactivate(m) ==
  /\ phase[m] = "exited"
  /\ kick' = [kick EXCEPT ![m] = GetVm(m)]
  /\ IF slot[GetVm(m)].active
       THEN To(m, "waking") /\ slot' = [slot EXCEPT ![GetVm(m)].active = FALSE]
       ELSE To(m, "done") /\ UNCHANGED slot
  /\ UNCHANGED <<nrVms, nrVcpus, handler, next, starts, fails, runVars, hypVars>>

\* ... and then wakes every vcpu (gh_vcpu_wake_up).
KickedButLast(i, x) == x + 1 < slot[i].count
Kicked(i, x) == x < slot[i].count
ExitWake(m) ==
  /\ phase[m] = "waking"
  /\ slot' = [slot EXCEPT ![kick[m]].abort = [x \in Idx |-> @[x] \/ Kicked(kick[m], x)]]
  /\ To(m, "done")
  /\ kick' = [kick EXCEPT ![m] = 1]
  /\ UNCHANGED <<nrVms, nrVcpus, handler, next, starts, fails, runVars, hypVars>>

\* The last reference is gone, so no thread runs a vcpu: gh_vm_cleanup.
Destroy(m) ==
  /\ phase[m] \in {"up", "done", "failed"}
  /\ \A v \in Vcpus : v[1] = m => pc[v] = "idle"
  /\ next' = [next EXCEPT ![m] = 0]
  /\ To(m, "unvcpus")
  /\ UNCHANGED <<slotVars, starts, kick, fails, runVars, hypVars>>

\* gh_unpopulate_vm_vcpu_info.
UnpopulateFindsButFirst(m, v) ==
  /\ HasVcpus(m) /\ slot[GetVm(m)].populated
  /\ \E x \in 1..(slot[GetVm(m)].count - 1) : slot[GetVm(m)].cap[x] = v
UnpopulateFinds(m, v) ==
  /\ HasVcpus(m) /\ slot[GetVm(m)].populated
  /\ \E x \in 0..(slot[GetVm(m)].count - 1) : slot[GetVm(m)].cap[x] = v
UnpopulateVcpu(m) ==
  LET v == <<m, next[m]>> IN
  /\ phase[m] = "unvcpus"
  /\ IF UnpopulateFinds(m, v)
       THEN /\ handler' = [handler EXCEPT ![v] = NONE]
            /\ nrVcpus' = IF nrVcpus > 0 THEN nrVcpus - 1 ELSE 0
       ELSE UNCHANGED <<handler, nrVcpus>>
  /\ next' = [next EXCEPT ![m] = @ + 1]
  /\ To(m, IF next[m] + 1 = PerVm THEN "unallres" ELSE "unvcpus")
  /\ UNCHANGED <<slot, nrVms, starts, kick, fails, runVars, hypVars>>

\* gh_populate_all_res_info(vmid, false); the VM and its vcpus are gone.
UnpopulateAllRes(m) ==
  LET i == GetVm(m)
      mine == {v \in Vcpus : v[1] = m} IN
  /\ phase[m] = "unallres"
  /\ IF AllResIgnored(m) \/ ~slot[i].populated THEN UNCHANGED <<slot, nrVms>>
     ELSE /\ slot' = [slot EXCEPT ![i] = EmptySlot]
          /\ nrVms' = IF nrVms > 0 THEN nrVms - 1 ELSE 0
  /\ wfi' = wfi \ mine /\ pend' = pend \ mine
  /\ freezes' = [v \in Vcpus |-> IF v \in mine THEN 0 ELSE freezes[v]]
  /\ To(m, "off")
  /\ UNCHANGED <<nrVcpus, handler, next, starts, kick, fails, pc, at, resp, sig>>

Life(m) == \/ Load(m) \/ PopulateVcpu(m) \/ PopulateAllRes(m) \/ Start(m) \/ Exit(m)
           \/ ExitDeactivate(m) \/ ExitWake(m) \/ Destroy(m) \/ UnpopulateVcpu(m)
           \/ UnpopulateAllRes(m)

-----------------------------------------------------------------------------
(* GH_VCPU_RUN: gh_vcpu_ioctl_run and gh_vcpu_run                          *)

Go(v, step) == pc' = [pc EXCEPT ![v] = step]
Gone(v) == phase[v[1]] \notin {"running"}

\* The fields of the vcpu the thread points at: its place in the slot is the
\* vcpu_id, whichever resource was populated there.
CapId(v)      == slot[at[v]].cap[v[2]]
AbortSleep(v) == slot[at[v]].abort[v[2]]
Frozen(v)     == slot[at[v]].frozen[v[2]]

\* The status is RUNNING, under vm_lock, until the notification is handled.
RunBegin(v) ==
  /\ pc[v] = "idle" /\ phase[v[1]] \in {"running", "exited"}
  /\ Go(v, "entry")
  /\ UNCHANGED <<slotVars, lifeVars, at, resp, sig, freezes, hypVars>>

\* A VM that is not in the table is taken for hypervisor-scheduled.
RunEntry(v) ==
  /\ pc[v] = "entry"
  /\ Go(v, IF SupportsProxy(v[1]) THEN "lookup" ELSE "waitexit")
  /\ UNCHANGED <<slotVars, lifeVars, at, resp, sig, freezes, hypVars>>

\* gh_vcpu_run looks the slot up once more and keeps it, or returns -EPERM.
RunLookup(v) ==
  LET i == GetVm(v[1])
      runs == slot[i].active /\ slot[i].cap[v[2]] # NONE IN
  /\ pc[v] = "lookup"
  /\ Go(v, IF runs THEN "reset" ELSE "idle")
  /\ at' = IF runs THEN [at EXCEPT ![v] = i] ELSE at
  /\ UNCHANGED <<slotVars, lifeVars, resp, sig, freezes, hypVars>>

\* gh_wait_for_vm_status_intr(EXITED).
RunWaitedExit(v) ==
  /\ pc[v] = "waitexit" /\ (phase[v[1]] \notin {"running", "exited"} \/ v \in sig)
  /\ Go(v, "idle") /\ sig' = sig \ {v}
  /\ UNCHANGED <<slotVars, lifeVars, at, resp, freezes, hypVars>>

\* "We're about to run the vcpu, so we can reset the abort-sleep flag."
RunReset(v) ==
  /\ pc[v] = "reset"
  /\ slot' = [slot EXCEPT ![at[v]].abort[v[2]] = FALSE]
  /\ Go(v, "hcall")
  /\ UNCHANGED <<nrVms, nrVcpus, handler, lifeVars, at, resp, sig, freezes, hypVars>>

\* What gh_hcall_vcpu_run may answer (external).  READY, BLOCKED and unknown
\* states only schedule(); EXPECTS_WAKEUP and POWERED_OFF are "WFI".
HcallAnswers(v) == IF Gone(v) THEN ExitAnswers
                   ELSE IF CapId(v) \in wfi THEN {"WFI"} ELSE {"READY", "RETRY", "WFI"}

\* With preemption off: unfreeze the watchdog, run, and freeze it again when
\* a READY vcpu is to be descheduled.
RunHcall(v) ==
  /\ pc[v] = "hcall"
  /\ \E a \in HcallAnswers(v), resched \in BOOLEAN :
       LET freeze == a = "READY" /\ resched IN
       /\ resp' = [resp EXCEPT ![v] = IF a = "ERROR" THEN a ELSE "READY"]  \* all that is read later
       /\ slot' = [slot EXCEPT ![at[v]].frozen[v[2]] = freeze]
       /\ freezes' = [freezes EXCEPT ![v] = @ - (IF Frozen(v) THEN 1 ELSE 0)
                                              + (IF freeze THEN 1 ELSE 0)]
       /\ wfi' = IF a = "WFI" /\ ~Gone(v) THEN wfi \cup {CapId(v)} ELSE wfi
       /\ Go(v, IF a = "WFI" THEN "sleepchk" ELSE "tail")
  /\ UNCHANGED <<nrVms, nrVcpus, handler, lifeVars, at, sig, pend>>

\* gh_vcpu_sleep.
RunSleep(v) ==
  /\ pc[v] = "sleepchk"
  /\ Go(v, IF ~AbortSleep(v) /\ v \notin sig THEN "sleep" ELSE "tail")
  /\ UNCHANGED <<slotVars, lifeVars, at, resp, sig, freezes, hypVars>>

\* wait_event_interruptible(wait_queue, abort_sleep).
RunWake(v) ==
  /\ pc[v] = "sleep" /\ (AbortSleep(v) \/ v \in sig)
  /\ Go(v, "tail")
  /\ UNCHANGED <<slotVars, lifeVars, at, resp, sig, freezes, hypVars>>

\* The signal path freezes the watchdog unless it is frozen already.
SignalFreezeAgain(v) == TRUE
SignalFreeze(v) == ~Frozen(v)

\* The end of the loop body: a signal, an error, or once more while is_active.
RunTail(v) ==
  LET again == v \notin sig /\ resp[v] # "ERROR" /\ slot[at[v]].active IN
  /\ pc[v] = "tail"
  /\ IF v \in sig
       THEN /\ sig' = sig \ {v}
            /\ slot' = [slot EXCEPT ![at[v]].frozen[v[2]] = TRUE]
            /\ freezes' = [freezes EXCEPT ![v] = @ + (IF SignalFreeze(v) THEN 1 ELSE 0)]
       ELSE UNCHANGED <<slot, freezes, sig>>
  /\ Go(v, IF again THEN "reset" ELSE "idle")
  /\ resp' = [resp EXCEPT ![v] = "READY"]
  /\ at' = IF again THEN at ELSE [at EXCEPT ![v] = 1]      \* the locals are gone
  /\ UNCHANGED <<nrVms, nrVcpus, handler, lifeVars, hypVars>>

\* A signal for a thread in gh_vcpu_run.
Signal(v) ==
  /\ pc[v] \in {"waitexit", "reset", "hcall", "sleepchk", "sleep", "tail"} /\ v \notin sig
  /\ sig' = sig \cup {v}
  /\ UNCHANGED <<slotVars, lifeVars, pc, at, resp, freezes, hypVars>>

Run(v) == \/ RunBegin(v) \/ RunEntry(v) \/ RunLookup(v) \/ RunWaitedExit(v) \/ RunReset(v)
          \/ RunHcall(v) \/ RunSleep(v) \/ RunWake(v) \/ RunTail(v)

-----------------------------------------------------------------------------
(* Interrupts                                                              *)

\* The hypervisor (external): an interrupt for a waiting vcpu raises its VIRQ.
VirqRaise(v) ==
  /\ v \in wfi /\ ~Gone(v)
  /\ wfi' = wfi \ {v} /\ pend' = pend \cup {v}
  /\ UNCHANGED <<slotVars, lifeVars, runVars>>

\* gh_vcpu_irq_handler under gh_vm_lock: gh_vcpu_wake_up.
IrqWakesSleeper(i, x) == /\ slot[i].populated
                         /\ \E v \in Vcpus : pc[v] = "sleep" /\ at[v] = i /\ v[2] = x
IrqWakes(i, x) == slot[i].populated
IrqHandler(v) ==
  /\ v \in pend /\ handler[v] # NONE
  /\ pend' = pend \ {v}
  /\ LET i == handler[v][1]
         x == handler[v][2] IN
     slot' = IF IrqWakes(i, x) THEN [slot EXCEPT ![i].abort[x] = TRUE] ELSE slot
  /\ UNCHANGED <<nrVms, nrVcpus, handler, lifeVars, runVars, wfi>>

Next ==
  \/ \E m \in Vmids : Life(m)
  \/ \E v \in Vcpus : Run(v) \/ Signal(v) \/ VirqRaise(v) \/ IrqHandler(v)

Spec == Init /\ [][Next]_vars

\* Threads that can run do, interrupts are delivered and the EXITED
\* notification is handled.  User space and the guest owe nothing.
Fairness ==
  /\ \A v \in Vcpus : /\ WF_vars(RunEntry(v) \/ RunLookup(v) \/ RunWaitedExit(v) \/ RunReset(v) \/ RunHcall(v)
                                 \/ RunSleep(v) \/ RunWake(v) \/ RunTail(v))
                      /\ WF_vars(IrqHandler(v))
  /\ \A m \in Vmids : WF_vars(ExitDeactivate(m) \/ ExitWake(m))
FairSpec == Spec /\ Fairness

-----------------------------------------------------------------------------
(* Properties                                                              *)

\* A vcpu thread does not sleep through its interrupt: while it is asleep with
\* nothing to wake it, the vcpu it runs waits in the hypervisor or has its VIRQ
\* pending, and the handler of that VIRQ wakes this thread.  As long as no population
\* failed halfway: gh_populate_vm_vcpu_info never undoes that, and the next load
\* fills the slot from where it stopped, so that vcpu_id and index part.
NoLostVirq ==
  fails = 0 => \A v \in Vcpus :
    pc[v] = "sleep" /\ ~AbortSleep(v) /\ ~Gone(v) =>
      /\ CapId(v) \in wfi \cup pend
      /\ handler[CapId(v)] = <<at[v], v[2]>> /\ slot[at[v]].populated

\* The watchdog's FREEZE and UNFREEZE are balanced for each vcpu, and the vcpu
\* enters the guest with its own freeze undone: wdog_frozen tells the truth.
WdogBalanced ==
  \A v \in Vcpus :
    /\ freezes[v] <= 1
    /\ pc[v] \notin {"idle", "entry", "lookup", "waitexit"} => freezes[v] = IF Frozen(v) THEN 1 ELSE 0

\* Once the exit notification has woken the vcpus, none of their threads is
\* asleep in gh_vcpu_run with nothing to wake it.
ExitReachesSleepers ==
  \A v \in Vcpus :
    phase[v[1]] = "done" /\ pc[v] = "sleep" => AbortSleep(v) \/ v \in sig

\* A VM that was loaded, also for the second time, has all its vcpus in the slot
\* gh_get_vm finds, each with its interrupt handler, so that GH_VCPU_RUN can run and
\* wake them; a destroyed one leaves no interrupt handler and no slot behind: again
\* as long as no population failed halfway.
Wired(m, i) ==
  /\ slot[i].id = m /\ slot[i].active /\ slot[i].count = PerVm
  /\ \A n \in 0..(PerVm - 1) : slot[i].cap[n] = <<m, n>> /\ handler[<<m, n>>] = <<i, n>>
SlotsBalanced ==
  fails = 0 => \A m \in Vmids :
    /\ phase[m] \in {"up", "running"} => Wired(m, GetVm(m))
    /\ phase[m] = "off" => /\ \A v \in Vcpus : v[1] = m => handler[v] = NONE
                           /\ \A i \in Slots : slot[i].id # m

\* GH_VCPU_RUN returns once the VM has exited.
RunReturnsAfterExit ==
  \A v \in Vcpus : pc[v] # "idle" /\ phase[v[1]] = "exited" ~> pc[v] = "idle"
=============================================================================
