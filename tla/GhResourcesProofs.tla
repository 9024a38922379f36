-------------------------- MODULE GhResourcesProofs --------------------------
(***************************************************************************)
(* Theorems about GhDbl, for any number of registrations, loads and        *)
(* failures, and about GhResources, which drives it: for any resource      *)
(* lists, interrupt numbers, loads, failures and interrupts of others.     *)
(***************************************************************************)
EXTENDS GhResources, WellFoundedInduction, TLAPS

-----------------------------------------------------------------------------
(* Type correctness                                                        *)

\* The types of one client's data, of the capabilities and of the driver's steps.
EntryType ==
  /\ clientDesc \in 0..MaxDescs /\ descs \in 0..MaxDescs /\ live \subseteq 1..MaxDescs
  /\ held \in [Dirs -> 0..MaxDescs] /\ regDone \in [Dirs -> BOOLEAN] /\ rxCallback \in BOOLEAN
CapType == capSet \in [Dirs -> BOOLEAN] /\ rxIrq \in BOOLEAN /\ handler \in BOOLEAN
StepType ==
  /\ call \in [Dirs -> {"idle", "test", "sleep", "hcall"}] /\ thread \in {"idle", "checked"}
  /\ rm \in {"off", "kept", "tx", "txwake", "rxirq", "rxcap", "rxwake", "on", "untx", "unrx", "free"}
  /\ loads \in 0..MaxLoads /\ fails \in 0..MaxFails

LEMMA TypeParts == TypeOK <=> EntryType /\ CapType /\ StepType
  BY Zenon DEF TypeOK, EntryType, CapType, StepType

LEMMA ClientEntryType ==
  ASSUME EntryType, NEW d \in Dirs, Register(d) \/ Unregister(d) PROVE EntryType'
<1>1. clientDesc' \in 0..MaxDescs /\ descs' \in 0..MaxDescs /\ live' \subseteq 1..MaxDescs
  <2>1. CASE Register(d) /\ clientDesc # NULL
    BY <2>1 DEF EntryType, Register
  <2>2. CASE Register(d) /\ clientDesc = NULL
    <3>1. descs + 1 \in 1..MaxDescs /\ descs + 1 \in 0..MaxDescs
      BY <2>2, DblAssumption DEF EntryType, Register
    <3>2. descs' = descs + 1 /\ clientDesc' = descs + 1 /\ live' = live \cup {descs + 1}
      BY <2>2 DEF Register
    <3> QED
      BY <3>1, <3>2 DEF EntryType
  <2>3. CASE Unregister(d)
    <3>1. 0 \in 0..MaxDescs
      BY DblAssumption
    <3> QED
      BY <2>3, <3>1 DEF EntryType, Unregister, NULL
  <2> QED
    BY <2>1, <2>2, <2>3
<1>2. held' \in [Dirs -> 0..MaxDescs]
  <2>1. CASE held' = [held EXCEPT ![d] = clientDesc']
    BY <1>1, <2>1 DEF EntryType
  <2>2. CASE held' = [held EXCEPT ![d] = 0]
    BY <2>2, DblAssumption DEF EntryType
  <2> QED
    BY <2>1, <2>2 DEF Register, Unregister, NULL
<1>3. regDone' \in [Dirs -> BOOLEAN] /\ rxCallback' \in BOOLEAN
  <2>1. CASE regDone' = [regDone EXCEPT ![d] = TRUE] /\ CallbackSet(d, TRUE)
    BY <2>1, Zenon DEF EntryType, CallbackSet
  <2>2. CASE regDone' = [regDone EXCEPT ![d] = FALSE] /\ CallbackSet(d, FALSE)
    BY <2>2, Zenon DEF EntryType, CallbackSet
  <2> QED
    BY <2>1, <2>2 DEF Register, Unregister
<1> QED
  BY <1>1, <1>2, <1>3 DEF EntryType

LEMMA ClientStepType == ASSUME StepType, NEW d \in Dirs, ClientNext(d) PROVE StepType'
  BY DEF StepType, ClientNext, Register, Unregister, Validate, WaitTest, WaitSignal, Hcall, CallTo, rmVars

LEMMA DriverCapType == ASSUME CapType, PopulateNext \/ ResetNext PROVE CapType'
<1>1. CASE PopulateTx \/ PopulateRxCap
  BY <1>1, Zenon DEF CapType, PopulateTx, PopulateRxCap
<1>2. CASE ResetTx \/ ResetRx
  BY <1>2, Zenon DEF CapType, ResetTx, ResetRx
<1>3. CASE PopulateTxWake \/ PopulateRxWake
  BY <1>3, Zenon DEF CapType, PopulateTxWake, PopulateRxWake, Wake, capVars
<1>4. CASE PopulateRxIrq \/ PopulateRxIrqFails \/ ResetFree
  BY <1>4, Zenon DEF CapType, PopulateRxIrq, PopulateRxIrqFails, ResetFree
<1>5. CASE PopulateStops \/ ResetStops
  BY <1>5, Zenon DEF CapType, PopulateStops, ResetStops, capVars
<1> QED
  BY <1>1, <1>2, <1>3, <1>4, <1>5 DEF PopulateNext, ResetNext

LEMMA DriverStepType ==
  ASSUME StepType, Populate \/ Unpopulate \/ PopulateNext \/ ResetNext PROVE StepType'
<1> USE DblAssumption DEF StepType, RmTo, RmOnly
<1>1. CASE Populate \/ Unpopulate
  BY <1>1 DEF Populate, Unpopulate
<1>2. CASE PopulateTxWake \/ PopulateRxWake
  BY <1>2 DEF PopulateTxWake, PopulateRxWake, Wake, Woken
<1>3. CASE PopulateTx \/ PopulateRxIrq \/ PopulateRxIrqFails \/ PopulateRxCap
  BY <1>3 DEF PopulateTx, PopulateRxIrq, PopulateRxIrqFails, PopulateRxCap
<1>4. CASE ResetTx \/ ResetFree
  BY <1>4 DEF ResetTx, ResetFree
<1>5. CASE ResetRx
  BY <1>5 DEF ResetRx
<1>6. CASE PopulateStops \/ ResetStops
  BY <1>6 DEF PopulateStops, ResetStops
<1> QED
  BY <1>1, <1>2, <1>3, <1>4, <1>5, <1>6 DEF PopulateNext, ResetNext

\* Every variable of the label's entry, its clients and the resource loop keeps
\* its type.
THEOREM TypeCorrect == Spec => []TypeOK
<1>1. Init => TypeOK
  <2> SUFFICES ASSUME Init PROVE EntryType /\ CapType /\ StepType
    BY TypeParts
  <2>1. CapType /\ regDone \in [Dirs -> BOOLEAN] /\ rxCallback \in BOOLEAN
    BY Zenon DEF Init, CapType
  <2>2. StepType
    BY DblAssumption DEF Init, StepType
  <2>3. EntryType
    BY <2>1, DblAssumption DEF Init, EntryType, NULL
  <2> QED
    BY <2>1, <2>2, <2>3
<1>2. TypeOK /\ [Next]_vars => TypeOK'
  <2> SUFFICES ASSUME EntryType, CapType, StepType, [Next]_vars
               PROVE  EntryType' /\ CapType' /\ StepType'
    BY Zenon DEF TypeOK, EntryType, CapType, StepType
  <2>1. UNCHANGED entryVars => EntryType'
    BY DEF entryVars, EntryType
  <2>2. UNCHANGED capVars => CapType'
    BY DEF capVars, CapType
  <2>3. ASSUME NEW d \in Dirs, ClientNext(d) PROVE EntryType' /\ CapType' /\ StepType'
    BY <2>1, <2>2, <2>3, ClientEntryType, ClientStepType
       DEF ClientNext, Register, Unregister, Validate, WaitTest, WaitSignal, Hcall, CallTo
  <2>4. CASE ThreadCheck \/ ThreadCall
    BY <2>1, <2>2, <2>4 DEF ThreadCheck, ThreadCall, StepType, rmVars
  <2>5. CASE Populate \/ Unpopulate
    BY <2>1, <2>2, <2>5, DriverStepType DEF Populate, Unpopulate, RmOnly
  <2>6. CASE PopulateNext \/ ResetNext
    <3>1. UNCHANGED entryVars
      BY <2>6 DEF PopulateNext, PopulateTx, PopulateTxWake, PopulateRxIrq, PopulateRxIrqFails, PopulateRxCap,
                  PopulateRxWake, Wake, PopulateStops, ResetNext, ResetTx, ResetRx, ResetFree, ResetStops, RmOnly
    <3> QED
      BY <2>1, <2>6, <3>1, DriverCapType, DriverStepType
  <2>7. CASE UNCHANGED vars
    BY <2>1, <2>2, <2>7 DEF vars, StepType, rmVars
  <2> QED
    BY <2>3, <2>4, <2>5, <2>6, <2>7 DEF Next
<1> QED
  BY <1>1, <1>2, PTL DEF Spec

-----------------------------------------------------------------------------
(* The shared descriptor                                                   *)

\* Registration and possession of the descriptor go together, and a descriptor
\* is allocated exactly while some client is registered.
DescInv ==
  /\ clientDesc \in Nat /\ descs \in Nat
  /\ regDone \in [Dirs -> BOOLEAN] /\ held \in [Dirs -> Nat]
  /\ \A d \in Dirs : /\ regDone[d] => held[d] = clientDesc /\ held[d] # NULL
                     /\ ~regDone[d] => held[d] = NULL
  /\ live = IF \E d \in Dirs : regDone[d] THEN {clientDesc} ELSE {}
  /\ (\A d \in Dirs : ~regDone[d]) => clientDesc = NULL

LEMMA RegisterDesc == ASSUME DescInv, NEW d \in Dirs, Register(d) PROVE DescInv'
<1> USE DEF DescInv, Dirs, NULL
<1>1. clientDesc' \in Nat /\ clientDesc' # 0 /\ descs' \in Nat /\ live' = {clientDesc'}
  BY DEF Register
<1>2. clientDesc # 0 => clientDesc' = clientDesc
  BY DEF Register
<1>3. regDone' = [regDone EXCEPT ![d] = TRUE] /\ held' = [held EXCEPT ![d] = clientDesc']
  BY DEF Register
<1>4. regDone' \in [Dirs -> BOOLEAN]
  BY <1>3, Zenon DEF Dirs
<1> QED
  BY <1>1, <1>2, <1>3, <1>4

LEMMA UnregisterDesc == ASSUME DescInv, NEW d \in Dirs, Unregister(d) PROVE DescInv'
<1> USE DEF DescInv, Dirs, NULL
<1>1. regDone' = [regDone EXCEPT ![d] = FALSE] /\ held' = [held EXCEPT ![d] = 0]
  BY DEF Unregister
<1>2. regDone' \in [Dirs -> BOOLEAN]
  BY <1>1, Zenon DEF Dirs
<1> QED
  BY <1>1, <1>2 DEF Unregister, LastOut, Other

LEMMA DescStep == DescInv /\ [Next]_vars => DescInv'
<1> SUFFICES ASSUME DescInv, [Next]_vars PROVE DescInv'
  OBVIOUS
<1>1. CASE UNCHANGED entryVars
  BY <1>1 DEF entryVars, DescInv
<1>2. ASSUME NEW d \in Dirs, ClientNext(d) PROVE DescInv'
  BY <1>1, <1>2, RegisterDesc, UnregisterDesc
     DEF ClientNext, Validate, WaitTest, WaitSignal, Hcall, CallTo
<1>3. CASE ThreadCheck \/ ThreadCall
  BY <1>1, <1>3 DEF ThreadCheck, ThreadCall
<1>4. CASE Populate \/ Unpopulate \/ PopulateNext
  BY <1>1, <1>4 DEF Populate, Unpopulate, PopulateNext, PopulateTx, PopulateTxWake, PopulateRxIrq,
                    PopulateRxIrqFails, PopulateRxCap, PopulateRxWake, Wake, PopulateStops, RmOnly
<1>5. CASE ResetNext
  BY <1>1, <1>5 DEF ResetNext, ResetTx, ResetRx, ResetFree, ResetStops, RmOnly
<1>6. CASE UNCHANGED vars
  BY <1>1, <1>6 DEF vars
<1> QED
  BY <1>2, <1>3, <1>4, <1>5, <1>6 DEF Next

\* gh_dbl_tx_unregister and gh_dbl_rx_unregister never free the descriptor the
\* other client holds, and the last of them frees it.
THEOREM DescriptorOwned == Spec => []DescOwned
<1>1. Init => DescInv
  BY DEF Init, DescInv, Dirs, NULL
<1>2. DescInv => DescOwned
  BY DEF DescInv, DescOwned, Dirs, NULL
<1> QED
  BY <1>1, <1>2, DescStep, PTL DEF Spec

-----------------------------------------------------------------------------
(* The Rx handler                                                          *)

\* A handler stays installed until the free of its interrupt, with rx_irq set until gh_dbl_reset_cap_info has read it; only it starts the
\* callback thread.
HandlerInv ==
  /\ handler => rm # "off"
  /\ handler /\ rm # "free" => rxIrq
  /\ thread \in {"idle", "checked"} /\ (thread = "checked" => handler)

LEMMA HandlerStep == HandlerInv /\ [Next]_vars => HandlerInv'
<1> SUFFICES ASSUME HandlerInv, [Next]_vars PROVE HandlerInv'
  OBVIOUS
<1> USE DEF HandlerInv
<1>1. CASE UNCHANGED <<capVars, thread, rm>>
  BY <1>1 DEF capVars
<1>2. ASSUME NEW d \in Dirs, ClientNext(d) PROVE HandlerInv'
  BY <1>1, <1>2 DEF ClientNext, Register, Unregister, Validate, WaitTest, WaitSignal, Hcall, CallTo, rmVars
<1>3. CASE ThreadCheck \/ ThreadCall
  BY <1>3 DEF ThreadCheck, ThreadCall, capVars, rmVars
<1>4. CASE Populate \/ Unpopulate \/ PopulateTx \/ PopulateTxWake
  BY <1>4 DEF Populate, Unpopulate, PopulateTx, PopulateTxWake, Wake, RmTo, RmOnly, capVars
<1>5. CASE PopulateRxIrq \/ PopulateRxIrqFails \/ PopulateRxCap \/ PopulateRxWake
  BY <1>5 DEF PopulateRxIrq, PopulateRxIrqFails, PopulateRxCap, PopulateRxWake, Wake, RmTo, RmOnly, capVars
<1>6. CASE ResetNext
  BY <1>6 DEF ResetNext, ResetTx, ResetRx, ResetIrq, ResetFree, ResetStops, RmTo, RmOnly, capVars
<1>7. CASE PopulateStops
  BY <1>7 DEF PopulateStops, RmOnly, capVars
<1>8. CASE UNCHANGED vars
  BY <1>1, <1>8 DEF vars, rmVars
<1> QED
  BY <1>2, <1>3, <1>4, <1>5, <1>6, <1>7, <1>8 DEF Next, PopulateNext

\* After gh_dbl_reset_cap_info no handler is left and no callback runs.
THEOREM HandlerGone == Spec => []NoHandlerAfterReset
<1>1. Init => HandlerInv
  BY DEF Init, HandlerInv
<1>2. HandlerInv => NoHandlerAfterReset
  BY DEF HandlerInv, NoHandlerAfterReset
<1> QED
  BY <1>1, <1>2, HandlerStep, PTL DEF Spec

-----------------------------------------------------------------------------
(* The resource loops implement GhDbl                                      *)

\* What the loops do with the doorbells is what GhDbl allows: every step of
\* GhResources is a step of the doorbell driver, of one of its clients, or none.
LEMMA DoorbellStep == [ResNext]_allVars => [Next]_vars
<1> SUFFICES ASSUME [ResNext]_allVars PROVE Next \/ UNCHANGED vars
  OBVIOUS
<1>1. CASE Load
  BY <1>1 DEF Load, Next
<1>2. CASE LoadNext
  <2>1. CASE VcpuStep \/ LoadDone \/ \E r \in Res : RequestStep(r) \/ SkipStep(r)
    BY <2>1 DEF VcpuStep, LoadDone, RequestStep, SkipStep, dblVars
  <2>2. CASE DblTxStep
    BY <2>2 DEF DblTxStep, Next, PopulateNext
  <2>3. CASE DblRxStep
    BY <2>3 DEF DblRxStep, Next, PopulateNext, dblVars
  <2> QED
    BY <1>2, <2>1, <2>2, <2>3 DEF LoadNext
<1>3. CASE Unload
  BY <1>3 DEF Unload, Next, PopulateNext, dblVars
<1>4. CASE UnloadNext
  <2>0. Stops => Next \/ UNCHANGED vars
    BY DEF Stops, Next, ResetNext, dblVars
  <2>1. CASE ResetWdog \/ \E r \in Res : ResetMq(r)
    BY <2>0, <2>1 DEF ResetMq, ResetWdog, dblVars
  <2>2. CASE UnloadDone \/ VirtioExit \/ \E r \in Res : ResetOther(r)
    BY <2>2 DEF UnloadDone, VirtioExit, ResetOther, dblVars
  <2>3. CASE ResetDblTx
    BY <2>0, <2>3 DEF ResetDblTx, Next, ResetNext
  <2>4. CASE ResetDblRx
    BY <2>0, <2>4 DEF ResetDblRx, Next, ResetNext
  <2> QED
    BY <1>4, <2>1, <2>2, <2>3, <2>4 DEF UnloadNext
<1>5. CASE OtherMaps \/ OtherUnmaps \/ DblInit
  BY <1>5 DEF OtherMaps, OtherUnmaps, DblInit, dblVars
<1>6. CASE DblClients
  BY <1>6 DEF DblClients, Next
<1>7. CASE UNCHANGED allVars
  BY <1>7 DEF allVars, dblVars
<1> QED
  BY <1>1, <1>2, <1>3, <1>4, <1>5, <1>6, <1>7 DEF ResNext

\* gh_rm_populate_hyp_res and gh_rm_unpopulate_hyp_res use the doorbell driver as
\* GhDbl assumes: a behaviour of the two loops is one of GhDbl, so what is proved of
\* the doorbells holds when the loops drive them.
THEOREM DoorbellsImplemented == ResSpec => Spec
<1>1. ResInit => Init
  BY DEF ResInit
<1> QED
  BY <1>1, DoorbellStep, PTL DEF ResSpec, Spec

\* In the composition too, no client's descriptor is freed under it and no handler
\* outlives gh_dbl_reset_cap_info.
THEOREM DoorbellsStaySound == ResSpec => [](DescOwned /\ NoHandlerAfterReset)
  BY DoorbellsImplemented, DescriptorOwned, HandlerGone, PTL

-----------------------------------------------------------------------------
(* The inductive invariant of the resource loops                           *)

Places == 1..Len(list)

ResType ==
  /\ list \in Lists /\ sched \in {"absent", "skips", "takes"}
  /\ ph \in {"idle", "vcpus", "res", "failed", "on", "unres", "cleanup", "leaked"}
  /\ at \in 1..(Len(list) + 1) /\ irq \in 0..NumIrqs /\ other \in 0..NumIrqs
  /\ irqMap \in [1..NumIrqs -> {Free, "other"} \cup HasIrq] /\ num \in [HasIrq -> 0..NumIrqs]
  /\ proxy \in {"none", "vcpus", "active"} /\ clobbered \subseteq {"own", "stale"}

\* The interrupts.  The number a driver has stored is mapped to its own virq, no
\* virq is mapped twice, only resources of the list have one, somebody else's is
\* where it was mapped until it is clobbered, and what is left in irq of the
\* unpopulating loop is no longer any resource's.
Own    == \A r \in HasIrq : num[r] # 0 => irqMap[num[r]] = r
Once   == \A j, k \in 1..NumIrqs : irqMap[j] = irqMap[k] /\ irqMap[j] # Free => j = k
Known  == /\ \A k \in 1..NumIrqs : irqMap[k] \in HasIrq => irqMap[k] \in ToSet(list)
          /\ \A r \in HasIrq : num[r] # 0 => r \in ToSet(list)
Others == /\ clobbered = {} => \A k \in 1..NumIrqs : irqMap[k] = "other" <=> k = other
          /\ "own" \notin clobbered
Stale  == ph = "unres" /\ irq # 0 => irqMap[irq] \in {Free, "other"}
Numbers == Own /\ Once /\ Known /\ Others /\ Stale

\* What is true of a resource the populating loop has passed, has not reached, and
\* which the unpopulating loop has passed.  The vcpus are populated by a loop of
\* their own before.  A direction of the queue whose entry was freed is out of the
\* unpopulating loop's reach, and so is what lies behind it.
Passed(r) ==
  /\ r \in MqDirs => HasEntry(r)
  /\ r = "DB_RX" \/ (r = "VIRTIO" /\ virtio) => num[r] # 0
  /\ r = "VCPU" /\ proxy = "active" => num[r] # 0
  /\ r = "VPM" /\ proxied /\ proxy # "none" => num[r] # 0
  /\ r = "WDOG" => ~WdogRefused
  /\ r = "DB_TX" => dblInit
Untouched(r) == r \in HasIrq \ {"VCPU"} => num[r] = 0 \/ Behind(r)
Unused(r) == r \in MqDirs \cup {"VPM", "DB_RX"} \/ (r = "VCPU" /\ proxy = "active") => num[r] = 0
Unmapped(r) ==
  r \in MqDirs \cup {"DB_RX"} \/ (r \in {"VCPU", "VPM"} /\ proxy = "active") => \A k \in 1..NumIrqs : irqMap[k] # r
Returned(r) == Unused(r) /\ Unmapped(r)

\* From place n on, what has been touched lies behind nothing but what was passed:
\* where a reset fails for want of a population, nothing after it needs a reset.
InOrder(n) == \A i, j \in Places : n <= i /\ i < j /\ ~Untouched(list[j]) => Passed(list[i])

\* Every load that finds an orphan fails on it: -EBUSY.
Orphaned ==
  /\ orphans \subseteq MqDirs /\ \A r \in orphans : num[r] # 0
  /\ orphans # {} => ~whole
Loading ==
  /\ Orphaned
  /\ ph \in {"idle", "vcpus"} => \A r \in HasIrq : num[r] # 0 => ~whole /\ (r = "VCPU" \/ Behind(r))
  /\ ph = "res" => \A i \in Places : (i < at => Passed(list[i])) /\ (i > at => Untouched(list[i]))
  /\ ph = "failed" => InOrder(1)
  /\ ph = "on" => \A i \in Places : Passed(list[i])
  /\ ph \in {"vcpus", "res", "failed"} => ~whole
Unloading ==
  /\ ph = "unres" => /\ InOrder(at)
                     /\ \A i \in Places : (i < at => Returned(list[i])) /\ (whole /\ i >= at => Passed(list[i]))
  /\ ph = "cleanup" => \A r \in HasIrq : num[r] # 0 => r = "VIRTIO" \/ (~whole /\ (r = "VCPU" \/ Behind(r)))

\* The proxy scheduler's slot and the interrupts it keeps.
Proxy ==
  /\ num["VCPU"] # 0 \/ num["VPM"] # 0 => proxied /\ proxy # "none"
  /\ proxy = "vcpus" => num["VCPU"] # 0
  /\ proxy = "active" => proxied /\ whole /\ ph \in {"on", "unres", "leaked"}
  /\ whole /\ ph \in {"on", "unres"} => proxy # "vcpus"

\* The doorbells: capabilities and handler by step, and the number of the Rx
\* doorbell is stored exactly while rx_irq is set or about to be freed.
InUse == {"rxcap", "rxwake", "on"}
Bell ==
  /\ rm \in {"txwake", "rxirq"} \cup InUse => capSet["TX"]
  /\ rm \in InUse => handler
  /\ rm \in {"rxwake", "on"} => capSet["RX"]
  /\ ph = "on" => rm = "on"
  /\ ph = "res" => \A i \in Places : list[i] = "DB_RX" /\ i < at => rm = "on"
  /\ rm = "free" => ~rxIrq /\ num["DB_RX"] # 0
  /\ rm # "free" => (rxIrq <=> num["DB_RX"] # 0)

ResInv == ResType /\ Numbers /\ Loading /\ Unloading /\ Proxy /\ Bell

-----------------------------------------------------------------------------
(* Lists and interrupt numbers                                             *)

LEMMA ListFacts ==
  ASSUME list \in Lists
  PROVE  /\ Len(list) \in Nat /\ list \in [Places -> Res]
         /\ \A i, j \in Places : list[i] = list[j] => i = j
         /\ \A x : x \in ToSet(list) <=> \E i \in Places : list[i] = x
         /\ \E i, j \in Places : list[i] = "DB_TX" /\ list[j] = "DB_RX" /\ i < j
<1>1. list \in Seq(Res) /\ IsInjective(list) /\ {"DB_TX", "DB_RX"} \subseteq ToSet(list)
      /\ \A i, j \in DOMAIN list : list[i] = "DB_TX" /\ list[j] = "DB_RX" => i < j
  BY ListsAssumption
<1>2. Len(list) \in Nat /\ DOMAIN list = Places /\ list \in [Places -> Res]
  BY <1>1 DEF Places
<1>3. \A x : x \in ToSet(list) <=> \E i \in Places : list[i] = x
  BY <1>2 DEF ToSet
<1>4. \A i, j \in Places : list[i] = list[j] => i = j
  BY <1>1, <1>2 DEF IsInjective
<1> QED
  BY <1>1, <1>2, <1>3, <1>4

LEMMA BehindFrom ==
  ASSUME ResType, NEW i \in Places, NEW j \in Places, i <= j, list[i] \in orphans
  PROVE  Behind(list[j])
<1>1. DOMAIN list = Places
  BY ListFacts DEF ResType
<1> QED
  BY <1>1 DEF Behind

LEMMA BehindGrows ==
  ASSUME UNCHANGED list, orphans \subseteq orphans', NEW r, Behind(r)
  PROVE  Behind(r)'
BY DEF Behind

LEMMA LeastNumber ==
  ASSUME NEW T, T \subseteq Nat, T # {}
  PROVE  \E x \in T : \A y \in T : x <= y
<1> DEFINE R == OpToRel(<, Nat)
<1>1. IsWellFoundedOn(R, Nat) /\ \A x, y \in Nat : y < x => <<y, x>> \in R
  BY NatLessThanWellFounded DEF OpToRel
<1> HIDE DEF R
<1>2. PICK x \in T : \A y \in T : ~(<<y, x>> \in R)
  BY <1>1, WFMin
<1>3. \A y \in T : ~(y < x)
  BY <1>1, <1>2
<1> QED
  BY <1>3

\* irq_create_fwspec_mapping: the number the interrupt has, or a free one, or none.
LEMMA NumberFacts ==
  ASSUME irqMap \in [1..NumIrqs -> {Free, "other"} \cup HasIrq], NEW x
  PROVE  /\ NumberFor(x) \in 0..NumIrqs
         /\ NumberFor(x) # 0 => \/ irqMap[NumberFor(x)] = x
                                \/ irqMap[NumberFor(x)] = Free /\ \A k \in 1..NumIrqs : irqMap[k] # x
         /\ NumberFor(x) = 0 => \A k \in 1..NumIrqs : irqMap[k] # x
<1> DEFINE has == {k \in DOMAIN irqMap : irqMap[k] = x}
           can == {k \in DOMAIN irqMap : irqMap[k] = Free}
<1>1. DOMAIN irqMap = 1..NumIrqs /\ has \subseteq Nat /\ can \subseteq Nat
  BY ListsAssumption
<1>2. has # {} => Min(has) \in has
  BY <1>1, LeastNumber DEF Min
<1>3. can # {} => Min(can) \in can
  BY <1>1, LeastNumber DEF Min
<1>4. NumberFor(x) = IF has # {} THEN Min(has) ELSE IF can # {} THEN Min(can) ELSE 0
  BY DEF NumberFor
<1>5. 0 \in 0..NumIrqs /\ 1..NumIrqs \subseteq 0..NumIrqs /\ 0 \notin 1..NumIrqs
  BY ListsAssumption
<1> HIDE DEF Min
<1>6. CASE has # {}
  BY <1>1, <1>2, <1>4, <1>5, <1>6
<1>7. CASE has = {} /\ can # {}
  BY <1>1, <1>3, <1>4, <1>5, <1>7
<1>8. CASE has = {} /\ can = {}
  BY <1>1, <1>4, <1>5, <1>8
<1> QED
  BY <1>6, <1>7, <1>8

\* Mapping an interrupt x leaves every other mapping, and x has a number unless
\* there is none.
Maps(x) ==
  /\ irqMap' \in [1..NumIrqs -> {Free, "other"} \cup HasIrq]
  /\ \A k \in 1..NumIrqs : irqMap[k] # Free => irqMap'[k] = irqMap[k]
  /\ \A k \in 1..NumIrqs : irqMap'[k] \in {irqMap[k], x}
  /\ NumberFor(x) \in 0..NumIrqs
  /\ NumberFor(x) # 0 => irqMap'[NumberFor(x)] = x
  /\ Once'

LEMMA MapFacts ==
  ASSUME ResType, Once, NEW x \in {"other"} \cup HasIrq, MapTo(x)
  PROVE  Maps(x)
<1> DEFINE n == NumberFor(x)
<1>1. /\ n \in 0..NumIrqs
      /\ n # 0 => irqMap[n] = x \/ (irqMap[n] = Free /\ \A k \in 1..NumIrqs : irqMap[k] # x)
      /\ n = 0 => \A k \in 1..NumIrqs : irqMap[k] # x
  BY NumberFacts DEF ResType
<1>2. irqMap' = [k \in 1..NumIrqs |-> IF k = n THEN x ELSE irqMap[k]]
  BY DEF MapTo, ResType
<1> HIDE DEF n
<1>3. x # Free
  BY DEF Free, MqDirs, HasIrq, Res
<1>4. irqMap' \in [1..NumIrqs -> {Free, "other"} \cup HasIrq]
  BY <1>2 DEF ResType
<1>5. \A k \in 1..NumIrqs : irqMap[k] # Free => irqMap'[k] = irqMap[k]
  BY <1>1, <1>2
<1>6. \A k \in 1..NumIrqs : irqMap'[k] \in {irqMap[k], x}
  BY <1>2
<1>7. n # 0 => irqMap'[n] = x
  BY <1>1, <1>2, ListsAssumption
<1>8. Once'
  <2>1. ASSUME NEW j \in 1..NumIrqs, NEW k \in 1..NumIrqs, irqMap'[j] = irqMap'[k], irqMap'[j] # Free, k # n
        PROVE  j = k
    BY <1>1, <1>2, <2>1, ListsAssumption DEF Once
  <2> QED
    BY <2>1 DEF Once
<1> QED
  BY <1>1, <1>4, <1>5, <1>6, <1>7, <1>8 DEF Maps, n

\* gh_rm_put_irq of number k.
Puts(k) ==
  /\ irqMap' \in [1..NumIrqs -> {Free, "other"} \cup HasIrq]
  /\ \A j \in 1..NumIrqs : j # k => irqMap'[j] = irqMap[j]
  /\ k # 0 => irqMap'[k] = Free
  /\ Once'

LEMMA PutFacts ==
  ASSUME ResType, Once, NEW k \in 0..NumIrqs, NEW how, PutIrq(k, how)
  PROVE  Puts(k)
<1>1. irqMap' = [j \in 1..NumIrqs |-> IF j = k THEN Free ELSE irqMap[j]]
  BY DEF PutIrq, ResType
<1>2. \A j \in 1..NumIrqs : irqMap'[j] = IF j = k THEN Free ELSE irqMap[j]
  BY <1>1
<1>3. irqMap' \in [1..NumIrqs -> {Free, "other"} \cup HasIrq]
  BY <1>1 DEF ResType
<1>4. k # 0 => k \in 1..NumIrqs
  BY ListsAssumption
<1>5. Once'
  BY <1>2 DEF Once
<1> QED
  BY <1>2, <1>3, <1>4, <1>5 DEF Puts

-----------------------------------------------------------------------------
(* Interrupts: one lemma for each way a step may change them               *)

\* Nothing, but that a driver may have let its number go.
LEMMA KeptNumbers ==
  ASSUME ResType, Numbers, UNCHANGED <<list, irqMap, clobbered, other>>,
         \A r \in HasIrq : num'[r] \in {num[r], 0},
         ph' = "unres" => irq' = 0 \/ (ph = "unres" /\ irq' = irq)
  PROVE  Numbers'
<1>1. Own'
  BY DEF Numbers, Own
<1>2. Once' /\ Known' /\ Others'
  BY DEF Numbers, Once, Known, Others
<1>3. Stale'
  BY DEF Numbers, Stale
<1> QED
  BY <1>1, <1>2, <1>3 DEF Numbers

\* A resource of the list gets its interrupt; its driver may request it.
LEMMA TakenNumbers ==
  ASSUME ResType, Numbers, UNCHANGED <<list, clobbered, other>>, ph' # "unres",
         NEW r \in Res, r \in ToSet(list), TakeIrq(r),
         num' = num \/ (r \in HasIrq /\ GetIrq(r) # 0 /\ Requested(r))
  PROVE  Numbers' /\ irqMap' \in [1..NumIrqs -> {Free, "other"} \cup HasIrq] /\ num' \in [HasIrq -> 0..NumIrqs]
<1>1. CASE r \notin HasIrq
  BY <1>1, KeptNumbers DEF TakeIrq, ResType
<1>2. CASE r \in HasIrq
  <2>1. Once /\ Own /\ Known /\ Others
    BY DEF Numbers
  <2>2. Maps(r) /\ GetIrq(r) = NumberFor(r)
    BY <1>2, <2>1, MapFacts DEF TakeIrq, GetIrq
  <2> DEFINE n == NumberFor(r)
  <2>3. /\ irqMap' \in [1..NumIrqs -> {Free, "other"} \cup HasIrq]
        /\ \A k \in 1..NumIrqs : irqMap[k] # Free => irqMap'[k] = irqMap[k]
        /\ \A k \in 1..NumIrqs : irqMap'[k] \in {irqMap[k], r}
        /\ n \in 0..NumIrqs
        /\ n # 0 => irqMap'[n] = r
    BY <2>2 DEF Maps
  <2>4. num' = num \/ (n # 0 /\ num' = [num EXCEPT ![r] = n])
    BY <2>2 DEF Requested
  <2> HIDE DEF n
  <2>5. num' \in [HasIrq -> 0..NumIrqs]
    BY <1>2, <2>3, <2>4 DEF ResType
  <2>6. r # Free /\ r # "other"
    BY <1>2 DEF Free, MqDirs, HasIrq, Res
  <2>7. Own'
    <3>1. ASSUME NEW q \in HasIrq, num'[q] # 0 PROVE irqMap'[num'[q]] = q
      <4>1. CASE num'[q] = num[q]
        <5>1. num[q] \in 1..NumIrqs /\ irqMap[num[q]] = q /\ q # Free
          BY <2>1, <3>1, <4>1, ListsAssumption DEF Own, ResType, MqDirs, HasIrq, Res, Free
        <5> QED
          BY <2>3, <4>1, <5>1
      <4>2. CASE num'[q] # num[q]
        BY <2>3, <2>4, <4>2 DEF ResType
      <4> QED
        BY <4>1, <4>2
    <3> QED
      BY <3>1 DEF Own
  <2>8. Known'
    <3>1. \A k \in 1..NumIrqs : irqMap'[k] \in HasIrq => irqMap'[k] \in ToSet(list)
      BY <2>1, <2>3 DEF Known
    <3>2. \A q \in HasIrq : num'[q] # 0 => q \in ToSet(list)
      BY <2>1, <2>4 DEF Known, ResType
    <3> QED
      BY <3>1, <3>2 DEF Known
  <2>9. Others'
    <3>1. \A k \in 1..NumIrqs : irqMap'[k] = "other" <=> irqMap[k] = "other"
      BY <2>3, <2>6 DEF Free
    <3> QED
      BY <2>1, <3>1 DEF Others
  <2>10. Stale' /\ Once'
    BY <2>2 DEF Stale, Maps
  <2> QED
    BY <2>3, <2>5, <2>7, <2>8, <2>9, <2>10 DEF Numbers
<1> QED
  BY <1>1, <1>2

\* A driver gives its interrupt back: the number is still its own.
LEMMA GivenNumbers ==
  ASSUME ResType, Numbers, UNCHANGED <<list, other>>, NEW r \in HasIrq, GivesBack(r)
  PROVE  /\ Numbers' /\ irqMap' \in [1..NumIrqs -> {Free, "other"} \cup HasIrq]
         /\ clobbered' = clobbered /\ num' \in [HasIrq -> 0..NumIrqs] /\ irq' \in 0..NumIrqs
         /\ num'[r] = 0 /\ \A q \in HasIrq : q # r => num'[q] = num[q]
         /\ num[r] # 0 => \A k \in 1..NumIrqs : irqMap'[k] # r
         /\ \A k \in 1..NumIrqs : irqMap'[k] \in {irqMap[k], Free}
<1>0. Once /\ Own /\ Known /\ Others
  BY DEF Numbers
<1> DEFINE n == num[r]
<1>1. irq' = n /\ num' = [num EXCEPT ![r] = 0] /\ PutIrq(n, "own") /\ n \in 0..NumIrqs
  BY DEF GivesBack, ResType
<1>2. n # 0 => n \in 1..NumIrqs /\ irqMap[n] = r /\ r # Free /\ r # "other"
  BY <1>0, <1>1, ListsAssumption DEF Own, Free, MqDirs, HasIrq, Res
<1> HIDE DEF n
<1>3. Puts(n)
  BY <1>0, <1>1, PutFacts
<1>4. /\ irqMap' \in [1..NumIrqs -> {Free, "other"} \cup HasIrq]
      /\ \A j \in 1..NumIrqs : j # n => irqMap'[j] = irqMap[j]
      /\ n # 0 => irqMap'[n] = Free
      /\ Once'
  BY <1>3 DEF Puts
<1>5. clobbered' = clobbered
  BY <1>1, <1>2 DEF PutIrq
<1>6. /\ num' \in [HasIrq -> 0..NumIrqs] /\ num'[r] = 0 /\ \A q \in HasIrq : q # r => num'[q] = num[q]
  BY <1>1, ListsAssumption DEF ResType
<1>7. Own'
  <2>1. ASSUME NEW q \in HasIrq, num'[q] # 0 PROVE irqMap'[num'[q]] = q
    <3>1. q # r /\ num'[q] = num[q] /\ num[q] \in 1..NumIrqs /\ irqMap[num[q]] = q
      BY <1>0, <1>6, <2>1, ListsAssumption DEF Own, ResType
    <3>2. num[q] # n
      BY <1>2, <3>1
    <3> QED
      BY <1>4, <3>1, <3>2
  <2> QED
    BY <2>1 DEF Own
<1>8. Known'
  <2>1. Free \notin HasIrq
    BY DEF Free, MqDirs, HasIrq, Res
  <2>2. \A k \in 1..NumIrqs : irqMap'[k] \in HasIrq => irqMap'[k] \in ToSet(list)
    BY <1>0, <1>2, <1>4, <2>1 DEF Known
  <2>3. \A q \in HasIrq : num'[q] # 0 => q \in ToSet(list)
    BY <1>0, <1>6 DEF Known
  <2> QED
    BY <2>2, <2>3 DEF Known
<1>9. Others'
  <2>1. \A k \in 1..NumIrqs : irqMap'[k] = "other" <=> irqMap[k] = "other"
    BY <1>2, <1>4 DEF Free
  <2> QED
    BY <1>0, <1>5, <2>1 DEF Others
<1>10. Stale'
  BY <1>1, <1>4 DEF Stale
<1>11. n # 0 => \A k \in 1..NumIrqs : irqMap'[k] # r
  BY <1>0, <1>2, <1>4 DEF Once, Free
<1>12. \A k \in 1..NumIrqs : irqMap'[k] \in {irqMap[k], Free}
  BY <1>2, <1>4
<1> QED
  BY <1>1, <1>4, <1>5, <1>6, <1>7, <1>8, <1>9, <1>10, <1>11, <1>12 DEF Numbers, n

\* What an earlier resource left in irq is put again: nobody's, or somebody else's.
LEMMA StaleNumbers ==
  ASSUME ResType, Numbers, UNCHANGED <<list, other>>, ph = "unres", PutsStale
  PROVE  /\ Numbers' /\ irqMap' \in [1..NumIrqs -> {Free, "other"} \cup HasIrq]
         /\ clobbered' \subseteq {"own", "stale"} /\ UNCHANGED <<num, irq>>
         /\ \A k \in 1..NumIrqs : irqMap'[k] \in {irqMap[k], Free}
<1>0. Once /\ Own /\ Known /\ Others /\ Stale
  BY DEF Numbers
<1>1. UNCHANGED <<num, irq>> /\ PutIrq(irq, "stale") /\ irq \in 0..NumIrqs /\ ph' = ph
  BY DEF PutsStale, NextEntry, ResType
<1>2. irq # 0 => irq \in 1..NumIrqs /\ irqMap[irq] \in {Free, "other"}
  BY <1>0, <1>1, ListsAssumption DEF Stale
<1>3. Puts(irq)
  BY <1>0, <1>1, PutFacts
<1>4. /\ irqMap' \in [1..NumIrqs -> {Free, "other"} \cup HasIrq]
      /\ \A j \in 1..NumIrqs : j # irq => irqMap'[j] = irqMap[j]
      /\ irq # 0 => irqMap'[irq] = Free
      /\ Once'
  BY <1>3 DEF Puts
<1>5. /\ clobbered' = clobbered \cup {h \in {"stale"} : irq # 0 /\ irq = other /\ irqMap[irq] = "other"}
  BY <1>1 DEF PutIrq
<1>6. Own'
  <2>1. ASSUME NEW q \in HasIrq, num'[q] # 0 PROVE irqMap'[num'[q]] = q
    <3>1. num'[q] = num[q] /\ num[q] \in 1..NumIrqs /\ irqMap[num[q]] = q /\ q # Free /\ q # "other"
      BY <1>0, <1>1, <2>1, ListsAssumption DEF Own, ResType, Free, MqDirs, HasIrq, Res
    <3>2. num[q] # irq
      BY <1>2, <3>1
    <3> QED
      BY <1>4, <3>1, <3>2
  <2> QED
    BY <2>1 DEF Own
<1>7. \A k \in 1..NumIrqs : irqMap'[k] \in {irqMap[k], Free}
  BY <1>2, <1>4
<1>8. Known'
  <2>1. Free \notin HasIrq
    BY DEF Free, MqDirs, HasIrq, Res
  <2> QED
    BY <1>0, <1>1, <1>7, <2>1 DEF Known
<1>9. Others'
  <2>1. "own" \notin clobbered'
    BY <1>0, <1>5 DEF Others
  <2>2. ASSUME clobbered' = {}, NEW k \in 1..NumIrqs PROVE irqMap'[k] = "other" <=> k = other
    <3>1. clobbered = {} /\ ~(irq # 0 /\ irq = other /\ irqMap[irq] = "other")
      BY <1>5, <2>2
    <3>2. irqMap[k] = "other" <=> k = other
      BY <1>0, <3>1 DEF Others
    <3>3. k = irq => irqMap[k] = Free
      BY <1>0, <1>2, <3>1, ListsAssumption DEF Others
    <3> QED
      BY <1>4, <3>2, <3>3
  <2> QED
    BY <2>1, <2>2 DEF Others
<1>10. Stale'
  BY <1>1, <1>4 DEF Stale
<1>11. clobbered' \subseteq {"own", "stale"}
  BY <1>5 DEF ResType
<1> QED
  BY <1>1, <1>4, <1>6, <1>7, <1>8, <1>9, <1>10, <1>11 DEF Numbers

\* Somebody else maps and unmaps.
LEMMA OtherNumbers ==
  ASSUME ResType, Numbers, OtherMaps \/ OtherUnmaps
  PROVE  /\ Numbers' /\ irqMap' \in [1..NumIrqs -> {Free, "other"} \cup HasIrq] /\ other' \in 0..NumIrqs
         /\ \A k \in 1..NumIrqs : irqMap'[k] \in {irqMap[k], Free, "other"}
<1>0. Once /\ Own /\ Known /\ Others /\ Stale /\ UNCHANGED <<list, irq, ph, num, clobbered>> /\ clobbered = {}
  BY DEF Numbers, OtherMaps, OtherUnmaps, vmVars
<1>s. Free \notin HasIrq /\ "other" \notin HasIrq /\ Free # "other"
  BY DEF Free, MqDirs, HasIrq, Res
<1>1. /\ irqMap' \in [1..NumIrqs -> {Free, "other"} \cup HasIrq] /\ other' \in 0..NumIrqs /\ Once'
      /\ \A k \in 1..NumIrqs : irqMap[k] \in HasIrq => irqMap'[k] = irqMap[k]
      /\ \A k \in 1..NumIrqs : irqMap'[k] \in {irqMap[k], Free, "other"}
      /\ \A k \in 1..NumIrqs : irqMap'[k] = "other" <=> k = other'
  <2>1. CASE OtherMaps
    <3> DEFINE n == NumberFor("other")
    <3>1. n # 0 /\ other = 0 /\ other' = n /\ Maps("other")
      BY <1>0, <2>1, MapFacts DEF OtherMaps
    <3>2. /\ irqMap' \in [1..NumIrqs -> {Free, "other"} \cup HasIrq] /\ Once'
          /\ \A k \in 1..NumIrqs : irqMap[k] # Free => irqMap'[k] = irqMap[k]
          /\ \A k \in 1..NumIrqs : irqMap'[k] \in {irqMap[k], "other"}
          /\ n \in 1..NumIrqs /\ irqMap'[n] = "other"
      BY <3>1, ListsAssumption DEF Maps
    <3> HIDE DEF n
    <3>3. \A k \in 1..NumIrqs : irqMap'[k] = "other" => k = n
      BY <1>s, <3>2 DEF Once
    <3> QED
      BY <1>s, <3>1, <3>2, <3>3, ListsAssumption
  <2>2. CASE OtherUnmaps
    <3>1. other \in 1..NumIrqs /\ other' = 0 /\ irqMap' = [irqMap EXCEPT ![other] = Free]
      BY <2>2, ListsAssumption DEF OtherUnmaps, ResType
    <3>2. \A k \in 1..NumIrqs : irqMap[k] = "other" <=> k = other
      BY <1>0 DEF Others
    <3>3. \A k \in 1..NumIrqs : irqMap'[k] = IF k = other THEN Free ELSE irqMap[k]
      BY <3>1 DEF ResType
    <3>4. Once'
      BY <1>0, <3>3 DEF Once
    <3>5. irqMap' \in [1..NumIrqs -> {Free, "other"} \cup HasIrq] /\ other' \in 0..NumIrqs
      BY <3>1, ListsAssumption DEF ResType
    <3>6. \A k \in 1..NumIrqs : irqMap'[k] = "other" <=> k = other'
      BY <1>s, <3>1, <3>2, <3>3
    <3> QED
      BY <1>s, <3>2, <3>3, <3>4, <3>5, <3>6
  <2> QED
    BY <2>1, <2>2
<1>2. Own'
  <2>1. \A r \in HasIrq : num[r] # 0 => num[r] \in 1..NumIrqs /\ irqMap[num[r]] = r
    BY <1>0, ListsAssumption DEF Own, ResType
  <2> QED
    BY <1>0, <1>1, <2>1 DEF Own
<1>3. Known'
  BY <1>0, <1>1, <1>s DEF Known
<1>4. Others' /\ Once'
  BY <1>0, <1>1 DEF Others
<1>5. Stale'
  <2>1. irq # 0 => irq \in 1..NumIrqs
    BY ListsAssumption DEF ResType
  <2> QED
    BY <1>0, <1>1, <2>1 DEF Stale
<1> QED
  BY <1>1, <1>2, <1>3, <1>4, <1>5 DEF Numbers

-----------------------------------------------------------------------------
(* How far the loops have come                                             *)

LEMMA BellFrame == UNCHANGED dblVars => UNCHANGED <<rm, rxIrq, handler, capSet>>
  BY DEF dblVars, vars, capVars, rmVars

\* The doorbell driver and its Rx number stay as they are.
LEMMA KeptBell ==
  ASSUME ResType, Bell, UNCHANGED dblVars, UNCHANGED list, num'["DB_RX"] = num["DB_RX"],
         ph' = "on" => rm = "on",
         ph' = "res" => \A i \in Places : list[i] = "DB_RX" /\ i < at' => rm = "on"
  PROVE  Bell'
<1>1. UNCHANGED <<rm, rxIrq, handler, capSet>>
  BY BellFrame
<1> QED
  BY <1>1 DEF Bell, Places

\* Where the VM is and what was requested stays as it is.
LEMMA KeptStages ==
  ASSUME ResType, Loading, Unloading, Proxy, UNCHANGED <<list, sched, virtio, orphans, ph, at, num, proxy, whole>>,
         dblInit => dblInit', \A k \in 1..NumIrqs : irqMap'[k] \in {irqMap[k], Free, "other"}
  PROVE  Loading' /\ Unloading' /\ Proxy'
<1>1. \A r : Passed(r) => Passed(r)'
  BY DEF Passed, proxied, WdogRefused, HasEntry
<1>b. \A r : Behind(r)' <=> Behind(r)
  BY DEF Behind
<1>2. \A r : Untouched(r)' <=> Untouched(r)
  BY <1>b DEF Untouched
<1>3. \A r : Returned(r) => Returned(r)'
  BY DEF Returned, Unused, Unmapped, Free, MqDirs
<1>4. Places' = Places /\ \A n : InOrder(n) => InOrder(n)'
  BY <1>1, <1>2 DEF InOrder, Places
<1>5. Loading'
  BY <1>1, <1>2, <1>4, <1>b DEF Loading, Orphaned
<1>6. Unloading'
  BY <1>1, <1>3, <1>4, <1>b DEF Unloading
<1>7. Proxy'
  BY DEF Proxy, proxied
<1> QED
  BY <1>5, <1>6, <1>7

LEMMA OtherInv == ASSUME ResInv, OtherMaps \/ OtherUnmaps PROVE ResInv'
<1>0. ResType /\ Numbers /\ Loading /\ Unloading /\ Proxy /\ Bell
  BY DEF ResInv
<1>1. /\ UNCHANGED <<list, sched, virtio, orphans, ph, at, num, proxy, whole, dblInit, irq, clobbered>> /\ UNCHANGED dblVars
  BY DEF OtherMaps, OtherUnmaps, vmVars
<1>2. /\ Numbers' /\ irqMap' \in [1..NumIrqs -> {Free, "other"} \cup HasIrq] /\ other' \in 0..NumIrqs
      /\ \A k \in 1..NumIrqs : irqMap'[k] \in {irqMap[k], Free, "other"}
  BY <1>0, OtherNumbers
<1>3. ResType'
  BY <1>0, <1>1, <1>2 DEF ResType
<1>4. Loading' /\ Unloading' /\ Proxy'
  BY <1>0, <1>1, <1>2, KeptStages
<1>5. Bell'
  BY <1>0, <1>1, KeptBell DEF Bell
<1> QED
  BY <1>2, <1>3, <1>4, <1>5 DEF ResInv

LEMMA SideInv ==
  ASSUME ResInv, DblInit \/ DblClients \/ UNCHANGED allVars
  PROVE  ResInv'
<1>0. ResType /\ Numbers /\ Loading /\ Unloading /\ Proxy /\ Bell
  BY DEF ResInv
<1>1. /\ UNCHANGED <<list, sched, virtio, orphans, ph, at, num, proxy, whole, irq, irqMap, other, clobbered>>
      /\ UNCHANGED <<rm, rxIrq, handler, capSet>>
  BY BellFrame DEF DblInit, DblClients, allVars, resVars, someone, vmVars, ClientNext, Register, Unregister, Validate,
                   WaitTest, WaitSignal, Hcall, CallTo, ThreadCheck, ThreadCall, capVars, rmVars
<1>2. dblInit => dblInit'
  BY DEF DblInit, DblClients, allVars, resVars
<1>3. Numbers'
  BY <1>0, <1>1, KeptNumbers
<1>4. ResType'
  BY <1>0, <1>1 DEF ResType
<1>5. Loading' /\ Unloading' /\ Proxy'
  BY <1>0, <1>1, <1>2, KeptStages
<1>6. Bell'
  BY <1>0, <1>1 DEF Bell, Places
<1> QED
  BY <1>3, <1>4, <1>5, <1>6 DEF ResInv

\* The populating loop is at resource r, or goes on to the next one.
LEMMA LoopStages ==
  ASSUME ResType, Loading, Proxy, UNCHANGED <<list, sched, virtio, orphans, proxy, whole, dblInit>>,
         ph = "res", ph' = ph, at <= Len(list), NEW r, r = Here,
         at' = at \/ (at' = at + 1 /\ Passed(r)'),
         \A q \in HasIrq : q # r => num'[q] = num[q],
         r \notin orphans, num'["VCPU"] = num["VCPU"], num'["VPM"] # num["VPM"] => proxied /\ proxy # "none"
  PROVE  Loading' /\ Unloading' /\ Proxy' /\ at' \in 1..(Len(list) + 1)
<1>0. /\ Len(list) \in Nat /\ list \in [Places -> Res] /\ Places' = Places
      /\ \A i, j \in Places : list[i] = list[j] => i = j
  BY ListFacts DEF ResType, Places
<1>1. at \in Places /\ ph' = "res" /\ at' \in 1..(Len(list) + 1)
  BY <1>0 DEF ResType, Places
<1>2. ASSUME NEW i \in Places, i # at
      PROVE  (Passed(list[i]) => Passed(list[i])') /\ (Untouched(list[i]) => Untouched(list[i])')
  <2>1. list[i] # r /\ list[i] \in Res
    BY <1>0, <1>1, <1>2 DEF Here
  <2>2. list[i] \in HasIrq => num'[list[i]] = num[list[i]]
    BY <2>1
  <2>3. list[i] \in MqDirs \cup {"VIRTIO", "DB_RX", "VCPU", "VPM"} => list[i] \in HasIrq
    BY DEF MqDirs, HasIrq, Res
  <2>4. Behind(list[i]) => Behind(list[i])'
    BY BehindGrows
  <2> QED
    BY <2>2, <2>3, <2>4 DEF Passed, Untouched, proxied, WdogRefused, HasEntry
<1>3. ASSUME NEW i \in Places PROVE (i < at' => Passed(list[i])') /\ (i > at' => Untouched(list[i])')
  <2>1. CASE i < at
    BY <1>1, <1>2, <2>1 DEF Loading, Places
  <2>2. CASE i = at
    <3>1. list'[i] = r /\ ~(i > at') /\ (i < at' => Passed(r)')
      BY <1>1, <2>2 DEF Here, Places
    <3> QED
      BY <3>1
  <2>3. CASE i > at
    BY <1>1, <1>2, <2>3 DEF Loading, Places
  <2> QED
    BY <1>1, <2>1, <2>2, <2>3 DEF Places
<1>4. ~whole'
  BY DEF Loading
<1>o. Orphaned'
  <2>1. Orphaned /\ MqDirs \subseteq HasIrq
    BY DEF Loading, MqDirs, HasIrq, Res
  <2> QED
    BY <1>4, <2>1 DEF Orphaned
<1>5. Loading'
  BY <1>0, <1>1, <1>3, <1>4, <1>o DEF Loading
<1>6. Unloading'
  BY <1>1 DEF Unloading
<1>7. Proxy'
  BY <1>1, <1>4 DEF Proxy, proxied, Loading
<1> QED
  BY <1>1, <1>5, <1>6, <1>7

\* The populating loop fails: only the resource it was at may have changed.
LEMMA FailStages ==
  ASSUME ResType, Loading, Proxy, UNCHANGED <<list, sched, virtio, proxy, whole, dblInit>>,
         ph = "res", at <= Len(list), FailsNow,
         \A q \in HasIrq : q # Here => num'[q] = num[q],
         num'["VCPU"] = num["VCPU"], num'["VPM"] = num["VPM"],
         \/ UNCHANGED orphans /\ Here \notin orphans
         \/ UNCHANGED num /\ orphans' = orphans \cup {d \in MqDirs : num[d] # 0}
  PROVE  Loading' /\ Unloading' /\ Proxy' /\ at' \in 1..(Len(list) + 1)
<1>0. /\ Len(list) \in Nat /\ list \in [Places -> Res] /\ Places' = Places
      /\ \A i, j \in Places : list[i] = list[j] => i = j
  BY ListFacts DEF ResType, Places
<1>1. at \in Places /\ at' = 1 /\ ph' = "failed" /\ at' \in 1..(Len(list) + 1)
  BY <1>0 DEF ResType, FailsNow, Places
<1>2. ASSUME NEW i \in Places, i # at
      PROVE  /\ Passed(list[i]) => Passed(list[i])' \/ list[i] \in orphans'
             /\ Untouched(list[i]) => Untouched(list[i])'
  <2>1. list[i] # Here /\ list[i] \in Res
    BY <1>0, <1>1, <1>2 DEF Here
  <2>2. list[i] \in HasIrq => num'[list[i]] = num[list[i]]
    BY <2>1
  <2>3. list[i] \in MqDirs \cup {"VIRTIO", "DB_RX", "VCPU", "VPM"} => list[i] \in HasIrq
    BY DEF MqDirs, HasIrq, Res
  <2>4. Behind(list[i]) => Behind(list[i])'
    BY BehindGrows
  <2> QED
    BY <2>2, <2>3, <2>4 DEF Passed, Untouched, proxied, WdogRefused, HasEntry
<1>3. ASSUME NEW i \in Places, NEW j \in Places, i < j, ~Untouched(list[j])' PROVE Passed(list[i])'
  <2>1. ~(j > at)
    BY <1>1, <1>2, <1>3 DEF Loading, Places
  <2>2. i < at
    BY <1>1, <1>3, <2>1 DEF Places
  <2>3. Passed(list[i])' \/ list[i] \in orphans'
    BY <1>1, <1>2, <2>2 DEF Loading, Places
  <2>4. list[i] \in orphans' => Behind(list[j])'
    <3>1. DOMAIN list = Places /\ list' = list
      BY <1>0
    <3> QED
      BY <1>3, <3>1 DEF Behind, Places
  <2>5. ~Behind(list[j])'
    BY <1>3 DEF Untouched
  <2> QED
    BY <2>3, <2>4, <2>5
<1>4. ~whole'
  BY DEF Loading
<1>o. Orphaned'
  <2>1. Orphaned /\ MqDirs \subseteq HasIrq
    BY DEF Loading, MqDirs, HasIrq, Res
  <2> QED
    BY <1>4, <2>1 DEF Orphaned
<1>5. Loading'
  BY <1>0, <1>1, <1>3, <1>4, <1>o DEF Loading, InOrder
<1>6. Unloading'
  BY <1>1 DEF Unloading
<1>7. Proxy'
  BY <1>1, <1>4 DEF Proxy, proxied, Loading
<1> QED
  BY <1>1, <1>5, <1>6, <1>7

-----------------------------------------------------------------------------
(* The populating loop                                                     *)

\* Before the loop over the resources only the vcpus have requested anything.
LEMMA StartStages ==
  ASSUME ResType, UNCHANGED list, ph' \in {"vcpus", "res", "failed"}, ph' = "res" => at' = 1, ~whole',
         Orphaned', \A r \in HasIrq : num'[r] # 0 => r = "VCPU" \/ Behind(r)'
  PROVE  Loading' /\ Unloading'
<1>1. \A r : Untouched(r)'
  BY DEF Untouched
<1>2. Len(list) \in Nat /\ Places' = Places
  BY ListFacts DEF ResType, Places
<1>3. ph' = "res" => \A i \in Places : ~(i < at')
  BY <1>2 DEF Places
<1>4. InOrder(1)'
  BY <1>1 DEF InOrder
<1> QED
  BY <1>1, <1>2, <1>3, <1>4 DEF Loading, Unloading

LEMMA LoadInv == ASSUME ResInv, Load PROVE ResInv'
<1>0. ResType /\ Numbers /\ Loading /\ Unloading /\ Proxy /\ Bell
  BY DEF ResInv
<1>1. /\ UNCHANGED <<list, sched, virtio, orphans, at, irq, irqMap, num, proxy, other, clobbered>>
      /\ ph = "idle" /\ ph' \in {"vcpus", "failed"} /\ ~whole'
      /\ rm \in {"off", "kept"} /\ rm' = "tx" /\ UNCHANGED <<capSet, rxIrq, handler>>
  BY DEF Load, vmVars, someone, Populate, RmTo, capVars
<1>2. ResType' /\ Numbers'
  <2>1. ResType'
    BY <1>0, <1>1 DEF ResType
  <2>2. Numbers'
    BY <1>0, <1>1, KeptNumbers
  <2> QED
    BY <2>1, <2>2
<1>3. Loading' /\ Unloading'
  <2>1. \A r \in HasIrq : num'[r] # 0 => r = "VCPU" \/ Behind(r)'
    BY <1>0, <1>1 DEF Loading, Behind
  <2>2. Orphaned'
    BY <1>0, <1>1 DEF Loading, Orphaned
  <2> QED
    BY <1>0, <1>1, <2>1, <2>2, StartStages
<1>4. Proxy'
  BY <1>0, <1>1 DEF Proxy, proxied
<1>5. Bell'
  BY <1>0, <1>1 DEF Bell, InUse
<1> QED
  BY <1>2, <1>3, <1>4, <1>5 DEF ResInv

LEMMA VcpuInv == ASSUME ResInv, VcpuStep PROVE ResInv'
<1>0. ResType /\ Numbers /\ Loading /\ Unloading /\ Proxy /\ Bell
  BY DEF ResInv
<1>1. /\ UNCHANGED <<list, sched, virtio, orphans, irq, whole, other, clobbered>> /\ UNCHANGED dblVars
      /\ ph = "vcpus" /\ ph' \in {"res", "failed"} /\ at' = 1 /\ ~whole
      /\ "VCPU" \in ToSet(list) => TakeIrq("VCPU")
      /\ "VCPU" \notin ToSet(list) => UNCHANGED irqMap
  BY <1>0 DEF VcpuStep, vmVars, someone, Loading
<1>2. \/ UNCHANGED <<num, proxy>>
      \/ /\ "VCPU" \in ToSet(list) /\ GetIrq("VCPU") # 0 /\ Requested("VCPU")
         /\ proxied /\ proxy' = "vcpus"
  BY DEF VcpuStep, CanRequest
<1>h. "VCPU" \in HasIrq /\ "VCPU" \in Res /\ "VPM" \in HasIrq /\ "DB_RX" \in HasIrq
  BY DEF MqDirs, HasIrq, Res
<1>3. Numbers' /\ irqMap' \in [1..NumIrqs -> {Free, "other"} \cup HasIrq] /\ num' \in [HasIrq -> 0..NumIrqs]
  <2>1. CASE "VCPU" \in ToSet(list)
    BY <1>0, <1>1, <1>2, <1>h, <2>1, TakenNumbers
  <2>2. CASE "VCPU" \notin ToSet(list)
    <3>1. UNCHANGED <<num, irqMap>>
      BY <1>1, <1>2, <2>2
    <3>2. Numbers'
      BY <1>0, <1>1, <3>1, KeptNumbers
    <3> QED
      BY <1>0, <3>1, <3>2 DEF ResType
  <2> QED
    BY <2>1, <2>2
<1>4. \A q \in HasIrq : q # "VCPU" => num'[q] = num[q]
  BY <1>0, <1>2 DEF Requested, ResType
<1>5. ResType'
  <2>1. at' \in 1..(Len(list) + 1)
    BY <1>0, <1>1, ListFacts DEF ResType
  <2> QED
    BY <1>0, <1>1, <1>2, <1>3, <2>1 DEF ResType
<1>6. Loading' /\ Unloading'
  <2>0. \A q : Behind(q) => Behind(q)'
    BY <1>1, BehindGrows
  <2>1. \A q \in HasIrq : num'[q] # 0 => q = "VCPU" \/ Behind(q)'
    BY <1>0, <1>1, <1>4, <2>0 DEF Loading
  <2>2. MqDirs \subseteq HasIrq \ {"VCPU"}
    BY DEF MqDirs, HasIrq, Res
  <2>3. Orphaned'
    BY <1>0, <1>1, <1>4, <2>2 DEF Loading, Orphaned
  <2> QED
    BY <1>0, <1>1, <2>1, <2>3, StartStages
<1>7. Proxy'
  <2>1. CASE UNCHANGED <<num, proxy>>
    BY <1>0, <1>1, <2>1 DEF Proxy, proxied
  <2>2. CASE GetIrq("VCPU") # 0 /\ Requested("VCPU") /\ proxied /\ proxy' = "vcpus"
    <3>1. num'["VCPU"] # 0
      BY <1>0, <1>h, <2>2 DEF Requested, ResType
    <3> QED
      BY <1>1, <2>2, <3>1 DEF Proxy, proxied
  <2> QED
    BY <1>2, <2>1, <2>2
<1>8. Bell'
  <2>1. num'["DB_RX"] = num["DB_RX"]
    BY <1>4, <1>h
  <2>2. \A i \in Places : ~(i < at')
    BY <1>0, <1>1, ListFacts DEF ResType, Places
  <2> QED
    BY <1>0, <1>1, <2>1, <2>2, KeptBell
<1> QED
  BY <1>3, <1>5, <1>6, <1>7, <1>8 DEF ResInv

\* A resource other than a doorbell.
LEMMA PlainInv ==
  ASSUME ResInv, UNCHANGED dblVars, UNCHANGED <<list, sched, virtio, irq, proxy, dblInit, whole, other, clobbered>>,
         NEW r \in Res, InLoop("res", r), r \notin {"DB_TX", "DB_RX"}, TakeIrq(r),
         \/ NextEntry /\ Passed(r)' /\ UNCHANGED orphans
         \/ FailsNow /\ UNCHANGED <<num, orphans>> /\ r \notin orphans
         \/ FailsNow /\ UNCHANGED num /\ orphans' = orphans \cup {d \in MqDirs : num[d] # 0},
         r \notin orphans \/ FailsNow,
         \/ UNCHANGED num
         \/ /\ r \in MqDirs \cup {"VIRTIO", "VPM"} /\ GetIrq(r) # 0 /\ Requested(r)
            /\ r = "VPM" => proxied /\ proxy # "none"
  PROVE  ResInv'
<1>0. ResType /\ Numbers /\ Loading /\ Unloading /\ Proxy /\ Bell
  BY DEF ResInv
<1>h. {"MQ_TX", "MQ_RX", "VIRTIO", "VPM", "VCPU", "DB_RX"} \subseteq HasIrq
  BY DEF MqDirs, HasIrq, Res
<1>1. /\ Len(list) \in Nat /\ at \in Places /\ list[at] = r /\ ph = "res" /\ r = Here
      /\ ph' \in {"res", "failed"}
      /\ \A x : x \in ToSet(list) <=> \E i \in Places : list[i] = x
  BY <1>0, ListFacts DEF ResType, InLoop, Here, Places, NextEntry, FailsNow
<1>2. r \in ToSet(list)
  BY <1>1
<1>3. Numbers' /\ irqMap' \in [1..NumIrqs -> {Free, "other"} \cup HasIrq] /\ num' \in [HasIrq -> 0..NumIrqs]
  <2>1. MqDirs \subseteq HasIrq
    BY DEF MqDirs, HasIrq, Res
  <2> QED
    BY <1>0, <1>1, <1>2, <1>h, <2>1, TakenNumbers
<1>4. \A q \in HasIrq : q # r => num'[q] = num[q]
  BY <1>0 DEF Requested, ResType
<1>5. num'["VCPU"] = num["VCPU"] /\ num'["DB_RX"] = num["DB_RX"]
  BY <1>4, <1>h DEF MqDirs
<1>6. num'["VPM"] # num["VPM"] => proxied /\ proxy # "none"
  BY <1>4, <1>h
<1>7. Loading' /\ Unloading' /\ Proxy' /\ at' \in 1..(Len(list) + 1)
  <2>1. CASE NextEntry /\ Passed(r)' /\ UNCHANGED orphans /\ r \notin orphans
    <3>1. ph' = ph /\ at' = at + 1 /\ at <= Len(list)
      BY <1>1, <2>1 DEF NextEntry, Places
    <3> QED
      BY <1>0, <1>1, <1>4, <1>5, <1>6, <2>1, <3>1, LoopStages
  <2>2. CASE /\ FailsNow /\ UNCHANGED num
             /\ \/ UNCHANGED orphans /\ r \notin orphans
                \/ orphans' = orphans \cup {d \in MqDirs : num[d] # 0}
    <3>1. at <= Len(list)
      BY <1>1 DEF Places
    <3> QED
      BY <1>0, <1>1, <2>2, <3>1, FailStages
  <2>3. NextEntry => ~FailsNow
    BY <1>1 DEF NextEntry, FailsNow
  <2> QED
    BY <2>1, <2>2, <2>3
<1>8. Bell'
  <2>1. ASSUME ph' = "res", NEW i \in Places, list[i] = "DB_RX", i < at' PROVE rm = "on"
    <3>1. at' = at + 1 /\ i # at
      BY <1>1, <2>1 DEF NextEntry, FailsNow
    <3> QED
      BY <1>0, <1>1, <2>1, <3>1 DEF Bell, Places
  <2> QED
    BY <1>0, <1>1, <1>5, <2>1, KeptBell
<1>9. ResType'
  BY <1>0, <1>1, <1>3, <1>7 DEF ResType
<1> QED
  BY <1>3, <1>7, <1>8, <1>9 DEF ResInv

LEMMA RequestInv == ASSUME ResInv, NEW r \in Res, RequestStep(r) PROVE ResInv'
<1>0. ResType
  BY DEF ResInv
<1>r. r \in MqDirs \cup {"VIRTIO", "VPM"} /\ (r = "VPM" => proxied /\ proxy # "none")
  <2>1. r \in MqDirs \/ r = "VIRTIO" \/ (r = "VPM" /\ proxied /\ proxy # "none")
    BY Zenon DEF RequestStep, Requests
  <2> QED
    BY <2>1 DEF MqDirs
<1>1. /\ UNCHANGED dblVars /\ UNCHANGED <<list, sched, virtio, irq, proxy, dblInit, whole, other, clobbered>>
      /\ InLoop("res", r) /\ TakeIrq(r)
      /\ \/ GetIrq(r) # 0 /\ num[r] = 0 /\ Requested(r) /\ NextEntry /\ UNCHANGED orphans
         \/ FailsNow /\ UNCHANGED num /\ FreesEntry(r)
  BY DEF RequestStep, vmVars, someone, CanRequest
<1>o. Orphaned
  BY DEF ResInv, Loading
<1>2. CASE GetIrq(r) # 0 /\ num[r] = 0 /\ Requested(r) /\ NextEntry /\ UNCHANGED orphans
  <2>0. r \notin orphans
    BY <1>2, <1>o DEF Orphaned
  <2>1. num'[r] # 0
    BY <1>0, <1>r, <1>1, <1>2 DEF Requested, ResType, MqDirs, HasIrq, Res
  <2>2. Passed(r)'
    BY <1>r, <1>1, <1>2, <2>0, <2>1 DEF Passed, HasEntry, MqDirs
  <2>3. r \notin {"DB_TX", "DB_RX"}
    BY <1>r DEF MqDirs
  <2> QED
    BY <1>r, <1>1, <1>2, <2>0, <2>2, <2>3, PlainInv
<1>3. CASE FailsNow /\ UNCHANGED num /\ FreesEntry(r)
  <2>1. \/ UNCHANGED orphans /\ r \notin orphans
        \/ orphans' = orphans \cup {d \in MqDirs : num[d] # 0}
    BY <1>3, <1>o DEF FreesEntry, Orphaned
  <2>2. r \notin {"DB_TX", "DB_RX"}
    BY <1>r DEF MqDirs
  <2> QED
    BY <1>r, <1>1, <1>3, <2>1, <2>2, PlainInv
<1> QED
  BY <1>1, <1>2, <1>3

LEMMA SkipInv == ASSUME ResInv, NEW r \in Res, SkipStep(r) PROVE ResInv'
<1>1. /\ UNCHANGED dblVars /\ UNCHANGED <<list, sched, virtio, orphans, irq, num, proxy, dblInit, whole, other, clobbered>>
      /\ InLoop("res", r) /\ ph = "res" /\ r \in {"VCPU", "VPM", "VIRTIO", "WDOG"} /\ TakeIrq(r)
      /\ r = "VIRTIO" => ~virtio
      /\ r = "VPM" => ~(proxied /\ proxy # "none")
      /\ FailsNow \/ (NextEntry /\ ~(r = "WDOG" /\ WdogRefused))
  BY DEF SkipStep, vmVars, someone, Requests, InLoop
<1>o. r \notin orphans
  BY <1>1 DEF ResInv, Loading, Orphaned, MqDirs
<1>2. CASE NextEntry /\ ~(r = "WDOG" /\ WdogRefused)
  <2>1. proxy # "active"
    BY <1>1 DEF ResInv, Proxy
  <2>2. Passed(r)'
    BY <1>1, <1>2, <2>1 DEF Passed, proxied, WdogRefused, HasEntry, MqDirs
  <2> QED
    BY <1>1, <1>2, <1>o, <2>2, PlainInv
<1>3. CASE FailsNow
  BY <1>1, <1>3, <1>o, PlainInv
<1> QED
  BY <1>1, <1>2, <1>3

LEMMA DblTxInv == ASSUME ResInv, CapType, DblTxStep PROVE ResInv'
<1>0. ResType /\ Numbers /\ Loading /\ Unloading /\ Proxy /\ Bell
  BY DEF ResInv
<1>1. /\ UNCHANGED <<list, sched, virtio, orphans, ph, irq, irqMap, num, proxy, dblInit, whole, other, clobbered>>
      /\ ph = "res" /\ at <= Len(list) /\ Here = "DB_TX" /\ dblInit
      /\ \/ PopulateTx /\ UNCHANGED at
         \/ PopulateTxWake /\ at' = at + 1
  BY DEF DblTxStep, vmVars, someone, InLoop
<1>2. Numbers'
  BY <1>0, <1>1, KeptNumbers
<1>3. Loading' /\ Unloading' /\ Proxy' /\ at' \in 1..(Len(list) + 1)
  <2>1. Passed("DB_TX")'
    BY <1>1 DEF Passed, MqDirs
  <2>2. "DB_TX" \notin orphans
    BY <1>0 DEF Loading, Orphaned, MqDirs
  <2> QED
    BY <1>0, <1>1, <2>1, <2>2, LoopStages
<1>4. ResType'
  BY <1>0, <1>1, <1>3 DEF ResType
<1>5. ASSUME NEW i \in Places, list[i] = "DB_RX", i < at' PROVE rm = "on"
  <2>1. i # at /\ at \in Nat /\ at' \in {at, at + 1}
    BY <1>0, <1>1, <1>5, ListFacts DEF Here, ResType
  <2> QED
    BY <1>0, <1>1, <1>5, <2>1 DEF Bell, Places
<1>6. Bell'
  <2>1. UNCHANGED <<rxIrq, handler>> /\ rm \in {"tx", "txwake"} /\ rm' \in {"txwake", "rxirq"}
    BY <1>1 DEF PopulateTx, PopulateTxWake, Wake, RmTo, RmOnly, capVars
  <2>2. capSet'["TX"]
    <3>1. CASE PopulateTx
      BY <3>1 DEF PopulateTx, CapType, Dirs
    <3>2. CASE PopulateTxWake
      BY <1>0, <3>2 DEF PopulateTxWake, Wake, RmTo, capVars, Bell
    <3> QED
      BY <1>1, <3>1, <3>2
  <2>3. Places' = Places
    BY <1>1 DEF Places
  <2>4. ~(\E i \in Places : list[i] = "DB_RX" /\ i < at')
    BY <1>5, <2>1
  <2> QED
    BY <1>0, <1>1, <2>1, <2>2, <2>3, <2>4 DEF Bell, InUse
<1> QED
  BY <1>2, <1>3, <1>4, <1>6 DEF ResInv

\* The Rx doorbell, but for the case that it has no interrupt.
LEMMA RxBell ==
  ASSUME ResInv, CapType, HandlerInv, UNCHANGED list, at \in Places, list[at] = "DB_RX", ph = "res",
         \/ PopulateRxIrq /\ num'["DB_RX"] # 0 /\ UNCHANGED <<at, ph>>
         \/ PopulateRxIrqFails /\ num'["DB_RX"] # 0 /\ ph' = "failed"
         \/ PopulateRxCap /\ UNCHANGED <<at, ph, num>>
         \/ PopulateRxWake /\ ph' = ph /\ UNCHANGED num
  PROVE  Bell'
<1>0. ResType /\ Bell
  BY DEF ResInv
<1>1. Places' = Places /\ \A i \in Places : list[i] = "DB_RX" => ~(i < at)
  BY <1>0, ListFacts DEF ResType, Places
<1>2. CASE PopulateRxIrq /\ num'["DB_RX"] # 0 /\ UNCHANGED <<at, ph>>
  <2>1. rm = "rxirq" /\ rm' = "rxcap" /\ rxIrq' /\ handler' /\ UNCHANGED capSet
    BY <1>2 DEF PopulateRxIrq, RmTo
  <2> QED
    BY <1>0, <1>1, <1>2, <2>1 DEF Bell, InUse
<1>3. CASE PopulateRxIrqFails /\ num'["DB_RX"] # 0 /\ ph' = "failed"
  <2>1. rm' = "untx" /\ rxIrq'
    BY <1>3 DEF PopulateRxIrqFails, RmTo
  <2> QED
    BY <1>3, <2>1 DEF Bell, InUse
<1>4. CASE PopulateRxCap /\ UNCHANGED <<at, ph, num>>
  <2>1. rm = "rxcap" /\ rm' = "rxwake" /\ UNCHANGED <<rxIrq, handler>>
    BY <1>4 DEF PopulateRxCap, RmTo
  <2>2. capSet'["RX"] /\ capSet'["TX"] = capSet["TX"]
    BY <1>4 DEF PopulateRxCap, CapType, Dirs
  <2> QED
    BY <1>0, <1>1, <1>4, <2>1, <2>2 DEF Bell, InUse
<1>5. CASE PopulateRxWake /\ ph' = ph /\ UNCHANGED num
  <2>1. rm = "rxwake" /\ rm' = "on" /\ UNCHANGED <<capSet, rxIrq, handler>>
    BY <1>5 DEF PopulateRxWake, Wake, RmTo, capVars
  <2> QED
    BY <1>0, <1>1, <1>5, <2>1 DEF Bell, InUse
<1> QED
  BY <1>2, <1>3, <1>4, <1>5

LEMMA DblRxInv == ASSUME ResInv, CapType, HandlerInv, DblRxStep PROVE ResInv'
<1>0. ResType /\ Numbers /\ Loading /\ Unloading /\ Proxy /\ Bell
  BY DEF ResInv
<1>h. {"VPM", "VCPU", "DB_RX"} \subseteq HasIrq /\ "DB_RX" \in Res
  BY DEF MqDirs, HasIrq, Res
<1> DEFINE Requesting == GetIrq("DB_RX") # 0 /\ TakeIrq("DB_RX") /\ Requested("DB_RX")
<1>1. /\ UNCHANGED <<list, sched, virtio, orphans, irq, proxy, dblInit, whole, other, clobbered>>
      /\ ph = "res" /\ at <= Len(list) /\ Here = "DB_RX"
      /\ \/ PopulateRxIrq /\ Requesting /\ UNCHANGED <<at, ph>>
         \/ PopulateRxIrqFails /\ Requesting /\ FailsNow
         \/ FailsNow /\ UNCHANGED dblVars /\ UNCHANGED <<irqMap, num>>
         \/ PopulateRxCap /\ UNCHANGED <<at, ph, irqMap, num>>
         \/ PopulateRxWake /\ NextEntry /\ UNCHANGED <<irqMap, num>>
  BY DEF DblRxStep, vmVars, someone, InLoop
<1>2. /\ at \in Places /\ list[at] = "DB_RX" /\ "DB_RX" \in ToSet(list)
      /\ at' = at \/ at' = at + 1 \/ ph' = "failed"
      /\ ph' \in {"res", "failed"} /\ 1 \in 1..(Len(list) + 1)
  BY <1>0, <1>1, ListFacts DEF ResType, Here, Places, NextEntry, FailsNow
<1>3. /\ Numbers' /\ irqMap' \in [1..NumIrqs -> {Free, "other"} \cup HasIrq] /\ num' \in [HasIrq -> 0..NumIrqs]
      /\ num' = num \/ Requested("DB_RX")
  <2>1. CASE Requesting
    BY <1>0, <1>1, <1>2, <1>h, <2>1, TakenNumbers
  <2>2. CASE UNCHANGED <<irqMap, num>>
    <3>1. Numbers'
      BY <1>0, <1>1, <1>2, <2>2, KeptNumbers
    <3> QED
      BY <1>0, <2>2, <3>1 DEF ResType
  <2> QED
    BY <1>1, <2>1, <2>2
<1>4. \A q \in HasIrq : q # "DB_RX" => num'[q] = num[q]
  BY <1>0, <1>3 DEF Requested, ResType
<1>5. num'["VCPU"] = num["VCPU"] /\ num'["VPM"] = num["VPM"]
  BY <1>4, <1>h
<1>6. Requesting => num'["DB_RX"] # 0
  BY <1>0, <1>h DEF Requested, ResType
<1>7. Loading' /\ Unloading' /\ Proxy' /\ at' \in 1..(Len(list) + 1)
  <2>0. "DB_RX" \notin orphans
    BY <1>0 DEF Loading, Orphaned, MqDirs
  <2>1. CASE FailsNow
    BY <1>0, <1>1, <1>4, <1>5, <2>0, <2>1, FailStages
  <2>2. CASE UNCHANGED <<at, ph>>
    BY <1>0, <1>1, <1>4, <1>5, <2>0, <2>2, LoopStages
  <2>3. CASE PopulateRxWake /\ NextEntry /\ UNCHANGED num
    <3>1. rm = "rxwake"
      BY <2>3 DEF PopulateRxWake, Wake, RmTo
    <3>2. num["DB_RX"] # 0
      BY <1>0, <3>1 DEF Bell, HandlerInv, InUse
    <3>3. Passed("DB_RX")' /\ at' = at + 1 /\ ph' = ph
      BY <2>3, <3>2 DEF Passed, NextEntry, MqDirs
    <3> QED
      BY <1>0, <1>1, <1>4, <1>5, <2>0, <3>3, LoopStages
  <2> QED
    BY <1>1, <2>1, <2>2, <2>3
<1>8. Bell'
  <2>1. CASE FailsNow /\ UNCHANGED dblVars /\ UNCHANGED <<irqMap, num>>
    <3>1. ph' = "failed"
      BY <2>1 DEF FailsNow
    <3> QED
      BY <1>0, <1>1, <2>1, <3>1, KeptBell
  <2>2. CASE ~(FailsNow /\ UNCHANGED dblVars /\ UNCHANGED <<irqMap, num>>)
    <3>1. \/ PopulateRxIrq /\ num'["DB_RX"] # 0 /\ UNCHANGED <<at, ph>>
          \/ PopulateRxIrqFails /\ num'["DB_RX"] # 0 /\ ph' = "failed"
          \/ PopulateRxCap /\ UNCHANGED <<at, ph, num>>
          \/ PopulateRxWake /\ ph' = ph /\ UNCHANGED num
      BY <1>1, <1>6, <2>2 DEF FailsNow, NextEntry
    <3>2. UNCHANGED list /\ ph = "res"
      BY <1>1
    <3> QED
      BY <1>2, <3>1, <3>2, RxBell
  <2> QED
    BY <2>1, <2>2
<1>9. ResType'
  BY <1>0, <1>1, <1>2, <1>3, <1>7 DEF ResType
<1> QED
  BY <1>3, <1>7, <1>8, <1>9 DEF ResInv

LEMMA LoadDoneInv == ASSUME ResInv, LoadDone PROVE ResInv'
<1>0. ResType /\ Numbers /\ Loading /\ Unloading /\ Proxy /\ Bell
  BY DEF ResInv
<1>1. /\ UNCHANGED <<list, sched, virtio, orphans, irq, irqMap, num, dblInit, other, clobbered>> /\ UNCHANGED dblVars
      /\ ph = "res" /\ at > Len(list) /\ ph' = "on" /\ at' = 1 /\ whole'
      /\ proxy' = IF proxied /\ proxy = "vcpus" THEN "active" ELSE proxy
  BY DEF LoadDone, vmVars, someone
<1>2. /\ Len(list) \in Nat /\ at \in Nat /\ list \in [Places -> Res] /\ Places' = Places
      /\ \E j \in Places : list[j] = "DB_RX"
  BY <1>0, <1>1, ListFacts DEF ResType, Places
<1>3. \A i \in Places : i < at
  BY <1>1, <1>2 DEF Places
<1>4. Numbers'
  BY <1>0, <1>1, KeptNumbers
<1>5. ResType'
  BY <1>0, <1>1, <1>2 DEF ResType
<1>6. Proxy'
  BY <1>0, <1>1 DEF Proxy, proxied
<1>7. \A i \in Places : Passed(list[i])'
  <2>1. ASSUME NEW r, Passed(r) PROVE Passed(r)'
    <3>1. (proxy' = "none" <=> proxy = "none") /\ (proxy' = "active" => num["VCPU"] # 0)
      BY <1>0, <1>1 DEF Proxy
    <3>2. UNCHANGED <<sched, virtio, orphans, num, dblInit>>
      BY <1>1
    <3> QED
      BY <2>1, <3>1, <3>2 DEF Passed, proxied, WdogRefused, HasEntry
  <2> QED
    BY <1>0, <1>1, <1>3, <2>1 DEF Loading
<1>o. orphans = {}
  <2>1. ASSUME NEW d \in orphans PROVE FALSE
    <3>1. d \in MqDirs /\ d \in HasIrq /\ num[d] # 0
      BY <1>0 DEF Loading, Orphaned, MqDirs, HasIrq, Res
    <3>2. PICK i \in Places : list[i] = d
      BY <1>0, <3>1, ListFacts DEF Numbers, Known, ResType
    <3>3. Passed(d)
      BY <1>0, <1>1, <1>3, <3>2 DEF Loading
    <3> QED
      BY <3>1, <3>3 DEF Passed, HasEntry
  <2> QED
    BY <2>1
<1>8. Loading' /\ Unloading'
  BY <1>1, <1>2, <1>7, <1>o DEF Loading, Unloading, Orphaned
<1>9. Bell'
  <2>1. rm = "on"
    BY <1>0, <1>1, <1>2, <1>3 DEF Bell
  <2> QED
    BY <1>0, <1>1, <2>1, KeptBell
<1> QED
  BY <1>4, <1>5, <1>6, <1>8, <1>9 DEF ResInv

-----------------------------------------------------------------------------
(* The unpopulating loop                                                   *)

LEMMA UnloadInv == ASSUME ResInv, Unload PROVE ResInv'
<1>0. ResType /\ Numbers /\ Loading /\ Unloading /\ Proxy /\ Bell
  BY DEF ResInv
<1>1. /\ UNCHANGED <<list, sched, virtio, orphans, irqMap, num, proxy, dblInit, whole, other, clobbered>>
      /\ ph \in {"on", "failed"} /\ irq' = 0 /\ at' = 1 /\ ph' \in {"unres", "leaked"}
  BY DEF Unload, vmVars, someone
<1>2. UNCHANGED <<rxIrq, handler, capSet>> /\ (rm' = rm \/ (rm' = "untx" /\ rm # "free"))
  BY BellFrame DEF Unload, Unpopulate, PopulateStops, RmTo, RmOnly, capVars
<1>3. Numbers'
  BY <1>0, <1>1, KeptNumbers
<1>4. ResType'
  <2>1. Len(list) \in Nat /\ 0 \in 0..NumIrqs
    BY <1>0, ListFacts, ListsAssumption DEF ResType
  <2> QED
    BY <1>0, <1>1, <2>1 DEF ResType
<1>5. Loading'
  BY <1>0, <1>1 DEF Loading, Orphaned
<1>6. Unloading'
  <2>1. \A r : Passed(r)' <=> Passed(r)
    BY <1>1 DEF Passed, proxied, WdogRefused, HasEntry
  <2>2. \A r : Untouched(r)' <=> Untouched(r)
    BY <1>1 DEF Untouched, Behind
  <2>3. InOrder(1)
    BY <1>0, <1>1 DEF Loading, InOrder
  <2>4. Places' = Places /\ Len(list) \in Nat
    BY <1>0, <1>1, ListFacts DEF ResType, Places
  <2>5. InOrder(1)'
    BY <1>1, <2>1, <2>2, <2>3, <2>4 DEF InOrder
  <2>6. whole => \A i \in Places : Passed(list[i])'
    BY <1>0, <1>1, <2>1 DEF Loading
  <2>7. \A i \in Places : ~(i < 1)
    BY <2>4 DEF Places
  <2> QED
    BY <1>1, <2>4, <2>5, <2>6, <2>7 DEF Unloading
<1>7. Proxy'
  BY <1>0, <1>1 DEF Proxy, proxied, Loading
<1>8. Bell'
  BY <1>0, <1>1, <1>2 DEF Bell, InUse
<1> QED
  BY <1>3, <1>4, <1>5, <1>6, <1>7, <1>8 DEF ResInv

\* A reset that fails: the resource was never populated, so nothing behind it was, or
\* its entry is gone.
LEMMA StopsInv ==
  ASSUME ResInv, UNCHANGED <<list, sched, virtio, orphans, proxy, dblInit, whole, other>>, NEW r, InLoop("unres", r), Stops,
         ~Passed(r), r \in HasIrq => num[r] = 0 \/ r \in orphans
  PROVE  ResInv'
<1>0. ResType /\ Numbers /\ Loading /\ Unloading /\ Proxy /\ Bell
  BY DEF ResInv
<1>1. /\ UNCHANGED <<irq, irqMap, num, clobbered>> /\ ph = "unres" /\ ph' = "cleanup" /\ at' = 1
  BY DEF Stops, InLoop
<1>2. /\ Len(list) \in Nat /\ at \in Places /\ list[at] = r
      /\ \A x : x \in ToSet(list) <=> \E i \in Places : list[i] = x
  BY <1>0, ListFacts DEF ResType, InLoop, Here, Places
<1>3. UNCHANGED <<rxIrq, handler, capSet>> /\ (rm' = rm \/ (rm' \in {"off", "kept"} /\ rm \in {"untx", "unrx"}))
  BY BellFrame DEF Stops, ResetStops, RmOnly, capVars
<1>4. Numbers'
  BY <1>0, <1>1, KeptNumbers
<1>5. ResType'
  BY <1>0, <1>1, <1>2 DEF ResType
<1>6. ~whole
  BY <1>0, <1>1, <1>2 DEF Unloading, Places
<1>7. ASSUME NEW q \in HasIrq, num[q] # 0 PROVE q = "VIRTIO" \/ q = "VCPU" \/ Behind(q)
  <2>1. q \in ToSet(list)
    BY <1>0, <1>7 DEF Numbers, Known
  <2>2. PICK j \in Places : list[j] = q
    BY <1>2, <2>1
  <2>3. CASE j < at
    <3>1. Unused(q)
      BY <1>0, <1>1, <2>2, <2>3 DEF Unloading, Returned
    <3> QED
      BY <1>7, <3>1 DEF Unused, MqDirs, HasIrq, Res
  <2>4. CASE j = at
    BY <1>0, <1>2, <1>7, <2>2, <2>4, BehindFrom DEF Places
  <2>5. CASE j > at
    <3>1. InOrder(at)
      BY <1>0, <1>1 DEF Unloading
    <3>2. Untouched(q)
      BY <1>2, <2>2, <2>5, <3>1 DEF InOrder, Places
    <3> QED
      BY <1>7, <3>2 DEF Untouched
  <2> QED
    BY <1>2, <2>3, <2>4, <2>5 DEF Places
<1>8. Loading' /\ Unloading'
  <2>1. Loading'
    BY <1>0, <1>1 DEF Loading, Orphaned
  <2>2. \A q \in HasIrq : num'[q] # 0 => q = "VIRTIO" \/ (~whole' /\ (q = "VCPU" \/ Behind(q)'))
    <3>1. \A q : Behind(q) => Behind(q)'
      BY BehindGrows
    <3> QED
      BY <1>1, <1>6, <1>7, <3>1
  <2>3. Unloading'
    BY <1>1, <2>2 DEF Unloading
  <2> QED
    BY <2>1, <2>3
<1>9. Proxy'
  BY <1>0, <1>1, <1>6 DEF Proxy, proxied
<1>10. Bell'
  BY <1>0, <1>1, <1>3 DEF Bell, InUse
<1> QED
  BY <1>4, <1>5, <1>8, <1>9, <1>10 DEF ResInv

\* The unpopulating loop goes on past resource r.
LEMMA PassStages ==
  ASSUME ResType, Orphaned, Unloading, Proxy, UNCHANGED <<list, sched, virtio, orphans, proxy, dblInit, whole>>,
         NEW r, InLoop("unres", r), NextEntry, r \notin orphans,
         \A q \in HasIrq : (q # r => num'[q] = num[q]) /\ num'[q] \in {num[q], 0},
         num'["VCPU"] # num["VCPU"] => proxy = "active",
         \A k \in 1..NumIrqs : irqMap'[k] \in {irqMap[k], Free}, Returned(r)'
  PROVE  Loading' /\ Unloading' /\ Proxy' /\ at' \in 1..(Len(list) + 1)
<1>1. /\ Len(list) \in Nat /\ at \in Places /\ list[at] = r /\ list \in [Places -> Res] /\ Places' = Places
      /\ \A i, j \in Places : list[i] = list[j] => i = j
      /\ ph = "unres" /\ ph' = "unres" /\ at' = at + 1 /\ at' \in 1..(Len(list) + 1)
  BY ListFacts DEF ResType, InLoop, Here, Places, NextEntry
<1>h. {"MQ_TX", "MQ_RX", "VIRTIO", "VPM", "VCPU", "DB_RX"} \subseteq HasIrq
  BY DEF MqDirs, HasIrq, Res
<1>b. \A q : Behind(q) => Behind(q)'
  BY BehindGrows
<1>2. \A q : Untouched(q) => Untouched(q)'
  BY <1>b DEF Untouched
<1>3. ASSUME NEW i \in Places, i # at, Passed(list[i]) PROVE Passed(list[i])'
  <2>1. list[i] # r /\ (list[i] \in HasIrq => num'[list[i]] = num[list[i]])
    BY <1>1, <1>3
  <2> QED
    BY <1>3, <1>h, <2>1 DEF Passed, proxied, WdogRefused, HasEntry, MqDirs
<1>4. \A q : Returned(q) => Returned(q)'
  <2>1. ASSUME NEW q, Unused(q) PROVE Unused(q)'
    BY <1>h, <2>1 DEF Unused, MqDirs
  <2>2. ASSUME NEW q, Unmapped(q) PROVE Unmapped(q)'
    BY <2>2 DEF Unmapped, Free, MqDirs
  <2> QED
    BY <2>1, <2>2 DEF Returned
<1>6. ASSUME NEW i \in Places, NEW j \in Places, at' <= i, i < j, ~Untouched(list[j])' PROVE Passed(list[i])'
  <2>1. at <= i /\ i # at /\ ~Untouched(list[j])
    BY <1>1, <1>2, <1>6 DEF Places
  <2>2. Passed(list[i])
    BY <1>1, <1>6, <2>1 DEF Unloading, InOrder
  <2> QED
    BY <1>3, <2>1, <2>2
<1>7. ASSUME NEW i \in Places, i < at' PROVE Returned(list[i])'
  <2>1. CASE i = at
    <3>1. list'[i] = r
      BY <1>1, <2>1
    <3> QED
      BY <3>1
  <2>2. CASE i < at
    BY <1>1, <1>4, <2>2 DEF Unloading
  <2> QED
    BY <1>1, <1>7, <2>1, <2>2 DEF Places
<1>8. ASSUME whole, NEW i \in Places, i >= at' PROVE Passed(list[i])'
  <2>1. i >= at /\ i # at
    BY <1>1, <1>8 DEF Places
  <2> QED
    BY <1>1, <1>3, <1>8, <2>1 DEF Unloading
<1>9. Unloading'
  <2>1. \A i, j \in Places' : at' <= i /\ i < j /\ ~Untouched(list[j])' => Passed(list[i])'
    BY <1>1, <1>6
  <2>2. InOrder(at)'
    BY <2>1 DEF InOrder
  <2> QED
    BY <1>1, <1>7, <1>8, <2>2 DEF Unloading
<1>10. Loading'
  BY <1>1, <1>h DEF Loading, Orphaned, MqDirs
<1>11. Proxy'
  BY <1>1, <1>h DEF Proxy, proxied
<1> QED
  BY <1>1, <1>9, <1>10, <1>11

\* A driver gives its interrupt back and the loop goes on.
LEMMA GivesInv ==
  ASSUME ResInv, UNCHANGED <<list, sched, virtio, orphans, proxy, dblInit, whole, other>>,
         NEW r \in HasIrq, InLoop("unres", r), num[r] # 0, r \notin orphans, r = "VCPU" => proxy = "active", GivesBack(r)
  PROVE  ResType' /\ Numbers' /\ Loading' /\ Unloading' /\ Proxy' /\ (r # "DB_RX" => num'["DB_RX"] = num["DB_RX"])
         /\ num'[r] = 0
<1>0. ResType /\ Numbers /\ Orphaned /\ Unloading /\ Proxy
  BY DEF ResInv, Loading
<1>h. {"VCPU", "DB_RX"} \subseteq HasIrq
  BY DEF MqDirs, HasIrq, Res
<1>1. NextEntry /\ ph = "unres" /\ ph' = "unres"
  BY DEF GivesBack, InLoop, NextEntry
<1>2. /\ Numbers' /\ irqMap' \in [1..NumIrqs -> {Free, "other"} \cup HasIrq]
      /\ clobbered' = clobbered /\ num' \in [HasIrq -> 0..NumIrqs] /\ irq' \in 0..NumIrqs
      /\ num'[r] = 0 /\ \A q \in HasIrq : q # r => num'[q] = num[q]
      /\ \A k \in 1..NumIrqs : irqMap'[k] # r
      /\ \A k \in 1..NumIrqs : irqMap'[k] \in {irqMap[k], Free}
  BY <1>0, GivenNumbers
<1>3. Returned(r)'
  BY <1>2 DEF Returned, Unused, Unmapped
<1>4. Loading' /\ Unloading' /\ Proxy' /\ at' \in 1..(Len(list) + 1)
  <2>1. \A q \in HasIrq : (q # r => num'[q] = num[q]) /\ num'[q] \in {num[q], 0}
    BY <1>2
  <2>2. num'["VCPU"] # num["VCPU"] => proxy = "active"
    BY <1>2, <1>h
  <2> QED
    BY <1>0, <1>1, <1>2, <1>3, <2>1, <2>2, PassStages
<1>5. ResType'
  BY <1>0, <1>1, <1>2, <1>4 DEF ResType
<1> QED
  BY <1>2, <1>4, <1>5, <1>h

\* Nothing is given back: a stale number is put and the loop goes on.
LEMMA StaleInv ==
  ASSUME ResInv, UNCHANGED dblVars, UNCHANGED <<list, sched, virtio, orphans, proxy, dblInit, whole, other>>,
         NEW r, InLoop("unres", r), PutsStale, r \in {"VIRTIO", "WDOG"} \/ (r \in {"VCPU", "VPM"} /\ ~Resets(r))
  PROVE  ResInv'
<1>0. ResType /\ Numbers /\ Orphaned /\ Unloading /\ Proxy /\ Bell
  BY DEF ResInv, Loading
<1>1. NextEntry /\ ph = "unres" /\ ph' = "unres"
  BY DEF PutsStale, InLoop, NextEntry
<1>2. /\ Numbers' /\ irqMap' \in [1..NumIrqs -> {Free, "other"} \cup HasIrq]
      /\ clobbered' \subseteq {"own", "stale"} /\ UNCHANGED <<num, irq>>
      /\ \A k \in 1..NumIrqs : irqMap'[k] \in {irqMap[k], Free}
  BY <1>0, <1>1, StaleNumbers
<1>3. Returned(r)'
  <2>1. CASE r \in {"VIRTIO", "WDOG"}
    BY <2>1 DEF Returned, Unused, Unmapped, MqDirs
  <2>2. CASE r \in {"VCPU", "VPM"} /\ ~Resets(r)
    <3>1. proxy = "active" => Passed(r)
      <4>1. at \in Places /\ list[at] = r /\ at >= at
        BY <1>0, ListFacts DEF ResType, InLoop, Here, Places
      <4> QED
        BY <1>0, <1>1, <4>1 DEF Proxy, Unloading
    <3>2. proxy # "active"
      BY <1>0, <2>2, <3>1 DEF Passed, Resets, Proxy
    <3>3. r = "VPM" => num["VPM"] = 0
      BY <1>0, <2>2 DEF Resets, Proxy
    <3> QED
      BY <1>2, <2>2, <3>2, <3>3 DEF Returned, Unused, Unmapped, MqDirs
  <2> QED
    BY <2>1, <2>2
<1>4. Loading' /\ Unloading' /\ Proxy' /\ at' \in 1..(Len(list) + 1)
  <2>1. r \notin orphans
    BY <1>0 DEF Orphaned, MqDirs
  <2> QED
    BY <1>0, <1>1, <1>2, <1>3, <2>1, PassStages
<1>5. ResType'
  BY <1>0, <1>1, <1>2, <1>4 DEF ResType
<1>6. Bell'
  BY <1>0, <1>1, <1>2, KeptBell
<1> QED
  BY <1>2, <1>4, <1>5, <1>6 DEF ResInv

LEMMA ResetMqInv == ASSUME ResInv, NEW r \in Res, ResetMq(r) PROVE ResInv'
<1>1. /\ UNCHANGED <<list, sched, virtio, orphans, proxy, dblInit, whole, other>> /\ InLoop("unres", r)
      /\ ph = "unres" /\ r \in MqDirs /\ r \in HasIrq /\ r \notin {"DB_RX", "VCPU"}
      /\ \/ ~HasEntry(r) /\ Stops
         \/ HasEntry(r) /\ GivesBack(r) /\ UNCHANGED dblVars
  BY DEF ResetMq, vmVars, someone, InLoop, MqDirs, HasIrq, Res, MqDirs
<1>2. CASE ~HasEntry(r) /\ Stops
  <2>1. ~Passed(r) /\ (num[r] = 0 \/ r \in orphans)
    BY <1>1, <1>2 DEF Passed, HasEntry
  <2> QED
    BY <1>1, <1>2, <2>1, StopsInv
<1>3. CASE HasEntry(r) /\ GivesBack(r) /\ UNCHANGED dblVars
  <2>0. num[r] # 0 /\ r \notin orphans
    BY <1>3 DEF HasEntry
  <2>1. /\ ResType' /\ Numbers' /\ Loading' /\ Unloading' /\ Proxy' /\ num'["DB_RX"] = num["DB_RX"]
    BY <1>1, <1>3, <2>0, GivesInv
  <2>2. ph' = "unres" /\ ResType /\ Bell
    BY <1>1, <1>3 DEF GivesBack, NextEntry, ResInv
  <2>3. Bell'
    BY <1>1, <1>3, <2>1, <2>2, KeptBell
  <2> QED
    BY <2>1, <2>3 DEF ResInv
<1> QED
  BY <1>1, <1>2, <1>3

LEMMA ResetOtherInv == ASSUME ResInv, NEW r \in Res, ResetOther(r) PROVE ResInv'
<1>1. /\ UNCHANGED <<list, sched, virtio, orphans, proxy, dblInit, whole, other>> /\ UNCHANGED dblVars
      /\ InLoop("unres", r) /\ ph = "unres" /\ r \in {"VCPU", "VPM", "VIRTIO"} /\ r \in HasIrq
      /\ \/ Resets(r) /\ GivesBack(r)
         \/ ~Resets(r) /\ PutsStale
  BY DEF ResetOther, vmVars, someone, InLoop, MqDirs, HasIrq, Res
<1>2. CASE Resets(r) /\ GivesBack(r)
  <2>1. num[r] # 0 /\ (r = "VCPU" => proxy = "active") /\ r # "DB_RX" /\ r \notin orphans
    BY <1>1, <1>2 DEF Resets, ResInv, Loading, Orphaned, MqDirs
  <2>2. /\ ResType' /\ Numbers' /\ Loading' /\ Unloading' /\ Proxy' /\ num'["DB_RX"] = num["DB_RX"]
    BY <1>1, <1>2, <2>1, GivesInv
  <2>3. ph' = "unres" /\ ResType /\ Bell
    BY <1>1, <1>2 DEF GivesBack, NextEntry, ResInv
  <2>4. Bell'
    BY <1>1, <2>2, <2>3, KeptBell
  <2> QED
    BY <2>2, <2>4 DEF ResInv
<1>3. CASE ~Resets(r) /\ PutsStale
  BY <1>1, <1>3, StaleInv
<1> QED
  BY <1>1, <1>2, <1>3

LEMMA ResetWdogInv == ASSUME ResInv, ResetWdog PROVE ResInv'
<1>1. /\ UNCHANGED <<list, sched, virtio, orphans, proxy, dblInit, whole, other>> /\ InLoop("unres", "WDOG")
      /\ "WDOG" \notin HasIrq
      /\ \/ WdogRefused /\ Stops
         \/ PutsStale /\ UNCHANGED dblVars
  BY DEF ResetWdog, vmVars, someone, HasIrq
<1>2. WdogRefused => ~Passed("WDOG")
  BY DEF Passed
<1>3. CASE WdogRefused /\ Stops
  BY <1>1, <1>2, <1>3, StopsInv
<1>4. CASE PutsStale /\ UNCHANGED dblVars
  BY <1>1, <1>4, StaleInv
<1> QED
  BY <1>1, <1>3, <1>4

LEMMA ResetDblTxInv == ASSUME ResInv, CapType, ResetDblTx PROVE ResInv'
<1>0. ResType /\ Numbers /\ Orphaned /\ Unloading /\ Proxy /\ Bell
  BY DEF ResInv, Loading
<1>1. /\ UNCHANGED <<list, sched, virtio, orphans, proxy, dblInit, whole, other>> /\ InLoop("unres", "DB_TX")
      /\ "DB_TX" \notin HasIrq /\ ph = "unres"
      /\ \/ ~dblInit /\ Stops
         \/ ResetTx /\ irq' = 0 /\ NextEntry /\ UNCHANGED <<irqMap, num, clobbered>>
  BY DEF ResetDblTx, vmVars, someone, InLoop, HasIrq
<1>2. CASE ~dblInit /\ Stops
  <2>1. ~Passed("DB_TX")
    BY <1>2 DEF Passed
  <2> QED
    BY <1>1, <1>2, <2>1, StopsInv
<1>3. CASE ResetTx /\ irq' = 0 /\ NextEntry /\ UNCHANGED <<irqMap, num, clobbered>>
  <2>1. Numbers'
    BY <1>0, <1>1, <1>3, KeptNumbers
  <2>2. Returned("DB_TX")' /\ "DB_TX" \notin orphans
    BY <1>0 DEF Returned, Unused, Unmapped, Orphaned, MqDirs
  <2>3. Loading' /\ Unloading' /\ Proxy' /\ at' \in 1..(Len(list) + 1)
    BY <1>0, <1>1, <1>3, <2>2, PassStages
  <2>4. ResType'
    <3>1. ph' = "unres" /\ 0 \in 0..NumIrqs
      BY <1>1, <1>3, ListsAssumption DEF NextEntry
    <3> QED
      BY <1>0, <1>1, <1>3, <2>3, <3>1 DEF ResType
  <2>5. Bell'
    <3>1. ph' = "unres" /\ rm = "untx" /\ rm' = "unrx" /\ UNCHANGED <<rxIrq, handler>>
      BY <1>1, <1>3 DEF NextEntry, ResetTx, RmTo
    <3> QED
      BY <1>0, <1>3, <3>1 DEF Bell, InUse
  <2> QED
    BY <2>1, <2>3, <2>4, <2>5 DEF ResInv
<1> QED
  BY <1>1, <1>2, <1>3

LEMMA ResetDblRxInv == ASSUME ResInv, ResetDblRx PROVE ResInv'
<1>0. ResType /\ Numbers /\ Loading /\ Unloading /\ Proxy /\ Bell
  BY DEF ResInv
<1>1. /\ UNCHANGED <<list, sched, virtio, orphans, proxy, dblInit, whole, other>> /\ InLoop("unres", "DB_RX")
      /\ "DB_RX" \in HasIrq /\ ph = "unres"
      /\ \/ rm = "unrx" /\ ~rxIrq /\ Stops
         \/ ResetRx /\ UNCHANGED <<ph, at, irq, irqMap, num, clobbered>>
         \/ ResetFree /\ GivesBack("DB_RX")
  BY DEF ResetDblRx, vmVars, someone, InLoop, MqDirs, HasIrq, Res
<1>2. CASE rm = "unrx" /\ ~rxIrq /\ Stops
  <2>1. num["DB_RX"] = 0
    BY <1>0, <1>2 DEF Bell
  <2>2. ~Passed("DB_RX")
    BY <2>1 DEF Passed
  <2> QED
    BY <1>1, <1>2, <2>1, <2>2, StopsInv
<1>3. CASE ResetRx /\ UNCHANGED <<ph, at, irq, irqMap, num, clobbered>>
  <2>1. Numbers'
    BY <1>0, <1>1, <1>3, KeptNumbers
  <2>2. Loading' /\ Unloading' /\ Proxy'
    BY <1>0, <1>1, <1>3, KeptStages
  <2>3. ResType'
    BY <1>0, <1>1, <1>3 DEF ResType
  <2>4. Bell'
    <3>1. rm = "unrx" /\ rm' = "free" /\ rxIrq /\ ~rxIrq'
      BY <1>3 DEF ResetRx, RmTo, ResetIrq
    <3> QED
      BY <1>0, <1>1, <1>3, <3>1 DEF Bell, InUse
  <2> QED
    BY <2>1, <2>2, <2>3, <2>4 DEF ResInv
<1>4. CASE ResetFree /\ GivesBack("DB_RX")
  <2>1. rm = "free" /\ rm' = "off" /\ UNCHANGED rxIrq /\ ph' = "unres"
    BY <1>1, <1>4 DEF ResetFree, RmTo, GivesBack, NextEntry
  <2>2. num["DB_RX"] # 0 /\ ~rxIrq /\ "DB_RX" \notin orphans
    BY <1>0, <2>1 DEF Bell, Loading, Orphaned, MqDirs
  <2>3. ResType' /\ Numbers' /\ Loading' /\ Unloading' /\ Proxy' /\ num'["DB_RX"] = 0
    BY <1>1, <1>4, <2>2, GivesInv
  <2>4. Bell'
    BY <2>1, <2>2, <2>3 DEF Bell, InUse
  <2> QED
    BY <2>3, <2>4 DEF ResInv
<1> QED
  BY <1>1, <1>2, <1>3, <1>4

LEMMA UnloadDoneInv == ASSUME ResInv, UnloadDone PROVE ResInv'
<1>0. ResType /\ Numbers /\ Loading /\ Unloading /\ Proxy /\ Bell
  BY DEF ResInv
<1>1. /\ UNCHANGED <<list, sched, virtio, orphans, irq, irqMap, num, dblInit, whole, other, clobbered>> /\ UNCHANGED dblVars
      /\ ph = "unres" /\ at > Len(list) /\ ph' = "cleanup" /\ at' = 1
      /\ proxy' = IF proxied /\ proxy = "active" THEN "none" ELSE proxy
  BY DEF UnloadDone, vmVars, someone
<1>2. /\ Len(list) \in Nat /\ at \in Nat
      /\ \A x : x \in ToSet(list) <=> \E i \in Places : list[i] = x
  BY <1>0, ListFacts DEF ResType
<1>3. ASSUME NEW q \in HasIrq, num[q] # 0 PROVE q = "VIRTIO" \/ (q = "VCPU" /\ proxy # "active")
  <2>1. PICK j \in Places : list[j] = q
    BY <1>0, <1>2, <1>3 DEF Numbers, Known
  <2>2. j < at
    BY <1>1, <1>2 DEF Places
  <2>3. Unused(q)
    BY <1>0, <1>1, <2>1, <2>2 DEF Unloading, Returned
  <2> QED
    BY <1>3, <2>3 DEF Unused, MqDirs, HasIrq, Res
<1>h. "VPM" \in HasIrq /\ "VCPU" \in HasIrq
  BY DEF MqDirs, HasIrq, Res
<1>4. num["VPM"] = 0 /\ (num["VCPU"] # 0 => proxied /\ proxy = "vcpus" /\ ~whole)
  BY <1>0, <1>1, <1>3, <1>h DEF Proxy, ResType
<1>5. Numbers'
  BY <1>0, <1>1, KeptNumbers
<1>6. ResType'
  BY <1>0, <1>1, <1>2 DEF ResType
<1>7. Loading' /\ Unloading'
  <2>1. \A q \in HasIrq : num'[q] # 0 => q = "VIRTIO" \/ (q = "VCPU" /\ ~whole')
    BY <1>1, <1>3, <1>4
  <2> QED
    BY <1>0, <1>1, <2>1 DEF Loading, Unloading, Orphaned
<1>8. Proxy'
  BY <1>0, <1>1, <1>4 DEF Proxy, proxied
<1>9. Bell'
  BY <1>0, <1>1, KeptBell
<1> QED
  BY <1>5, <1>6, <1>7, <1>8, <1>9 DEF ResInv

LEMMA VirtioExitInv == ASSUME ResInv, VirtioExit PROVE ResInv'
<1>0. ResType /\ Numbers /\ Loading /\ Unloading /\ Proxy /\ Bell
  BY DEF ResInv
<1>1. /\ UNCHANGED <<list, sched, virtio, orphans, at, irq, irqMap, proxy, dblInit, whole, other, clobbered>> /\ UNCHANGED dblVars
      /\ ph = "cleanup" /\ ph' = "idle" /\ num' = [num EXCEPT !["VIRTIO"] = 0]
  BY DEF VirtioExit, vmVars, someone
<1>h. {"VPM", "VCPU", "DB_RX", "VIRTIO"} \subseteq HasIrq
  BY DEF MqDirs, HasIrq, Res
<1>2. /\ num' \in [HasIrq -> 0..NumIrqs] /\ num'["VIRTIO"] = 0
      /\ \A q \in HasIrq : q # "VIRTIO" => num'[q] = num[q]
  BY <1>0, <1>1, <1>h, ListsAssumption DEF ResType
<1>3. Numbers'
  BY <1>0, <1>1, <1>2, KeptNumbers
<1>4. ResType'
  BY <1>0, <1>1, <1>2 DEF ResType
<1>5. Loading' /\ Unloading'
  <2>1. \A q \in HasIrq : num'[q] # 0 => ~whole' /\ (q = "VCPU" \/ Behind(q)')
    <3>1. \A q : Behind(q) => Behind(q)'
      BY <1>1, BehindGrows
    <3> QED
      BY <1>0, <1>1, <1>2, <3>1 DEF Unloading
  <2>2. MqDirs \subseteq HasIrq \ {"VIRTIO"}
    BY DEF MqDirs, HasIrq, Res
  <2>3. Orphaned'
    BY <1>0, <1>1, <1>2, <2>2 DEF Loading, Orphaned
  <2> QED
    BY <1>1, <2>1, <2>3 DEF Loading, Unloading
<1>6. Proxy'
  BY <1>0, <1>1, <1>2, <1>h DEF Proxy, proxied
<1>7. Bell'
  BY <1>0, <1>1, <1>2, <1>h, KeptBell
<1> QED
  BY <1>3, <1>4, <1>5, <1>6, <1>7 DEF ResInv

-----------------------------------------------------------------------------
(* Resources are connected and given back                                  *)

LEMMA ResStep == ASSUME ResInv, CapType, HandlerInv, [ResNext]_allVars PROVE ResInv'
<1>1. CASE Load
  BY <1>1, LoadInv
<1>2. CASE LoadNext
  <2>1. ASSUME NEW r \in Res, RequestStep(r) \/ SkipStep(r) PROVE ResInv'
    BY <2>1, RequestInv, SkipInv
  <2> QED
    BY <1>2, <2>1, VcpuInv, DblTxInv, DblRxInv, LoadDoneInv DEF LoadNext
<1>3. CASE Unload
  BY <1>3, UnloadInv
<1>4. CASE UnloadNext
  <2>1. ASSUME NEW r \in Res, ResetMq(r) \/ ResetOther(r) PROVE ResInv'
    BY <2>1, ResetMqInv, ResetOtherInv
  <2> QED
    BY <1>4, <2>1, ResetWdogInv, ResetDblTxInv, ResetDblRxInv, UnloadDoneInv, VirtioExitInv
    DEF UnloadNext
<1>5. CASE OtherMaps \/ OtherUnmaps
  BY <1>5, OtherInv
<1>6. CASE DblInit \/ DblClients \/ UNCHANGED allVars
  BY <1>6, SideInv
<1> QED
  BY <1>1, <1>2, <1>3, <1>4, <1>5, <1>6 DEF ResNext

LEMMA ResStart == ResInit => ResInv
<1> SUFFICES ASSUME ResInit PROVE ResInv
  OBVIOUS
<1>1. ResType
  <2>1. 1 \in 1..(Len(list) + 1) /\ 0 \in 0..NumIrqs
    BY ListFacts, ListsAssumption DEF ResInit
  <2>2. sched \in {"absent", "skips", "takes"}
    BY ListsAssumption DEF ResInit
  <2> QED
    BY <2>1, <2>2 DEF ResInit, ResType
<1>2. Numbers
  <2>1. \A k \in 1..NumIrqs : irqMap[k] = Free /\ k # 0
    BY ListsAssumption DEF ResInit
  <2>2. \A r \in HasIrq : num[r] = 0
    BY DEF ResInit
  <2>3. Free \notin HasIrq /\ Free # "other"
    BY DEF Free, MqDirs, HasIrq, Res
  <2> QED
    BY <2>1, <2>2, <2>3 DEF ResInit, Numbers, Own, Once, Known, Others, Stale
<1>3. Loading /\ Unloading /\ Proxy /\ Bell
  BY DEF ResInit, Init, Loading, Unloading, Proxy, Bell, InUse, Orphaned, MqDirs, HasIrq, Res
<1> QED
  BY <1>1, <1>2, <1>3 DEF ResInv

\* The inductive invariant of the composition: the loops' and the doorbell driver's.
LEMMA ResInvariant == ResSpec => []ResInv
<1>1. TypeOK => CapType
  BY TypeParts
<1>2. Init => HandlerInv
  BY DEF Init, HandlerInv
<1>3. ResInv /\ TypeOK /\ HandlerInv /\ [ResNext]_allVars => ResInv'
  BY <1>1, ResStep
<1>4. Spec => []HandlerInv
  BY <1>2, HandlerStep, PTL DEF Spec
<1> QED
  BY <1>3, <1>4, ResStart, DoorbellsImplemented, TypeCorrect, PTL DEF ResSpec

\* A load that succeeded has connected every resource of the list, in whatever order
\* it comes, and whatever an earlier load that failed or others left behind.
THEOREM ResourcesConnected == ResSpec => []PopulateWires
<1>1. ResInv => PopulateWires
  <2> SUFFICES ASSUME ResInv, ph = "on" PROVE /\ \A r \in ToSet(list) \cap HasIrq : Served(r) => num[r] # 0 /\ irqMap[num[r]] = r
                                              /\ handler /\ capSet["TX"] /\ capSet["RX"]
    BY DEF PopulateWires
  <2>1. ASSUME NEW r \in ToSet(list) \cap HasIrq, Served(r) PROVE num[r] # 0 /\ irqMap[num[r]] = r
    <3>1. PICK i \in Places : list[i] = r
      BY ListFacts DEF ResInv, ResType
    <3>2. Passed(r)
      BY <3>1 DEF ResInv, Loading
    <3>3. num[r] # 0
      BY <2>1, <3>2 DEF Passed, HasEntry, Served, ResInv, Proxy
    <3> QED
      BY <3>3 DEF ResInv, Numbers, Own
  <2>2. handler /\ capSet["TX"] /\ capSet["RX"]
    BY DEF ResInv, Bell, InUse
  <2> QED
    BY <2>1, <2>2
<1> QED
  BY <1>1, ResInvariant, PTL

\* Unloading gives back what loading took, after a load that failed as well but for
\* the vcpus' interrupts and what gh_msgq_populate_cap_info cut off, and a driver
\* never puts an interrupt that is no longer its own.
THEOREM ResourcesReturned == ResSpec => []UnpopulateExact
<1>1. ResInv => UnpopulateExact
  <2> SUFFICES ASSUME ResInv PROVE UnpopulateExact
    OBVIOUS
  <2>1. ph = "idle" => \A r \in HasIrq : num[r] # 0 => ~whole /\ (r = "VCPU" \/ Behind(r))
    BY DEF ResInv, Loading
  <2>2. ASSUME ph = "unres", at > Len(list), NEW k \in DOMAIN irqMap
        PROVE  irqMap[k] \in {Free, "other", "VIRTIO"} \/ (proxy # "active" /\ irqMap[k] \in {"VCPU", "VPM"})
    <3>1. k \in 1..NumIrqs /\ irqMap[k] \in {Free, "other"} \cup HasIrq
      BY DEF ResInv, ResType
    <3>2. CASE irqMap[k] \in HasIrq
      <4>1. PICK i \in Places : list[i] = irqMap[k]
        BY <3>1, <3>2, ListFacts DEF ResInv, ResType, Numbers, Known
      <4>2. i < at
        BY <2>2, ListFacts DEF ResInv, ResType, Places
      <4>3. Unmapped(irqMap[k])
        BY <2>2, <4>1, <4>2 DEF ResInv, Unloading, Returned
      <4>4. irqMap[k] \notin MqDirs \cup {"DB_RX"} /\ ~(irqMap[k] \in {"VCPU", "VPM"} /\ proxy = "active")
        BY <3>1, <4>3 DEF Unmapped
      <4> QED
        BY <3>2, <4>4 DEF MqDirs, HasIrq, Res
    <3> QED
      BY <3>1, <3>2
  <2>3. "own" \notin clobbered
    BY DEF ResInv, Numbers, Others
  <2> QED
    BY <2>1, <2>2, <2>3 DEF UnpopulateExact
<1> QED
  BY <1>1, ResInvariant, PTL
=============================================================================
