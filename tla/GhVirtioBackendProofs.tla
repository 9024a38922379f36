----------------------- MODULE GhVirtioBackendProofs -----------------------
(***************************************************************************)
(* Theorems about GhVirtioBackend for any number of devices, queues,       *)
(* buffers, vcpus, loads and failures: what a VM is given it gives back,   *)
(* and, when the guest resets a device only after its DRIVER_OK was        *)
(* acknowledged, no event, DRIVER_OK or kick is lost.                      *)
(***************************************************************************)
EXTENDS GhVirtioBackend, FiniteSetTheorems, TLAPS

-----------------------------------------------------------------------------
(* The inductive invariant                                                 *)

Running == phase \in {"up", "exited"}
Events  == GuestEvents \cup {"VM_EXIT", "APP_EXIT"}

Shape ==
  /\ phase \in Phases /\ next \in 1..(NumDevs + 1) /\ loads \in Nat /\ fails \in Nat
  /\ vdevEvent \in [Devs -> SUBSET Events] /\ hypEvent \in [Devs -> SUBSET Events]
  /\ vdevData \in [Devs -> SUBSET Queues] /\ hypData \in [Devs -> SUBSET Queues]
  /\ curEvent \in [Devs -> SUBSET Events] /\ hand \in [Devs -> SUBSET Events]
  /\ ioctx \in [Devs -> SUBSET Queues] /\ due \in [Devs -> SUBSET Queues]
  /\ evtAvail \in [Devs -> BOOLEAN] /\ ackDriverOk \in [Devs -> BOOLEAN] /\ told \in [Devs -> BOOLEAN]
  /\ config \in [Devs -> BOOLEAN] /\ irq \in [Devs -> Int] /\ mapped \in [Devs -> BOOLEAN]
  /\ hypAssignDone \in BOOLEAN /\ owner \in [Bufs -> Nat]
  /\ app \in [Devs -> AppSteps] /\ vcpu \in [Vcpus -> VcpuSteps] /\ at \in [Vcpus -> Devs]
  /\ guest \in [Devs -> {"init", "ok", "failed", "resetting"}]

\* Which threads there are, and which state a load starts from.
Stage ==
  /\ phase \notin {"up", "exited"} => \A d \in Devs : app[d] = "done"
  /\ phase # "exited" => \A v \in Vcpus : vcpu[v] \in {"idle", "done"}
  /\ phase = "loading" => \A d \in Devs : /\ hypEvent[d] = {} /\ due[d] = {} /\ guest[d] = "init"
                                          /\ d < next => vdevEvent[d] = {}
  /\ phase \in {"off", "loading"} => \A d \in Devs : ioctx[d] = {} /\ ~ackDriverOk[d] /\ ~config[d]
  /\ phase = "releasing" => \A d \in Devs : d < next => ioctx[d] = {} /\ ~ackDriverOk[d] /\ ~config[d]

\* What a VM has of the host while nothing has failed.
Holds(d) == phase \in {"up", "exited"} \/ (phase = "loading" /\ d < next) \/ (phase = "releasing" /\ d >= next)
Shares ==
  /\ fails = 0 => /\ hypAssignDone <=> (Running \/ phase = "releasing" \/ (phase = "loading" /\ next > 1))
                  /\ \A d \in Devs : irq[d] = (IF Holds(d) THEN 1 ELSE 0) /\ (mapped[d] <=> Holds(d))
                  /\ hypAssignDone /\ phase # "releasing" => \A b \in Bufs : owner[b] = loads
  /\ ~hypAssignDone /\ fails <= 1 => \A b \in Bufs : owner[b] = Host

\* An event that the guest reported: with the hypervisor, in vdev_event, taken by
\* the ioctl, or with user space; in one of these places only.
Taken(d, e) == app[d] = "out" /\ e \in curEvent[d]
About(d, e) == e \in hypEvent[d] \/ e \in vdevEvent[d] \/ Taken(d, e) \/ e \in hand[d]
Once(d, e) ==
  /\ e \in hypEvent[d] => e \notin vdevEvent[d] /\ ~Taken(d, e) /\ e \notin hand[d]
  /\ e \in vdevEvent[d] => ~Taken(d, e) /\ e \notin hand[d]
  /\ Taken(d, e) => e \notin hand[d]

\* The event thread sleeps only while vdev_event has nothing for it.
Awake(d) ==
  \/ app[d] = "done" \/ Taken(d, "APP_EXIT")
  \/ evtAvail[d] \/ vdevEvent[d] \subseteq {"DRIVER_FAILED"}

\* The handshake of DRIVER_OK and reset between the guest and user space.
Handshake(d) ==
  /\ app[d] \in {"check", "sleep", "out"} => hand[d] = {}
  /\ ackDriverOk[d] => guest[d] \in {"ok", "resetting"} /\ ioctx[d] = Queues
  /\ About(d, "DRIVER_OK") => guest[d] = "ok" /\ ~ackDriverOk[d]
  /\ About(d, "RESET_RQST") => guest[d] = "resetting"
  /\ Taken(d, "RESET_RQST") \/ "RESET_RQST" \in hand[d] => ~ackDriverOk[d]
  /\ Once(d, "DRIVER_OK") /\ Once(d, "RESET_RQST")
  /\ guest[d] = "ok" /\ "VM_EXIT" \notin vdevEvent[d] =>
       /\ ackDriverOk[d] \/ About(d, "DRIVER_OK")
       /\ told[d] \/ "DRIVER_OK" \in hypEvent[d] \/ "DRIVER_OK" \in vdevEvent[d] \/ Taken(d, "DRIVER_OK")

\* Kicks that are still to be signalled.
AtHyp(d, q)  == q \in hypData[d] /\ "NEW_BUFFER" \in hypEvent[d]
AtVdev(d, q) == q \in vdevData[d] /\ "NEW_BUFFER" \in vdevEvent[d]
Kicks(d) ==
  \A q \in due[d] : /\ guest[d] = "ok"
                    /\ AtHyp(d, q) \/ AtVdev(d, q)
                    /\ "DRIVER_OK" \in hypEvent[d] => AtHyp(d, q)

Good(d)  == (Running => Awake(d) /\ Handshake(d)) /\ (phase = "up" => Kicks(d))
EventInv == \A d \in Devs : Good(d)
-----------------------------------------------------------------------------
(* Types                                                                   *)

LEMMA Sizes == NumDevs \in Nat /\ NumDevs > 0 /\ NumBufs \in Nat /\ MaxFails \in Nat
BY VirtioAssumption

\* A Boolean of one device changes, or those of all devices do.
LEMMA FlagSet ==
  ASSUME NEW S, NEW f \in [S -> BOOLEAN], NEW x, NEW b \in BOOLEAN
  PROVE  /\ [f EXCEPT ![x] = b] \in [S -> BOOLEAN] /\ [y \in S |-> b] \in [S -> BOOLEAN]
OBVIOUS

Flags ==
  /\ evtAvail \in [Devs -> BOOLEAN] /\ ackDriverOk \in [Devs -> BOOLEAN] /\ told \in [Devs -> BOOLEAN]
  /\ config \in [Devs -> BOOLEAN] /\ mapped \in [Devs -> BOOLEAN] /\ hypAssignDone \in BOOLEAN

LEMMA FlagStep == ASSUME Flags, Next PROVE Flags'
<1> USE DEF Flags, evVars, resVars, appVars, exitVars, lifeVars, hypVars
<1>0. TRUE \in BOOLEAN /\ FALSE \in BOOLEAN
  BY Zenon
<1>1. CASE LifeNext
  <2>1. CASE StartLoad
    BY <1>0, <2>1, FlagSet, Zenon DEF StartLoad
  <2>2. CASE InitShareFails \/ Up \/ LateLoadFail \/ GuestExits \/ Close
    BY <2>2, Zenon DEF InitShareFails, Up, LateLoadFail, GuestExits, Close
  <2>3. CASE InitIrqFails
    <3>1. \E b \in 1..(NumBufs + 1) : hypAssignDone' = (b <= NumBufs)
      BY <2>3, Zenon DEF InitIrqFails
    <3>2. hypAssignDone' \in BOOLEAN
      BY <3>1, Sizes
    <3> QED
      BY <2>3, <3>2, Zenon DEF InitIrqFails
  <2>4. CASE InitDev
    BY <1>0, <2>4, FlagSet, Zenon DEF InitDev, Opened
  <2>5. CASE ReleaseDev
    BY <1>0, <2>5, FlagSet, Zenon DEF ReleaseDev, ConfigFreed
  <2>6. CASE ReleaseBuffers
    BY <1>0, <2>6, Zenon DEF ReleaseBuffers, UnshareVmBuffers
  <2> QED
    BY <1>1, <2>1, <2>2, <2>3, <2>4, <2>5, <2>6, Zenon DEF LifeNext
<1>2. ASSUME NEW d \in Devs, VdevInterrupt(d) PROVE Flags'
  <2>1. UNCHANGED <<ackDriverOk, told, config, mapped, hypAssignDone>>
    BY <1>2, Zenon DEF VdevInterrupt
  <2>2. \E b \in BOOLEAN : evtAvail' = [evtAvail EXCEPT ![d] = b]
    BY <1>2, Zenon DEF VdevInterrupt
  <2> QED
    BY <2>1, <2>2, FlagSet, Zenon
<1>3. ASSUME NEW d \in Devs, AppNext(d) PROVE Flags'
  <2>1. CASE WaitEnter(d) \/ WaitCheck(d) \/ WaitInterrupted(d) \/ WaitLoop(d) \/ AckReset(d)
             \/ \E q \in Queues : IoEventFd(d, q)
    BY <2>1, Zenon DEF WaitEnter, WaitCheck, WaitInterrupted, WaitLoop, AckReset, IoEventFd
  <2>2. ASSUME NEW cur, NEW left, NEW dat, NEW again \in BOOLEAN, Took(d, cur, left, dat, again),
               ackDriverOk' \in [Devs -> BOOLEAN]
        PROVE  Flags'
    BY <2>2, FlagSet, Zenon DEF Took
  <2>3. CASE TakeExit(d)
    BY <1>0, <2>2, <2>3, Zenon DEF TakeExit
  <2>4. CASE TakeReset(d)
    <3>1. ackDriverOk' \in [Devs -> BOOLEAN]
      BY <1>0, <2>4, FlagSet, Zenon DEF TakeReset, AckAfterReset
    <3>2. (vdevEvent[d] \ {"RESET_RQST"} # {}) \in BOOLEAN
      BY Zenon
    <3> QED
      BY <2>2, <2>4, <3>1, <3>2, Zenon DEF TakeReset
  <2>5. CASE TakeDriverOk(d)
    <3>1. ackDriverOk' \in [Devs -> BOOLEAN]
      BY <2>5, Zenon DEF TakeDriverOk
    <3>2. StillAvail(d, vdevEvent[d] \ {"DRIVER_OK"}) \in BOOLEAN
      BY Zenon DEF StillAvail
    <3> DEFINE left == vdevEvent[d] \ {"DRIVER_OK"}
               cur  == IF ackDriverOk[d] THEN {} ELSE {"DRIVER_OK"}
    <3>3. Took(d, cur, left, vdevData[d], StillAvail(d, left))
      BY <2>5, Zenon DEF TakeDriverOk
    <3> HIDE DEF cur
    <3> QED
      BY <2>2, <3>1, <3>2, <3>3, Zenon
  <2>6. CASE TakeNewBuffer(d) \/ TakeInterruptAck(d) \/ TakeNothing(d)
    BY <1>0, <2>2, <2>6, Zenon DEF TakeNewBuffer, TakeInterruptAck, TakeNothing
  <2>7. CASE WaitReturn(d)
    <3>1. UNCHANGED <<evtAvail, ackDriverOk, config, mapped, hypAssignDone>>
      BY <2>7, Zenon DEF WaitReturn
    <3>2. \E b \in BOOLEAN : told' = [told EXCEPT ![d] = b]
      BY <2>7, Zenon DEF WaitReturn
    <3> QED
      BY <3>1, <3>2, FlagSet, Zenon
  <2>8. CASE AckDriverOk(d) \/ SetDeviceConfigData(d)
    BY <1>0, <2>8, FlagSet, Zenon DEF AckDriverOk, SetDeviceConfigData
  <2> QED
    BY <1>3, <2>1, <2>3, <2>4, <2>5, <2>6, <2>7, <2>8, Zenon DEF AppNext
<1>4. ASSUME NEW d \in Devs, GuestNext(d) PROVE Flags'
  BY <1>0, <1>4, FlagSet, Zenon
     DEF GuestNext, GuestDriverOk, GuestFails, GuestKick, GuestInterruptAck, GuestReset, GuestSteps
<1>5. ASSUME NEW v \in Vcpus, ExitNext(v) PROVE Flags'
  BY <1>0, <1>5, FlagSet, Zenon DEF ExitNext, ExitStart, ExitMark, ExitWait
<1> QED
  BY <1>1, <1>2, <1>3, <1>4, <1>5, Zenon DEF Next

Others ==
  /\ phase \in Phases /\ next \in 1..(NumDevs + 1) /\ loads \in Nat /\ fails \in Nat
  /\ vdevEvent \in [Devs -> SUBSET Events] /\ hypEvent \in [Devs -> SUBSET Events]
  /\ vdevData \in [Devs -> SUBSET Queues] /\ hypData \in [Devs -> SUBSET Queues]
  /\ curEvent \in [Devs -> SUBSET Events] /\ hand \in [Devs -> SUBSET Events]
  /\ ioctx \in [Devs -> SUBSET Queues] /\ due \in [Devs -> SUBSET Queues]
  /\ irq \in [Devs -> Int] /\ owner \in [Bufs -> Nat]
  /\ app \in [Devs -> AppSteps] /\ vcpu \in [Vcpus -> VcpuSteps] /\ at \in [Vcpus -> Devs]
  /\ guest \in [Devs -> {"init", "ok", "failed", "resetting"}]

LEMMA LifeShape == ASSUME Shape, LifeNext PROVE Others'
<1> USE Sizes DEF Shape, Others, evVars, resVars, appVars, exitVars, lifeVars, hypVars, Phases, AppSteps, VcpuSteps,
        LoadFails, Host
<1>1. CASE StartLoad
  BY <1>1 DEF StartLoad
<1>2. CASE InitShareFails
  <2>0. PICK b \in Bufs : \E stuck \in SUBSET (1..(b - 1)) :
          fails' = fails + 1 + Cardinality(stuck) /\ owner' = RolledBack(b, stuck)
    BY <1>2, Zenon DEF InitShareFails
  <2>1. PICK stuck \in SUBSET (1..(b - 1)) :
          fails' = fails + 1 + Cardinality(stuck) /\ owner' = RolledBack(b, stuck)
    BY <2>0, Zenon
  <2>2. b - 1 \in Int /\ IsFiniteSet(stuck)
    <3>1. b - 1 \in Int
      BY DEF Bufs
    <3>2. IsFiniteSet(1..(b - 1))
      BY <3>1, FS_Interval
    <3> QED
      BY <3>1, <3>2, FS_Subset
  <2>3. Cardinality(stuck) \in Nat
    BY <2>2, FS_CardinalityType
  <2>4. fails' \in Nat /\ owner' \in [Bufs -> Nat]
    BY <2>1, <2>3 DEF RolledBack
  <2> QED
    BY <1>2, <2>4 DEF InitShareFails
<1>3. CASE InitIrqFails
  <2>1. PICK cost \in {0, 1}, b \in 1..(NumBufs + 1) :
          /\ fails' = fails + IF b <= NumBufs THEN cost + 1 ELSE cost
          /\ owner' = [i \in Bufs |-> IF i < b THEN Host ELSE Shared[i]]
    BY <1>3 DEF InitIrqFails
  <2>2. fails' \in Nat /\ owner' \in [Bufs -> Nat]
    BY <2>1 DEF Shared
  <2> QED
    BY <1>3, <2>2 DEF InitIrqFails
<1>4. CASE InitDev
  <2>1. next \in Devs /\ next + 1 \in 1..(NumDevs + 1)
    BY <1>4 DEF InitDev, Devs
  <2>2. owner' \in [Bufs -> Nat]
    BY <1>4 DEF InitDev, Shared
  <2> QED
    BY <1>4, <2>1, <2>2 DEF InitDev, Opened
<1>5. CASE Up \/ LateLoadFail \/ GuestExits \/ Close
  BY <1>5, SMTT(30) DEF Up, LateLoadFail, GuestExits, Close, Devs
<1>6. CASE ReleaseDev
  <2>1. next \in Devs /\ next + 1 \in 1..(NumDevs + 1)
    BY <1>6 DEF ReleaseDev, Devs
  <2> QED
    BY <1>6, <2>1 DEF ReleaseDev
<1>7. CASE ReleaseBuffers
  <2>1. fails' \in Nat /\ owner' \in [Bufs -> Nat]
    <3>1. CASE owner' = [b \in Bufs |-> Host] /\ UNCHANGED fails
      BY <3>1
    <3>2. CASE fails' = fails + 1 /\ \E b \in Bufs : owner' = [i \in Bufs |-> IF i < b THEN Host ELSE owner[i]]
      BY <3>2
    <3> QED
      BY <1>7, <3>1, <3>2, Zenon DEF ReleaseBuffers, UnshareVmBuffers
  <2> QED
    BY <1>7, <2>1 DEF ReleaseBuffers
<1> QED
  BY <1>1, <1>2, <1>3, <1>4, <1>5, <1>6, <1>7 DEF LifeNext

LEMMA DeviceShape ==
  ASSUME Shape, NEW d \in Devs, VdevInterrupt(d) \/ AppNext(d) \/ GuestNext(d)
  PROVE  Others'
<1> USE DEF Shape, Others, evVars, resVars, appVars, exitVars, lifeVars, hypVars, AppSteps, VcpuSteps, Events, GuestEvents
<1>1. CASE VdevInterrupt(d)
  <2> DEFINE dat  == vdevData[d] \cup hypData[d]
             now  == "NEW_BUFFER" \in hypEvent[d] /\ ackDriverOk[d]
             sig  == IF now THEN Signalled(d, dat) ELSE {}
             left == IF now THEN hypEvent[d] \ {"NEW_BUFFER"} ELSE hypEvent[d]
  <2>1. dat \subseteq Queues /\ left \subseteq Events
    OBVIOUS
  <2>2. /\ due' = [due EXCEPT ![d] = @ \ sig]
        /\ vdevData' = [vdevData EXCEPT ![d] = dat \ sig]
        /\ vdevEvent' = [vdevEvent EXCEPT ![d] = @ \cup left]
    BY <1>1, Zenon DEF VdevInterrupt
  <2>3. /\ hypEvent' = [hypEvent EXCEPT ![d] = {}] /\ hypData' = [hypData EXCEPT ![d] = {}]
        /\ UNCHANGED <<curEvent, guest, ioctx, resVars, appVars, exitVars, lifeVars>>
    BY <1>1, Zenon DEF VdevInterrupt
  <2> HIDE DEF dat, now, sig, left
  <2>4. due' \in [Devs -> SUBSET Queues] /\ vdevData' \in [Devs -> SUBSET Queues]
    BY <2>1, <2>2
  <2>5. vdevEvent' \in [Devs -> SUBSET Events]
    BY <2>1, <2>2
  <2> QED
    BY <2>3, <2>4, <2>5
<1>2. CASE AppNext(d)
  <2>1. CASE WaitEnter(d) \/ WaitCheck(d) \/ WaitLoop(d)
    BY <2>1 DEF WaitEnter, WaitCheck, WaitLoop, AppStep
  <2>2. CASE WaitInterrupted(d)
    BY <2>2 DEF WaitInterrupted, AppStep, InterruptedPut, VbDevPut
  <2>3. CASE WaitReturn(d)
    BY <2>3 DEF WaitReturn, AppStep, VbDevPut
  <2>4. ASSUME NEW cur \in SUBSET Events, NEW left \in SUBSET Events, NEW dat \in SUBSET Queues, NEW again,
               Took(d, cur, left, dat, again), ioctx' \in [Devs -> SUBSET Queues], due' \in [Devs -> SUBSET Queues]
        PROVE  Others'
    BY <2>4 DEF Took
  <2>5. CASE TakeExit(d) \/ TakeReset(d)
    <3>1. /\ ioctx' \in [Devs -> SUBSET Queues] /\ UNCHANGED due
          /\ {"APP_EXIT"} \in SUBSET Events /\ {"RESET_RQST"} \in SUBSET Events
          /\ vdevEvent[d] \in SUBSET Events /\ vdevEvent[d] \ {"RESET_RQST"} \in SUBSET Events
          /\ vdevData[d] \in SUBSET Queues
      BY <2>5 DEF TakeExit, TakeReset
    <3> QED
      BY <2>4, <2>5, <3>1, Zenon DEF TakeExit, TakeReset
  <2>6. CASE TakeDriverOk(d)
    BY <2>4, <2>6 DEF TakeDriverOk
  <2>7. CASE TakeNewBuffer(d)
    BY <2>4, <2>7 DEF TakeNewBuffer
  <2>8. CASE TakeInterruptAck(d) \/ TakeNothing(d)
    BY <2>4, <2>8, ZenonT(40) DEF TakeInterruptAck, TakeNothing
  <2>9. CASE (\E q \in Queues : IoEventFd(d, q)) \/ AckDriverOk(d) \/ AckReset(d) \/ SetDeviceConfigData(d)
    BY <2>9 DEF IoEventFd, AckDriverOk, AckReset, SetDeviceConfigData
  <2> QED
    BY <1>2, <2>1, <2>2, <2>3, <2>5, <2>6, <2>7, <2>8, <2>9 DEF AppNext
<1>3. CASE GuestNext(d)
  BY <1>3 DEF GuestNext, GuestDriverOk, GuestFails, GuestKick, GuestInterruptAck, GuestReset, GuestSteps, Reports
<1> QED
  BY <1>1, <1>2, <1>3

LEMMA ExitShape == ASSUME Shape, NEW v \in Vcpus, ExitNext(v) PROVE Others'
<1> USE Sizes DEF Shape, Others, evVars, resVars, appVars, exitVars, lifeVars, hypVars, VcpuSteps, Events, Devs
<1>1. NextDev(v) => vcpu' \in [Vcpus -> VcpuSteps] /\ at' \in [Vcpus -> Devs]
  <2>1. at[v] < NumDevs => at[v] + 1 \in 1..NumDevs
    OBVIOUS
  <2>2. CASE at[v] < NumDevs
    BY <2>1, <2>2 DEF NextDev
  <2>3. CASE ~(at[v] < NumDevs)
    BY <2>3 DEF NextDev
  <2> QED
    BY <2>2, <2>3
<1>2. CASE ExitStart(v)
  BY <1>2 DEF ExitStart
<1>3. CASE ExitMark(v)
  <2>1. vcpu' \in [Vcpus -> VcpuSteps] /\ at' \in [Vcpus -> Devs]
    BY <1>1, <1>3 DEF ExitMark
  <2> QED
    BY <1>3, <2>1 DEF ExitMark
<1>4. CASE ExitWait(v)
  <2>1. vcpu' \in [Vcpus -> VcpuSteps] /\ at' \in [Vcpus -> Devs]
    BY <1>1, <1>4 DEF ExitWait
  <2> QED
    BY <1>4, <2>1 DEF ExitWait
<1> QED
  BY <1>2, <1>3, <1>4 DEF ExitNext

LEMMA ShapeStep == ASSUME Shape, Next PROVE Shape'
<1>1. Flags'
  BY FlagStep DEF Shape, Flags
<1>2. Others'
  BY LifeShape, DeviceShape, ExitShape DEF Next
<1> QED
  BY <1>1, <1>2 DEF Shape, Flags, Others
-----------------------------------------------------------------------------
(* The life of the VM                                                      *)

\* What the devices' own steps leave alone, and when they happen.
LEMMA DeviceFrame ==
  ASSUME Shape, Stage, NEW d \in Devs, VdevInterrupt(d) \/ AppNext(d) \/ GuestNext(d)
  PROVE  /\ UNCHANGED <<phase, next, loads, fails, hypAssignDone, owner, irq, mapped>>
         /\ Running \/ (VdevInterrupt(d) /\ phase # "loading" /\ UNCHANGED <<app, ioctx, ackDriverOk, config>>)
         /\ \A v \in Vcpus : vcpu'[v] = vcpu[v] \/ vcpu[v] = "asleep"
<1> USE DEF Running, evVars, resVars, appVars, exitVars, lifeVars, hypVars
<1>1. CASE VdevInterrupt(d)
  <2>1. UNCHANGED <<phase, next, loads, fails, hypAssignDone, owner, irq, mapped, app, vcpu, ioctx, ackDriverOk, config>>
    BY <1>1, Zenon DEF VdevInterrupt
  <2>2. phase # "loading"
    BY <1>1 DEF VdevInterrupt, Stage
  <2> QED
    BY <1>1, <2>1, <2>2
<1>2. CASE AppNext(d)
  <2>1. UNCHANGED <<phase, next, loads, fails, hypAssignDone, owner, irq, mapped>>
    <3>1. CASE TakeExit(d) \/ TakeReset(d) \/ TakeDriverOk(d) \/ TakeNewBuffer(d) \/ TakeInterruptAck(d) \/ TakeNothing(d)
      BY <3>1, Zenon DEF TakeExit, TakeReset, TakeDriverOk, TakeNewBuffer, TakeInterruptAck, TakeNothing, Took
    <3>2. CASE WaitEnter(d) \/ WaitCheck(d) \/ WaitInterrupted(d) \/ WaitLoop(d) \/ WaitReturn(d)
      BY <3>2, Zenon DEF WaitEnter, WaitCheck, WaitInterrupted, WaitLoop, WaitReturn
    <3>3. CASE (\E q \in Queues : IoEventFd(d, q)) \/ AckDriverOk(d) \/ AckReset(d) \/ SetDeviceConfigData(d)
      BY <3>3, Zenon DEF IoEventFd, AckDriverOk, AckReset, SetDeviceConfigData
    <3> QED
      BY <1>2, <3>1, <3>2, <3>3, Zenon DEF AppNext
  <2>2. app[d] # "done"
    <3>1. CASE TakeExit(d) \/ TakeReset(d) \/ TakeDriverOk(d) \/ TakeNewBuffer(d) \/ TakeInterruptAck(d) \/ TakeNothing(d)
      <4>1. app[d] \in {"check", "sleep"}
        BY <3>1, Zenon DEF TakeExit, TakeReset, TakeDriverOk, TakeNewBuffer, TakeInterruptAck, TakeNothing, Took
      <4> QED
        BY <4>1
    <3>2. CASE WaitEnter(d) \/ WaitCheck(d) \/ WaitInterrupted(d) \/ WaitLoop(d) \/ WaitReturn(d)
      BY <3>2 DEF WaitEnter, WaitCheck, WaitInterrupted, WaitLoop, WaitReturn, AppStep
    <3>3. CASE (\E q \in Queues : IoEventFd(d, q)) \/ AckDriverOk(d) \/ AckReset(d) \/ SetDeviceConfigData(d)
      BY <3>3 DEF IoEventFd, AckDriverOk, AckReset, SetDeviceConfigData, AppActs
    <3> QED
      BY <1>2, <3>1, <3>2, <3>3, Zenon DEF AppNext
  <2>3. Running
    BY <2>2 DEF Stage
  <2>4. \A v \in Vcpus : vcpu'[v] = vcpu[v] \/ vcpu[v] = "asleep"
    <3>1. CASE WaitInterrupted(d) \/ WaitReturn(d)
      <4>1. VbDevPut(d)
        BY <3>1, Zenon DEF WaitInterrupted, InterruptedPut, WaitReturn
      <4> QED
        BY <4>1 DEF VbDevPut
    <3>2. CASE ~(WaitInterrupted(d) \/ WaitReturn(d))
      <4>1. vcpu' = vcpu
        BY <1>2, <3>2, Zenon DEF AppNext, TakeExit, TakeReset, TakeDriverOk, TakeNewBuffer, TakeInterruptAck, TakeNothing,
              Took, WaitEnter, WaitCheck, WaitLoop, IoEventFd, AckDriverOk, AckReset, SetDeviceConfigData
      <4> QED
        BY <4>1
    <3> QED
      BY <3>1, <3>2
  <2> QED
    BY <2>1, <2>3, <2>4
<1>3. CASE GuestNext(d)
  <2>1. phase = "up" /\ UNCHANGED <<phase, next, loads, fails, hypAssignDone, owner, irq, mapped, vcpu>>
    BY <1>3, Zenon DEF GuestNext, GuestDriverOk, GuestFails, GuestKick, GuestInterruptAck, GuestReset, GuestSteps
  <2> QED
    BY <2>1
<1> QED
  BY <1>1, <1>2, <1>3

LEMMA ExitFrame ==
  ASSUME Shape, Stage, NEW v \in Vcpus, ExitNext(v)
  PROVE  /\ phase = "exited" /\ UNCHANGED <<phase, next, loads, fails, hypAssignDone, owner, irq, mapped, app>>
<1> USE DEF evVars, resVars, appVars, exitVars, lifeVars, hypVars
<1>1. UNCHANGED <<phase, next, loads, fails, hypAssignDone, owner, irq, mapped, app>>
  BY Zenon DEF ExitNext, ExitStart, ExitMark, ExitWait
<1>2. phase = "exited"
  BY DEF ExitNext, ExitStart, ExitMark, ExitWait, Stage
<1> QED
  BY <1>1, <1>2

LEMMA StageStep == ASSUME Shape, Stage, Next, Shape' PROVE Stage'
<1> USE DEF evVars, resVars, appVars, exitVars, lifeVars, hypVars
<1>1. CASE LifeNext
  <2> USE Sizes
  <2>1. CASE StartLoad
    <3>1. /\ phase = "off" /\ phase' = "loading" /\ next' = 1 /\ UNCHANGED <<app, vcpu, ioctx, ackDriverOk, config>>
          /\ \A d \in Devs : hypEvent'[d] = {} /\ due'[d] = {} /\ guest'[d] = "init"
      BY <2>1 DEF StartLoad
    <3>2. \A d \in Devs : ~(d < next')
      BY <3>1 DEF Devs
    <3> QED
      BY <3>1, <3>2 DEF Stage
  <2>2. CASE InitShareFails \/ InitIrqFails \/ LateLoadFail
    <3>1. /\ phase = "loading" /\ phase' = "off"
          /\ UNCHANGED <<app, vcpu, ioctx, ackDriverOk, config>>
      BY <2>2, Zenon DEF InitShareFails, InitIrqFails, LateLoadFail, LoadFails
    <3> QED
      BY <3>1 DEF Stage
  <2>3. CASE InitDev
    <3>1. /\ phase = "loading" /\ next \in Devs /\ next' = next + 1
          /\ UNCHANGED <<phase, app, vcpu, ioctx, ackDriverOk, config, hypEvent, due, guest>>
          /\ vdevEvent' = [vdevEvent EXCEPT ![next] = {}]
      BY <2>3 DEF InitDev, Opened, Devs, Shape
    <3>2. \A d \in Devs : d < next' => vdevEvent'[d] = {}
      BY <3>1 DEF Shape, Stage, Devs
    <3> QED
      BY <3>1, <3>2 DEF Stage
  <2>4. CASE Up
    <3>1. phase' = "up" /\ vcpu' = [v \in Vcpus |-> "idle"]
      BY <2>4 DEF Up
    <3> QED
      BY <3>1 DEF Stage
  <2>5. CASE GuestExits
    <3>1. phase' = "exited"
      BY <2>5 DEF GuestExits
    <3> QED
      BY <3>1 DEF Stage
  <2>6. CASE Close
    <3>1. phase' = "releasing" /\ next' = 1 /\ app' = [d \in Devs |-> "done"] /\ vcpu' = [v \in Vcpus |-> "done"]
      BY <2>6 DEF Close
    <3> QED
      BY <3>1 DEF Stage, Devs
  <2>7. CASE ReleaseDev
    <3>1. /\ phase = "releasing" /\ next \in Devs /\ next' = next + 1 /\ UNCHANGED <<phase, app, vcpu>>
          /\ ioctx' = [ioctx EXCEPT ![next] = {}] /\ config' = [config EXCEPT ![next] = FALSE]
          /\ ackDriverOk' = [ackDriverOk EXCEPT ![next] = FALSE]
      BY <2>7 DEF ReleaseDev, ConfigFreed, Devs, Shape
    <3>2. \A d \in Devs : d < next' => d = next \/ d < next
      BY <3>1 DEF Devs, Shape
    <3>3. \A d \in Devs : d < next' => ioctx'[d] = {}
      BY <3>1, <3>2 DEF Shape, Stage
    <3>4. \A d \in Devs : d < next' => ~ackDriverOk'[d] /\ ~config'[d]
      BY <3>1, <3>2 DEF Shape, Stage
    <3> QED
      BY <3>1, <3>3, <3>4 DEF Stage
  <2>8. CASE ReleaseBuffers
    <3>1. /\ phase = "releasing" /\ next > NumDevs /\ phase' = "off"
          /\ UNCHANGED <<app, vcpu, ioctx, ackDriverOk, config>>
      BY <2>8, Zenon DEF ReleaseBuffers
    <3>2. \A d \in Devs : d < next
      BY <3>1 DEF Devs, Shape
    <3> QED
      BY <3>1, <3>2 DEF Stage
  <2> QED
    BY <1>1, <2>1, <2>2, <2>3, <2>4, <2>5, <2>6, <2>7, <2>8 DEF LifeNext
<1>2. ASSUME NEW d \in Devs, VdevInterrupt(d) \/ AppNext(d) \/ GuestNext(d) PROVE Stage'
  BY <1>2, DeviceFrame DEF Stage, Running
<1>3. ASSUME NEW v \in Vcpus, ExitNext(v) PROVE Stage'
  BY <1>3, ExitFrame DEF Stage
<1> QED
  BY <1>1, <1>2, <1>3 DEF Next

LEMMA SharesStep == ASSUME Shape, Stage, Shares, Next, Shape' PROVE Shares'
<1> USE DEF evVars, resVars, appVars, exitVars, lifeVars, hypVars
<1>0. ASSUME UNCHANGED <<phase, next, loads, fails, hypAssignDone, owner, irq, mapped>> PROVE Shares'
  BY <1>0 DEF Shares, Holds, Running
<1>1. CASE LifeNext
  <2> USE Sizes DEF Running, Host
  <2>1. CASE StartLoad
    <3>1. /\ phase = "off" /\ phase' = "loading" /\ next' = 1
          /\ UNCHANGED <<fails, hypAssignDone, owner, irq, mapped>>
      BY <2>1 DEF StartLoad
    <3>2. \A d \in Devs : ~Holds(d) /\ ~Holds(d)'
      BY <3>1 DEF Holds, Devs
    <3> QED
      BY <3>1, <3>2 DEF Shares
  <2>2. CASE InitShareFails
    <3>1. PICK b \in Bufs : \E stuck \in SUBSET (1..(b - 1)) :
            fails' = fails + 1 + Cardinality(stuck) /\ owner' = RolledBack(b, stuck)
      BY <2>2, Zenon DEF InitShareFails
    <3>2. PICK stuck \in SUBSET (1..(b - 1)) :
            fails' = fails + 1 + Cardinality(stuck) /\ owner' = RolledBack(b, stuck)
      BY <3>1, Zenon
    <3>3. IsFiniteSet(stuck)
      <4>1. b - 1 \in Int
        BY DEF Bufs
      <4>2. IsFiniteSet(1..(b - 1))
        BY <4>1, FS_Interval
      <4> QED
        BY <4>2, FS_Subset
    <3>4. Cardinality(stuck) \in Nat /\ (Cardinality(stuck) = 0 => stuck = {})
      BY <3>3, FS_CardinalityType, FS_EmptySet
    <3>5. fails' > 0 /\ (fails' <= 1 => stuck = {})
      <4>1. fails \in Nat /\ fails' = fails + 1 + Cardinality(stuck)
        BY <3>2 DEF Shape
      <4>2. fails' > 0 /\ (fails' <= 1 => Cardinality(stuck) = 0)
        BY <3>4, <4>1
      <4> QED
        BY <3>4, <4>2
    <3>6. stuck = {} => \A i \in Bufs : owner'[i] = 0
      BY <3>2 DEF RolledBack
    <3> QED
      BY <3>5, <3>6 DEF Shares
  <2>3. CASE InitIrqFails
    <3>1. PICK cost \in (IF irq[next] > 0 THEN {0, 1} ELSE {1}), b \in 1..(NumBufs + 1) :
            /\ fails' = fails + IF b <= NumBufs THEN cost + 1 ELSE cost
            /\ hypAssignDone' = (b <= NumBufs)
            /\ owner' = [i \in Bufs |-> IF i < b THEN Host ELSE Shared[i]]
      BY <2>3 DEF InitIrqFails
    <3>2. fails' > 0
      <4>1. CASE fails = 0
        <5>1. irq[next] = 0
          BY <2>3, <4>1 DEF InitIrqFails, Shares, Holds, Shape, Devs
        <5> QED
          BY <3>1, <4>1, <5>1
      <4>2. CASE fails > 0
        BY <3>1, <4>2 DEF Shape
      <4> QED
        BY <4>1, <4>2 DEF Shape
    <3>3. ~hypAssignDone' => \A i \in Bufs : owner'[i] = 0
      <4>1. ~hypAssignDone' => \A i \in Bufs : i < b
        <5>1. (b <= NumBufs) => hypAssignDone'
          BY <3>1, Zenon
        <5>2. b > NumBufs => \A i \in Bufs : i < b
          BY DEF Bufs
        <5> QED
          BY <5>1, <5>2
      <4> QED
        BY <3>1, <4>1
    <3> QED
      BY <3>2, <3>3 DEF Shares
  <2>4. CASE InitDev
    <3>1. /\ phase = "loading" /\ next \in Devs /\ next' = next + 1
          /\ UNCHANGED <<phase, loads, fails>> /\ owner' = Shared
          /\ irq' = [irq EXCEPT ![next] = @ + 1]
      BY <2>4 DEF InitDev, Devs, Shape
    <3>2. hypAssignDone' /\ mapped' = [mapped EXCEPT ![next] = TRUE]
      BY <2>4, Zenon DEF InitDev
    <3>3. \A d \in Devs : (Holds(d)' <=> Holds(d) \/ d = next) /\ ~Holds(next)
      BY <3>1 DEF Holds, Devs, Shape
    <3>4. fails = 0 => \A d \in Devs : irq'[d] = (IF Holds(d)' THEN 1 ELSE 0)
      BY <3>1, <3>3 DEF Shares, Shape
    <3>5. fails = 0 => \A d \in Devs : mapped'[d] <=> Holds(d)'
      BY <3>2, <3>3 DEF Shares, Shape
    <3>6. fails = 0 => \A b \in Bufs : owner'[b] = loads
      BY <3>1 DEF Shares, Shared
    <3>7. next' > 1
      BY <3>1 DEF Devs
    <3> QED
      BY <3>1, <3>2, <3>4, <3>5, <3>6, <3>7 DEF Shares
  <2>5. CASE Up \/ GuestExits
    <3>1. /\ phase \in {"loading", "up"} /\ (phase = "loading" => next > NumDevs) /\ phase' \in {"up", "exited"}
          /\ UNCHANGED <<loads, fails, hypAssignDone, owner, irq, mapped>>
      BY <2>5 DEF Up, GuestExits
    <3>2. \A d \in Devs : Holds(d) /\ Holds(d)'
      BY <3>1 DEF Holds, Devs, Shape
    <3>3. phase = "loading" => next > 1
      BY <3>1 DEF Shape
    <3> QED
      BY <3>1, <3>2, <3>3 DEF Shares
  <2>6. CASE LateLoadFail
    <3>1. fails' = fails + 1 /\ UNCHANGED <<hypAssignDone, owner>>
      BY <2>6 DEF LateLoadFail
    <3> QED
      BY <3>1 DEF Shares, Shape
  <2>7. CASE Close
    <3>1. /\ phase \in {"up", "exited"} /\ phase' = "releasing" /\ next' = 1
          /\ UNCHANGED <<loads, fails, hypAssignDone, owner, irq, mapped>>
      BY <2>7 DEF Close
    <3>2. \A d \in Devs : Holds(d) /\ Holds(d)'
      BY <3>1 DEF Holds, Devs
    <3> QED
      BY <3>1, <3>2 DEF Shares
  <2>8. CASE ReleaseDev
    <3>1. /\ phase = "releasing" /\ next \in Devs /\ next' = next + 1
          /\ UNCHANGED <<phase, loads, fails, hypAssignDone, owner>>
          /\ irq' = [irq EXCEPT ![next] = @ - 1]
      BY <2>8 DEF ReleaseDev, Devs, Shape
    <3>2. mapped' = [mapped EXCEPT ![next] = FALSE]
      BY <2>8, Zenon DEF ReleaseDev
    <3>3. \A d \in Devs : (Holds(d)' <=> Holds(d) /\ d # next) /\ Holds(next)
      BY <3>1 DEF Holds, Devs, Shape
    <3>4. fails = 0 => \A d \in Devs : irq'[d] = (IF Holds(d)' THEN 1 ELSE 0)
      BY <3>1, <3>3 DEF Shares, Shape
    <3>5. fails = 0 => \A d \in Devs : mapped'[d] <=> Holds(d)'
      BY <3>2, <3>3 DEF Shares, Shape
    <3> QED
      BY <3>1, <3>4, <3>5 DEF Shares
  <2>9. CASE ReleaseBuffers
    <3>1. phase = "releasing" /\ next > NumDevs /\ phase' = "off" /\ UNCHANGED <<irq, mapped>>
      BY <2>9 DEF ReleaseBuffers
    <3>2. \A d \in Devs : ~Holds(d) /\ ~Holds(d)'
      BY <3>1 DEF Holds, Devs, Shape
    <3>3. \/ ~hypAssignDone' /\ owner' = [b \in Bufs |-> 0] /\ fails' = fails
          \/ hypAssignDone' /\ fails' = fails + 1
      BY <2>9 DEF ReleaseBuffers, UnshareVmBuffers
    <3>4. CASE ~hypAssignDone' /\ owner' = [b \in Bufs |-> 0] /\ fails' = fails
      BY <3>1, <3>2, <3>4 DEF Shares
    <3>5. CASE hypAssignDone' /\ fails' = fails + 1
      BY <3>5 DEF Shares, Shape
    <3> QED
      BY <3>3, <3>4, <3>5
  <2> QED
    BY <1>1, <2>1, <2>2, <2>3, <2>4, <2>5, <2>6, <2>7, <2>8, <2>9 DEF LifeNext
<1>2. ASSUME NEW d \in Devs, VdevInterrupt(d) \/ AppNext(d) \/ GuestNext(d) PROVE Shares'
  BY <1>0, <1>2, DeviceFrame
<1>3. ASSUME NEW v \in Vcpus, ExitNext(v) PROVE Shares'
  BY <1>0, <1>3, ExitFrame
<1> QED
  BY <1>1, <1>2, <1>3 DEF Next

LEMMA LifeInvariant == Spec => [](Shape /\ Stage /\ Shares)
<1>1. Init => Shape /\ Stage /\ Shares
  <2> SUFFICES ASSUME Init PROVE Shape /\ Stage /\ Shares
    OBVIOUS
  <2>1. Flags
    <3>1. TRUE \in BOOLEAN /\ FALSE \in BOOLEAN
      BY Zenon
    <3> QED
      BY <3>1, FlagSet, Zenon DEF Init, Flags
  <2>2. Shape
    BY <2>1, Sizes DEF Init, Shape, Flags, Phases, AppSteps, VcpuSteps, Host, Devs
  <2>3. Stage
    BY DEF Init, Stage
  <2>4. Shares
    <3>1. \A d \in Devs : ~Holds(d)
      BY DEF Init, Holds
    <3>2. ~hypAssignDone /\ \A d \in Devs : ~mapped[d]
      BY Zenon DEF Init
    <3> QED
      BY <3>1, <3>2 DEF Init, Shares, Running, Host
  <2> QED
    BY <2>2, <2>3, <2>4
<1>2. (Shape /\ Stage /\ Shares) /\ [Next]_vars => (Shape /\ Stage /\ Shares)'
  <2> SUFFICES ASSUME Shape, Stage, Shares, [Next]_vars PROVE (Shape /\ Stage /\ Shares)'
    OBVIOUS
  <2>1. CASE Next
    BY <2>1, ShapeStep, StageStep, SharesStep
  <2>2. CASE UNCHANGED vars
    <3>1. Shape'
      BY <2>2 DEF vars, evVars, resVars, appVars, exitVars, lifeVars, hypVars, Shape
    <3>2. Stage' /\ Shares'
      BY <2>2 DEF vars, evVars, resVars, appVars, exitVars, lifeVars, hypVars, Stage, Shares, Holds, Running
    <3> QED
      BY <3>1, <3>2
  <2> QED
    BY <2>1, <2>2
<1> QED
  BY <1>1, <1>2, PTL DEF Spec

\* A loaded VM has all shared buffers, and a destroyed one leaves nothing behind that
\* the next load would trip over: no handler, mapping, eventfd, acknowledgement,
\* config data or shared buffer, for any number of devices, buffers and loads.
THEOREM BuffersAreBalanced == Spec => []SharesBalanced
<1>1. Shape /\ Stage /\ Shares => SharesBalanced
  <2> SUFFICES ASSUME Shape, Stage, Shares PROVE SharesBalanced
    OBVIOUS
  <2>1. phase = "off" => \A d \in Devs : ~Holds(d)
    BY DEF Holds
  <2> QED
    BY <2>1 DEF Stage, Shares, SharesBalanced, Running
<1> QED
  BY <1>1, LifeInvariant, PTL
-----------------------------------------------------------------------------
(* Events and kicks                                                        *)

\* What Good says of a device depends on this of it.
Same(d) ==
  /\ vdevEvent'[d] = vdevEvent[d] /\ vdevData'[d] = vdevData[d] /\ curEvent'[d] = curEvent[d]
  /\ hypEvent'[d] = hypEvent[d] /\ hypData'[d] = hypData[d] /\ hand'[d] = hand[d] /\ app'[d] = app[d]
  /\ ioctx'[d] = ioctx[d] /\ due'[d] = due[d] /\ guest'[d] = guest[d]
  /\ (evtAvail'[d] <=> evtAvail[d]) /\ (ackDriverOk'[d] <=> ackDriverOk[d]) /\ (told'[d] <=> told[d])

LEMMA SameGood ==
  ASSUME NEW d, Good(d), Same(d), phase' = phase \/ (phase = "up" /\ phase' = "exited")
  PROVE  Good(d)'
<1> USE DEF Same
<1>1. \A e : About(d, e)' <=> About(d, e)
  BY DEF About, Taken
<1>2. \A e : Taken(d, e)' <=> Taken(d, e)
  BY DEF Taken
<1>3. \A e : Once(d, e)' <=> Once(d, e)
  BY <1>2 DEF Once
<1>4. Awake(d) => Awake(d)'
  BY <1>2 DEF Awake
<1>5. Handshake(d) => Handshake(d)'
  BY <1>1, <1>2, <1>3 DEF Handshake
<1>6. Kicks(d) => Kicks(d)'
  BY DEF Kicks, AtHyp, AtVdev
<1> QED
  BY <1>4, <1>5, <1>6 DEF Good, Running

\* A step of device d leaves the others as they are.
LEMMA Apart ==
  ASSUME Shape, NEW d \in Devs, VdevInterrupt(d) \/ AppNext(d) \/ GuestNext(d), NEW e \in Devs, e # d
  PROVE  Same(e)
<1> USE DEF Shape, Same, evVars, resVars, appVars, exitVars, lifeVars, hypVars
<1>1. CASE VdevInterrupt(d)
  <2>1. \E a, b, c, h : /\ due' = [due EXCEPT ![d] = a] /\ vdevData' = [vdevData EXCEPT ![d] = b]
                       /\ vdevEvent' = [vdevEvent EXCEPT ![d] = c] /\ evtAvail' = [evtAvail EXCEPT ![d] = h]
    BY <1>1, Zenon DEF VdevInterrupt
  <2>2. /\ hypEvent' = [hypEvent EXCEPT ![d] = {}] /\ hypData' = [hypData EXCEPT ![d] = {}]
        /\ UNCHANGED <<curEvent, ackDriverOk, guest, ioctx, appVars, told>>
    BY <1>1, Zenon DEF VdevInterrupt
  <2> QED
    BY <2>1, <2>2
<1>2. ASSUME NEW cur, NEW left, NEW dat, NEW again, Took(d, cur, left, dat, again) 
      PROVE  /\ vdevEvent'[e] = vdevEvent[e] /\ vdevData'[e] = vdevData[e] /\ curEvent'[e] = curEvent[e]
             /\ app'[e] = app[e] /\ (evtAvail'[e] <=> evtAvail[e])
             /\ UNCHANGED <<hand, hypEvent, hypData, guest, told>>
  BY <1>2 DEF Took
<1>3. CASE TakeExit(d) \/ TakeReset(d) \/ TakeDriverOk(d) \/ TakeNewBuffer(d) \/ TakeInterruptAck(d) \/ TakeNothing(d)
  <2>1. \E cur, left, dat, again : Took(d, cur, left, dat, again)
    BY <1>3, Zenon DEF TakeExit, TakeReset, TakeDriverOk, TakeNewBuffer, TakeInterruptAck, TakeNothing
  <2>2. ioctx' = ioctx \/ ioctx' = [ioctx EXCEPT ![d] = {}]
    BY <1>3, Zenon DEF TakeExit, TakeReset, TakeDriverOk, TakeNewBuffer, TakeInterruptAck, TakeNothing
  <2>3. due' = due \/ \E a : due' = [due EXCEPT ![d] = a]
    BY <1>3, Zenon DEF TakeExit, TakeReset, TakeDriverOk, TakeNewBuffer, TakeInterruptAck, TakeNothing
  <2>4. ackDriverOk' = ackDriverOk \/ ackDriverOk' = [ackDriverOk EXCEPT ![d] = FALSE]
    BY <1>3, Zenon DEF TakeExit, TakeReset, AckAfterReset, TakeDriverOk, TakeNewBuffer, TakeInterruptAck, TakeNothing
  <2>5. ioctx'[e] = ioctx[e] /\ due'[e] = due[e] /\ (ackDriverOk'[e] <=> ackDriverOk[e])
    BY <2>2, <2>3, <2>4
  <2> QED
    BY <1>2, <2>1, <2>5
<1>4. CASE WaitEnter(d) \/ WaitCheck(d) \/ WaitInterrupted(d) \/ WaitLoop(d)
  <2>1. /\ app'[e] = app[e] /\ UNCHANGED <<hand, evVars, ioctx, hypVars, told, due>>
    BY <1>4 DEF WaitEnter, WaitCheck, WaitInterrupted, WaitLoop, AppStep
  <2> QED
    BY <2>1
<1>5. CASE WaitReturn(d)
  <2>1. app'[e] = app[e] /\ hand'[e] = hand[e] /\ UNCHANGED <<evVars, ioctx, hypVars, due>>
    BY <1>5 DEF WaitReturn, AppStep
  <2>2. \E b : told' = [told EXCEPT ![d] = b]
    BY <1>5, Zenon DEF WaitReturn
  <2> QED
    BY <2>1, <2>2
<1>6. CASE (\E q \in Queues : IoEventFd(d, q)) \/ AckDriverOk(d) \/ AckReset(d) \/ SetDeviceConfigData(d)
  BY <1>6 DEF IoEventFd, AckDriverOk, AckReset, SetDeviceConfigData
<1>7. CASE GuestNext(d)
  BY <1>7 DEF GuestNext, GuestDriverOk, GuestFails, GuestKick, GuestInterruptAck, GuestReset, GuestSteps, Reports
<1> QED
  BY <1>1, <1>3, <1>4, <1>5, <1>6, <1>7 DEF AppNext

\* An interrupt moves what the hypervisor has to vdev_event, but signals the kicks at
\* once when DRIVER_OK was acknowledged.
LEMMA InterruptGood == ASSUME Shape, Shape', NEW d \in Devs, Running, Good(d), VdevInterrupt(d) PROVE Good(d)'
<1> USE DEF evVars, resVars, appVars, exitVars, lifeVars, hypVars
<1> DEFINE dat  == vdevData[d] \cup hypData[d]
           now  == "NEW_BUFFER" \in hypEvent[d] /\ ackDriverOk[d]
           sig  == IF now THEN Signalled(d, dat) ELSE {}
           left == IF now THEN hypEvent[d] \ {"NEW_BUFFER"} ELSE hypEvent[d]
<1>1. /\ due' = [due EXCEPT ![d] = @ \ sig] /\ vdevData' = [vdevData EXCEPT ![d] = dat \ sig]
      /\ vdevEvent' = [vdevEvent EXCEPT ![d] = @ \cup left]
      /\ evtAvail' = [evtAvail EXCEPT ![d] = @ \/ left # {}]
      /\ hypEvent' = [hypEvent EXCEPT ![d] = {}] /\ hypData' = [hypData EXCEPT ![d] = {}]
      /\ UNCHANGED <<curEvent, ackDriverOk, guest, ioctx, app, hand, phase, told>>
  BY Zenon DEF VdevInterrupt
<1>2. /\ due'[d] = due[d] \ sig /\ vdevData'[d] = dat \ sig /\ vdevEvent'[d] = vdevEvent[d] \cup left
      /\ hypEvent'[d] = {} /\ hypData'[d] = {}
  BY <1>1 DEF Shape
<1>3. evtAvail[d] \/ left # {} => evtAvail'[d]
  BY <1>1, ZenonT(40) DEF Shape
<1>4. Awake(d) /\ Handshake(d)
  BY DEF Good
<1>5. \A e : Taken(d, e)' <=> Taken(d, e)
  BY <1>1 DEF Taken
<1>6. Awake(d)'
  <2>1. CASE left = {}
    BY <1>1, <1>2, <1>3, <1>4, <1>5, <2>1 DEF Awake
  <2>2. CASE left # {}
    BY <1>3, <2>2 DEF Awake
  <2> QED
    BY <2>1, <2>2
<1>7. /\ \A e : e # "NEW_BUFFER" => (About(d, e)' <=> About(d, e))
      /\ \A e : e # "NEW_BUFFER" /\ Once(d, e) => Once(d, e)'
  BY <1>1, <1>2, <1>5 DEF About, Once
<1>8. Handshake(d)'
  <2>1. "DRIVER_OK" \in hypEvent[d] \/ "DRIVER_OK" \in vdevEvent[d] => "DRIVER_OK" \in vdevEvent'[d]
    BY <1>2
  <2>2. "VM_EXIT" \notin vdevEvent'[d] => "VM_EXIT" \notin vdevEvent[d]
    BY <1>2
  <2> QED
    BY <1>1, <1>4, <1>5, <1>7, <2>1, <2>2 DEF Handshake
<1>9. phase = "up" => Kicks(d)'
  <2> SUFFICES ASSUME phase = "up", NEW q \in due'[d] PROVE guest'[d] = "ok" /\ AtVdev(d, q)'
    BY <1>2 DEF Kicks
  <2>1. q \in due[d] /\ q \notin sig /\ q \in Queues
    BY <1>2 DEF Shape
  <2>2. guest[d] = "ok" /\ (AtHyp(d, q) \/ AtVdev(d, q))
    BY <2>1 DEF Good, Kicks
  <2>3. q \in dat
    BY <2>2 DEF AtHyp, AtVdev
  <2>4. ~now
    BY <1>4, <2>1, <2>3 DEF Handshake, Signalled
  <2>5. "NEW_BUFFER" \in vdevEvent'[d] /\ q \in vdevData'[d]
    BY <1>2, <2>1, <2>2, <2>3, <2>4 DEF AtHyp, AtVdev
  <2> QED
    BY <1>1, <2>2, <2>5 DEF AtVdev
<1> QED
  BY <1>1, <1>6, <1>8, <1>9 DEF Good

LEMMA TookValues ==
  ASSUME Shape, NEW d \in Devs, NEW cur, NEW left, NEW dat, NEW again, Took(d, cur, left, dat, again)
  PROVE  /\ app[d] \in {"check", "sleep"} /\ app'[d] = "out" /\ curEvent'[d] = cur
         /\ vdevEvent'[d] = left /\ vdevData'[d] = dat /\ (again => evtAvail'[d])
         /\ UNCHANGED <<hand, hypEvent, hypData, guest, told, phase>>
<1>1. UNCHANGED <<hand, hypEvent, hypData, guest, told, phase>>
  BY Zenon DEF Took, lifeVars, hypVars
<1>2. evtAvail' = [evtAvail EXCEPT ![d] = again] /\ app[d] \in {"check", "sleep"}
  BY Zenon DEF Took
<1>3. again => evtAvail'[d]
  BY <1>2 DEF Shape
<1>4. app'[d] = "out" /\ curEvent'[d] = cur /\ vdevEvent'[d] = left /\ vdevData'[d] = dat
  BY DEF Took, Shape
<1> QED
  BY <1>1, <1>2, <1>3, <1>4

\* The section of GH_WAIT_FOR_EVENT under vb_dev->lock, whichever event it takes.
LEMMA TakeGood ==
  ASSUME Shape, Shape', NEW d \in Devs, Running, Good(d),
         TakeExit(d) \/ TakeReset(d) \/ TakeDriverOk(d) \/ TakeNewBuffer(d) \/ TakeInterruptAck(d) \/ TakeNothing(d)
  PROVE  Good(d)'
<1>0. /\ app[d] \in {"check", "sleep"} => Awake(d) /\ Handshake(d) /\ hand[d] = {} /\ \A e : ~Taken(d, e)
      /\ Handshake(d)
  BY DEF Good, Handshake, Taken
<1>1. CASE TakeExit(d)
  <2>1. Took(d, {"APP_EXIT"}, vdevEvent[d], vdevData[d], FALSE) /\ UNCHANGED <<ackDriverOk, ioctx, due>>
    BY <1>1, Zenon DEF TakeExit
  <2>2. /\ app[d] \in {"check", "sleep"} /\ app'[d] = "out" /\ curEvent'[d] = {"APP_EXIT"}
        /\ vdevEvent'[d] = vdevEvent[d] /\ vdevData'[d] = vdevData[d]
        /\ UNCHANGED <<hand, hypEvent, hypData, guest, told, phase, ackDriverOk, ioctx, due>>
    BY <2>1, TookValues
  <2>3. Awake(d)'
    BY <2>2 DEF Awake, Taken
  <2>4. Handshake(d)'
    BY <1>0, <2>2 DEF Handshake, About, Once, Taken
  <2>5. Kicks(d) => Kicks(d)'
    BY <2>2 DEF Kicks, AtHyp, AtVdev
  <2> QED
    BY <2>2, <2>3, <2>4, <2>5 DEF Good
<1>2. CASE TakeReset(d)
  <2> DEFINE left == vdevEvent[d] \ {"RESET_RQST"}
  <2>1. Took(d, {"RESET_RQST"}, left, vdevData[d], left # {}) /\ UNCHANGED due
    BY <1>2, Zenon DEF TakeReset
  <2>2. /\ app[d] \in {"check", "sleep"} /\ app'[d] = "out" /\ curEvent'[d] = {"RESET_RQST"}
        /\ vdevEvent'[d] = left /\ vdevData'[d] = vdevData[d] /\ (left # {} => evtAvail'[d])
        /\ UNCHANGED <<hand, hypEvent, hypData, guest, told, phase, due>>
    BY <2>1, TookValues
  <2>3. "RESET_RQST" \in vdevEvent[d] /\ guest[d] = "resetting"
    BY <1>0, <1>2 DEF TakeReset, Handshake, About
  <2>4. ~ackDriverOk'[d]
    BY <1>2 DEF TakeReset, AckAfterReset, Shape
  <2>5. Awake(d)'
    BY <2>2 DEF Awake
  <2>6. Handshake(d)'
    BY <1>0, <2>2, <2>3, <2>4 DEF Handshake, About, Once, Taken
  <2>7. phase = "up" => Kicks(d)'
    BY <2>2, <2>3 DEF Good, Kicks
  <2> QED
    BY <2>2, <2>5, <2>6, <2>7 DEF Good
<1>3. CASE TakeDriverOk(d)
  <2> DEFINE left == vdevEvent[d] \ {"DRIVER_OK"}
  <2>1. "DRIVER_OK" \in vdevEvent[d]
    BY <1>3 DEF TakeDriverOk
  <2>2. guest[d] = "ok" /\ ~ackDriverOk[d] /\ About(d, "DRIVER_OK")
    BY <1>0, <2>1 DEF Handshake, About
  <2>3. Took(d, {"DRIVER_OK"}, left, vdevData[d], StillAvail(d, left)) /\ UNCHANGED <<ackDriverOk, ioctx, due>>
    BY <1>3, <2>2, Zenon DEF TakeDriverOk
  <2>4. /\ app[d] \in {"check", "sleep"} /\ app'[d] = "out" /\ curEvent'[d] = {"DRIVER_OK"}
        /\ vdevEvent'[d] = left /\ vdevData'[d] = vdevData[d] /\ (StillAvail(d, left) => evtAvail'[d])
        /\ UNCHANGED <<hand, hypEvent, hypData, guest, told, phase, ackDriverOk, ioctx, due>>
    BY <2>3, TookValues
  <2>5. left # {} => evtAvail'[d]
    BY <2>2, <2>4 DEF StillAvail
  <2>6. Awake(d)'
    BY <2>4, <2>5 DEF Awake
  <2>7. Handshake(d)'
    BY <1>0, <2>1, <2>2, <2>4 DEF Handshake, About, Once, Taken
  <2>8. Kicks(d) => Kicks(d)'
    BY <2>4 DEF Kicks, AtHyp, AtVdev
  <2> QED
    BY <2>4, <2>6, <2>7, <2>8 DEF Good
<1>4. CASE TakeNewBuffer(d)
  <2> DEFINE cur == vdevEvent[d] \ {"NEW_BUFFER"}
             dat == IF cur = {} THEN vdevData[d] \ SignalledOnTake(d) ELSE {}
  <2>1. Took(d, cur, {}, dat, FALSE) /\ UNCHANGED <<ackDriverOk, ioctx>>
    BY <1>4, Zenon DEF TakeNewBuffer
  <2>2. /\ app[d] \in {"check", "sleep"} /\ app'[d] = "out" /\ curEvent'[d] = cur
        /\ vdevEvent'[d] = {} /\ UNCHANGED <<hand, hypEvent, hypData, guest, told, phase, ackDriverOk, ioctx>>
    BY <2>1, TookValues
  <2>3. "VM_EXIT" \notin vdevEvent[d] /\ "RESET_RQST" \notin vdevEvent[d] /\ "DRIVER_OK" \notin vdevEvent[d]
    BY <1>4 DEF TakeNewBuffer
  <2>4. due'[d] = due[d] \ SignalledOnTake(d)
    BY <1>4 DEF TakeNewBuffer, Shape
  <2>5. Awake(d)'
    BY <2>2 DEF Awake
  <2>6. Handshake(d)'
    BY <1>0, <2>2, <2>3 DEF Handshake, About, Once, Taken
  <2>7. phase = "up" => Kicks(d)'
    <3> SUFFICES ASSUME phase = "up", NEW q \in due'[d] PROVE guest'[d] = "ok" /\ AtHyp(d, q)'
      BY DEF Kicks
    <3>1. q \in due[d] /\ q \notin SignalledOnTake(d) /\ q \in Queues
      BY <2>4 DEF Shape
    <3>2. /\ guest[d] = "ok" /\ (AtHyp(d, q) \/ AtVdev(d, q)) /\ ("DRIVER_OK" \in hypEvent[d] => AtHyp(d, q))
      BY <3>1 DEF Good, Kicks
    <3>3. AtHyp(d, q)
      <4>1. CASE ackDriverOk[d]
        BY <1>0, <3>1, <3>2, <4>1 DEF Handshake, SignalledOnTake, Signalled, AtVdev
      <4>2. CASE ~ackDriverOk[d]
        BY <1>0, <2>2, <2>3, <3>2, <4>2 DEF Handshake, About
      <4> QED
        BY <4>1, <4>2
    <3> QED
      BY <2>2, <3>2, <3>3 DEF AtHyp
  <2> QED
    BY <2>2, <2>5, <2>6, <2>7 DEF Good
<1>5. CASE TakeInterruptAck(d) \/ TakeNothing(d)
  <2>1. PICK cur \in {{"INTERRUPT_ACK"}, {}}, left \in {vdevEvent[d] \ {"INTERRUPT_ACK"}, vdevEvent[d]},
             dat \in {{}, vdevData[d]} :
          Took(d, cur, left, dat, FALSE) /\ left \subseteq {"DRIVER_FAILED"}
    <3>1. CASE TakeInterruptAck(d)
      <4>1. /\ Took(d, {"INTERRUPT_ACK"}, vdevEvent[d] \ {"INTERRUPT_ACK"}, {}, FALSE)
            /\ vdevEvent[d] \subseteq {"INTERRUPT_ACK", "DRIVER_FAILED"}
        BY <3>1, Zenon DEF TakeInterruptAck
      <4>2. vdevEvent[d] \ {"INTERRUPT_ACK"} \subseteq {"DRIVER_FAILED"}
        BY <4>1
      <4> QED
        BY <4>1, <4>2, Zenon
    <3>2. CASE TakeNothing(d)
      BY <3>2, Zenon DEF TakeNothing
    <3> QED
      BY <1>5, <3>1, <3>2
  <2>2. vdevEvent[d] \subseteq {"INTERRUPT_ACK", "DRIVER_FAILED"} /\ UNCHANGED <<ackDriverOk, ioctx, due>>
    BY <1>5 DEF TakeInterruptAck, TakeNothing
  <2>3. /\ app[d] \in {"check", "sleep"} /\ app'[d] = "out" /\ curEvent'[d] \in {{"INTERRUPT_ACK"}, {}}
        /\ vdevEvent'[d] \subseteq {"DRIVER_FAILED"}
        /\ UNCHANGED <<hand, hypEvent, hypData, guest, told, phase, ackDriverOk, ioctx, due>>
    BY <2>1, <2>2, TookValues, ZenonT(40)
  <2>4. Awake(d)'
    BY <2>3 DEF Awake
  <2>5. Handshake(d)'
    BY <1>0, <2>2, <2>3 DEF Handshake, About, Once, Taken
  <2>6. Kicks(d) => Kicks(d)'
    BY <2>2, <2>3 DEF Kicks, AtHyp, AtVdev
  <2> QED
    BY <2>3, <2>4, <2>5, <2>6 DEF Good
<1> QED
  BY <1>1, <1>2, <1>3, <1>4, <1>5

\* The rest of GH_WAIT_FOR_EVENT, and the ioctls user space answers an event with.
LEMMA AppGood ==
  ASSUME Shape, Shape', NEW d \in Devs, Running, Good(d), AppNext(d)
  PROVE  Good(d)'
<1> USE DEF evVars, resVars, appVars, exitVars, lifeVars, hypVars
<1>0. Awake(d) /\ Handshake(d) /\ (phase = "up" => Kicks(d))
  BY DEF Good
<1>1. CASE WaitEnter(d) \/ WaitCheck(d) \/ WaitInterrupted(d) \/ WaitLoop(d)
  <2>1. /\ app[d] # "done" /\ app'[d] # "out" /\ (app[d] = "out" => curEvent[d] = {})
        /\ app'[d] \in {"check", "sleep"} => hand[d] = {}
        /\ UNCHANGED <<hand, evVars, ioctx, hypVars, told, due, phase>>
    BY <1>0, <1>1 DEF WaitEnter, WaitCheck, WaitInterrupted, WaitLoop, AppStep, Shape, Handshake
  <2>2. \A e : ~Taken(d, e) /\ ~Taken(d, e)'
    BY <2>1 DEF Taken
  <2>3. Awake(d)'
    BY <1>0, <2>1, <2>2 DEF Awake
  <2>4. Handshake(d)'
    BY <1>0, <2>1, <2>2 DEF Handshake, About, Once
  <2>5. Kicks(d) => Kicks(d)'
    BY <2>1 DEF Kicks, AtHyp, AtVdev
  <2> QED
    BY <1>0, <2>1, <2>3, <2>4, <2>5 DEF Good
<1>2. CASE WaitReturn(d)
  <2>1. /\ app[d] = "out" /\ app'[d] = (IF "APP_EXIT" \in curEvent[d] THEN "done" ELSE "idle")
        /\ hand'[d] = curEvent[d] \cap {"RESET_RQST", "DRIVER_OK"}
        /\ UNCHANGED <<evVars, ioctx, hypVars, due, phase>>
    BY <1>2 DEF WaitReturn, AppStep, Shape
  <2>2. told'[d] <=> (told[d] \/ ("DRIVER_OK" \in curEvent[d] /\ guest[d] = "ok"))
    <3>1. told' = [told EXCEPT ![d] = @ \/ ("DRIVER_OK" \in curEvent[d] /\ guest[d] = "ok")]
      BY <1>2, Zenon DEF WaitReturn
    <3> QED
      BY <3>1 DEF Shape
  <2>3. \A e : ~Taken(d, e)' /\ (Taken(d, e) <=> e \in curEvent[d])
    BY <2>1 DEF Taken
  <2>4. \A e \in {"RESET_RQST", "DRIVER_OK"} : About(d, e)' => About(d, e)
    BY <2>1, <2>3 DEF About
  <2>5. "DRIVER_OK" \notin hand[d] /\ (About(d, "DRIVER_OK") => About(d, "DRIVER_OK")')
    BY <1>0, <2>1, <2>3 DEF About, Handshake
  <2>6. Once(d, "DRIVER_OK")' /\ Once(d, "RESET_RQST")'
    BY <1>0, <2>1, <2>3 DEF Handshake, Once
  <2>7. Awake(d)'
    BY <1>0, <2>1, <2>3 DEF Awake
  <2>8. Handshake(d)'
    BY <1>0, <2>1, <2>2, <2>3, <2>4, <2>5, <2>6 DEF Handshake
  <2>9. Kicks(d) => Kicks(d)'
    BY <2>1 DEF Kicks, AtHyp, AtVdev
  <2> QED
    BY <1>0, <2>1, <2>7, <2>8, <2>9 DEF Good
<1>3. ASSUME NEW q \in Queues, IoEventFd(d, q) PROVE Good(d)'
  <2>1. /\ "DRIVER_OK" \in hand[d] /\ UNCHANGED <<evVars, appVars, hypVars, told, due, phase>>
    BY <1>3 DEF IoEventFd, AppActs
  <2>2. ~ackDriverOk[d]
    BY <1>0, <2>1 DEF Handshake, About
  <2>3. Awake(d)'
    BY <1>0, <2>1 DEF Awake, Taken
  <2>4. Handshake(d)'
    BY <1>0, <2>1, <2>2 DEF Handshake, About, Once, Taken
  <2>5. Kicks(d) => Kicks(d)'
    BY <2>1 DEF Kicks, AtHyp, AtVdev
  <2> QED
    BY <1>0, <2>1, <2>3, <2>4, <2>5 DEF Good
<1>4. CASE AckDriverOk(d)
  <2>1. /\ "DRIVER_OK" \in hand[d] /\ app[d] = "idle" /\ ioctx[d] = Queues /\ hand'[d] = hand[d] \ {"DRIVER_OK"}
        /\ UNCHANGED <<vdevEvent, vdevData, evtAvail, curEvent, app, ioctx, hypVars, told, due, phase>>
    BY <1>4 DEF AckDriverOk, AppActs, Shape
  <2>2. ackDriverOk'[d]
    BY <1>4 DEF AckDriverOk, Shape
  <2>3. guest[d] = "ok" /\ ~About(d, "DRIVER_OK")' /\ ~About(d, "RESET_RQST")
    BY <1>0, <2>1 DEF Handshake, About, Once, Taken
  <2>4. ~About(d, "RESET_RQST")'
    BY <2>1, <2>3 DEF About, Taken
  <2>5. Awake(d)'
    BY <1>0, <2>1 DEF Awake, Taken
  <2>6. Handshake(d)'
    <3>1. Once(d, "DRIVER_OK")' /\ Once(d, "RESET_RQST")'
      BY <2>3, <2>4 DEF Once, About
    <3>2. ~Taken(d, "RESET_RQST")' /\ "RESET_RQST" \notin hand'[d]
      BY <2>4 DEF About
    <3>3. "VM_EXIT" \notin vdevEvent'[d] => told'[d]
      BY <1>0, <2>1, <2>3 DEF Handshake, About, Taken
    <3> QED
      BY <2>1, <2>2, <2>3, <2>4, <3>1, <3>2, <3>3 DEF Handshake
  <2>7. Kicks(d) => Kicks(d)'
    BY <2>1 DEF Kicks, AtHyp, AtVdev
  <2> QED
    BY <1>0, <2>1, <2>5, <2>6, <2>7 DEF Good
<1>5. CASE AckReset(d)
  <2>1. /\ "RESET_RQST" \in hand[d] /\ app[d] = "idle" /\ hand'[d] = hand[d] \ {"RESET_RQST"}
        /\ UNCHANGED <<evVars, app, ioctx, hypEvent, hypData, told, due, phase>>
        /\ guest'[d] = (IF guest[d] = "resetting" THEN "init" ELSE guest[d])
    BY <1>5 DEF AckReset, AppActs, Shape
  <2>2. guest[d] = "resetting" /\ guest'[d] = "init" /\ ~ackDriverOk[d]
    BY <1>0, <2>1 DEF Handshake, About
  <2>3. ~About(d, "RESET_RQST")' /\ ~About(d, "DRIVER_OK")'
    BY <1>0, <2>1, <2>2 DEF Handshake, About, Once, Taken
  <2>4. Awake(d)'
    BY <1>0, <2>1 DEF Awake, Taken
  <2>5. Handshake(d)'
    <3>1. Once(d, "DRIVER_OK")' /\ Once(d, "RESET_RQST")'
      BY <2>3 DEF Once, About
    <3> QED
      BY <2>1, <2>2, <2>3, <3>1 DEF Handshake
  <2>6. phase = "up" => due[d] = {}
    BY <1>0, <2>2 DEF Kicks
  <2>7. phase = "up" => Kicks(d)'
    BY <2>1, <2>6 DEF Kicks
  <2> QED
    BY <2>1, <2>4, <2>5, <2>7 DEF Good
<1>6. CASE SetDeviceConfigData(d)
  <2>1. Same(d) /\ UNCHANGED phase
    BY <1>6 DEF SetDeviceConfigData, Same
  <2> QED
    BY <2>1, SameGood
<1> QED
  BY <1>1, <1>2, <1>3, <1>4, <1>5, <1>6, TakeGood DEF AppNext

\* The guest resets a device only after its DRIVER_OK was acknowledged.
Patient == ~EagerReset

LEMMA GuestGood ==
  ASSUME Patient, Shape, Shape', NEW d \in Devs, Running, Good(d), GuestNext(d)
  PROVE  Good(d)'
<1> USE DEF evVars, resVars, appVars, exitVars, lifeVars, hypVars
<1>0. Awake(d) /\ Handshake(d) /\ Kicks(d) /\ phase = "up" /\ phase' = "up"
  BY Zenon DEF Good, GuestNext, GuestDriverOk, GuestFails, GuestKick, GuestInterruptAck, GuestReset, GuestSteps
<1>1. /\ UNCHANGED <<vdevEvent, vdevData, evtAvail, curEvent, app, hand, ioctx>>
      /\ ackDriverOk' = ackDriverOk
  BY Zenon DEF GuestNext, GuestDriverOk, GuestFails, GuestKick, GuestInterruptAck, GuestReset, GuestSteps
<1>2. Awake(d)' /\ \A e : Taken(d, e)' <=> Taken(d, e)
  BY <1>0, <1>1 DEF Awake, Taken
<1>3. CASE GuestDriverOk(d)
  <2>1. /\ guest[d] = "init" /\ guest'[d] = "ok" /\ hypEvent'[d] = hypEvent[d] \cup {"DRIVER_OK"}
        /\ UNCHANGED <<hypData, due>>
    BY <1>3 DEF GuestDriverOk, GuestSteps, Reports, Shape
  <2>2. ~About(d, "DRIVER_OK") /\ ~About(d, "RESET_RQST") /\ ~ackDriverOk[d]
    BY <1>0, <2>1 DEF Handshake
  <2>3. ~About(d, "RESET_RQST")' /\ About(d, "DRIVER_OK")'
    BY <1>1, <1>2, <2>1, <2>2 DEF About
  <2>4. Once(d, "DRIVER_OK")' /\ Once(d, "RESET_RQST")'
    BY <1>1, <1>2, <2>2, <2>3 DEF Once, About
  <2>5. Handshake(d)'
    BY <1>0, <1>1, <1>2, <2>1, <2>2, <2>3, <2>4 DEF Handshake, About
  <2>6. due'[d] = {}
    BY <1>0, <2>1 DEF Kicks
  <2>7. Kicks(d)'
    BY <2>6 DEF Kicks
  <2> QED
    BY <1>0, <1>2, <2>5, <2>7 DEF Good
<1>4. CASE GuestFails(d)
  <2>1. /\ guest[d] = "init" /\ guest'[d] = "failed" /\ hypEvent'[d] = hypEvent[d] \cup {"DRIVER_FAILED"}
        /\ UNCHANGED <<hypData, told, due>>
    BY <1>4 DEF GuestFails, GuestSteps, Reports, Shape
  <2>2. ~About(d, "DRIVER_OK") /\ ~About(d, "RESET_RQST") /\ ~ackDriverOk[d]
    BY <1>0, <2>1 DEF Handshake
  <2>3. ~About(d, "RESET_RQST")' /\ ~About(d, "DRIVER_OK")'
    BY <1>1, <1>2, <2>1, <2>2 DEF About
  <2>4. Once(d, "DRIVER_OK")' /\ Once(d, "RESET_RQST")'
    BY <2>3 DEF Once, About
  <2>5. Handshake(d)'
    BY <1>0, <1>1, <1>2, <2>1, <2>2, <2>3, <2>4 DEF Handshake
  <2>6. due'[d] = {}
    BY <1>0, <2>1 DEF Kicks
  <2>7. Kicks(d)'
    BY <2>6 DEF Kicks
  <2> QED
    BY <1>0, <1>2, <2>5, <2>7 DEF Good
<1>5. CASE GuestInterruptAck(d) \/ \E q \in Queues : GuestKick(d, q)
  <2>1. PICK new \in {"NEW_BUFFER", "INTERRUPT_ACK"} : hypEvent'[d] = hypEvent[d] \cup {new}
    BY <1>5 DEF GuestKick, GuestInterruptAck, GuestSteps, Reports, Shape
  <2>2. guest[d] = "ok" /\ guest'[d] = "ok" /\ told' = told
    BY <1>5 DEF GuestKick, GuestInterruptAck, GuestSteps, Shape
  <2>3. \A e \in {"RESET_RQST", "DRIVER_OK"} : (About(d, e)' <=> About(d, e)) /\ (Once(d, e) => Once(d, e)')
    BY <1>1, <1>2, <2>1 DEF About, Once
  <2>4. Handshake(d)'
    BY <1>0, <1>1, <1>2, <2>1, <2>2, <2>3 DEF Handshake
  <2>5. Kicks(d)'
    <3> SUFFICES ASSUME NEW r \in due'[d]
                 PROVE  /\ AtHyp(d, r)' \/ AtVdev(d, r)'
                        /\ "DRIVER_OK" \in hypEvent'[d] => AtHyp(d, r)'
      BY <2>2 DEF Kicks
    <3>1. AtHyp(d, r) => AtHyp(d, r)'
      BY <1>5, <2>1 DEF GuestKick, GuestInterruptAck, AtHyp, Shape
    <3>2. AtVdev(d, r) => AtVdev(d, r)'
      BY <1>1 DEF AtVdev
    <3>3. r \in due[d] \/ AtHyp(d, r)'
      BY <1>5 DEF GuestKick, GuestInterruptAck, GuestSteps, Reports, AtHyp, Shape
    <3>4. "DRIVER_OK" \in hypEvent'[d] => "DRIVER_OK" \in hypEvent[d]
      BY <2>1
    <3> QED
      BY <1>0, <3>1, <3>2, <3>3, <3>4 DEF Kicks
  <2> QED
    BY <1>0, <1>2, <2>4, <2>5 DEF Good
<1>6. CASE GuestReset(d)
  <2>1. /\ guest[d] \in {"ok", "failed"} /\ guest'[d] = "resetting"
        /\ hypEvent'[d] = hypEvent[d] \cup {"RESET_RQST"} /\ due'[d] = {}
    BY <1>6 DEF GuestReset, GuestSteps, Reports, Shape
  <2>2. guest[d] = "ok" => ackDriverOk[d]
    BY <1>6, Zenon DEF GuestReset, Patient
  <2>3. ~About(d, "DRIVER_OK") /\ ~About(d, "RESET_RQST")
    BY <1>0, <2>1, <2>2 DEF Handshake
  <2>4. ~About(d, "DRIVER_OK")'
    BY <1>1, <1>2, <2>1, <2>3 DEF About
  <2>5. Once(d, "DRIVER_OK")' /\ Once(d, "RESET_RQST")'
    BY <1>1, <1>2, <2>3, <2>4 DEF Once, About
  <2>6. ~Taken(d, "RESET_RQST")' /\ "RESET_RQST" \notin hand'[d]
    BY <1>1, <1>2, <2>3 DEF About
  <2>7. Handshake(d)'
    BY <1>0, <1>1, <1>2, <2>1, <2>2, <2>4, <2>5, <2>6 DEF Handshake
  <2>8. Kicks(d)'
    BY <2>1 DEF Kicks
  <2> QED
    BY <1>0, <1>2, <2>7, <2>8 DEF Good
<1> QED
  BY <1>3, <1>4, <1>5, <1>6 DEF GuestNext

\* gh_virtio_mmio_app_exit overwrites what a device has, and wakes its thread.
LEMMA ExitGood ==
  ASSUME Shape, Stage, Shape', EventInv, NEW v \in Vcpus, ExitNext(v), NEW d \in Devs
  PROVE  Good(d)'
<1> USE DEF evVars, resVars, appVars, exitVars, lifeVars, hypVars
<1>0. phase = "exited" /\ phase' = "exited" /\ Good(d) /\ Awake(d) /\ Handshake(d)
  BY ExitFrame DEF EventInv, Good, Running
<1>1. CASE ExitMark(v) /\ at[v] = d
  <2>1. /\ vdevEvent'[d] = {"VM_EXIT"}
        /\ UNCHANGED <<curEvent, ackDriverOk, ioctx, appVars, hypVars, told, due>>
    BY <1>1 DEF ExitMark, Shape
  <2>2. evtAvail'[d]
    BY <1>1 DEF ExitMark, Shape
  <2>3. Awake(d)'
    BY <2>2 DEF Awake
  <2>4. \A e : Taken(d, e)' <=> Taken(d, e)
    BY <2>1 DEF Taken
  <2>5. \A e : e # "VM_EXIT" => (About(d, e)' => About(d, e)) /\ (Once(d, e) => Once(d, e)')
    BY <2>1, <2>4 DEF About, Once
  <2>6. Handshake(d)'
    BY <1>0, <2>1, <2>4, <2>5 DEF Handshake
  <2> QED
    BY <1>0, <2>3, <2>6 DEF Good
<1>2. CASE ~(ExitMark(v) /\ at[v] = d)
  <2>1. Same(d)
    <3>1. CASE ExitMark(v)
      BY <1>2, <3>1 DEF ExitMark, Same, Shape
    <3>2. CASE ExitStart(v) \/ ExitWait(v)
      BY <3>2 DEF ExitStart, ExitWait, Same
    <3> QED
      BY <3>1, <3>2 DEF ExitNext
  <2> QED
    BY <1>0, <2>1, SameGood
<1> QED
  BY <1>1, <1>2

\* A VM comes up with its devices as init_vb_dev_open left them.
LEMMA LifeGood == ASSUME Shape, Stage, Shape', EventInv, LifeNext, NEW d \in Devs PROVE Good(d)'
<1> USE DEF evVars, resVars, appVars, exitVars, lifeVars, hypVars
<1>1. CASE StartLoad \/ InitShareFails \/ InitIrqFails \/ InitDev \/ LateLoadFail \/ Close \/ ReleaseDev \/ ReleaseBuffers
  <2>1. phase' \in {"off", "loading", "releasing"}
    BY <1>1 DEF StartLoad, InitShareFails, InitIrqFails, InitDev, LateLoadFail, LoadFails, Close, ReleaseDev, ReleaseBuffers
  <2> QED
    BY <2>1 DEF Good, Running
<1>2. CASE Up
  <2>1. /\ phase = "loading" /\ next > NumDevs /\ app'[d] = "idle" /\ hand'[d] = {}
        /\ UNCHANGED <<evVars, ioctx, hypVars, told, due>>
    BY <1>2 DEF Up
  <2>2. d < next
    BY <2>1, Sizes DEF Devs, Shape
  <2>3. hypEvent'[d] = {} /\ vdevEvent'[d] = {} /\ due'[d] = {} /\ guest'[d] = "init" /\ ~ackDriverOk'[d]
    BY <2>1, <2>2 DEF Stage
  <2>4. \A e : ~About(d, e)'
    BY <2>1, <2>3 DEF About, Taken
  <2>5. Once(d, "DRIVER_OK")' /\ Once(d, "RESET_RQST")'
    BY <2>4 DEF Once, About
  <2>6. Awake(d)' /\ Handshake(d)' /\ Kicks(d)'
    BY <2>1, <2>3, <2>4, <2>5 DEF Awake, Handshake, Kicks, About
  <2> QED
    BY <2>6 DEF Good
<1>3. CASE GuestExits
  <2>1. phase = "up" /\ phase' = "exited" /\ Same(d)
    BY <1>3 DEF GuestExits, Same
  <2> QED
    BY <2>1, SameGood DEF EventInv
<1> QED
  BY <1>1, <1>2, <1>3 DEF LifeNext

LEMMA EventInvariant == ASSUME Patient PROVE Spec => []EventInv
<1>1. Init => EventInv
  BY DEF Init, EventInv, Good, Running
<1>2. Shape /\ Stage /\ Shape' /\ EventInv /\ [Next]_vars => EventInv'
  <2> SUFFICES ASSUME Shape, Stage, Shape', EventInv, [Next]_vars, NEW e \in Devs PROVE Good(e)'
    BY DEF EventInv
  <2>0. Good(e)
    BY DEF EventInv
  <2>1. CASE LifeNext
    BY <2>1, LifeGood
  <2>2. ASSUME NEW d \in Devs, VdevInterrupt(d) \/ AppNext(d) \/ GuestNext(d) PROVE Good(e)'
    <3>1. phase' = phase
      BY <2>2, DeviceFrame
    <3>2. CASE ~Running
      BY <3>1, <3>2 DEF Good, Running
    <3>3. CASE Running /\ e # d
      BY <2>0, <2>2, <3>1, <3>3, Apart, SameGood
    <3>4. CASE Running /\ e = d
      BY <2>0, <2>2, <3>4, InterruptGood, AppGood, GuestGood
    <3> QED
      BY <3>2, <3>3, <3>4
  <2>3. ASSUME NEW v \in Vcpus, ExitNext(v) PROVE Good(e)'
    BY <2>3, ExitGood
  <2>4. CASE UNCHANGED vars
    <3>1. Same(e) /\ phase' = phase
      BY <2>4 DEF vars, evVars, appVars, lifeVars, hypVars, Same
    <3> QED
      BY <2>0, <3>1, SameGood
  <2> QED
    BY <2>1, <2>2, <2>3, <2>4 DEF Next
<1> QED
  BY <1>1, <1>2, LifeInvariant, PTL DEF Spec

\* Only a running VM has event threads.
LEMMA QuietIsRunning ==
  ASSUME Stage, EventInv, NEW d \in Devs, Quiet(d)
  PROVE  Running /\ Handshake(d) /\ vdevEvent[d] \subseteq {"DRIVER_FAILED"} /\ ~Taken(d, "DRIVER_OK")
<1>1. Running
  BY DEF Stage, Quiet, Running
<1> QED
  BY <1>1 DEF EventInv, Good, Awake, Taken, Quiet

\* GH_WAIT_FOR_EVENT never sleeps over an event it could return, in whatever order
\* interrupts, the ioctl and the VM's exit come.
THEOREM NoEventIsMissed == ASSUME Patient PROVE Spec => []EventNotMissed
<1>1. Stage /\ EventInv => EventNotMissed
  BY QuietIsRunning DEF EventNotMissed
<1> QED
  BY <1>1, LifeInvariant, EventInvariant, PTL

\* Every DRIVER_OK of the guest reaches user space, the ones after a reset included.
THEOREM DriverOkIsPassed == ASSUME Patient PROVE Spec => []DriverOkPassed
<1>1. Stage /\ EventInv => DriverOkPassed
  <2> SUFFICES ASSUME Stage, EventInv, NEW d \in Devs, Quiet(d), hypEvent[d] = {}, guest[d] = "ok" PROVE told[d]
    BY DEF DriverOkPassed
  <2> QED
    BY QuietIsRunning DEF Handshake
<1> QED
  BY <1>1, LifeInvariant, EventInvariant, PTL

\* Once DRIVER_OK is acknowledged no kick is forgotten: its eventfd is signalled, or
\* the hypervisor or vdev_event_data still has it with an event that will signal it.
THEOREM NoKickIsLost == ASSUME Patient PROVE Spec => []KickNotLost
<1>1. Stage /\ EventInv => KickNotLost
  <2> SUFFICES ASSUME Stage, EventInv, NEW d \in Devs, NEW q \in due[d], phase = "up"
               PROVE  AtHyp(d, q) \/ (AtVdev(d, q) /\ ~Quiet(d))
    BY DEF KickNotLost, AtHyp, AtVdev
  <2>1. AtHyp(d, q) \/ AtVdev(d, q)
    BY DEF EventInv, Good, Kicks
  <2>2. AtVdev(d, q) => ~Quiet(d)
    BY QuietIsRunning DEF AtVdev
  <2> QED
    BY <2>1, <2>2
<1> QED
  BY <1>1, LifeInvariant, EventInvariant, PTL
=============================================================================
