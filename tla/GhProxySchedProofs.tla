------------------------- MODULE GhProxySchedProofs -------------------------
(***************************************************************************)
(* Theorems about GhProxySched for the system the table is right for: one  *)
(* proxy-scheduled VM and room for another one in gh_vms, with any number  *)
(* of vcpus, of restarts and of failing populations.  With two VMs or with *)
(* a table of one slot some of these properties do not hold.               *)
(***************************************************************************)
EXTENDS GhProxySched, TLAPS

TheVm == CHOOSE m \in Vmids : TRUE
OneVm == Vmids = {TheVm} /\ NumSlots > 1

-----------------------------------------------------------------------------
(* The inductive invariant                                                 *)

SlotRec == [id : Vmids \cup {NONE}, count : 0..SlotVcpus, populated : BOOLEAN, active : BOOLEAN,
            cap : [Idx -> Vcpus \cup {NONE}], abort : [Idx -> BOOLEAN], frozen : [Idx -> BOOLEAN]]

SlotType == slot \in [Slots -> SlotRec]
Shape ==
  /\ SlotType /\ nrVms \in Nat /\ nrVcpus \in Nat
  /\ handler \in [Vcpus -> {NONE} \cup (Slots \X Idx)]
  /\ phase \in [Vmids -> Phases] /\ next \in [Vmids -> 0..PerVm]
  /\ starts \in [Vmids -> 0..MaxStarts] /\ kick \in [Vmids -> Slots]
  /\ pc \in [Vcpus -> Steps] /\ at \in [Vcpus -> Slots] /\ resp \in [Vcpus -> Answers]
  /\ sig \subseteq Vcpus /\ wfi \subseteq Vcpus /\ pend \subseteq Vcpus
  /\ freezes \in [Vcpus -> Nat] /\ fails \in 0..MaxFails

\* Only the first slot is ever used.
First ==
  /\ \A v \in Vcpus : at[v] = 1 /\ (handler[v] # NONE => handler[v][1] = 1)
  /\ kick[TheVm] = 1
  /\ \A i \in Slots : i # 1 => slot[i].id = NONE

\* The table's own bookkeeping of that slot.
Table ==
  /\ nrVms = IF slot[1].populated THEN 1 ELSE 0
  /\ slot[1].populated => slot[1].id = TheVm /\ slot[1].count > 0
  /\ slot[1].active => slot[1].populated
  /\ ~slot[1].populated => \A x \in Idx : ~slot[1].frozen[x]
  /\ \A x \in Idx : slot[1].cap[x] # NONE => x < slot[1].count
  /\ phase[TheVm] \in {"vcpus", "unvcpus"} => next[TheVm] < PerVm

\* The threads in gh_vcpu_run point at a vcpu of a slot in use.
InRun(v) == pc[v] \in {"reset", "hcall", "sleepchk", "sleep", "tail"}
Threads ==
  \A v \in Vcpus :
    /\ phase[TheVm] \notin {"running", "exited", "waking", "done"} => pc[v] = "idle"
    /\ InRun(v) => slot[1].populated /\ slot[1].cap[v[2]] # NONE
    /\ InRun(v) /\ phase[TheVm] \in {"running", "exited"} => slot[1].active

\* wdog_frozen tells the truth of every vcpu, also of one that is not run.
Wdog == \A v \in Vcpus : freezes[v] = IF slot[1].frozen[v[2]] THEN 1 ELSE 0

\* After the exit's wake-ups no thread is about to sleep, when the hypervisor
\* runs no vcpu of an exited VM.
Woken ==
  "WFI" \notin ExitAnswers =>
    \A v \in Vcpus : phase[TheVm] = "done" /\ pc[v] \in {"sleepchk", "sleep"} => slot[1].abort[v[2]]

Core == Shape /\ First /\ Table /\ Threads /\ Wdog /\ Woken

LEMMA TheVcpus ==
  ASSUME OneVm
  PROVE  /\ TheVm \in Vmids /\ 1 \in Slots
         /\ \A v \in Vcpus : v[1] = TheVm /\ v[2] \in 0..(PerVm - 1) /\ v[2] \in Idx /\ v = <<TheVm, v[2]>>
         /\ \A k \in 0..(PerVm - 1) : <<TheVm, k>> \in Vcpus
BY SizesAssumption DEF OneVm, Vcpus, Idx, Slots

LEMMA FirstSlot == ASSUME OneVm, Shape PROVE GetVm(TheVm) = 1
<1> DEFINE hits == {i \in Slots : slot[i].id \in {TheVm, NONE}}
<1>1. 1 \in hits
  BY TheVcpus DEF Shape, SlotType, SlotRec, OneVm
<1>2. \A i \in hits : 1 <= i
  BY DEF Slots
<1>3. \A i \in hits : (\A j \in hits : i <= j) => i = 1
  BY <1>1, <1>2, SizesAssumption DEF Slots
<1> HIDE DEF hits
<1>4. (CHOOSE i \in hits : \A j \in hits : i <= j) = 1
  BY <1>1, <1>2, <1>3
<1> QED
  BY <1>1, <1>4 DEF GetVm, hits

-----------------------------------------------------------------------------
(* What the assignments to the first slot do                               *)

LEMMA FieldUpdate ==
  ASSUME NEW r \in SlotRec
  PROVE  /\ \A f \in [Idx -> BOOLEAN] : [r EXCEPT !.abort = f] \in SlotRec
         /\ \A f \in [Idx -> BOOLEAN] : [r EXCEPT !.frozen = f] \in SlotRec
         /\ [r EXCEPT !.active = FALSE] \in SlotRec
         /\ [r EXCEPT !.populated = TRUE, !.active = TRUE] \in SlotRec
         /\ \A m \in Vmids, c \in [Idx -> Vcpus \cup {NONE}], k \in 0..SlotVcpus :
              [r EXCEPT !.id = m, !.cap = c, !.count = k] \in SlotRec
BY DEF SlotRec

LEMMA BoolUpdate ==
  ASSUME NEW f \in [Idx -> BOOLEAN], NEW x \in Idx, NEW b \in BOOLEAN
  PROVE  [f EXCEPT ![x] = b] \in [Idx -> BOOLEAN]
OBVIOUS

LEMMA FieldTypes ==
  ASSUME OneVm, SlotType
  PROVE  /\ slot[1] \in SlotRec /\ slot[1].abort \in [Idx -> BOOLEAN] /\ slot[1].frozen \in [Idx -> BOOLEAN]
         /\ slot[1].cap \in [Idx -> Vcpus \cup {NONE}] /\ slot[1].count \in 0..SlotVcpus
         /\ slot[1].id \in {TheVm, NONE} /\ slot[1].populated \in BOOLEAN /\ slot[1].active \in BOOLEAN
BY TheVcpus DEF SlotType, SlotRec, OneVm

\* All but the flags active, abort and frozen stays as it is.
Kept ==
  /\ SlotType' /\ \A i \in Slots : i # 1 => slot'[i] = slot[i]
  /\ slot'[1].id = slot[1].id /\ slot'[1].count = slot[1].count
  /\ slot'[1].cap = slot[1].cap /\ slot'[1].populated = slot[1].populated

LEMMA AbortSet ==
  ASSUME OneVm, SlotType, NEW x \in Idx, NEW b \in BOOLEAN, slot' = [slot EXCEPT ![1].abort[x] = b]
  PROVE  /\ Kept /\ slot'[1].active = slot[1].active /\ slot'[1].frozen = slot[1].frozen
         /\ slot'[1].abort = [slot[1].abort EXCEPT ![x] = b]
<1> DEFINE f == [slot[1].abort EXCEPT ![x] = b]
<1>1. slot' = [slot EXCEPT ![1] = [slot[1] EXCEPT !.abort = f]]
  OBVIOUS
<1>2. f \in [Idx -> BOOLEAN]
  BY BoolUpdate, FieldTypes
<1> HIDE DEF f
<1>3. SlotType'
  <2>1. slot[1] \in SlotRec
    BY FieldTypes
  <2>2. [slot[1] EXCEPT !.abort = f] \in SlotRec
    BY <1>2, <2>1, FieldUpdate
  <2> QED
    BY <1>1, <2>2, TheVcpus DEF SlotType
<1>4. /\ slot'[1].id = slot[1].id /\ slot'[1].count = slot[1].count /\ slot'[1].populated = slot[1].populated
      /\ slot'[1].cap = slot[1].cap /\ slot'[1].active = slot[1].active /\ slot'[1].frozen = slot[1].frozen
      /\ slot'[1].abort = f /\ \A i \in Slots : i # 1 => slot'[i] = slot[i]
  BY <1>1, TheVcpus DEF SlotType, SlotRec
<1> QED
  BY <1>3, <1>4 DEF Kept, f

LEMMA FrozenSet ==
  ASSUME OneVm, SlotType, NEW x \in Idx, NEW b \in BOOLEAN, slot' = [slot EXCEPT ![1].frozen[x] = b]
  PROVE  /\ Kept /\ slot'[1].active = slot[1].active /\ slot'[1].abort = slot[1].abort
         /\ slot'[1].frozen = [slot[1].frozen EXCEPT ![x] = b]
<1> DEFINE f == [slot[1].frozen EXCEPT ![x] = b]
<1>1. slot' = [slot EXCEPT ![1] = [slot[1] EXCEPT !.frozen = f]]
  OBVIOUS
<1>2. f \in [Idx -> BOOLEAN]
  BY BoolUpdate, FieldTypes
<1> HIDE DEF f
<1>3. SlotType'
  <2>1. slot[1] \in SlotRec
    BY FieldTypes
  <2>2. [slot[1] EXCEPT !.frozen = f] \in SlotRec
    BY <1>2, <2>1, FieldUpdate
  <2> QED
    BY <1>1, <2>2, TheVcpus DEF SlotType
<1>4. /\ slot'[1].id = slot[1].id /\ slot'[1].count = slot[1].count /\ slot'[1].populated = slot[1].populated
      /\ slot'[1].cap = slot[1].cap /\ slot'[1].active = slot[1].active /\ slot'[1].abort = slot[1].abort
      /\ slot'[1].frozen = f /\ \A i \in Slots : i # 1 => slot'[i] = slot[i]
  BY <1>1, TheVcpus DEF SlotType, SlotRec
<1> QED
  BY <1>3, <1>4 DEF Kept, f

LEMMA AllAborted ==
  ASSUME OneVm, SlotType, slot' = [slot EXCEPT ![1].abort = [x \in Idx |-> @[x] \/ Kicked(1, x)]]
  PROVE  /\ Kept /\ slot'[1].active = slot[1].active /\ slot'[1].frozen = slot[1].frozen
         /\ \A x \in Idx : x < slot[1].count => slot'[1].abort[x]
<1> DEFINE f == [x \in Idx |-> slot[1].abort[x] \/ Kicked(1, x)]
<1>1. slot' = [slot EXCEPT ![1] = [slot[1] EXCEPT !.abort = f]]
  OBVIOUS
<1>2. f \in [Idx -> BOOLEAN]
  BY Zenon
<1>3. \A x \in Idx : x < slot[1].count => f[x]
  BY Zenon DEF Kicked
<1> HIDE DEF f
<1>4. SlotType'
  <2>1. slot[1] \in SlotRec
    BY FieldTypes
  <2>2. [slot[1] EXCEPT !.abort = f] \in SlotRec
    BY <1>2, <2>1, FieldUpdate
  <2> QED
    BY <1>1, <2>2, TheVcpus DEF SlotType
<1>5. /\ slot'[1].id = slot[1].id /\ slot'[1].count = slot[1].count /\ slot'[1].populated = slot[1].populated
      /\ slot'[1].cap = slot[1].cap /\ slot'[1].active = slot[1].active /\ slot'[1].frozen = slot[1].frozen
      /\ slot'[1].abort = f /\ \A i \in Slots : i # 1 => slot'[i] = slot[i]
  BY <1>1, TheVcpus DEF SlotType, SlotRec
<1> QED
  BY <1>3, <1>4, <1>5 DEF Kept

LEMMA Deactivated ==
  ASSUME OneVm, SlotType, slot' = [slot EXCEPT ![1].active = FALSE]
  PROVE  /\ Kept /\ ~slot'[1].active /\ slot'[1].abort = slot[1].abort
         /\ slot'[1].frozen = slot[1].frozen
<1>1. slot' = [slot EXCEPT ![1] = [slot[1] EXCEPT !.active = FALSE]]
  OBVIOUS
<1>2. SlotType'
  BY <1>1, FieldUpdate, FieldTypes, TheVcpus DEF SlotType
<1>3. /\ slot'[1].id = slot[1].id /\ slot'[1].count = slot[1].count /\ slot'[1].populated = slot[1].populated
      /\ slot'[1].cap = slot[1].cap /\ slot'[1].active = FALSE /\ slot'[1].abort = slot[1].abort
      /\ slot'[1].frozen = slot[1].frozen /\ \A i \in Slots : i # 1 => slot'[i] = slot[i]
  BY <1>1, TheVcpus DEF SlotType, SlotRec
<1>4. ~slot'[1].active
  BY <1>3, Zenon
<1> QED
  BY <1>2, <1>3, <1>4 DEF Kept

LEMMA MarkedPopulated ==
  ASSUME OneVm, SlotType, slot' = [slot EXCEPT ![1].populated = TRUE, ![1].active = TRUE]
  PROVE  /\ SlotType' /\ \A i \in Slots : i # 1 => slot'[i] = slot[i]
         /\ slot'[1].id = slot[1].id /\ slot'[1].count = slot[1].count /\ slot'[1].cap = slot[1].cap
         /\ slot'[1].abort = slot[1].abort /\ slot'[1].frozen = slot[1].frozen
         /\ slot'[1].populated /\ slot'[1].active
<1>1. slot' = [slot EXCEPT ![1] = [slot[1] EXCEPT !.populated = TRUE, !.active = TRUE]]
  OBVIOUS
<1>2. SlotType'
  BY <1>1, FieldUpdate, FieldTypes, TheVcpus, ZenonT(40) DEF SlotType
<1>3. /\ slot'[1].id = slot[1].id /\ slot'[1].count = slot[1].count /\ slot'[1].cap = slot[1].cap
      /\ slot'[1].abort = slot[1].abort /\ slot'[1].frozen = slot[1].frozen
      /\ slot'[1].populated = TRUE /\ slot'[1].active = TRUE /\ \A i \in Slots : i # 1 => slot'[i] = slot[i]
  BY <1>1, TheVcpus DEF SlotType, SlotRec
<1>4. slot'[1].populated /\ slot'[1].active
  BY <1>3, Zenon
<1> QED
  BY <1>2, <1>3, <1>4

LEMMA VcpuAdded ==
  ASSUME OneVm, SlotType, NEW v \in Vcpus, slot[1].count < SlotVcpus,
         slot' = [slot EXCEPT ![1].id = TheVm, ![1].cap[slot[1].count] = v, ![1].count = @ + 1]
  PROVE  /\ SlotType' /\ \A i \in Slots : i # 1 => slot'[i] = slot[i]
         /\ slot'[1].id = TheVm /\ slot'[1].count = slot[1].count + 1
         /\ slot'[1].cap = [slot[1].cap EXCEPT ![slot[1].count] = v]
         /\ slot'[1].abort = slot[1].abort /\ slot'[1].frozen = slot[1].frozen
         /\ slot'[1].populated = slot[1].populated /\ slot'[1].active = slot[1].active
<1> DEFINE c == [slot[1].cap EXCEPT ![slot[1].count] = v]
           k == slot[1].count + 1
<1>1. slot' = [slot EXCEPT ![1] = [slot[1] EXCEPT !.id = TheVm, !.cap = c, !.count = k]]
  OBVIOUS
<1>2. c \in [Idx -> Vcpus \cup {NONE}] /\ k \in 0..SlotVcpus
  BY FieldTypes, SizesAssumption DEF Idx
<1> HIDE DEF c, k
<1>3. SlotType'
  <2>1. slot[1] \in SlotRec
    BY FieldTypes
  <2>2. [slot[1] EXCEPT !.id = TheVm, !.cap = c, !.count = k] \in SlotRec
    BY <1>2, <2>1, FieldUpdate, TheVcpus
  <2> QED
    BY <1>1, <2>2, TheVcpus DEF SlotType
<1>4. /\ slot'[1].id = TheVm /\ slot'[1].count = k /\ slot'[1].cap = c
      /\ slot'[1].abort = slot[1].abort /\ slot'[1].frozen = slot[1].frozen
      /\ slot'[1].populated = slot[1].populated /\ slot'[1].active = slot[1].active
      /\ \A i \in Slots : i # 1 => slot'[i] = slot[i]
  BY <1>1, TheVcpus DEF SlotType, SlotRec
<1> QED
  BY <1>3, <1>4 DEF c, k

LEMMA Emptied ==
  ASSUME OneVm, SlotType, slot' = [slot EXCEPT ![1] = EmptySlot]
  PROVE  /\ SlotType' /\ \A i \in Slots : i # 1 => slot'[i] = slot[i]
         /\ slot'[1].id = NONE /\ slot'[1].count = 0 /\ ~slot'[1].populated /\ ~slot'[1].active
         /\ \A x \in Idx : slot'[1].cap[x] = NONE /\ ~slot'[1].frozen[x]
<1>1. EmptySlot \in SlotRec
  BY SizesAssumption DEF EmptySlot, SlotRec
<1>2. SlotType' /\ slot'[1] = EmptySlot /\ \A i \in Slots : i # 1 => slot'[i] = slot[i]
  BY <1>1, TheVcpus DEF SlotType
<1>3. /\ EmptySlot.id = NONE /\ EmptySlot.count = 0 /\ EmptySlot.populated = FALSE /\ EmptySlot.active = FALSE
      /\ \A x \in Idx : EmptySlot.cap[x] = NONE /\ EmptySlot.frozen[x] = FALSE
  BY DEF EmptySlot
<1>4. ~EmptySlot.populated /\ ~EmptySlot.active /\ \A x \in Idx : ~EmptySlot.frozen[x]
  BY <1>3, Zenon
<1> QED
  BY <1>2, <1>3, <1>4

-----------------------------------------------------------------------------
(* Types                                                                   *)

LEMMA LifeShape == ASSUME OneVm, Core, Life(TheVm) PROVE Shape'
<1>0. /\ TheVm \in Vmids /\ GetVm(TheVm) = 1 /\ Shape /\ SlotType /\ 1 \in Slots /\ kick[TheVm] = 1
  BY TheVcpus, FirstSlot DEF Core, Shape, First
<1> USE <1>0, SizesAssumption DEF Shape, slotVars, lifeVars, runVars, hypVars, To, Phases
<1>1. CASE Load(TheVm)
  BY <1>1 DEF Load, SlotType
<1>2. CASE PopulateVcpu(TheVm)
  <2> DEFINE v == <<TheVm, next[TheVm]>>
  <2>0. next[TheVm] < PerVm /\ next[TheVm] \in 0..PerVm
    BY <1>2 DEF PopulateVcpu, Core, Table
  <2>v. v \in Vcpus
    BY <2>0, TheVcpus
  <2>n. next' \in [Vmids -> 0..PerVm] /\ phase' \in [Vmids -> Phases] /\ UNCHANGED <<starts, kick, runVars, hypVars>>
        /\ fails' \in 0..MaxFails
    BY <1>2, <2>0 DEF PopulateVcpu, Advance
  <2>1. CASE UNCHANGED slotVars
    BY <2>1, <2>n DEF SlotType
  <2>2. CASE ~UNCHANGED slotVars
    <3>1. /\ slot[1].count < SlotVcpus /\ nrVcpus' = nrVcpus + 1 /\ nrVms' = nrVms
          /\ handler' = [handler EXCEPT ![v] = <<1, slot[1].count>>]
          /\ slot' = [slot EXCEPT ![1].id = TheVm, ![1].cap[slot[1].count] = v, ![1].count = @ + 1]
      BY <1>2, <2>2 DEF PopulateVcpu, RoomFor
    <3>2. SlotType'
      BY <2>v, <3>1, VcpuAdded
    <3>3. <<1, slot[1].count>> \in Slots \X Idx
      BY <3>1, FieldTypes DEF Idx
    <3>4. handler' \in [Vcpus -> {NONE} \cup (Slots \X Idx)]
      BY <2>v, <3>1, <3>3
    <3> QED
      BY <2>n, <3>1, <3>2, <3>4
  <2> QED
    BY <2>1, <2>2
<1>3. CASE PopulateAllRes(TheVm)
  <2>1. CASE UNCHANGED <<slot, nrVms>>
    BY <1>3, <2>1 DEF PopulateAllRes, SlotType
  <2>2. CASE slot' = [slot EXCEPT ![1].populated = TRUE, ![1].active = TRUE] /\ nrVms' = nrVms + 1
    <3>1. SlotType'
      BY <2>2, MarkedPopulated
    <3> QED
      BY <1>3, <2>2, <3>1 DEF PopulateAllRes
  <2> QED
    BY <1>3, <2>1, <2>2 DEF PopulateAllRes
<1>4. CASE Start(TheVm) \/ Exit(TheVm)
  BY <1>4 DEF Start, Exit, SlotType
<1>5. CASE Destroy(TheVm)
  BY <1>5 DEF Destroy, SlotType
<1>6. CASE ExitDeactivate(TheVm)
  <2>1. SlotType'
    BY <1>6, Deactivated DEF ExitDeactivate, Kept, SlotType
  <2> QED
    BY <1>6, <2>1 DEF ExitDeactivate
<1>7. CASE ExitWake(TheVm)
  <2>1. SlotType'
    BY <1>7, AllAborted DEF ExitWake, Kept
  <2> QED
    BY <1>7, <2>1 DEF ExitWake
<1>8. CASE UnpopulateVcpu(TheVm)
  <2>0. next[TheVm] < PerVm /\ next[TheVm] \in 0..PerVm
    BY <1>8 DEF UnpopulateVcpu, Core, Table
  <2>1. handler' \in [Vcpus -> {NONE} \cup (Slots \X Idx)] /\ nrVcpus' \in Nat
    BY <1>8 DEF UnpopulateVcpu
  <2>2. next' \in [Vmids -> 0..PerVm] /\ phase' \in [Vmids -> Phases]
    BY <1>8, <2>0 DEF UnpopulateVcpu
  <2>3. SlotType'
    BY <1>8 DEF UnpopulateVcpu, SlotType
  <2> QED
    BY <1>8, <2>1, <2>2, <2>3 DEF UnpopulateVcpu
<1>9. CASE UnpopulateAllRes(TheVm)
  <2>1. SlotType' /\ nrVms' \in Nat
    BY <1>9, Emptied DEF UnpopulateAllRes, SlotType
  <2>2. freezes' \in [Vcpus -> Nat]
    BY <1>9 DEF UnpopulateAllRes
  <2> QED
    BY <1>9, <2>1, <2>2 DEF UnpopulateAllRes
<1> QED
  BY <1>1, <1>2, <1>3, <1>4, <1>5, <1>6, <1>7, <1>8, <1>9 DEF Life

LEMMA RunShape ==
  ASSUME OneVm, Core, NEW v \in Vcpus, Run(v) \/ Signal(v) \/ VirqRaise(v) \/ IrqHandler(v)
  PROVE  Shape'
<1>0. /\ GetVm(v[1]) = 1 /\ Shape /\ SlotType /\ 1 \in Slots /\ at[v] = 1 /\ v[2] \in Idx
  BY TheVcpus, FirstSlot DEF Core, Shape, First
<1> USE <1>0 DEF Shape, slotVars, lifeVars, runVars, hypVars, Go, Steps
<1>1. CASE RunBegin(v) \/ RunEntry(v) \/ RunSleep(v) \/ RunWake(v)
  BY <1>1 DEF RunBegin, RunEntry, RunSleep, RunWake, SlotType
<1>2. CASE RunLookup(v)
  BY <1>2 DEF RunLookup, SlotType
<1>3. CASE RunWaitedExit(v) \/ Signal(v)
  BY <1>3 DEF RunWaitedExit, Signal, SlotType
<1>4. CASE RunReset(v)
  <2>1. SlotType'
    BY <1>4, AbortSet DEF RunReset, Kept
  <2> QED
    BY <1>4, <2>1 DEF RunReset
<1>5. CASE RunHcall(v)
  <2>1. SlotType'
    BY <1>5, FrozenSet DEF RunHcall, Kept
  <2>2. freezes' \in [Vcpus -> Nat]
    BY <1>5 DEF RunHcall, Core, Wdog, Frozen
  <2>3. wfi' \subseteq Vcpus
    BY <1>5, FieldTypes DEF RunHcall, CapId, Core, Threads, InRun
  <2> QED
    BY <1>5, <2>1, <2>2, <2>3 DEF RunHcall, Answers
<1>6. CASE RunTail(v)
  <2>1. SlotType'
    BY <1>6, FrozenSet DEF RunTail, Kept, SlotType
  <2>2. freezes' \in [Vcpus -> Nat]
    BY <1>6 DEF RunTail
  <2> QED
    BY <1>6, <2>1, <2>2 DEF RunTail, Answers
<1>7. CASE VirqRaise(v)
  BY <1>7 DEF VirqRaise, SlotType
<1>8. CASE IrqHandler(v)
  <2>1. handler[v][1] = 1 /\ handler[v][2] \in Idx
    BY <1>8 DEF IrqHandler, Core, First
  <2>2. SlotType'
    BY <1>8, <2>1, AbortSet DEF IrqHandler, Kept, SlotType
  <2> QED
    BY <1>8, <2>2 DEF IrqHandler
<1> QED
  BY <1>1, <1>2, <1>3, <1>4, <1>5, <1>6, <1>7, <1>8 DEF Run

-----------------------------------------------------------------------------
(* The table, the threads, the watchdog and the wake-ups                   *)

Rest == First /\ Table /\ Threads /\ Wdog /\ Woken

LEMMA LifeRest == ASSUME OneVm, Core, Shape', Life(TheVm) PROVE Rest'
<1>0. /\ TheVm \in Vmids /\ GetVm(TheVm) = 1 /\ SlotType /\ 1 \in Slots /\ kick[TheVm] = 1
      /\ phase \in [Vmids -> Phases] /\ kick \in [Vmids -> Slots] /\ next \in [Vmids -> 0..PerVm]
      /\ handler \in [Vcpus -> {NONE} \cup (Slots \X Idx)]
      /\ \A v \in Vcpus : v[1] = TheVm /\ v[2] \in Idx
  BY TheVcpus, FirstSlot DEF Core, Shape, First
<1> USE <1>0, SizesAssumption DEF Core, Rest, First, Table, Threads, Wdog, Woken, InRun,
        slotVars, lifeVars, runVars, hypVars, To
<1>1. CASE Load(TheVm)
  BY <1>1 DEF Load
<1>2. CASE PopulateVcpu(TheVm)
  <2> DEFINE v == <<TheVm, next[TheVm]>>
  <2>0. /\ next[TheVm] < PerVm /\ next[TheVm] \in 0..PerVm /\ UNCHANGED <<runVars, kick>>
        /\ phase[TheVm] = "vcpus" /\ phase'[TheVm] \in {"vcpus", "allres", "failed"}
        /\ phase'[TheVm] = "vcpus" => next'[TheVm] < PerVm
    BY <1>2 DEF PopulateVcpu, Advance
  <2>1. CASE UNCHANGED slotVars
    BY <2>0, <2>1
  <2>2. CASE ~UNCHANGED slotVars
    <3>1. /\ slot[1].count < SlotVcpus /\ nrVms' = nrVms /\ ~slot[1].populated
          /\ handler' = [handler EXCEPT ![v] = <<1, slot[1].count>>]
          /\ slot' = [slot EXCEPT ![1].id = TheVm, ![1].cap[slot[1].count] = v, ![1].count = @ + 1]
      BY <1>2, <2>2 DEF PopulateVcpu, RoomFor
    <3>2. v \in Vcpus
      BY <2>0, TheVcpus
    <3>3. /\ \A i \in Slots : i # 1 => slot'[i] = slot[i]
          /\ slot'[1].count = slot[1].count + 1 /\ slot'[1].cap = [slot[1].cap EXCEPT ![slot[1].count] = v]
          /\ slot'[1].frozen = slot[1].frozen
          /\ slot'[1].populated = slot[1].populated /\ slot'[1].active = slot[1].active
      BY <3>1, <3>2, VcpuAdded
    <3>4. slot[1].cap \in [Idx -> Vcpus \cup {NONE}] /\ slot[1].count \in 0..SlotVcpus
      BY FieldTypes
    <3>5. ASSUME NEW x \in Idx, slot'[1].cap[x] # NONE PROVE x < slot'[1].count
      <4>1. CASE x = slot[1].count
        BY <3>3, <3>4, <4>1
      <4>2. CASE x # slot[1].count
        <5>1. slot[1].cap[x] # NONE
          BY <3>3, <3>4, <3>5, <4>2
        <5> QED
          BY <3>3, <3>4, <5>1 DEF Idx
      <4> QED
        BY <4>1, <4>2
    <3>6. Table'
      BY <2>0, <3>1, <3>3, <3>5
    <3>7. Wdog'
      BY <2>0, <3>3
    <3>9. First'
      <4>1. \A u \in Vcpus : handler'[u] = handler[u] \/ handler'[u] = <<1, slot[1].count>>
        BY <3>1
      <4> QED
        BY <2>0, <3>3, <4>1
    <3>8. Threads' /\ Woken'
      BY <2>0, <3>1, <3>3
    <3> QED
      BY <3>6, <3>7, <3>8, <3>9
  <2> QED
    BY <2>1, <2>2
<1>3. CASE PopulateAllRes(TheVm)
  <2>1. CASE UNCHANGED <<slot, nrVms>>
    BY <1>3, <2>1 DEF PopulateAllRes
  <2>2. CASE /\ slot' = [slot EXCEPT ![1].populated = TRUE, ![1].active = TRUE] /\ nrVms' = nrVms + 1
             /\ ~AllResIgnored(TheVm) /\ ~slot[1].populated
    <3>1. /\ \A i \in Slots : i # 1 => slot'[i] = slot[i]
          /\ slot'[1].id = slot[1].id /\ slot'[1].count = slot[1].count /\ slot'[1].cap = slot[1].cap
          /\ slot'[1].frozen = slot[1].frozen /\ slot'[1].populated /\ slot'[1].active
      BY <2>2, MarkedPopulated
    <3>2. slot[1].id = TheVm /\ slot[1].count > 0
      BY <2>2, FieldTypes DEF AllResIgnored, HasVcpus
    <3>0. UNCHANGED <<handler, at, kick, freezes>> /\ phase'[TheVm] = "up" /\ nrVms' = 1
      BY <1>3, <2>2 DEF PopulateAllRes
    <3>3. Table'
      BY <3>0, <3>1, <3>2
    <3>4. First'
      BY <3>0, <3>1
    <3>6. Wdog'
      BY <3>0, <3>1
    <3>5. Threads' /\ Woken'
      BY <1>3, <2>2, <3>1, <3>2 DEF PopulateAllRes
    <3> QED
      BY <3>3, <3>4, <3>5, <3>6
  <2> QED
    BY <1>3, <2>1, <2>2 DEF PopulateAllRes
<1>4. CASE Start(TheVm) \/ Exit(TheVm)
  BY <1>4 DEF Start, Exit
<1>5. CASE Destroy(TheVm)
  BY <1>5 DEF Destroy
<1>6. CASE ExitDeactivate(TheVm)
  <2>1. CASE UNCHANGED slot
    BY <1>6, <2>1 DEF ExitDeactivate
  <2>2. CASE slot' = [slot EXCEPT ![1].active = FALSE] /\ phase' = [phase EXCEPT ![TheVm] = "waking"]
    <3>1. Kept /\ ~slot'[1].active /\ slot'[1].frozen = slot[1].frozen
      BY <2>2, Deactivated
    <3> QED
      BY <1>6, <2>2, <3>1 DEF ExitDeactivate, Kept
  <2> QED
    BY <1>6, <2>1, <2>2 DEF ExitDeactivate
<1>7. CASE ExitWake(TheVm)
  <2>1. /\ Kept /\ slot'[1].active = slot[1].active /\ slot'[1].frozen = slot[1].frozen
        /\ \A x \in Idx : x < slot[1].count => slot'[1].abort[x]
    BY <1>7, AllAborted DEF ExitWake
  <2> QED
    BY <1>7, <2>1 DEF ExitWake, Kept
<1>8. CASE UnpopulateVcpu(TheVm)
  BY <1>8 DEF UnpopulateVcpu
<1>9. CASE UnpopulateAllRes(TheVm)
  <2>1. \A v \in Vcpus : freezes'[v] = 0
    BY <1>9 DEF UnpopulateAllRes
  <2>2. CASE UNCHANGED <<slot, nrVms>> /\ ~slot[1].populated
    BY <1>9, <2>1, <2>2 DEF UnpopulateAllRes
  <2>3. CASE slot' = [slot EXCEPT ![1] = EmptySlot] /\ nrVms' = 0
    <3>1. /\ \A i \in Slots : i # 1 => slot'[i] = slot[i]
          /\ slot'[1].count = 0 /\ ~slot'[1].populated /\ ~slot'[1].active
          /\ \A x \in Idx : slot'[1].cap[x] = NONE /\ ~slot'[1].frozen[x]
      BY <2>3, Emptied
    <3> QED
      BY <1>9, <2>1, <2>3, <3>1 DEF UnpopulateAllRes
  <2>4. slot[1].populated => ~AllResIgnored(TheVm)
    BY VmidsAssumption DEF AllResIgnored, HasVcpus, OneVm
  <2> QED
    BY <1>9, <2>2, <2>3, <2>4 DEF UnpopulateAllRes
<1> QED
  BY <1>1, <1>2, <1>3, <1>4, <1>5, <1>6, <1>7, <1>8, <1>9 DEF Life

LEMMA RunRest ==
  ASSUME OneVm, Core, Shape', NEW v \in Vcpus, Run(v) \/ Signal(v) \/ VirqRaise(v) \/ IrqHandler(v)
  PROVE  Rest'
<1>0. /\ GetVm(v[1]) = 1 /\ SlotType /\ 1 \in Slots /\ at[v] = 1 /\ v[2] \in Idx /\ v[1] = TheVm
      /\ pc \in [Vcpus -> Steps] /\ at \in [Vcpus -> Slots] /\ freezes \in [Vcpus -> Nat]
      /\ slot[1].abort \in [Idx -> BOOLEAN] /\ slot[1].frozen \in [Idx -> BOOLEAN]
      /\ \A u \in Vcpus : u[2] \in Idx /\ (u[2] = v[2] => u = v)
  BY TheVcpus, FirstSlot, FieldTypes DEF Core, Shape, First
<1> USE <1>0 DEF Core, Rest, First, Table, Threads, Wdog, Woken, InRun,
        slotVars, lifeVars, runVars, hypVars, Go
<1>1. CASE RunBegin(v)
  BY <1>1 DEF RunBegin
<1>2. CASE RunEntry(v)
  BY <1>2 DEF RunEntry
<1>3. CASE RunSleep(v) \/ RunWake(v)
  BY <1>3 DEF RunSleep, RunWake, AbortSleep
<1>4. CASE RunLookup(v)
  BY <1>4 DEF RunLookup
<1>5. CASE RunWaitedExit(v) \/ Signal(v) \/ VirqRaise(v)
  BY <1>5 DEF RunWaitedExit, Signal, VirqRaise
<1>6. CASE RunReset(v)
  <2>1. /\ Kept /\ slot'[1].active = slot[1].active /\ slot'[1].frozen = slot[1].frozen
        /\ slot'[1].abort = [slot[1].abort EXCEPT ![v[2]] = FALSE]
    BY <1>6, AbortSet DEF RunReset
  <2> QED
    BY <1>6, <2>1 DEF RunReset, Kept
<1>7. CASE RunHcall(v)
  <2> HIDE DEF Core, Rest, First, Table, Threads, Wdog, Woken, InRun, Go
  <2>1. PICK a \in HcallAnswers(v) : \E b \in BOOLEAN :
          /\ slot' = [slot EXCEPT ![at[v]].frozen[v[2]] = b]
          /\ freezes' = [freezes EXCEPT ![v] = @ - (IF Frozen(v) THEN 1 ELSE 0) + (IF b THEN 1 ELSE 0)]
          /\ Go(v, IF a = "WFI" THEN "sleepchk" ELSE "tail")
    BY <1>7, Zenon DEF RunHcall
  <2>2. PICK b \in BOOLEAN :
          /\ slot' = [slot EXCEPT ![1].frozen[v[2]] = b]
          /\ freezes' = [freezes EXCEPT ![v] = @ - (IF Frozen(v) THEN 1 ELSE 0) + (IF b THEN 1 ELSE 0)]
          /\ Go(v, IF a = "WFI" THEN "sleepchk" ELSE "tail")
    BY <1>0, <2>1, Zenon
  <2>3. /\ Kept /\ slot'[1].active = slot[1].active /\ slot'[1].abort = slot[1].abort
        /\ slot'[1].frozen = [slot[1].frozen EXCEPT ![v[2]] = b]
    BY <2>2, FrozenSet
  <2> USE DEF Core, Rest, First, Table, Threads, Wdog, Woken, InRun, Go
  <2>4. Wdog'
    BY <2>2, <2>3 DEF Frozen
  <2>5. First' /\ Table' /\ Threads'
    BY <1>7, <2>2, <2>3 DEF RunHcall, Kept
  <2>6. Woken'
    BY <1>7, <2>1, <2>2, <2>3, AnswersAssumption DEF RunHcall, HcallAnswers, Gone, Kept
  <2> QED
    BY <2>4, <2>5, <2>6
<1>8. CASE RunTail(v)
  <2>1. CASE UNCHANGED <<slot, freezes, sig>>
    BY <1>8, <2>1 DEF RunTail
  <2>2. CASE /\ slot' = [slot EXCEPT ![1].frozen[v[2]] = TRUE]
             /\ freezes' = [freezes EXCEPT ![v] = @ + (IF SignalFreeze(v) THEN 1 ELSE 0)]
    <3>1. /\ Kept /\ slot'[1].active = slot[1].active /\ slot'[1].abort = slot[1].abort
          /\ slot'[1].frozen = [slot[1].frozen EXCEPT ![v[2]] = TRUE]
      BY <2>2, FrozenSet
    <3>2. Wdog'
      BY <2>2, <3>1 DEF Frozen, SignalFreeze
    <3> QED
      BY <1>8, <3>1, <3>2 DEF RunTail, Kept
  <2> QED
    BY <1>8, <2>1, <2>2 DEF RunTail
<1>9. CASE IrqHandler(v)
  <2>1. CASE UNCHANGED slot
    BY <1>9, <2>1, ZenonT(40) DEF IrqHandler
  <2>2. CASE slot' = [slot EXCEPT ![1].abort[handler[v][2]] = TRUE]
    <3>1. handler[v][2] \in Idx
      BY <1>9 DEF IrqHandler, Shape
    <3>2. /\ Kept /\ slot'[1].active = slot[1].active /\ slot'[1].frozen = slot[1].frozen
          /\ slot'[1].abort = [slot[1].abort EXCEPT ![handler[v][2]] = TRUE]
      BY <2>2, <3>1, AbortSet
    <3>3. \A x \in Idx : slot[1].abort[x] => slot'[1].abort[x]
      BY <3>1, <3>2
    <3>4. UNCHANGED <<nrVms, handler, lifeVars, runVars>>
      BY <1>9 DEF IrqHandler
    <3>5. First' /\ Table'
      BY <3>2, <3>4 DEF Kept
    <3>6. Threads' /\ Wdog' /\ Woken'
      BY <3>2, <3>3, <3>4 DEF Kept
    <3> QED
      BY <3>5, <3>6
  <2> QED
    BY <1>9, <2>1, <2>2 DEF IrqHandler
<1> QED
  BY <1>1, <1>2, <1>3, <1>4, <1>5, <1>6, <1>7, <1>8, <1>9 DEF Run

LEMMA CoreInit == ASSUME OneVm, Init PROVE Core
<1>0. /\ TheVm \in Vmids /\ 1 \in Slots /\ slot[1] = EmptySlot /\ \A i \in Slots : slot[i] = EmptySlot
  BY TheVcpus DEF Init
<1>1. EmptySlot \in SlotRec
  BY SizesAssumption DEF EmptySlot, SlotRec
<1>2. SlotType
  BY <1>1 DEF Init, SlotType
<1>3. Shape
  BY <1>0, <1>2, SizesAssumption DEF Init, Shape, Phases, Steps, Answers
<1>4. /\ EmptySlot.id = NONE /\ EmptySlot.populated = FALSE /\ EmptySlot.active = FALSE
      /\ \A x \in Idx : EmptySlot.cap[x] = NONE /\ EmptySlot.frozen[x] = FALSE
  BY DEF EmptySlot
<1>5. ~slot[1].populated /\ ~slot[1].active /\ \A x \in Idx : ~slot[1].frozen[x]
  BY <1>0, <1>4, Zenon
<1> QED
  BY <1>0, <1>3, <1>4, <1>5, TheVcpus DEF Init, Core, First, Table, Threads, Wdog, Woken, InRun

LEMMA CoreStep == ASSUME OneVm, Core, [Next]_vars PROVE Core'
<1>1. CASE UNCHANGED vars
  BY <1>1 DEF vars, slotVars, lifeVars, runVars, hypVars, Core, Shape, SlotType, First, Table, Threads, Wdog,
     Woken, InRun
<1>2. CASE Next
  <2>1. Life(TheVm) \/ \E v \in Vcpus : Run(v) \/ Signal(v) \/ VirqRaise(v) \/ IrqHandler(v)
    BY <1>2 DEF Next, OneVm
  <2>2. Shape'
    BY <2>1, LifeShape, RunShape
  <2>3. Rest'
    BY <2>1, <2>2, LifeRest, RunRest
  <2> QED
    BY <2>2, <2>3 DEF Core, Rest
<1> QED
  BY <1>1, <1>2

LEMMA CoreInvariance == ASSUME OneVm PROVE Spec => []Core
<1>1. Init => Core
  BY CoreInit
<1>2. Core /\ [Next]_vars => Core'
  BY CoreStep
<1> QED
  BY <1>1, <1>2, PTL DEF Spec

\* gh_vcpu_run's FREEZE and UNFREEZE hypercalls are balanced: wdog_frozen tells
\* the truth through preemption, signals, exit and restart of the VM.
THEOREM WdogIsBalanced == ASSUME OneVm PROVE Spec => []WdogBalanced
<1>1. Core => WdogBalanced
  BY DEF Core, Shape, First, Wdog, WdogBalanced, Frozen
<1> QED
  BY <1>1, CoreInvariance, PTL

\* gh_wakeup_all_vcpus misses no sleeper: a thread that tested abort_sleep before
\* the wake-up sees it after, when the hypervisor runs no vcpu of an exited VM.
THEOREM ExitWakesAll == ASSUME OneVm, "WFI" \notin ExitAnswers PROVE Spec => []ExitReachesSleepers
<1>1. Core => ExitReachesSleepers
  BY TheVcpus DEF Core, First, Woken, ExitReachesSleepers, AbortSleep
<1> QED
  BY <1>1, CoreInvariance, PTL

-----------------------------------------------------------------------------
(* Loading and unloading, as long as no population failed halfway          *)

\* The first k vcpus are in the slot, each at the index that is its vcpu_id; the
\* vcpus from lo up to hi have their interrupt handler.
Filled(k) == slot[1].count = k /\ \A n \in 0..(k - 1) : slot[1].cap[n] = <<TheVm, n>>
Handlers(lo, hi) ==
  \A n \in 0..(PerVm - 1) : handler[<<TheVm, n>>] = IF lo <= n /\ n < hi THEN <<1, n>> ELSE NONE
InUse == slot[1].id = TheVm /\ Filled(PerVm) /\ slot[1].populated

LoadStage ==
  /\ phase[TheVm] # "failed"
  /\ phase[TheVm] = "off" =>
       slot[1].id = NONE /\ Filled(0) /\ ~slot[1].populated /\ Handlers(0, 0) /\ nrVcpus = 0
  /\ phase[TheVm] = "vcpus" =>
       Filled(next[TheVm]) /\ ~slot[1].populated /\ Handlers(0, next[TheVm]) /\ nrVcpus = next[TheVm]
  /\ phase[TheVm] = "allres" =>
       /\ slot[1].id = TheVm /\ Filled(PerVm) /\ ~slot[1].populated
       /\ Handlers(0, PerVm) /\ nrVcpus = PerVm
  /\ phase[TheVm] \in {"up", "running", "exited", "waking", "done"} =>
       InUse /\ Handlers(0, PerVm) /\ nrVcpus = PerVm
  /\ phase[TheVm] \in {"up", "running"} => slot[1].active
  /\ phase[TheVm] = "unvcpus" =>
       InUse /\ Handlers(next[TheVm], PerVm) /\ nrVcpus = PerVm - next[TheVm]
  /\ phase[TheVm] = "unallres" => InUse /\ Handlers(PerVm, PerVm) /\ nrVcpus = 0

\* A thread that sleeps or is about to is awaited by the hypervisor, has its VIRQ
\* pending, or has been woken.
Awaited ==
  \A v \in Vcpus : phase[TheVm] = "running" /\ pc[v] \in {"sleepchk", "sleep"}
                     => slot[1].abort[v[2]] \/ v \in wfi \cup pend
Undisturbed == fails = 0 => LoadStage /\ Awaited

LEMMA RoomForAll == PerVm \in Nat \ {0} /\ SlotVcpus \in Nat /\ PerVm <= SlotVcpus
           /\ NumSlots * SlotVcpus \in Nat /\ PerVm <= NumSlots * SlotVcpus
<1>1. PerVm \in Nat \ {0} /\ SlotVcpus \in Nat /\ NumSlots \in Nat /\ PerVm <= SlotVcpus /\ 1 <= NumSlots
  BY SizesAssumption
<1>2. \A a, b \in Nat : 1 <= a => b <= a * b
  OBVIOUS
<1>3. SlotVcpus <= NumSlots * SlotVcpus
  BY <1>1, <1>2
<1>4. NumSlots * SlotVcpus \in Nat
  BY <1>1
<1> QED
  BY <1>1, <1>3, <1>4

LEMMA LifeUndisturbed ==
  ASSUME OneVm, Core, Core', Undisturbed, Life(TheVm)
  PROVE  Undisturbed'
<1>0. /\ TheVm \in Vmids /\ GetVm(TheVm) = 1 /\ SlotType /\ 1 \in Slots /\ kick[TheVm] = 1
      /\ phase \in [Vmids -> Phases] /\ next \in [Vmids -> 0..PerVm] /\ PerVm \in Nat \ {0}
      /\ handler \in [Vcpus -> {NONE} \cup (Slots \X Idx)] /\ TheVm # NONE
      /\ \A v \in Vcpus : v[1] = TheVm /\ v[2] \in Idx
      /\ \A n \in 0..(PerVm - 1) : <<TheVm, n>> \in Vcpus
  BY TheVcpus, FirstSlot, RoomForAll, VmidsAssumption DEF Core, Shape, First
<1> SUFFICES ASSUME fails' = 0, fails = 0, LoadStage, Awaited PROVE LoadStage' /\ Awaited'
  <2>1. fails' = 0 => fails = 0
    BY DEF Core, Shape, Life, Load, PopulateVcpu, PopulateAllRes, Start, Exit, ExitDeactivate, ExitWake, Destroy,
       UnpopulateVcpu, UnpopulateAllRes, slotVars, lifeVars
  <2> QED
    BY <2>1 DEF Undisturbed
<1> USE <1>0 DEF LoadStage, Awaited, InUse, Filled, Handlers, slotVars, lifeVars, runVars, hypVars, To
<1>1. CASE Load(TheVm)
  BY <1>1 DEF Load
<1>2. CASE PopulateVcpu(TheVm)
  <2> DEFINE k == next[TheVm]
             v == <<TheVm, k>>
  <2>0. /\ k < PerVm /\ k \in 0..PerVm /\ phase[TheVm] = "vcpus" /\ slot[1].count = k /\ nrVcpus = k
        /\ ~slot[1].populated /\ v \in Vcpus
    BY <1>2 DEF PopulateVcpu, Core, Table
  <2>r. nrVcpus < NumSlots * SlotVcpus /\ RoomFor(1)
    BY <2>0, RoomForAll DEF RoomFor
  <2>1. /\ slot[1].count < SlotVcpus /\ nrVcpus' = nrVcpus + 1 /\ Advance(TheVm)
        /\ handler' = [handler EXCEPT ![v] = <<1, k>>]
        /\ slot' = [slot EXCEPT ![1].id = TheVm, ![1].cap[slot[1].count] = v, ![1].count = @ + 1]
    <3> HIDE DEF LoadStage, Awaited
    <3> QED
      BY <1>2, <2>0, <2>r, RoomForAll DEF PopulateVcpu, RoomFor
  <2>2. /\ slot'[1].id = TheVm /\ slot'[1].count = k + 1 /\ slot'[1].cap = [slot[1].cap EXCEPT ![k] = v]
        /\ slot'[1].populated = slot[1].populated
    BY <2>0, <2>1, VcpuAdded, ZenonT(40)
  <2>3. slot[1].cap \in [Idx -> Vcpus \cup {NONE}] /\ k \in Idx
    BY <2>0, FieldTypes, RoomForAll DEF Idx
  <2>4. \A n \in 0..k : slot'[1].cap[n] = <<TheVm, n>>
    BY <2>0, <2>2, <2>3, RoomForAll DEF Idx
  <2>5. ASSUME NEW n \in 0..(PerVm - 1)
        PROVE  handler'[<<TheVm, n>>] = IF 0 <= n /\ n < k + 1 THEN <<1, n>> ELSE NONE
    <3>1. handler[<<TheVm, n>>] = IF 0 <= n /\ n < k THEN <<1, n>> ELSE NONE
      BY <2>0
    <3>2. handler'[<<TheVm, n>>] = IF n = k THEN <<1, k>> ELSE handler[<<TheVm, n>>]
      BY <2>1
    <3> QED
      BY <2>0, <3>1, <3>2, SMTT(30)
  <2>6. next'[TheVm] = k + 1 /\ phase'[TheVm] = IF k + 1 = PerVm THEN "allres" ELSE "vcpus"
    BY <2>1 DEF Advance
  <2>7. nrVcpus' = k + 1 /\ ~slot'[1].populated
    BY <2>0, <2>1, <2>2
  <2>8. CASE k + 1 = PerVm
    <3>1. phase'[TheVm] = "allres" /\ nrVcpus' = PerVm /\ slot'[1].count = PerVm
      BY <2>2, <2>6, <2>7, <2>8
    <3>2. \A n \in 0..(PerVm - 1) : slot'[1].cap[n] = <<TheVm, n>>
      BY <2>4, <2>8
    <3>3. \A n \in 0..(PerVm - 1) : handler'[<<TheVm, n>>] = IF 0 <= n /\ n < PerVm THEN <<1, n>> ELSE NONE
      BY <2>5, <2>8
    <3> QED
      BY <2>2, <2>7, <3>1, <3>2, <3>3
  <2>9. CASE k + 1 # PerVm
    <3>1. phase'[TheVm] = "vcpus" /\ next'[TheVm] = k + 1
      BY <2>6, <2>9
    <3>2. \A n \in 0..((k + 1) - 1) : slot'[1].cap[n] = <<TheVm, n>>
      BY <2>0, <2>4
    <3> QED
      BY <2>2, <2>5, <2>7, <3>1, <3>2
  <2> QED
    BY <2>8, <2>9
<1>3. CASE PopulateAllRes(TheVm)
  <2>1. ~AllResIgnored(TheVm) /\ ~slot[1].populated /\ phase[TheVm] = "allres"
    <3>1. phase[TheVm] = "allres" /\ slot[1].id = TheVm /\ slot[1].count = PerVm /\ ~slot[1].populated
      BY <1>3 DEF PopulateAllRes
    <3>2. nrVms = 0 /\ NumSlots \in Nat /\ 1 < NumSlots
      BY <3>1, SizesAssumption DEF Core, Table, OneVm
    <3> QED
      BY <3>1, <3>2 DEF AllResIgnored, HasVcpus
  <2>2. /\ slot' = [slot EXCEPT ![1].populated = TRUE, ![1].active = TRUE]
        /\ phase'[TheVm] = "up" /\ UNCHANGED <<nrVcpus, handler>>
    BY <1>3, <2>1 DEF PopulateAllRes
  <2>3. /\ slot'[1].id = slot[1].id /\ slot'[1].count = slot[1].count /\ slot'[1].cap = slot[1].cap
        /\ slot'[1].populated /\ slot'[1].active
    BY <2>2, MarkedPopulated
  <2> QED
    BY <2>1, <2>2, <2>3
<1>4. CASE Start(TheVm)
  BY <1>4 DEF Start, Core, Threads
<1>5. CASE Exit(TheVm)
  BY <1>5 DEF Exit
<1>6. CASE Destroy(TheVm)
  BY <1>6 DEF Destroy
<1>7. CASE ExitDeactivate(TheVm)
  BY <1>7, Deactivated DEF ExitDeactivate, Kept
<1>8. CASE ExitWake(TheVm)
  BY <1>8, AllAborted DEF ExitWake, Kept
<1>9. CASE UnpopulateVcpu(TheVm)
  <2> DEFINE k == next[TheVm]
  <2>0. k < PerVm /\ k \in 0..PerVm /\ phase[TheVm] = "unvcpus" /\ UNCHANGED slot
    BY <1>9 DEF UnpopulateVcpu, Core, Table
  <2>1. UnpopulateFinds(TheVm, <<TheVm, k>>)
    BY <2>0 DEF UnpopulateFinds, HasVcpus
  <2>2. handler' = [handler EXCEPT ![<<TheVm, k>>] = NONE] /\ nrVcpus' = PerVm - (k + 1)
    BY <1>9, <2>0, <2>1 DEF UnpopulateVcpu
  <2>3. next'[TheVm] = k + 1 /\ phase'[TheVm] = IF k + 1 = PerVm THEN "unallres" ELSE "unvcpus"
    BY <1>9 DEF UnpopulateVcpu
  <2>4. ASSUME NEW n \in 0..(PerVm - 1)
        PROVE  handler'[<<TheVm, n>>] = IF k + 1 <= n /\ n < PerVm THEN <<1, n>> ELSE NONE
    <3>1. handler[<<TheVm, n>>] = IF k <= n /\ n < PerVm THEN <<1, n>> ELSE NONE
      BY <2>0
    <3>2. handler'[<<TheVm, n>>] = IF n = k THEN NONE ELSE handler[<<TheVm, n>>]
      BY <2>2
    <3> QED
      BY <2>0, <3>1, <3>2
  <2> QED
    BY <2>0, <2>2, <2>3, <2>4
<1>10. CASE UnpopulateAllRes(TheVm)
  <2>1. slot' = [slot EXCEPT ![1] = EmptySlot] /\ phase'[TheVm] = "off" /\ UNCHANGED <<nrVcpus, handler>>
    <3>1. phase[TheVm] = "unallres" /\ slot[1].id = TheVm /\ slot[1].count = PerVm /\ slot[1].populated
      BY <1>10 DEF UnpopulateAllRes
    <3>2. nrVms = 1 /\ NumSlots \in Nat /\ 1 < NumSlots
      BY <3>1, SizesAssumption DEF Core, Table, OneVm
    <3>3. ~AllResIgnored(TheVm)
      BY <3>1, <3>2 DEF AllResIgnored, HasVcpus
    <3> QED
      BY <1>10, <3>1, <3>3 DEF UnpopulateAllRes
  <2>2. slot'[1].id = NONE /\ slot'[1].count = 0 /\ ~slot'[1].populated
    BY <2>1, Emptied
  <2> QED
    BY <1>10, <2>1, <2>2 DEF UnpopulateAllRes
<1> QED
  BY <1>1, <1>2, <1>3, <1>4, <1>5, <1>6, <1>7, <1>8, <1>9, <1>10 DEF Life

LEMMA AllHandlers ==
  /\ Handlers(0, PerVm) => \A n \in 0..(PerVm - 1) : handler[<<TheVm, n>>] = <<1, n>>
  /\ Handlers(0, 0) => \A n \in 0..(PerVm - 1) : handler[<<TheVm, n>>] = NONE
<1>1. ASSUME Handlers(0, PerVm), NEW n \in 0..(PerVm - 1) PROVE handler[<<TheVm, n>>] = <<1, n>>
  <2>1. handler[<<TheVm, n>>] = IF 0 <= n /\ n < PerVm THEN <<1, n>> ELSE NONE
    BY <1>1 DEF Handlers
  <2> QED
    BY <2>1, RoomForAll
<1>2. ASSUME Handlers(0, 0), NEW n \in 0..(PerVm - 1) PROVE handler[<<TheVm, n>>] = NONE
  <2>1. handler[<<TheVm, n>>] = IF 0 <= n /\ n < 0 THEN <<1, n>> ELSE NONE
    BY <1>2 DEF Handlers
  <2> QED
    BY <2>1, RoomForAll
<1> QED
  BY <1>1, <1>2

LEMMA RunUndisturbed ==
  ASSUME OneVm, Core, Undisturbed, NEW v \in Vcpus, Run(v) \/ Signal(v) \/ VirqRaise(v) \/ IrqHandler(v)
  PROVE  Undisturbed'
<1>0. /\ GetVm(v[1]) = 1 /\ SlotType /\ 1 \in Slots /\ at[v] = 1 /\ v[2] \in Idx /\ v[1] = TheVm
      /\ v[2] \in 0..(PerVm - 1) /\ v = <<TheVm, v[2]>>
      /\ pc \in [Vcpus -> Steps] /\ slot[1].abort \in [Idx -> BOOLEAN]
      /\ \A u \in Vcpus : u[2] \in Idx /\ (u[2] = v[2] => u = v)
  BY TheVcpus, FirstSlot, FieldTypes DEF Core, Shape, First
<1>f. UNCHANGED <<lifeVars, nrVcpus, handler>>
  BY DEF Run, Signal, VirqRaise, IrqHandler, RunBegin, RunEntry, RunLookup, RunWaitedExit, RunReset, RunHcall,
     RunSleep, RunWake, RunTail, slotVars
<1> SUFFICES ASSUME LoadStage, Awaited PROVE LoadStage' /\ Awaited'
  BY <1>f DEF Undisturbed, lifeVars
<1>k. ASSUME \/ UNCHANGED slot
             \/ Kept /\ slot'[1].active = slot[1].active
      PROVE  LoadStage'
  BY <1>f, <1>k DEF LoadStage, InUse, Filled, Handlers, lifeVars, Kept
<1> HIDE DEF LoadStage
<1> USE <1>0 DEF Awaited, slotVars, lifeVars, runVars, hypVars, Go
<1>1. CASE \/ RunBegin(v) \/ RunEntry(v) \/ RunLookup(v) \/ RunWaitedExit(v) \/ RunSleep(v) \/ RunWake(v)
           \/ Signal(v)
  BY <1>1, <1>k DEF RunBegin, RunEntry, RunLookup, RunWaitedExit, RunSleep, RunWake, Signal
<1>2. CASE VirqRaise(v)
  BY <1>2, <1>k DEF VirqRaise
<1>3. CASE RunReset(v)
  <2>1. /\ Kept /\ slot'[1].active = slot[1].active /\ slot'[1].abort = [slot[1].abort EXCEPT ![v[2]] = FALSE]
    BY <1>3, AbortSet DEF RunReset
  <2>2. Awaited'
    BY <1>3, <2>1 DEF RunReset
  <2> QED
    BY <1>k, <2>1, <2>2
<1>4. CASE RunHcall(v)
  <2>1. PICK a \in HcallAnswers(v) : \E b \in BOOLEAN :
          /\ slot' = [slot EXCEPT ![at[v]].frozen[v[2]] = b]
          /\ wfi' = IF a = "WFI" /\ ~Gone(v) THEN wfi \cup {CapId(v)} ELSE wfi
          /\ Go(v, IF a = "WFI" THEN "sleepchk" ELSE "tail")
    BY <1>4, Zenon DEF RunHcall
  <2>2. PICK b \in BOOLEAN : slot' = [slot EXCEPT ![1].frozen[v[2]] = b]
    BY <1>0, <2>1, Zenon
  <2>3. Kept /\ slot'[1].active = slot[1].active /\ slot'[1].abort = slot[1].abort
    BY <2>2, FrozenSet
  <2>4. phase[TheVm] = "running" => CapId(v) = v
    BY DEF LoadStage, InUse, Filled, CapId
  <2>5. Awaited'
    BY <1>4, <2>1, <2>3, <2>4 DEF RunHcall, Gone
  <2> QED
    BY <1>k, <2>3, <2>5
<1>5. CASE RunTail(v)
  <2>1. CASE UNCHANGED slot
    BY <1>5, <1>k, <2>1 DEF RunTail
  <2>2. CASE slot' = [slot EXCEPT ![1].frozen[v[2]] = TRUE]
    <3>1. Kept /\ slot'[1].active = slot[1].active /\ slot'[1].abort = slot[1].abort
      BY <2>2, FrozenSet
    <3>2. Awaited'
      BY <1>5, <3>1 DEF RunTail
    <3> QED
      BY <1>k, <3>1, <3>2
  <2> QED
    BY <1>5, <2>1, <2>2 DEF RunTail
<1>6. CASE IrqHandler(v)
  <2>1. CASE phase[TheVm] # "running"
    <3>1. Awaited'
      BY <1>f, <2>1
    <3>2. UNCHANGED slot \/ (Kept /\ slot'[1].active = slot[1].active)
      <4>1. handler[v][2] \in Idx /\ handler[v][1] = 1
        BY <1>6 DEF IrqHandler, Core, Shape, First
      <4> QED
        BY <1>6, <4>1, AbortSet DEF IrqHandler
    <3> QED
      BY <1>k, <3>1, <3>2
  <2>2. CASE phase[TheVm] = "running"
    <3>1. handler[v] = <<1, v[2]>> /\ slot[1].populated
      BY <2>2, AllHandlers DEF LoadStage, InUse
    <3>2. slot' = [slot EXCEPT ![1].abort[v[2]] = TRUE] /\ pend' = pend \ {v} /\ UNCHANGED <<wfi, runVars>>
      BY <1>6, <3>1 DEF IrqHandler, IrqWakes
    <3>3. /\ Kept /\ slot'[1].active = slot[1].active /\ slot'[1].abort = [slot[1].abort EXCEPT ![v[2]] = TRUE]
      BY <3>2, AbortSet
    <3>4. Awaited'
      BY <1>f, <3>2, <3>3
    <3> QED
      BY <1>k, <3>3, <3>4
  <2> QED
    BY <2>1, <2>2
<1> QED
  BY <1>1, <1>2, <1>3, <1>4, <1>5, <1>6 DEF Run

LEMMA UndisturbedInvariance == ASSUME OneVm PROVE Spec => [](Core /\ Undisturbed)
<1>1. Init => Undisturbed
  <2> SUFFICES ASSUME Init PROVE LoadStage /\ Awaited
    BY DEF Undisturbed
  <2>1. TheVm \in Vmids /\ 1 \in Slots /\ \A n \in 0..(PerVm - 1) : <<TheVm, n>> \in Vcpus
    BY TheVcpus
  <2>2. slot[1] = EmptySlot /\ EmptySlot.id = NONE /\ EmptySlot.count = 0 /\ EmptySlot.populated = FALSE
    BY <2>1 DEF Init, EmptySlot
  <2>3. ~slot[1].populated
    BY <2>2, Zenon
  <2> QED
    BY <2>1, <2>2, <2>3, SizesAssumption DEF Init, LoadStage, Awaited, Filled, Handlers
<1>2. Core /\ Core' /\ Undisturbed /\ [Next]_vars => Undisturbed'
  <2> SUFFICES ASSUME Core, Core', Undisturbed, [Next]_vars PROVE Undisturbed'
    OBVIOUS
  <2>1. CASE UNCHANGED vars
    BY <2>1 DEF vars, slotVars, lifeVars, runVars, hypVars, Undisturbed, LoadStage, Awaited, InUse, Filled,
       Handlers
  <2>2. CASE Next
    <3>1. Life(TheVm) \/ \E v \in Vcpus : Run(v) \/ Signal(v) \/ VirqRaise(v) \/ IrqHandler(v)
      BY <2>2 DEF Next, OneVm
    <3> QED
      BY <3>1, LifeUndisturbed, RunUndisturbed
  <2> QED
    BY <2>1, <2>2
<1>3. Spec => []Core
  BY CoreInvariance
<1> QED
  BY <1>1, <1>2, <1>3, PTL DEF Spec

\* Every load, also a restart, puts all vcpus of the VM in the slot gh_get_vm finds,
\* at the index of their vcpu_id and with their interrupt handler, and every destroy
\* takes all of it back, as long as no population failed halfway.
THEOREM SlotsAreBalanced == ASSUME OneVm PROVE Spec => []SlotsBalanced
<1>1. Core /\ Undisturbed => SlotsBalanced
  <2> SUFFICES ASSUME Core, LoadStage
               PROVE  /\ phase[TheVm] \in {"up", "running"} => Wired(TheVm, 1)
                      /\ phase[TheVm] = "off" => /\ \A v \in Vcpus : v[1] = TheVm => handler[v] = NONE
                                                 /\ \A i \in Slots : slot[i].id # TheVm
    BY FirstSlot DEF Core, Undisturbed, SlotsBalanced, OneVm
  <2>1. phase[TheVm] \in {"up", "running"} => Wired(TheVm, 1)
    BY AllHandlers DEF LoadStage, InUse, Filled, Wired
  <2>2. phase[TheVm] = "off" => \A v \in Vcpus : handler[v] = NONE
    <3> SUFFICES ASSUME phase[TheVm] = "off", NEW v \in Vcpus PROVE handler[v] = NONE
      OBVIOUS
    <3>1. \A n \in 0..(PerVm - 1) : handler[<<TheVm, n>>] = NONE
      BY AllHandlers DEF LoadStage
    <3>2. v = <<TheVm, v[2]>> /\ v[2] \in 0..(PerVm - 1)
      BY TheVcpus
    <3> QED
      BY <3>1, <3>2
  <2>3. phase[TheVm] = "off" => \A i \in Slots : slot[i].id # TheVm
    BY TheVcpus, VmidsAssumption DEF LoadStage, Core, First
  <2> QED
    BY <2>1, <2>2, <2>3
<1> QED
  BY <1>1, UndisturbedInvariance, PTL

\* No wake-up is lost between gh_hcall_vcpu_run's answer, gh_vcpu_sleep's test of
\* abort_sleep and the vcpu's interrupt: a sleeping thread's VIRQ is still to come
\* and its handler wakes this thread.
THEOREM NoVirqIsLost == ASSUME OneVm PROVE Spec => []NoLostVirq
<1>1. Core /\ Undisturbed => NoLostVirq
  <2> SUFFICES ASSUME Core, LoadStage, Awaited, NEW v \in Vcpus, pc[v] = "sleep", ~AbortSleep(v), ~Gone(v)
               PROVE  /\ CapId(v) \in wfi \cup pend
                      /\ handler[CapId(v)] = <<at[v], v[2]>> /\ slot[at[v]].populated
    BY DEF Undisturbed, NoLostVirq
  <2>1. at[v] = 1 /\ phase[TheVm] = "running" /\ v = <<TheVm, v[2]>> /\ v[2] \in 0..(PerVm - 1)
    BY TheVcpus DEF Core, First, Gone
  <2>2. CapId(v) = v /\ handler[v] = <<1, v[2]>> /\ slot[1].populated
    BY <2>1, AllHandlers DEF LoadStage, InUse, Filled, CapId
  <2>3. v \in wfi \cup pend
    BY <2>1 DEF Awaited, AbortSleep
  <2> QED
    BY <2>1, <2>2, <2>3
<1> QED
  BY <1>1, UndisturbedInvariance, PTL
=============================================================================
