---------------------------- MODULE GhMsgqProofs ----------------------------
(***************************************************************************)
(* Theorems about GhMsgq, for any number of threads, any queue depth and   *)
(* any bounds.  The wake-up argument is the same for both directions: the  *)
(* cached flag may say "blocked" only while the hypervisor's queue really  *)
(* is, or while the interrupt that will correct the flag is pending.       *)
(* For "tx" it needs that the queue is never reset.                        *)
(***************************************************************************)
EXTENDS GhMsgq, TLAPS

-----------------------------------------------------------------------------
(* Type correctness                                                        *)

LEMMA DirInDirs == ASSUME NEW t \in Threads PROVE Dir(t) \in Dirs
  BY DirsAssumption, ThreadsAssumption DEF Threads, Dir

LEMMA InitType == Init => TypeOK
<1> SUFFICES ASSUME Init PROVE TypeOK
  OBVIOUS
<1>1. avail \in [Dirs -> 0..Depth] /\ resets \in 0..MaxResets /\ irqFails \in 0..MaxIrqFails
  BY DepthAssumption, BoundsAssumption DEF Init, FreshAvail
<1>2. waker \in [Dirs -> SUBSET Wakers]
  BY DEF Init
<1>3. blocked \in [Dirs -> BOOLEAN] /\ pend \in [Dirs -> BOOLEAN]
  BY Zenon DEF Init, FreshFlag
<1>4. nonblock \in [Threads -> BOOLEAN]
  BY Zenon DEF Init
<1> QED
  BY <1>1, <1>2, <1>3, <1>4 DEF Init, TypeOK, Setups, Steps

LEMMA ThreadStepType ==
  ASSUME TypeOK, NEW t \in Threads, ThreadStep(t)
  PROVE  TypeOK'
<1> USE DEF TypeOK, QueueUnchanged, GoTo, Return, Steps, threadVars, boundVars
<1>0. Dir(t) \in Dirs
  BY DirInDirs
<1>1. CASE Call(t)
  BY <1>1 DEF Call
<1>2. CASE WaitCap(t)
  BY <1>2 DEF WaitCap
<1>3. CASE CheckIrq(t)
  BY <1>3 DEF CheckIrq
<1>4. CASE CheckNonblock(t)
  BY <1>4 DEF CheckNonblock
<1>5. CASE WaitFlag(t)
  BY <1>5 DEF WaitFlag
<1>6. CASE HcallOk(t)
  BY <1>6, <1>0, DepthAssumption DEF HcallOk, HcallServed, FlagAfter
<1>7. CASE HcallAgain(t)
  BY <1>7, <1>0 DEF HcallAgain, HcallServed
<1>8. CASE HcallError(t)
  BY <1>8 DEF HcallError
<1>9. CASE Signal(t)
  BY <1>9 DEF Signal
<1> QED
  BY <1>1, <1>2, <1>3, <1>4, <1>5, <1>6, <1>7, <1>8, <1>9 DEF ThreadStep

LEMMA DirStepType ==
  ASSUME TypeOK, NEW d \in Dirs, DirStep(d)
  PROVE  TypeOK'
<1> USE DEF TypeOK, Setups, Wakers, threadVars, boundVars
<1>1. CASE IsrClear(d)
  BY <1>1 DEF IsrClear
<1>2. CASE \E w \in Wakers : Wake(d, w)
  <2>1. PICK w \in Wakers : Wake(d, w)
    BY <1>2
  <2>2. \A s \in Steps : Woken(s) \in Steps
    BY DEF Woken, Steps
  <2>3. pc' \in [Threads -> Steps]
    BY <2>1, <2>2 DEF Wake
  <2> QED
    BY <2>1, <2>3 DEF Wake
<1>3. CASE Peer(d)
  BY <1>3, DepthAssumption DEF Peer
<1>4. CASE PopulateRequestIrq(d)
  BY <1>4 DEF PopulateRequestIrq
<1>5. CASE PopulateIrqFails(d)
  <2>1. dangling' \in BOOLEAN /\ client' \in BOOLEAN
    BY <1>5, Zenon DEF PopulateIrqFails
  <2>2. blocked' \in [Dirs -> BOOLEAN]
    BY <1>5, Zenon DEF PopulateIrqFails, FreshFlag
  <2>3. irqFails' \in 0..MaxIrqFails
    BY <1>5, BoundsAssumption DEF PopulateIrqFails
  <2> QED
    BY <1>5, <2>1, <2>2, <2>3 DEF PopulateIrqFails
<1>6. CASE PopulateSetCap(d)
  BY <1>6 DEF PopulateSetCap
<1>7. CASE ResetFields(d)
  BY <1>7, BoundsAssumption DEF ResetFields, ResetFlag
<1>8. CASE ResetFreeIrq(d)
  BY <1>8, DepthAssumption DEF ResetFreeIrq, FreshAvail
<1> QED
  BY <1>1, <1>2, <1>3, <1>4, <1>5, <1>6, <1>7, <1>8 DEF DirStep

LEMMA NextType == TypeOK /\ [Next]_vars => TypeOK'
<1> SUFFICES ASSUME TypeOK, [Next]_vars PROVE TypeOK'
  OBVIOUS
<1>1. CASE Register \/ Unregister
  BY <1>1 DEF Register, Unregister, TypeOK, threadVars, boundVars
<1>2. CASE \E t \in Threads : ThreadStep(t)
  BY <1>2, ThreadStepType
<1>3. CASE \E d \in Dirs : DirStep(d)
  BY <1>3, DirStepType
<1>4. CASE UNCHANGED vars
  BY <1>4 DEF vars, TypeOK, threadVars, boundVars
<1> QED
  BY <1>1, <1>2, <1>3, <1>4 DEF Next, Undefined

\* Every variable of the driver keeps its type, for any number of threads,
\* queue depth and bounds; in particular the number of free slots or queued
\* messages never leaves 0..Depth.
THEOREM TypeCorrect == Spec => []TypeOK
  BY InitType, NextType, PTL DEF Spec

-----------------------------------------------------------------------------
(* No lost wake-up                                                         *)

\* The directions the argument covers: a new "rx" queue is empty, so a stale
\* rx_empty is harmless; a new "tx" queue is not full, so a stale tx_full is
\* not, and the argument needs that there is no reset.
Sound(d) == d = "rx" \/ MaxResets = 0

\* The flag says blocked only if the queue is, or will be corrected.
FlagHonest(d) == blocked[d] => avail[d] = 0 \/ pend[d]

\* A sleeper of a queue that can serve it, with the flag clear, is being woken.
SleepersCovered(d) ==
  \A t \in Threads : Dir(t) = d /\ Asleep(t) /\ ~blocked[d] /\ avail[d] > 0
                       => pend[d] \/ waker[d] # {}

\* What is queued before the handler is installed has its interrupt latched.
EarlyLatched(d) == d = "rx" /\ setup[d] = "none" => avail[d] = 0 \/ pend[d]

\* Without resets no handler is ever freed.
NoFreeing(d) == MaxResets = 0 => setup[d] # "freeing"

WakeInv(d) ==
  /\ TypeOK
  /\ ~dangling => FlagHonest(d) /\ SleepersCovered(d) /\ EarlyLatched(d)
  /\ NoFreeing(d)

LEMMA WakeInit == ASSUME NEW d \in Dirs, Init PROVE WakeInv(d)
<1>1. TypeOK
  BY InitType
<1> QED
  BY <1>1, DirsAssumption, DepthAssumption
  DEF Init, WakeInv, FlagHonest, SleepersCovered, EarlyLatched, NoFreeing,
      FreshFlag, FreshAvail, Asleep

LEMMA WakeThread ==
  ASSUME NEW d \in Dirs, WakeInv(d), ~dangling, NEW t \in Threads, ThreadStep(t)
  PROVE  WakeInv(d)'
<1>0. TypeOK' /\ Dir(t) \in Dirs
  BY ThreadStepType, DirInDirs DEF WakeInv
<1> USE DEF WakeInv, FlagHonest, SleepersCovered, EarlyLatched, NoFreeing, Asleep,
            GoTo, Return, QueueUnchanged, threadVars, boundVars
<1>1. CASE Call(t)
  BY <1>0, <1>1 DEF Call, TypeOK
<1>2. CASE WaitCap(t)
  BY <1>0, <1>2 DEF WaitCap, TypeOK
<1>3. CASE CheckIrq(t)
  BY <1>0, <1>3 DEF CheckIrq, TypeOK
<1>4. CASE CheckNonblock(t)
  BY <1>0, <1>4 DEF CheckNonblock, TypeOK
<1>5. CASE WaitFlag(t)
  BY <1>0, <1>5 DEF WaitFlag, TypeOK
<1>6. CASE HcallOk(t)
  BY <1>0, <1>6 DEF HcallOk, HcallServed, FlagAfter, CapValid, TypeOK
<1>7. CASE HcallAgain(t)
  BY <1>0, <1>7 DEF HcallAgain, HcallServed, CapValid, TypeOK
<1>8. CASE HcallError(t)
  BY <1>0, <1>8 DEF HcallError, TypeOK
<1>9. CASE Signal(t)
  BY <1>0, <1>9 DEF Signal, TypeOK
<1> QED
  BY <1>1, <1>2, <1>3, <1>4, <1>5, <1>6, <1>7, <1>8, <1>9 DEF ThreadStep

LEMMA WakeDir ==
  ASSUME NEW d \in Dirs, Sound(d), WakeInv(d), ~dangling, NEW e \in Dirs, DirStep(e)
  PROVE  WakeInv(d)'
<1>0. TypeOK'
  BY DirStepType DEF WakeInv
<1> USE DEF WakeInv, FlagHonest, SleepersCovered, EarlyLatched, NoFreeing, Asleep,
            HandlerInstalled, threadVars, boundVars
<1>1. CASE IsrClear(e)
  BY <1>0, <1>1 DEF IsrClear, TypeOK
<1>2. CASE \E w \in Wakers : Wake(e, w)
  <2>1. PICK w \in Wakers : Wake(e, w)
    BY <1>2
  <2>2. CASE e = d
    <3>1. \A t \in Threads : Dir(t) = d => pc'[t] # "flagsleep"
      BY <2>1, <2>2 DEF Wake, Woken, TypeOK, Steps
    <3> QED
      BY <1>0, <2>1, <3>1 DEF Wake
  <2>3. CASE e # d
    <3>1. \A t \in Threads : Dir(t) = d => pc'[t] = pc[t]
      BY <2>1, <2>3 DEF Wake
    <3>2. waker'[d] = waker[d]
      BY <2>1, <2>3 DEF Wake, TypeOK
    <3> QED
      BY <1>0, <2>1, <3>1, <3>2 DEF Wake
  <2> QED
    BY <2>2, <2>3
<1>3. CASE Peer(e)
  <2>1. pend[d] => pend'[d]
    BY <1>3 DEF Peer, TypeOK
  <2>2. CASE e = d /\ avail[d] = 0
    <3>1. pend'[d]
      BY <1>3, <2>2 DEF Peer, TypeOK
    <3> QED
      BY <1>0, <1>3, <3>1 DEF Peer
  <2>3. CASE ~(e = d /\ avail[d] = 0)
    <3>1. avail'[d] = avail[d] \/ avail[d] > 0
      BY <1>3, <2>3, DepthAssumption DEF Peer, TypeOK
    <3> QED
      BY <1>0, <1>3, <2>1, <2>3, <3>1, DepthAssumption DEF Peer, TypeOK
  <2> QED
    BY <2>2, <2>3
<1>4. CASE PopulateRequestIrq(e)
  BY <1>0, <1>4 DEF PopulateRequestIrq, TypeOK
<1>5. CASE PopulateIrqFails(e)
  <2>1. CASE dangling'
    BY <1>0, <1>5, <2>1 DEF PopulateIrqFails
  <2>2. CASE ~dangling'
    <3>1. setup[d] = "none" /\ \A t \in Threads : pc[t] = "idle"
      BY <1>5, <2>2 DEF PopulateIrqFails
    <3>2. FlagHonest(d)'
      BY <1>5, <3>1 DEF PopulateIrqFails, FreshFlag
    <3> QED
      BY <1>0, <1>5, <3>1, <3>2 DEF PopulateIrqFails
  <2> QED
    BY <2>1, <2>2
<1>6. CASE PopulateSetCap(e)
  BY <1>0, <1>6 DEF PopulateSetCap, TypeOK
<1>7. CASE ResetFields(e)
  BY <1>0, <1>7, BoundsAssumption DEF ResetFields, ResetFlag, TypeOK
<1>8. CASE ResetFreeIrq(e)
  BY <1>0, <1>8 DEF ResetFreeIrq, FreshAvail, Sound, TypeOK
<1> QED
  BY <1>1, <1>2, <1>3, <1>4, <1>5, <1>6, <1>7, <1>8 DEF DirStep

LEMMA WakeNext ==
  ASSUME NEW d \in Dirs, Sound(d), WakeInv(d), [Next]_vars
  PROVE  WakeInv(d)'
<1>1. CASE ~dangling /\ (Register \/ Unregister)
  BY <1>1 DEF Register, Unregister, WakeInv, TypeOK, FlagHonest, SleepersCovered,
              EarlyLatched, NoFreeing, Asleep, threadVars, boundVars
<1>2. CASE ~dangling /\ \E t \in Threads : ThreadStep(t)
  BY <1>2, WakeThread
<1>3. CASE ~dangling /\ \E e \in Dirs : DirStep(e)
  BY <1>3, WakeDir
<1>4. CASE UNCHANGED vars
  BY <1>4 DEF vars, WakeInv, TypeOK, FlagHonest, SleepersCovered,
              EarlyLatched, NoFreeing, Asleep, threadVars, boundVars
<1> QED
  BY <1>1, <1>2, <1>3, <1>4 DEF Next, Undefined

LEMMA WakeImplies == ASSUME NEW d \in Dirs, WakeInv(d) PROVE NoStranded(d)
  BY DEF WakeInv, FlagHonest, SleepersCovered, NoStranded, TypeOK

\* A receiver never sleeps in gh_msgq_recv beside a queued message without an
\* interrupt pending or a wake-up under way: for any number of receivers and
\* senders, any depth, and through any number of resets.
THEOREM ReceiverNotStranded == Spec => []NoStrandedReceiver
<1>1. CASE "rx" \in Dirs
  <2>1. Init => WakeInv("rx")
    BY <1>1, WakeInit
  <2>2. WakeInv("rx") /\ [Next]_vars => WakeInv("rx")'
    BY <1>1, WakeNext DEF Sound
  <2>3. WakeInv("rx") => NoStrandedReceiver
    BY <1>1, WakeImplies DEF NoStrandedReceiver
  <2> QED
    BY <2>1, <2>2, <2>3, PTL DEF Spec
<1>2. CASE "rx" \notin Dirs
  <2>1. NoStrandedReceiver
    BY <1>2 DEF NoStrandedReceiver
  <2> QED
    BY <2>1, PTL
<1> QED
  BY <1>1, <1>2

\* The same for gh_msgq_send, as long as gh_msgq_reset_cap_info is not called:
\* the stale tx_full it leaves behind is the only way to strand a sender.
THEOREM SenderNotStranded == MaxResets = 0 /\ Spec => []NoStrandedSender
<1> SUFFICES ASSUME MaxResets = 0 PROVE Spec => []NoStrandedSender
  OBVIOUS
<1>1. CASE "tx" \in Dirs
  <2>1. Init => WakeInv("tx")
    BY <1>1, WakeInit
  <2>2. WakeInv("tx") /\ [Next]_vars => WakeInv("tx")'
    BY <1>1, WakeNext DEF Sound
  <2>3. WakeInv("tx") => NoStrandedSender
    BY <1>1, WakeImplies DEF NoStrandedSender
  <2> QED
    BY <2>1, <2>2, <2>3, PTL DEF Spec
<1>2. CASE "tx" \notin Dirs
  <2>1. NoStrandedSender
    BY <1>2 DEF NoStrandedSender
  <2> QED
    BY <2>1, PTL
<1> QED
  BY <1>1, <1>2

-----------------------------------------------------------------------------
(* Nonblocking calls                                                       *)

\* The only caller of a direction, in a nonblocking call during which the cap id is
\* not reset: after it found the flag clear nobody else sets it.
Nonblocking(t) == nonblock[t] /\ OnlyCaller(t) /\ resets = 0
NonblockInv(t) ==
  Nonblocking(t) => /\ pc[t] \notin {"capsleep", "flagsleep"}
                    /\ setup[Dir(t)] = "up"
                    /\ pc[t] = "flagwait" /\ ~dangling => ~blocked[Dir(t)]

LEMMA NonblockThread ==
  ASSUME TypeOK, NEW t \in Threads, NonblockInv(t), ~dangling, NEW u \in Threads, ThreadStep(u)
  PROVE  NonblockInv(t)'
<1> USE DEF TypeOK, GoTo, Return, QueueUnchanged, threadVars, boundVars
<1>0. Dir(t) \in Dirs /\ Dir(u) \in Dirs
  BY DirInDirs
<1>1. UNCHANGED <<setup, resets, dangling>>
  BY DEF ThreadStep, Call, WaitCap, CheckIrq, CheckNonblock, WaitFlag, HcallOk, HcallAgain, HcallError, Signal
<1>2. CASE u # t
  <2>1. pc'[t] = pc[t] /\ (nonblock'[t] <=> nonblock[t])
    BY <1>2 DEF ThreadStep, Call, WaitCap, CheckIrq, CheckNonblock, WaitFlag, HcallOk, HcallAgain, HcallError, Signal
  <2>2. OnlyCaller(t) => (blocked'[Dir(t)] <=> blocked[Dir(t)])
    <3> SUFFICES ASSUME Dir(u) # Dir(t) PROVE blocked'[Dir(t)] <=> blocked[Dir(t)]
      BY <1>2 DEF OnlyCaller
    <3> QED
      BY <1>0 DEF ThreadStep, Call, WaitCap, CheckIrq, CheckNonblock, WaitFlag, HcallOk, HcallAgain, HcallError, Signal
  <2> QED
    BY <1>1, <2>1, <2>2 DEF NonblockInv, Nonblocking, OnlyCaller
<1>3. CASE u = t
  <2>1. CASE Call(t)
    BY <1>1, <2>1 DEF Call, CapValid, NonblockInv, Nonblocking, OnlyCaller
  <2>2. CASE CheckNonblock(t)
    <3>1. CASE blocked[Dir(t)] /\ nonblock[t]
      BY <2>2, <3>1 DEF CheckNonblock, NonblockInv, Nonblocking
    <3>2. CASE ~(blocked[Dir(t)] /\ nonblock[t])
      BY <1>1, <2>2, <3>2 DEF CheckNonblock, NonblockInv, Nonblocking, OnlyCaller
    <3> QED
      BY <3>1, <3>2
  <2>3. CASE WaitCap(t) \/ CheckIrq(t)
    BY <1>1, <2>3 DEF WaitCap, CheckIrq, CapValid, NonblockInv, Nonblocking, OnlyCaller
  <2>4. CASE WaitFlag(t)
    BY <1>1, <2>4 DEF WaitFlag, NonblockInv, Nonblocking, OnlyCaller
  <2>5. CASE HcallAgain(t)
    BY <1>1, <2>5 DEF HcallAgain, NonblockInv, Nonblocking, OnlyCaller
  <2>6. CASE HcallOk(t) \/ HcallError(t) \/ Signal(t)
    <3>1. ~nonblock'[t]
      BY <2>6 DEF HcallOk, HcallError, Signal
    <3> QED
      BY <3>1 DEF NonblockInv, Nonblocking
  <2> QED
    BY <1>3, <2>1, <2>2, <2>3, <2>4, <2>5, <2>6 DEF ThreadStep
<1> QED
  BY <1>2, <1>3

LEMMA NonblockDir ==
  ASSUME TypeOK, NEW t \in Threads, NonblockInv(t), ~dangling, NEW e \in Dirs, DirStep(e)
  PROVE  NonblockInv(t)'
<1> USE DEF TypeOK, NonblockInv, Nonblocking, OnlyCaller, threadVars, boundVars
<1>0. Dir(t) \in Dirs
  BY DirInDirs
<1>1. CASE IsrClear(e)
  BY <1>0, <1>1 DEF IsrClear
<1>2. CASE \E w \in Wakers : Wake(e, w)
  <2>1. UNCHANGED <<setup, blocked, nonblock, resets, dangling>>
    BY <1>2 DEF Wake
  <2>2. pc'[t] = pc[t] \/ pc[t] \in {"capsleep", "flagsleep"}
    BY <1>2 DEF Wake, Woken
  <2> QED
    BY <2>1, <2>2
<1>3. CASE Peer(e)
  BY <1>3 DEF Peer
<1>4. CASE PopulateRequestIrq(e) \/ PopulateSetCap(e)
  <2>1. UNCHANGED <<blocked, threadVars, resets, dangling>> /\ (setup[Dir(t)] = "up" => setup'[Dir(t)] = "up")
    BY <1>0, <1>4 DEF PopulateRequestIrq, PopulateSetCap
  <2> QED
    BY <2>1
<1>5. CASE PopulateIrqFails(e)
  <2>1. UNCHANGED <<setup, threadVars, resets>>
    BY <1>5 DEF PopulateIrqFails
  <2>2. pc[t] # "idle" => dangling'
    BY <1>5, Zenon DEF PopulateIrqFails
  <2> QED
    BY <2>1, <2>2
<1>6. CASE ResetFields(e)
  <2>1. resets' # 0
    BY <1>6, BoundsAssumption DEF ResetFields
  <2> QED
    BY <2>1
<1>7. CASE ResetFreeIrq(e)
  <2>1. UNCHANGED <<blocked, threadVars, resets, dangling>> /\ (setup[Dir(t)] = "up" => setup'[Dir(t)] = "up")
    BY <1>0, <1>7 DEF ResetFreeIrq
  <2> QED
    BY <2>1
<1> QED
  BY <1>1, <1>2, <1>3, <1>4, <1>5, <1>6, <1>7 DEF DirStep

\* A GH_MSGQ_NONBLOCK call of the only caller of a direction never sleeps, although
\* it reads the flag twice: for any depth, whatever the peer, the interrupt handler
\* and the callers of the other direction do, as long as there was no reset.
THEOREM NonblockDoesNotSleep == Spec => []NonblockNeverSleeps
<1> DEFINE Inv == TypeOK /\ \A t \in Threads : NonblockInv(t)
<1>1. Init => Inv
  <2> SUFFICES ASSUME Init, NEW t \in Threads PROVE NonblockInv(t)
    BY InitType
  <2>1. ~nonblock[t]
    BY Zenon DEF Init
  <2> QED
    BY <2>1 DEF NonblockInv, Nonblocking
<1>2. Inv /\ [Next]_vars => Inv'
  <2> SUFFICES ASSUME Inv, [Next]_vars PROVE Inv'
    OBVIOUS
  <2>0. TypeOK'
    BY NextType
  <2>1. CASE ~dangling /\ (Register \/ Unregister)
    BY <2>0, <2>1 DEF Register, Unregister, NonblockInv, Nonblocking, OnlyCaller, threadVars, boundVars
  <2>2. CASE ~dangling /\ \E t \in Threads : ThreadStep(t)
    BY <2>0, <2>2, NonblockThread
  <2>3. CASE ~dangling /\ \E e \in Dirs : DirStep(e)
    BY <2>0, <2>3, NonblockDir
  <2>4. CASE UNCHANGED vars
    BY <2>0, <2>4 DEF vars, NonblockInv, Nonblocking, OnlyCaller, threadVars, boundVars
  <2> QED
    BY <2>1, <2>2, <2>3, <2>4 DEF Next, Undefined
<1>3. Inv => NonblockNeverSleeps
  BY DEF NonblockInv, Nonblocking, NonblockNeverSleeps
<1> QED
  BY <1>1, <1>2, <1>3, PTL DEF Spec
=============================================================================
