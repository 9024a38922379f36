------------------------------- MODULE GhMsgq -------------------------------
(***************************************************************************)
(* The Gunyah message-queue driver, gh_msgq.c, for one label.              *)
(*                                                                         *)
(* A label has up to two one-way hypervisor queues.  The code treats them  *)
(* alike, so both are described by a direction d: "tx" (gh_msgq_send,      *)
(* tx_cap_id, tx_irq, tx_full, tx_wq, tx_lock) and "rx" (gh_msgq_recv and  *)
(* the rx_ fields).  What the driver caches of the hypervisor's state is   *)
(* one flag per direction, tx_full / rx_empty, here blocked[d].  It is     *)
(* written by the threads after a hypercall and by the interrupt handler,  *)
(* and read without a lock before a thread goes to sleep.                  *)
(*                                                                         *)
(* avail[d] abstracts the hypervisor's queue to the number of hypercalls   *)
(* that will succeed: free slots for "tx", queued messages for "rx".       *)
(***************************************************************************)
EXTENDS Naturals, FiniteSets

CONSTANTS
  Dirs,         \* the directions of this label (gh_msgq_probe: sender, receiver, duplex)
  Senders,      \* threads calling gh_msgq_send
  Receivers,    \* threads calling gh_msgq_recv
  Depth,        \* capacity of the hypervisor's queue
  MaxResets,    \* bound on gh_msgq_reset_cap_info calls
  MaxIrqFails   \* bound on request_irq failures

Threads == Senders \cup Receivers

ASSUME DirsAssumption == Dirs \subseteq {"tx", "rx"}
ASSUME ThreadsAssumption ==
  /\ Senders \cap Receivers = {}
  /\ Senders # {} => "tx" \in Dirs
  /\ Receivers # {} => "rx" \in Dirs
ASSUME DepthAssumption == Depth \in Nat \ {0}
ASSUME BoundsAssumption == MaxResets \in Nat /\ MaxIrqFails \in Nat

VARIABLES
  client,     \* cap_table_entry->client_desc is set
  setup,      \* [Dirs -> Setups]: cap id, irq number and installed handler
  blocked,    \* [Dirs -> BOOLEAN]: tx_full, rx_empty
  avail,      \* [Dirs -> 0..Depth]: the hypervisor's queue
  pend,       \* [Dirs -> BOOLEAN]: the queue's edge interrupt is pending
  waker,      \* [Dirs -> SUBSET Wakers]: wake_up_interruptible calls still to run
  pc,         \* [Threads -> Steps]
  nonblock,   \* [Threads -> BOOLEAN]: flags & GH_MSGQ_NONBLOCK
  resets,     \* gh_msgq_reset_cap_info calls so far
  irqFails,   \* request_irq failures so far
  dangling    \* the entry was freed while somebody still points at it

threadVars == <<pc, nonblock>>
boundVars  == <<resets, irqFails>>
vars == <<client, setup, blocked, avail, pend, waker, threadVars, boundVars, dangling>>

\* "requested": handler installed, cap id and irq not yet stored;
\* "up": populated; "freeing": fields cleared, free_irq not yet done.
Setups == {"none", "requested", "up", "freeing"}
Wakers == {"isr", "populate"}
Steps  == {"idle", "capwait", "capsleep", "chkirq", "loop", "flagwait", "flagsleep", "hcall"}

Dir(t) == IF t \in Senders THEN "tx" ELSE "rx"

\* gh_msgq_alloc_entry: tx_full = false, rx_empty = true.
FreshFlag(d) == d = "rx"
\* A new queue: every slot free, no message waiting.
FreshAvail(d) == IF d = "tx" THEN Depth ELSE 0

\* tx_cap_id / rx_cap_id != GH_CAPID_INVAL; the irq number changes with it.
CapValid(d) == setup[d] = "up"
HandlerInstalled(d) == setup[d] # "none"

TypeOK ==
  /\ client \in BOOLEAN
  /\ setup \in [Dirs -> Setups]
  /\ blocked \in [Dirs -> BOOLEAN]
  /\ avail \in [Dirs -> 0..Depth]
  /\ pend \in [Dirs -> BOOLEAN]
  /\ waker \in [Dirs -> SUBSET Wakers]
  /\ pc \in [Threads -> Steps]
  /\ nonblock \in [Threads -> BOOLEAN]
  /\ resets \in 0..MaxResets
  /\ irqFails \in 0..MaxIrqFails
  /\ dangling \in BOOLEAN

Init ==
  /\ client = FALSE
  /\ setup = [d \in Dirs |-> "none"]
  /\ blocked = [d \in Dirs |-> FreshFlag(d)]
  /\ avail = [d \in Dirs |-> FreshAvail(d)]
  /\ pend = [d \in Dirs |-> FALSE]
  /\ waker = [d \in Dirs |-> {}]
  /\ pc = [t \in Threads |-> "idle"]
  /\ nonblock = [t \in Threads |-> FALSE]
  /\ resets = 0
  /\ irqFails = 0
  /\ dangling = FALSE

-----------------------------------------------------------------------------
(* Clients: gh_msgq_register, gh_msgq_unregister                           *)

Register ==
  /\ ~client
  /\ client' = TRUE
  /\ UNCHANGED <<setup, blocked, avail, pend, waker, threadVars, boundVars, dangling>>

Unregister ==
  /\ client
  /\ client' = FALSE
  /\ UNCHANGED <<setup, blocked, avail, pend, waker, threadVars, boundVars, dangling>>

-----------------------------------------------------------------------------
(* gh_msgq_send / gh_msgq_recv, one action per stretch of code between     *)
(* points where another thread or the interrupt handler can intervene.     *)

GoTo(t, step) ==
  /\ pc' = [pc EXCEPT ![t] = step]
  /\ UNCHANGED nonblock

\* The call returns, its flags argument with it.
Return(t) ==
  /\ pc' = [pc EXCEPT ![t] = "idle"]
  /\ nonblock' = [nonblock EXCEPT ![t] = FALSE]

QueueUnchanged == UNCHANGED <<client, setup, blocked, avail, pend, waker, boundVars, dangling>>

\* Argument checks passed, under cap_entry_lock: the descriptor is the
\* registered one, and a nonblocking call needs the cap id now or returns
\* -EAGAIN at once, which changes nothing.
Call(t) ==
  /\ pc[t] = "idle"
  /\ client
  /\ \E nb \in BOOLEAN : /\ nb => CapValid(Dir(t))
                         /\ nonblock' = [nonblock EXCEPT ![t] = nb]
  /\ pc' = [pc EXCEPT ![t] = "capwait"]
  /\ QueueUnchanged

\* wait_event_interruptible(wq, cap_id != GH_CAPID_INVAL): the condition is
\* tested after the thread is on the wait queue, so test and sleep are one step.
WaitCap(t) ==
  /\ pc[t] = "capwait"
  /\ GoTo(t, IF CapValid(Dir(t)) THEN "chkirq" ELSE "capsleep")
  /\ QueueUnchanged

\* Under cap_entry_lock: the irq must be set up, or -EAGAIN is returned.
CheckIrq(t) ==
  /\ pc[t] = "chkirq"
  /\ IF CapValid(Dir(t)) THEN GoTo(t, "loop") ELSE Return(t)
  /\ QueueUnchanged

\* Head of the do-while: an unlocked read of the flag; -EAGAIN if blocked.
CheckNonblockDropped(t) ==
  /\ pc[t] = "loop"
  /\ GoTo(t, "flagwait")
  /\ QueueUnchanged
CheckNonblock(t) ==
  /\ pc[t] = "loop"
  /\ IF blocked[Dir(t)] /\ nonblock[t] THEN Return(t) ELSE GoTo(t, "flagwait")
  /\ QueueUnchanged

\* wait_event_interruptible(wq, !flag): a second, separate read.
WaitFlag(t) ==
  /\ pc[t] = "flagwait"
  /\ GoTo(t, IF blocked[Dir(t)] THEN "flagsleep" ELSE "hcall")
  /\ QueueUnchanged

\* The flag after a successful hypercall: !resp.not_full, !resp.not_empty.
FlagAfterEarly(d) == avail[d] - 1 <= 1
FlagAfter(d) == avail[d] - 1 = 0

\* The hypervisor refuses a send to a full and a receive from an empty queue.
HcallServed(d) == avail[d] > 0

\* __gh_msgq_send / __gh_msgq_recv: hypercall and flag update under
\* tx_lock / rx_lock with interrupts off.
HcallOk(t) ==
  LET d == Dir(t) IN
  /\ pc[t] = "hcall" /\ CapValid(d) /\ HcallServed(d)
  /\ avail' = [avail EXCEPT ![d] = @ - 1]
  /\ blocked' = [blocked EXCEPT ![d] = FlagAfter(d)]
  /\ Return(t)
  /\ UNCHANGED <<client, setup, pend, waker, boundVars, dangling>>

\* GH_ERROR_MSGQUEUE_FULL / _EMPTY: -EAGAIN, and the do-while goes round.
HcallAgain(t) ==
  LET d == Dir(t) IN
  /\ pc[t] = "hcall" /\ CapValid(d) /\ ~HcallServed(d)
  /\ blocked' = [blocked EXCEPT ![d] = TRUE]
  /\ GoTo(t, "loop")
  /\ UNCHANGED <<client, setup, avail, pend, waker, boundVars, dangling>>

\* Any other hypercall error (here: the cap id was reset) is returned.
HcallError(t) ==
  /\ pc[t] = "hcall" /\ ~CapValid(Dir(t))
  /\ Return(t)
  /\ QueueUnchanged

\* A signal ends either interruptible wait: -ERESTARTSYS.
Signal(t) ==
  /\ pc[t] \in {"capsleep", "flagsleep"}
  /\ Return(t)
  /\ QueueUnchanged

ThreadStep(t) ==
  \/ Call(t) \/ WaitCap(t) \/ CheckIrq(t) \/ CheckNonblock(t) \/ WaitFlag(t)
  \/ HcallOk(t) \/ HcallAgain(t) \/ HcallError(t) \/ Signal(t)

-----------------------------------------------------------------------------
(* Interrupts: gh_msgq_tx_isr, gh_msgq_rx_isr                              *)

\* Under the lock: the flag is cleared.  The handler is not re-entered.
IsrClear(d) ==
  /\ HandlerInstalled(d) /\ pend[d] /\ "isr" \notin waker[d]
  /\ pend' = [pend EXCEPT ![d] = FALSE]
  /\ blocked' = [blocked EXCEPT ![d] = FALSE]
  /\ waker' = [waker EXCEPT ![d] = @ \cup {"isr"}]
  /\ UNCHANGED <<client, setup, avail, threadVars, boundVars, dangling>>

WokenOnlyByCap(step) == IF step = "capsleep" THEN "capwait" ELSE step
Woken(step) == CASE step = "capsleep"  -> "capwait"
                 [] step = "flagsleep" -> "flagwait"
                 [] OTHER              -> step

\* wake_up_interruptible, after the unlock: every sleeper of the wait queue
\* re-evaluates its condition.
Wake(d, w) ==
  /\ w \in waker[d]
  /\ waker' = [waker EXCEPT ![d] = @ \ {w}]
  /\ pc' = [t \in Threads |-> IF Dir(t) = d THEN Woken(pc[t]) ELSE pc[t]]
  /\ UNCHANGED <<client, setup, blocked, avail, pend, nonblock, boundVars, dangling>>

\* The hypervisor and the peer VM: one more hypercall will succeed; the edge
\* interrupt is raised when the queue stops being full (tx) or empty (rx).
Peer(d) ==
  /\ avail[d] < Depth
  /\ avail' = [avail EXCEPT ![d] = @ + 1]
  /\ pend' = [pend EXCEPT ![d] = @ \/ avail[d] = 0]
  /\ UNCHANGED <<client, setup, blocked, waker, threadVars, boundVars, dangling>>

-----------------------------------------------------------------------------
(* gh_msgq_populate_cap_info, gh_msgq_reset_cap_info                       *)

\* Find or allocate the entry, then request_irq succeeds.
PopulateRequestIrq(d) ==
  /\ setup[d] = "none"
  /\ setup' = [setup EXCEPT ![d] = "requested"]
  /\ UNCHANGED <<client, blocked, avail, pend, waker, threadVars, boundVars, dangling>>

\* request_irq fails: the entry leaves the list and is freed, whoever uses it.
\* The next register or populate allocates a fresh one.
PopulateIrqFails(d) ==
  /\ setup[d] = "none"
  /\ irqFails < MaxIrqFails
  /\ irqFails' = irqFails + 1
  /\ dangling' = \/ client
                 \/ \E e \in Dirs \ {d} : HandlerInstalled(e)
                 \/ \E t \in Threads : pc[t] # "idle"
  /\ client' = FALSE
  /\ blocked' = [e \in Dirs |-> FreshFlag(e)]
  /\ UNCHANGED <<setup, avail, pend, waker, threadVars, resets>>

\* Under cap_entry_lock: cap id and irq; wake_up_interruptible follows.
PopulateSetCap(d) ==
  /\ setup[d] = "requested"
  /\ setup' = [setup EXCEPT ![d] = "up"]
  /\ waker' = [waker EXCEPT ![d] = @ \cup {"populate"}]
  /\ UNCHANGED <<client, blocked, avail, pend, threadVars, boundVars, dangling>>

\* irq set up: clear cap id and irq under cap_entry_lock.  Neither the flag
\* nor the wait queue is touched.
ResetFlag(d) == blocked[d]
ResetFields(d) ==
  /\ setup[d] = "up" /\ "populate" \notin waker[d]
  /\ resets < MaxResets
  /\ resets' = resets + 1
  /\ setup' = [setup EXCEPT ![d] = "freeing"]
  /\ blocked' = [blocked EXCEPT ![d] = ResetFlag(d)]
  /\ UNCHANGED <<client, avail, pend, waker, threadVars, irqFails, dangling>>

\* free_irq waits for a running handler.  The VM and its queue are gone; the
\* next populate is for a new one.
ResetFreeIrq(d) ==
  /\ setup[d] = "freeing" /\ "isr" \notin waker[d]
  /\ setup' = [setup EXCEPT ![d] = "none"]
  /\ avail' = [avail EXCEPT ![d] = FreshAvail(d)]
  /\ pend' = [pend EXCEPT ![d] = FALSE]
  /\ UNCHANGED <<client, blocked, waker, threadVars, boundVars, dangling>>

DirStep(d) ==
  \/ IsrClear(d) \/ (\E w \in Wakers : Wake(d, w)) \/ Peer(d)
  \/ PopulateRequestIrq(d) \/ PopulateIrqFails(d) \/ PopulateSetCap(d)
  \/ ResetFields(d) \/ ResetFreeIrq(d)

\* A freed entry in use is undefined behaviour: nothing more is claimed.
Undefined == dangling /\ UNCHANGED vars

Next ==
  \/ /\ ~dangling
     /\ \/ Register \/ Unregister
        \/ \E t \in Threads : ThreadStep(t)
        \/ \E d \in Dirs : DirStep(d)
  \/ Undefined

Spec == Init /\ [][Next]_vars

\* A pending interrupt of an installed handler is delivered, and a handler
\* that runs finishes.  Nothing is assumed of clients, peers or populate.
Fairness == \A d \in Dirs : /\ WF_vars(~dangling /\ IsrClear(d))
                            /\ \A w \in Wakers : WF_vars(~dangling /\ Wake(d, w))
FairSpec == Spec /\ Fairness

-----------------------------------------------------------------------------
(* Properties                                                              *)

\* The thread sleeps in the second wait_event_interruptible.
Asleep(t) == pc[t] = "flagsleep"

NoStranded(d) ==
  \A t \in Threads :
    Dir(t) = d /\ Asleep(t) /\ CapValid(d) /\ avail[d] > 0 /\ ~dangling
      => pend[d] \/ waker[d] # {}

\* No receiver sleeps in gh_msgq_recv while a message is queued, unless the
\* interrupt that will wake it is pending or its wake-up is under way; this
\* holds through any number of resets, because a new queue starts empty and
\* rx_empty errs on the side of TRUE only for an empty queue.
NoStrandedReceiver == "rx" \in Dirs => NoStranded("rx")

\* No sender sleeps in gh_msgq_send while the queue has a free slot, unless
\* an interrupt or a wake-up for it is on its way.
NoStrandedSender == "tx" \in Dirs => NoStranded("tx")

\* A thread sleeping on the flag of a populated queue that can serve it is
\* eventually woken, unless the queue is reset first: the two-step update
\* (flag, then wake_up) never strands it.
SleeperWakes ==
  \A t \in Threads :
    Asleep(t) /\ CapValid(Dir(t)) /\ avail[Dir(t)] > 0
      ~> ~Asleep(t) \/ ~CapValid(Dir(t)) \/ dangling

\* A call with GH_MSGQ_NONBLOCK does not sleep.  gh_msgq_send and gh_msgq_recv
\* test the flag, then wait on it in a second read, so this is promised to the
\* only caller of a direction and without a reset during the call.
OnlyCaller(t) == \A u \in Threads \ {t} : Dir(u) # Dir(t)
NonblockNeverSleeps ==
  \A t \in Threads :
    nonblock[t] /\ OnlyCaller(t) /\ resets = 0 => pc[t] \notin {"capsleep", "flagsleep"}
=============================================================================
