------------------------------- MODULE GhDbl -------------------------------
(***************************************************************************)
(* gh_dbl.c on one doorbell label.  A Tx and an Rx client register on it,  *)
(* share one descriptor, and make calls (gh_dbl_send, or read_and_clean,   *)
(* set_mask and reset for Rx) that first wait for the capability.          *)
(* gh_rm_core.c populates the two capabilities of the label when a VM is   *)
(* loaded and resets them when it is destroyed; the Rx interrupt runs the  *)
(* client's callback in a thread.                                          *)
(***************************************************************************)
EXTENDS Integers

CONSTANTS
  MaxDescs,  \* bound on descriptors allocated
  MaxLoads,  \* bound on VM loads
  MaxFails   \* bound on failing request_threaded_irq calls

ASSUME DblAssumption == MaxDescs \in Nat /\ MaxLoads \in Nat /\ MaxFails \in Nat

Dirs == {"TX", "RX"}
Other(d) == IF d = "TX" THEN "RX" ELSE "TX"
NULL == 0

VARIABLES
  clientDesc,  \* cap_table_entry->client_desc
  regDone,     \* [Dirs -> BOOLEAN]: tx_reg_done, rx_reg_done
  capSet,      \* [Dirs -> BOOLEAN]: tx_cap_id, rx_cap_id is not GH_CAPID_INVAL
  rxIrq,       \* rx_irq is not 0
  rxCallback,  \* rx_callback is not NULL
  live,        \* descriptors that are allocated
  descs,       \* how many have been allocated
  held,        \* [Dirs -> descriptor the client of that direction has, or NULL]
  call,        \* [Dirs -> where the client's call is]
  handler,     \* the Rx interrupt has the handler installed
  thread,      \* gh_dbl_rx_callback_thread
  rm,          \* where gh_rm_(un)populate_hyp_res is on this label
  loads, fails

entryVars == <<clientDesc, regDone, rxCallback, live, descs, held>>
capVars   == <<capSet, rxIrq, handler>>
rmVars    == <<rm, loads, fails>>
vars == <<entryVars, capVars, call, thread, rmVars>>

TypeOK ==
  /\ clientDesc \in 0..MaxDescs /\ descs \in 0..MaxDescs /\ live \subseteq 1..MaxDescs
  /\ regDone \in [Dirs -> BOOLEAN] /\ capSet \in [Dirs -> BOOLEAN]
  /\ held \in [Dirs -> 0..MaxDescs] /\ call \in [Dirs -> {"idle", "test", "sleep", "hcall"}]
  /\ rxIrq \in BOOLEAN /\ rxCallback \in BOOLEAN /\ handler \in BOOLEAN
  /\ thread \in {"idle", "checked"}
  /\ rm \in {"off", "tx", "txwake", "rxirq", "rxcap", "rxwake", "on", "untx", "unrx", "free", "kept"}
  /\ loads \in 0..MaxLoads /\ fails \in 0..MaxFails

\* gh_dbl_init: the table is zero but for the capability ids.
Init ==
  /\ clientDesc = NULL /\ regDone = [d \in Dirs |-> FALSE] /\ rxCallback = FALSE
  /\ live = {} /\ descs = 0 /\ held = [d \in Dirs |-> NULL]
  /\ capSet = [d \in Dirs |-> FALSE] /\ rxIrq = FALSE /\ handler = FALSE
  /\ call = [d \in Dirs |-> "idle"] /\ thread = "idle"
  /\ rm = "off" /\ loads = 0 /\ fails = 0

-----------------------------------------------------------------------------
(* Clients                                                                 *)

CallbackSet(d, b) == rxCallback' = IF d = "RX" THEN b ELSE rxCallback

\* gh_dbl_tx_register, gh_dbl_rx_register: the second client gets the first one's
\* descriptor.  -EBUSY and a failed allocation change nothing.
Register(d) ==
  /\ ~regDone[d] /\ held[d] = NULL
  /\ IF clientDesc # NULL
       THEN UNCHANGED <<clientDesc, live, descs>>
       ELSE /\ descs < MaxDescs
            /\ descs' = descs + 1 /\ live' = live \cup {descs + 1} /\ clientDesc' = descs + 1
  /\ regDone' = [regDone EXCEPT ![d] = TRUE]
  /\ held' = [held EXCEPT ![d] = clientDesc']
  /\ CallbackSet(d, TRUE)
  /\ UNCHANGED <<capVars, call, thread, rmVars>>

\* gh_dbl_tx_unregister, gh_dbl_rx_unregister: the last one out frees the
\* descriptor.  A client has no call of its own under way meanwhile.
LastOutAlways(d) == TRUE
LastOut(d) == ~regDone[Other(d)]
Unregister(d) ==
  /\ held[d] # NULL /\ call[d] = "idle"
  /\ clientDesc = held[d]
  /\ clientDesc' = IF LastOut(d) THEN NULL ELSE clientDesc
  /\ live' = IF LastOut(d) THEN live \ {clientDesc} ELSE live
  /\ regDone' = [regDone EXCEPT ![d] = FALSE]
  /\ held' = [held EXCEPT ![d] = NULL]
  /\ CallbackSet(d, FALSE)
  /\ UNCHANGED <<descs, capVars, call, thread, rmVars>>

CallTo(d, from, to) ==
  call[d] = from /\ call' = [call EXCEPT ![d] = to] /\ UNCHANGED <<entryVars, capVars, thread, rmVars>>

\* gh_dbl_validate_params under the lock; a GH_DBL_NONBLOCK call goes on to the
\* wait only when the capability is set.
Validate(d) ==
  /\ held[d] # NULL /\ clientDesc = held[d] /\ regDone[d]
  /\ CallTo(d, "idle", "test")

\* wait_event_interruptible after the unlock: test, sleep, or end on a signal.
WaitTest(d)   == CallTo(d, "test", IF capSet[d] THEN "hcall" ELSE "sleep")
WaitSignal(d) == CallTo(d, "sleep", "idle")

\* The hypercall with whatever the entry has for a capability id by now.
Hcall(d) == CallTo(d, "hcall", "idle")

-----------------------------------------------------------------------------
(* gh_dbl_rx_callback_thread                                               *)

\* The peer rings the doorbell; rx_callback is tested, then called.
ThreadCheck ==
  /\ handler /\ thread = "idle" /\ rxCallback
  /\ thread' = "checked"
  /\ UNCHANGED <<entryVars, capVars, call, rmVars>>
ThreadCall ==
  /\ thread = "checked" /\ thread' = "idle"
  /\ UNCHANGED <<entryVars, capVars, call, rmVars>>

-----------------------------------------------------------------------------
(* The Resource Manager driver                                             *)

RmTo(from, to) == rm = from /\ rm' = to
RmOnly == UNCHANGED <<entryVars, thread, fails>>

\* "kept": an earlier population is still in place.
Populate ==
  /\ rm \in {"off", "kept"} /\ rm' = "tx" /\ loads < MaxLoads /\ loads' = loads + 1
  /\ RmOnly /\ UNCHANGED <<capVars, call>>

\* gh_dbl_populate_cap_info, Tx: store and wake up.
PopulateTx ==
  /\ RmTo("tx", "txwake") /\ capSet' = [capSet EXCEPT !["TX"] = TRUE]
  /\ RmOnly /\ UNCHANGED <<rxIrq, handler, call, loads>>

\* wake_up_interruptible(&cap_wq): both directions share the queue.
WokenNone == call
Woken == [d \in Dirs |-> IF call[d] = "sleep" THEN "test" ELSE call[d]]
Wake(from, to) ==
  /\ RmTo(from, to) /\ call' = Woken
  /\ RmOnly /\ UNCHANGED <<capVars, loads>>
PopulateTxWake == Wake("txwake", "rxirq")

\* Rx: rx_irq is stored before request_threaded_irq is known to succeed, which it
\* does not with a handler installed.  A VM whose resources could not be populated
\* is destroyed.
PopulateRxIrq ==
  /\ RmTo("rxirq", "rxcap") /\ ~handler /\ rxIrq' = TRUE /\ handler' = TRUE
  /\ RmOnly /\ UNCHANGED <<capSet, call, loads>>
PopulateRxIrqFails ==
  /\ RmTo("rxirq", "untx")
  /\ IF handler THEN UNCHANGED fails ELSE fails < MaxFails /\ fails' = fails + 1
  /\ rxIrq' = TRUE
  /\ UNCHANGED <<entryVars, thread, capSet, handler, call, loads>>
PopulateRxCap ==
  /\ RmTo("rxcap", "rxwake") /\ capSet' = [capSet EXCEPT !["RX"] = TRUE]
  /\ RmOnly /\ UNCHANGED <<rxIrq, handler, call, loads>>
PopulateRxWake == Wake("rxwake", "on")

\* The loop over the VM's resources ends early: another resource of the VM failed,
\* or the Rx doorbell has no interrupt (-ENXIO before anything is stored).
PopulateStops ==
  /\ rm \in {"tx", "rxirq"} /\ rm' = "untx"
  /\ RmOnly /\ UNCHANGED <<capVars, call, loads>>

Unpopulate ==
  /\ RmTo("on", "untx")
  /\ RmOnly /\ UNCHANGED <<capVars, call, loads>>

\* gh_dbl_reset_cap_info.
ResetTx ==
  /\ RmTo("untx", "unrx") /\ capSet' = [capSet EXCEPT !["TX"] = FALSE]
  /\ RmOnly /\ UNCHANGED <<rxIrq, handler, call, loads>>
\* *irq is read before rx_irq is cleared.
ResetIrqCleared == FALSE
ResetIrq == rxIrq
ResetRx ==
  /\ rxIrq /\ RmTo("unrx", IF ResetIrq THEN "free" ELSE "off")
  /\ capSet' = [capSet EXCEPT !["RX"] = FALSE] /\ rxIrq' = FALSE
  /\ RmOnly /\ UNCHANGED <<handler, call, loads>>
\* free_irq waits for the handler thread.
ResetFree ==
  /\ RmTo("free", "off") /\ thread = "idle" /\ handler' = FALSE
  /\ RmOnly /\ UNCHANGED <<capSet, rxIrq, call, loads>>

\* The reset loop ends early: without rx_irq, -ENXIO and no change; or an earlier
\* resource of the VM could not be reset, and this one's reset is never called.
ResetStops ==
  /\ rm \in {"untx", "unrx"} /\ rm' = (IF rxIrq THEN "kept" ELSE "off")
  /\ RmOnly /\ UNCHANGED <<capVars, call, loads>>

-----------------------------------------------------------------------------
PopulateNext == PopulateTx \/ PopulateTxWake \/ PopulateRxIrq \/ PopulateRxIrqFails
                  \/ PopulateRxCap \/ PopulateRxWake \/ PopulateStops
ResetNext == ResetTx \/ ResetRx \/ ResetFree \/ ResetStops
ClientNext(d) == Register(d) \/ Unregister(d) \/ Validate(d) \/ WaitTest(d) \/ WaitSignal(d) \/ Hcall(d)

Next ==
  \/ \E d \in Dirs : ClientNext(d)
  \/ ThreadCheck \/ ThreadCall
  \/ Populate \/ Unpopulate \/ PopulateNext \/ ResetNext

Spec == Init /\ [][Next]_vars

\* A started (un)population goes on, and so do threads that are not asleep.
FairSpec ==
  /\ Spec
  /\ WF_vars(PopulateNext) /\ WF_vars(ResetNext) /\ WF_vars(ThreadCall)
  /\ \A d \in Dirs : WF_vars(WaitTest(d)) /\ WF_vars(Hcall(d))

-----------------------------------------------------------------------------
(* Properties                                                              *)

\* The two clients of a label share one descriptor, and neither's unregister
\* frees it under the other; when both are gone none is left allocated.
DescOwned ==
  /\ \A d \in Dirs : held[d] # NULL => held[d] = clientDesc /\ held[d] \in live /\ regDone[d]
  /\ live \subseteq {clientDesc} /\ ((\A d \in Dirs : held[d] = NULL) => live = {})

\* Once gh_dbl_reset_cap_info has returned no handler is installed, so that no
\* callback runs for the VM that is gone and the interrupt may be released; also
\* after a load whose request_threaded_irq failed.  A reset loop that ended before
\* it came to the doorbell ("kept") has not called it.
NoHandlerAfterReset == rm = "off" => ~handler /\ thread = "idle"

\* A call that waits for the capability gets on once the label stays populated,
\* for either direction: setting the id and the wake-up leave no gap.
CallerGetsCap == \A d \in Dirs : <>[](capSet[d]) => []<>(call[d] # "sleep")
=============================================================================
