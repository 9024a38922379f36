------------------------------ MODULE GhRmCore ------------------------------
(***************************************************************************)
(* The RPC layer of gh_rm_core.c: gh_rm_call and gh_rm_send_request in any *)
(* number of caller threads, and the single receive task gh_rm_recv_task_fn*)
(* that reassembles the Resource Manager's message series into connections,*)
(* completes the waiting callers and hands notifications to a work queue.  *)
(*                                                                         *)
(* The message queues (GhMsgq) are FIFO channels of bounded depth here.    *)
(* The Resource Manager is external: it answers each complete request once,*)
(* in any order, never interleaves two series, and may cut one short       *)
(* (the case gh_rm_abort_connection is there for).                         *)
(*                                                                         *)
(* A connection identifies the allocation; identifiers are not reused, so  *)
(* a pointer kept across kfree stays visible.  Payload bytes are abstracted*)
(* to <<series, fragment index>>.                                          *)
(***************************************************************************)
EXTENDS Integers, Sequences, FiniteSets

CONSTANTS
  Callers,        \* threads that use gh_rm_call
  Msgs,           \* message ids
  MaxCalls,       \* bound on gh_rm_call calls
  FaultyCalls,    \* bound on them in behaviours with failures or notifications
  NumSeqs,        \* size of the idr's range (U16_MAX in the code)
  MaxFrags,       \* continuation fragments of a series (GH_RM_MAX_NUM_FRAGMENTS)
  Depth,          \* depth of the two message queues
  MaxNotifs,      \* bound on notifications sent by the Resource Manager
  MaxCuts,        \* bound on series the Resource Manager cuts short
  MaxSendFails,   \* bound on gh_rm_send_request failures and interrupted locks
  MaxAllocFails   \* bound on kzalloc failures in the receive task

ASSUME CallersAssumption == IsFiniteSet(Callers)
ASSUME SizesAssumption ==
  MaxCalls \in Nat \ {0} /\ FaultyCalls \in 0..MaxCalls /\ NumSeqs \in Nat \ {0} /\ MaxFrags \in Nat /\ Depth \in Nat \ {0}
ASSUME FaultsAssumption ==
  MaxNotifs \in Nat /\ MaxCuts \in Nat /\ MaxSendFails \in Nat /\ MaxAllocFails \in Nat

CallConns  == 1..MaxCalls
NotifConns == (MaxCalls + 1)..(MaxCalls + MaxNotifs)
Conns == CallConns \cup NotifConns
Seqs  == 0..(NumSeqs - 1)
NONE  == 0             \* a NULL connection pointer, a free idr slot, a free lock
\* -ENOSPC stored in a u16 is 65508, itself a number of the idr's range.
EnospcSeq == NumSeqs - 1

VARIABLES
  conn,       \* [Conns -> record]: struct gh_rm_connection
  idr,        \* [Seqs -> Conns \cup {NONE}]: gh_rm_call_idr
  idrNext,    \* the cyclic cursor of the idr
  sendLock,   \* NONE or the conn of the caller that holds gh_rm_send_lock
  pc,         \* [Callers -> Steps]
  mine,       \* [Callers -> Conns \cup {NONE}]: the local variable connection
  req,        \* [Callers -> record]: fragments of the request, and the next one to send
  result,     \* [Callers -> record]: what the last gh_rm_call returned
  cur,        \* the receive task's local variable connection
  alive,      \* the receive task has not dereferenced an error pointer
  uaf,        \* some step touched a freed connection
  works,      \* scheduled gh_rm_validate_notif works (their connections)
  delivered,  \* payloads passed to the notifier chain
  toRM,       \* the Tx message queue
  fromRM,     \* the Rx message queue
  rmAsm,      \* the request series the Resource Manager is assembling
  rmPend,     \* complete requests it has not answered
  rmOut,      \* fragments of the series it is sending
  answer,     \* history: [CallConns -> what it answered]
  notifs, cuts, sendFails, allocFails   \* bounded counters

callVars == <<idr, idrNext, sendLock, pc, mine, req, result, sendFails>>
recvVars == <<cur, alive, uaf, allocFails>>
workVars == <<works, delivered>>
rmVars   == <<rmAsm, rmPend, rmOut, answer, notifs, cuts>>
vars == <<conn, callVars, recvVars, workVars, toRM, fromRM, rmVars>>

Steps == {"idle", "idr", "lock", "send", "wait", "reap", "fail"}

Unused == [st |-> "unused", type |-> "none", msg |-> NONE, seq |-> 0, num |-> 0, got |-> 0,
           data |-> << >>, done |-> FALSE, ret |-> "0", err |-> FALSE]
Fresh(type, msg) == [Unused EXCEPT !.st = "live", !.type = type, !.msg = msg]
NoReq == [num |-> 0, i |-> 0]
NoAnswer == [sent |-> FALSE, num |-> 0, err |-> FALSE]
NoResult == [code |-> "none", id |-> NONE, num |-> 0, data |-> << >>]

Released == [Unused EXCEPT !.st = "freed"]   \* after kfree(connection)
Live(c) == conn[c].st = "live"
Freed(c) == conn[c].st = "freed"

\* The complete payload of the series sent for id with n continuations.
Series(id, n) == [i \in 1..(n + 1) |-> <<id, i - 1>>]

TypeOK ==
  /\ \A c \in Conns : /\ conn[c].st \in {"unused", "live", "freed"}
                      /\ conn[c].type \in {"none", "call", "RPLY", "NOTIF"}
                      /\ conn[c].seq \in Seqs
                      /\ conn[c].num \in 0..MaxFrags
                      /\ conn[c].got \in 0..conn[c].num
                      /\ conn[c].done \in BOOLEAN
                      /\ conn[c].ret \in {"0", "EIO"}
  /\ idr \in [Seqs -> Conns \cup {NONE}]
  /\ idrNext \in 0..NumSeqs
  /\ sendLock \in Conns \cup {NONE}
  /\ pc \in [Callers -> Steps]
  /\ mine \in [Callers -> Conns \cup {NONE}]
  /\ cur \in Conns \cup {NONE}
  /\ alive \in BOOLEAN /\ uaf \in BOOLEAN
  /\ works \subseteq Conns
  /\ Len(toRM) \in 0..Depth /\ Len(fromRM) \in 0..Depth

Init ==
  /\ conn = [c \in Conns |-> Unused]
  /\ idr = [s \in Seqs |-> NONE]
  /\ idrNext = NumSeqs - 1      \* earlier calls have brought the cursor to the end of the range
  /\ sendLock = NONE
  /\ pc = [t \in Callers |-> "idle"]
  /\ mine = [t \in Callers |-> NONE]
  /\ req = [t \in Callers |-> NoReq]
  /\ result = [t \in Callers |-> NoResult]
  /\ cur = NONE /\ alive = TRUE /\ uaf = FALSE
  /\ works = {} /\ delivered = {}
  /\ toRM = << >> /\ fromRM = << >>
  /\ rmAsm = << >> /\ rmPend = {} /\ rmOut = << >> /\ answer = [c \in CallConns |-> NoAnswer]
  /\ notifs = 0 /\ cuts = 0 /\ sendFails = 0 /\ allocFails = 0

\* The next allocation of a kind.
Unallocated(S) == {c \in S : conn[c].st = "unused"}
NewConn(S) == CHOOSE c \in Unallocated(S) : \A e \in Unallocated(S) : c <= e

\* The bounds: the third call is for behaviours in which only calls happen.
Calls == Cardinality(CallConns \ Unallocated(CallConns))
Trouble == notifs + cuts + sendFails + allocFails
MayCall == Calls < IF Trouble = 0 THEN MaxCalls ELSE FaultyCalls
MayOccur(count, max) == count < max /\ Calls <= FaultyCalls

-----------------------------------------------------------------------------
(* gh_rm_call                                                              *)

Step(t, from, to) == pc[t] = from /\ pc' = [pc EXCEPT ![t] = to]

\* gh_rm_alloc_connection (its failure only returns -ENOMEM).  The request has n continuation fragments; the
\* caller's payload size fixes n, gh_rm_send_request computes it.
CallAlloc(t) ==
  /\ Step(t, "idle", "idr")
  /\ MayCall
  /\ \E n \in 0..MaxFrags : req' = [req EXCEPT ![t] = [num |-> n, i |-> 0]]
  /\ \E m \in Msgs : conn' = [conn EXCEPT ![NewConn(CallConns)] = Fresh("call", m)]
  /\ mine' = [mine EXCEPT ![t] = NewConn(CallConns)]
  /\ result' = [result EXCEPT ![t] = NoResult]
  /\ UNCHANGED <<idr, idrNext, sendLock, sendFails, recvVars, workVars, toRM, fromRM, rmVars>>

FreeSeqs == {s \in Seqs : idr[s] = NONE}
CyclicSeqUnchecked == idrNext % NumSeqs
\* idr_alloc_cyclic: the first free number from the cursor on, else from 0.
CyclicSeq ==
  LET from == {s \in FreeSeqs : s >= idrNext}
      pool == IF from # {} THEN from ELSE FreeSeqs
  IN CHOOSE s \in pool : \A r \in pool : s <= r

\* Under gh_rm_call_idr_lock.  The return value is stored unchecked: with no
\* free number the connection gets the truncated error code and no idr entry.
CallIdr(t) ==
  /\ Step(t, "idr", "lock")
  /\ IF FreeSeqs # {}
       THEN /\ conn' = [conn EXCEPT ![mine[t]].seq = CyclicSeq]
            /\ idr' = [idr EXCEPT ![CyclicSeq] = mine[t]]
            /\ idrNext' = CyclicSeq + 1
       ELSE /\ conn' = [conn EXCEPT ![mine[t]].seq = EnospcSeq]
            /\ UNCHANGED <<idr, idrNext>>
  /\ UNCHANGED <<sendLock, mine, req, result, sendFails, recvVars, workVars, toRM, fromRM, rmVars>>

\* A signal while taking gh_rm_call_idr_lock: kfree, -ERESTARTSYS.
CallIdrInterrupted(t) ==
  /\ Step(t, "idr", "idle")
  /\ MayOccur(sendFails, MaxSendFails) /\ sendFails' = sendFails + 1
  /\ conn' = [conn EXCEPT ![mine[t]] = Released]
  /\ mine' = [mine EXCEPT ![t] = NONE]
  /\ result' = [result EXCEPT ![t].code = "ERESTARTSYS"]
  /\ UNCHANGED <<idr, idrNext, sendLock, req, recvVars, workVars, toRM, fromRM, rmVars>>

\* gh_rm_send_request takes gh_rm_send_lock for the whole series.
SendLock(t) ==
  /\ Step(t, "lock", "send")
  /\ sendLock = NONE /\ sendLock' = mine[t]
  /\ UNCHANGED <<conn, idr, idrNext, mine, req, result, sendFails, recvVars, workVars, toRM, fromRM, rmVars>>

\* -EPROBE_DEFER, -E2BIG, -ENOMEM, or the lock interrupted: nothing was sent.
SendLockFails(t) ==
  /\ Step(t, "lock", "fail")
  /\ MayOccur(sendFails, MaxSendFails) /\ sendFails' = sendFails + 1
  /\ UNCHANGED <<conn, idr, idrNext, sendLock, mine, req, result, recvVars, workVars, toRM, fromRM, rmVars>>

\* The i-th packet of a request: REQ first, then CONT, all with the same
\* number of continuations, sequence number and message id.
Packet(t) ==
  [type |-> IF req[t].i = 0 THEN "REQ" ELSE "CONT", id |-> mine[t], num |-> req[t].num,
   seq |-> conn[mine[t]].seq, msg |-> conn[mine[t]].msg]

\* One iteration: gh_msgq_send blocks while the queue is full; the lock is
\* dropped after the last fragment.
SendFragment(t) ==
  /\ pc[t] = "send" /\ Len(toRM) < Depth
  /\ toRM' = Append(toRM, Packet(t))
  /\ IF req[t].i = req[t].num
       THEN pc' = [pc EXCEPT ![t] = "wait"] /\ sendLock' = NONE /\ req' = [req EXCEPT ![t] = NoReq]
       ELSE req' = [req EXCEPT ![t].i = @ + 1] /\ UNCHANGED <<pc, sendLock>>
  /\ UNCHANGED <<conn, idr, idrNext, mine, result, sendFails, recvVars, workVars, fromRM, rmVars>>

\* gh_msgq_send fails (a signal, a reset queue): break out, drop the lock.
SendFragmentFails(t) ==
  /\ Step(t, "send", "fail")
  /\ MayOccur(sendFails, MaxSendFails) /\ sendFails' = sendFails + 1
  /\ sendLock' = NONE
  /\ UNCHANGED <<conn, idr, idrNext, mine, req, result, recvVars, workVars, toRM, fromRM, rmVars>>

\* goto out: the connection is freed, its idr entry stays.
FailIdr(t) == idr
CallFail(t) ==
  /\ Step(t, "fail", "idle")
  /\ conn' = [conn EXCEPT ![mine[t]] = Released]
  /\ idr' = FailIdr(t)
  /\ mine' = [mine EXCEPT ![t] = NONE]
  /\ result' = [result EXCEPT ![t].code = "ESEND"]
  /\ UNCHANGED <<idrNext, sendLock, req, sendFails, recvVars, workVars, toRM, fromRM, rmVars>>

\* wait_for_completion, then idr_remove under gh_rm_call_idr_lock.
CallReapNotWaiting(t) ==
  /\ Step(t, "wait", "reap")
  /\ idr' = [idr EXCEPT ![conn[mine[t]].seq] = NONE]
  /\ UNCHANGED <<conn, idrNext, sendLock, mine, req, result, sendFails, recvVars, workVars, toRM, fromRM, rmVars>>
CallReap(t) ==
  /\ Step(t, "wait", "reap")
  /\ conn[mine[t]].done
  /\ idr' = [idr EXCEPT ![conn[mine[t]].seq] = NONE]
  /\ UNCHANGED <<conn, idrNext, sendLock, mine, req, result, sendFails, recvVars, workVars, toRM, fromRM, rmVars>>

\* rm_error first, then ret, then the payload; kfree(connection).
Outcome(c) ==
  IF conn[c].err THEN [NoResult EXCEPT !.code = "RMERR"]
  ELSE IF conn[c].ret = "EIO" THEN [NoResult EXCEPT !.code = "EIO"]
  ELSE [code |-> "payload", id |-> c, num |-> conn[c].num, data |-> conn[c].data]

CallReturn(t) ==
  /\ Step(t, "reap", "idle")
  /\ result' = [result EXCEPT ![t] = Outcome(mine[t])]
  /\ conn' = [conn EXCEPT ![mine[t]] = Released]
  /\ mine' = [mine EXCEPT ![t] = NONE]
  /\ UNCHANGED <<idr, idrNext, sendLock, req, sendFails, recvVars, workVars, toRM, fromRM, rmVars>>

CallerStep(t) ==
  \/ CallAlloc(t) \/ CallIdr(t) \/ CallIdrInterrupted(t) \/ SendLock(t) \/ SendLockFails(t)
  \/ SendFragment(t) \/ SendFragmentFails(t) \/ CallFail(t) \/ CallReap(t) \/ CallReturn(t)

-----------------------------------------------------------------------------
(* gh_rm_recv_task_fn: one action per received message.  Each takes the    *)
(* head of the queue, and ends with gh_rm_complete_connection.             *)

Head1 == fromRM[1]
Received(type) == alive /\ fromRM # << >> /\ Head1.type = type /\ fromRM' = Tail(fromRM)

\* gh_rm_abort_connection of an unfinished series: a reply's caller gets -EIO,
\* a notification is freed.
AbortedSilently(cs) ==
  IF cur = NONE THEN cs
  ELSE IF cs[cur].type = "RPLY" THEN [cs EXCEPT ![cur].done = TRUE]
  ELSE [cs EXCEPT ![cur] = Released]
Aborted(cs) ==
  IF cur = NONE THEN cs
  ELSE IF cs[cur].type = "RPLY" THEN [cs EXCEPT ![cur].ret = "EIO", ![cur].done = TRUE]
  ELSE [cs EXCEPT ![cur] = Released]

\* gh_rm_init_connection_buff with the first packet of a series.
Started(rec, p) == [rec EXCEPT !.type = p.type, !.num = p.num, !.got = 0, !.data = <<p.piece>>]

FinishedLate(rec) == rec.got = rec.num + 1
Finished(rec) == rec.got = rec.num

\* gh_rm_complete_connection: c has its last fragment.  A reply's caller is
\* completed, a notification is scheduled, and the task forgets c.
Complete(c, cs) ==
  IF ~Finished(cs[c])
    THEN conn' = cs /\ cur' = c /\ UNCHANGED <<works, allocFails>>
    ELSE /\ cur' = NONE
         /\ \/ /\ cs[c].type = "RPLY"
               /\ conn' = [cs EXCEPT ![c].done = TRUE]
               /\ UNCHANGED <<works, allocFails>>
            \/ /\ cs[c].type = "NOTIF"
               /\ conn' = cs /\ works' = works \cup {c}
               /\ UNCHANGED allocFails
            \/ /\ cs[c].type = "NOTIF"           \* no memory for the work
               /\ MayOccur(allocFails, MaxAllocFails) /\ allocFails' = allocFails + 1
               /\ conn' = [cs EXCEPT ![c] = Released]
               /\ UNCHANGED works

\* An error pointer reaches gh_rm_complete_connection, which only tests NULL.
ErrorPointer(cs) == alive' = FALSE /\ conn' = cs /\ cur' = NONE /\ UNCHANGED works

\* gh_rm_process_notif.
RecvNotif ==
  /\ Received("NOTIF")
  /\ uaf' = (uaf \/ (cur # NONE /\ Freed(cur)))
  /\ LET cs == Aborted(conn) IN
     \/ /\ LET c == NewConn(NotifConns) IN
             Complete(c, [cs EXCEPT ![c] = Started(Fresh("NOTIF", Head1.msg), Head1)])
        /\ alive' = alive
     \/ /\ MayOccur(allocFails, MaxAllocFails)            \* payload: freed, NULL
        /\ allocFails' = allocFails + 1
        /\ conn' = cs /\ cur' = NONE /\ UNCHANGED <<alive, works>>
     \/ /\ MayOccur(allocFails, MaxAllocFails)            \* connection: ERR_PTR is not NULL
        /\ allocFails' = allocFails + 1
        /\ ErrorPointer(cs)
  /\ UNCHANGED <<callVars, delivered, toRM, rmVars>>

\* connection != NULL, with the packet's seq and msg_id.
Matches(c, p) == c # NONE /\ conn[c].seq = p.seq /\ conn[c].msg = p.msg

\* gh_rm_process_rply: idr_find under gh_rm_call_idr_lock.
RecvRply ==
  /\ Received("RPLY")
  /\ LET cs == Aborted(conn)
         c  == idr[Head1.seq] IN
     /\ uaf' = (uaf \/ (cur # NONE /\ Freed(cur)) \/ (c # NONE /\ Freed(c)))
     /\ \/ /\ Matches(c, Head1)
           /\ Complete(c, [cs EXCEPT ![c] = [Started(@, Head1) EXCEPT !.err = Head1.err]])
           /\ alive' = alive
        \/ /\ ~Matches(c, Head1)
           /\ ErrorPointer(cs) /\ UNCHANGED allocFails
        \/ /\ Matches(c, Head1)                 \* no memory for the payload
           /\ MayOccur(allocFails, MaxAllocFails) /\ allocFails' = allocFails + 1
           /\ ErrorPointer(cs)
  /\ UNCHANGED <<callVars, delivered, toRM, rmVars>>

\* gh_rm_process_cont appends to the current connection; without one, or with
\* another number of fragments, the packet is dropped.
RecvCont ==
  /\ Received("CONT")
  /\ IF cur = NONE
       THEN UNCHANGED <<conn, cur, uaf, works, allocFails>>
       ELSE /\ uaf' = (uaf \/ Freed(cur))
            /\ Complete(cur, IF conn[cur].num # Head1.num THEN conn
                             ELSE [conn EXCEPT ![cur].got = @ + 1,
                                               ![cur].data = Append(@, Head1.piece)])
  /\ UNCHANGED <<callVars, alive, delivered, toRM, rmVars>>

\* gh_rm_validate_notif in a worker: works run concurrently, in no fixed
\* order.  A payload of the wrong size is dropped, else the chain is called.
NotifWork(c) ==
  /\ c \in works
  /\ works' = works \ {c}
  /\ \E valid \in BOOLEAN :
       delivered' = IF valid THEN delivered \cup {[num |-> conn[c].num, data |-> conn[c].data]}
                             ELSE delivered
  /\ conn' = [conn EXCEPT ![c] = Released]
  /\ UNCHANGED <<callVars, recvVars, toRM, fromRM, rmVars>>

-----------------------------------------------------------------------------
(* The Resource Manager (external).                                        *)

\* A REQ starts a request and drops an unfinished one; CONT continues it.
RmRecv ==
  /\ toRM # << >>
  /\ LET p == toRM[1]
         r == IF p.type = "REQ" THEN <<p>>
              ELSE IF rmAsm = << >> THEN << >> ELSE Append(rmAsm, p)
         full == r # << >> /\ Len(r) = p.num + 1
     IN /\ rmAsm' = IF full THEN << >> ELSE r
        /\ rmPend' = IF full THEN rmPend \cup {r[1]} ELSE rmPend
  /\ toRM' = Tail(toRM)
  /\ UNCHANGED <<conn, callVars, recvVars, workVars, fromRM, rmOut, answer, notifs, cuts>>

Packets(type, id, seq, msg, n, err) ==
  [i \in 1..(n + 1) |-> [type |-> IF i = 1 THEN type ELSE "CONT", id |-> id, seq |-> seq,
                         msg |-> msg, num |-> n, err |-> err, piece |-> <<id, i - 1>>]]

\* Answer any pending request, with or without an error code.
RmReply ==
  /\ rmOut = << >>
  /\ \E q \in rmPend, n \in 0..MaxFrags, err \in BOOLEAN :
       /\ rmOut' = Packets("RPLY", q.id, q.seq, q.msg, n, err)
       /\ rmPend' = rmPend \ {q}
       /\ answer' = [answer EXCEPT ![q.id] = [sent |-> TRUE, num |-> n, err |-> err]]
  /\ UNCHANGED <<conn, callVars, recvVars, workVars, toRM, fromRM, rmAsm, notifs, cuts>>

\* Notifications are numbered below zero.
RmNotify ==
  /\ rmOut = << >> /\ MayOccur(notifs, MaxNotifs)
  /\ notifs' = notifs + 1
  /\ \E n \in 0..MaxFrags, m \in Msgs :
       rmOut' = Packets("NOTIF", 0 - notifs', 0, m, n, FALSE)
  /\ UNCHANGED <<conn, callVars, recvVars, workVars, toRM, fromRM, rmAsm, rmPend, answer, cuts>>

RmSend ==
  /\ rmOut # << >> /\ Len(fromRM) < Depth
  /\ fromRM' = Append(fromRM, rmOut[1])
  /\ rmOut' = Tail(rmOut)
  /\ UNCHANGED <<conn, callVars, recvVars, workVars, toRM, rmAsm, rmPend, answer, notifs, cuts>>

\* The rest of a series never comes.
RmCut ==
  /\ rmOut # << >> /\ rmOut[1].type = "CONT" /\ MayOccur(cuts, MaxCuts)
  /\ cuts' = cuts + 1
  /\ rmOut' = << >>
  /\ UNCHANGED <<conn, callVars, recvVars, workVars, toRM, fromRM, rmAsm, rmPend, answer, notifs>>

-----------------------------------------------------------------------------
Next ==
  \/ \E t \in Callers : CallerStep(t)
  \/ RecvNotif \/ RecvRply \/ RecvCont
  \/ \E c \in Conns : NotifWork(c)
  \/ RmRecv \/ RmReply \/ RmNotify \/ RmSend \/ RmCut

Spec == Init /\ [][Next]_vars

\* Threads that can run do; the mutex is handed to every waiter in turn (SF);
\* the receive task runs; the Resource Manager reads, answers and sends.
Fairness ==
  /\ \A t \in Callers : /\ WF_vars(CallIdr(t)) /\ SF_vars(SendLock(t)) /\ WF_vars(SendFragment(t))
                        /\ WF_vars(CallFail(t)) /\ WF_vars(CallReap(t)) /\ WF_vars(CallReturn(t))
  /\ WF_vars(RecvNotif \/ RecvRply \/ RecvCont)
  /\ WF_vars(RmRecv) /\ WF_vars(RmReply) /\ WF_vars(RmSend)
FairSpec == Spec /\ Fairness

-----------------------------------------------------------------------------
(* Properties                                                              *)

\* The state of GhRpc: a request is new until a caller allocates its connection, open
\* until the Resource Manager answers it, and over when the connection is freed.
Stage(c) == IF conn[c].st = "unused" THEN "new" ELSE IF Freed(c) THEN "over"
            ELSE IF answer[c].sent THEN "answered" ELSE "open"
Rpc == INSTANCE GhRpc WITH
  Requests <- CallConns,
  under    <- mine,
  stage    <- [c \in CallConns |-> Stage(c)],
  reply    <- answer,
  got      <- [t \in Callers |-> [code |-> result[t].code, data |-> result[t].data]],
  raised   <- notifs,
  told     <- delivered

\* gh_rm_call and the receive task implement the remote procedure call of GhRpc: a call
\* returns success only with the whole answer to its own request (no other caller's, no
\* series that gh_rm_abort_connection ended), an RM error only if that is the answer, and
\* fails to send only requests that are never answered, not even after the call, when
\* some of the fragments were sent; and the notifier chain is called only with
\* notifications that were sent, complete and unmixed.
RefinesRpc == Rpc!RpcSpec

\* From the idr allocation to the reply, the idr maps a call's sequence number
\* to its own connection, so gh_rm_process_rply wakes the right caller; also
\* after a failed send has left its dead entry in the idr.  And every connection in
\* the idr is still allocated, as long as every request could be sent.
IdrSound ==
  /\ \A t \in Callers : pc[t] \in {"lock", "send", "wait"} => idr[conn[mine[t]].seq] = mine[t]
  /\ sendFails = 0 => \A s \in Seqs : idr[s] # NONE => Live(idr[s])

\* The receive task never follows a pointer to a freed connection, neither its
\* own current one nor one found in the idr.
NoUseAfterFree == ~uaf

\* A call whose request was sent returns: its reply is found, completed and
\* consumed, whatever the other callers do and whichever send fails meanwhile,
\* if the Resource Manager completes its series and the receive task has memory.
CallReturns ==
  \A t \in Callers : pc[t] = "wait" ~> pc[t] = "idle" \/ cuts > 0 \/ allocFails > 0
=============================================================================
