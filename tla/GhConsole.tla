------------------------------ MODULE GhConsole ------------------------------
(***************************************************************************)
(* The hypervisor console (hvc_gunyah.c) of the VM named Con, over         *)
(* gh_vm_table.  Output goes through put_fifo and a work item that sends   *)
(* it to the Resource Manager chunk by chunk; flush and close take the     *)
(* work item over.  Input comes as notifications and is sorted into the    *)
(* get_fifo of the sender's name.  An output character is its number.      *)
(***************************************************************************)
EXTENDS GhVmTable, Sequences, SequencesExt

CONSTANTS
  PutCap, GetCap,  \* sizes of the fifos
  Chunk,           \* GH_HVC_WRITE_MSG_SIZE
  MaxPut, MaxGet,  \* bounds on output and input characters
  MaxFlush,        \* bound on calls of flush and notifier_del
  MaxOps           \* bound on all of these and the VM loads together

ASSUME ConsoleAssumption == Chunk \in Nat \ {0} /\ PutCap \in Nat /\ GetCap \in Nat

Con == 1
Runners == {"work", "flush"}   \* who executes gh_hvc_put_work_fn

VARIABLES
  put,       \* put_fifo
  accepted,  \* characters put_chars took
  pending,   \* put_work is queued
  at,        \* [Runners -> "idle", "out", "write"]
  to,        \* [Runners -> the vmid looked up]
  buf,       \* [Runners -> the chunk]
  fl,        \* the flush or close under way
  calls,
  opened,    \* VMs whose console the Resource Manager has opened for us (external)
  incoming,  \* the CONSOLE_CHARS notification under way (external)
  get,       \* [Names -> get_fifo]: the names the characters came from
  sent,
  written,   \* history: [char, name] as the Resource Manager took them
  lost,      \* history: characters dropped by a failed write
  stranded,  \* history: characters were left without a work item that will send them
  overlap,   \* history: both runners were in gh_hvc_put_work_fn at once
  astray     \* history: a vmid was given out again while the console still meant it

outVars  == <<put, accepted, pending, at, to, buf, written, lost, stranded, overlap>>
inVars   == <<incoming, get, sent>>
consoleVars == <<outVars, inVars, fl, calls, opened, astray>>
hvcVars == <<tableVars, consoleVars>>

Spare == starts + accepted + calls + sent < MaxOps

NoFlush == [op |-> "none", pc |-> "idle", vmid |-> INVAL, took |-> FALSE, upto |-> 0]

HvcInit ==
  /\ TableInit
  /\ put = <<>> /\ accepted = 0 /\ pending = FALSE
  /\ at = [r \in Runners |-> "idle"] /\ to = [r \in Runners |-> INVAL]
  /\ buf = [r \in Runners |-> <<>>]
  /\ fl = NoFlush /\ calls = 0 /\ opened = {}
  /\ incoming = {} /\ get = [n \in Names |-> <<>>] /\ sent = 0
  /\ written = <<>> /\ lost = {} /\ stranded = FALSE /\ overlap = FALSE /\ astray = FALSE

-----------------------------------------------------------------------------
(* Output                                                                  *)

\* cancel_work_sync holds the PENDING bit until the running work is over, so
\* schedule_work does nothing meanwhile (workqueue, external).
Cancelling == fl.pc = "wait"
Scheduled == pending \/ ~Cancelling

\* gh_hvc_put_chars: what fits; nothing is scheduled when nothing does.
PutChars(count) ==
  LET n == IF count <= PutCap - Len(put) THEN count ELSE PutCap - Len(put) IN
  /\ accepted < MaxPut /\ Spare
  /\ put' = put \o [i \in 1..n |-> accepted + i] /\ accepted' = accepted + n
  /\ IF n > 0
       THEN /\ pending' = Scheduled
            /\ stranded' = (Cancelling /\ ~fl.took)
       ELSE UNCHANGED <<pending, stranded>>
  /\ UNCHANGED <<tableVars, at, to, buf, written, lost, overlap, inVars, fl, calls, opened,
                 astray>>

\* gh_hvc_put_work_fn begins: the vmid is looked up once.
Begin(r) ==
  /\ at[r] = "idle"
  /\ IF GetVmidFails
       THEN stranded' = (stranded \/ put # <<>>) /\ UNCHANGED <<at, to>>
       ELSE at' = [at EXCEPT ![r] = "out"] /\ to' = [to EXCEPT ![r] = GetVmid(Con)]
            /\ UNCHANGED stranded
  /\ overlap' = (overlap \/ \E q \in Runners \ {r} : at[q] # "idle")

WorkBegins ==
  /\ pending /\ pending' = FALSE /\ Begin("work")
  /\ UNCHANGED <<tableVars, put, accepted, buf, written, lost, inVars, fl, calls, opened, astray>>

\* The loop: take a chunk, or end.
TakeChunk(r) ==
  /\ at[r] = "out"
  /\ IF put = <<>>
       THEN /\ at' = [at EXCEPT ![r] = "idle"] /\ to' = [to EXCEPT ![r] = INVAL]
            /\ UNCHANGED <<put, buf>>
       ELSE LET n == IF Len(put) < Chunk THEN Len(put) ELSE Chunk IN
            /\ buf' = [buf EXCEPT ![r] = SubSeq(put, 1, n)]
            /\ put' = SubSeq(put, n + 1, Len(put))
            /\ at' = [at EXCEPT ![r] = "write"] /\ UNCHANGED to
  /\ UNCHANGED <<tableVars, accepted, pending, written, lost, stranded, overlap, inVars, fl,
                 calls, opened, astray>>

\* gh_rm_console_write: the VM that has the vmid now gets the chunk.
WriteDone(r) ==
  /\ at[r] = "write"
  /\ \E v \in Vms : /\ vmid[v] = to[r] /\ to[r] # INVAL
                    /\ written' = written \o [i \in 1..Len(buf[r]) |-> [char |-> buf[r][i], name |-> nameOf[v]]]
  /\ at' = [at EXCEPT ![r] = "out"] /\ buf' = [buf EXCEPT ![r] = <<>>]
  /\ UNCHANGED <<tableVars, put, accepted, pending, to, lost, stranded, overlap, inVars, fl,
                 calls, opened, astray>>
\* It fails: the chunk is gone and the loop left.
WriteFails(r) ==
  /\ at[r] = "write"
  /\ \/ RmFault
     \/ (\A v \in Vms : vmid[v] # to[r] \/ to[r] = INVAL) /\ UNCHANGED rmFails
  /\ lost' = lost \cup ToSet(buf[r]) /\ buf' = [buf EXCEPT ![r] = <<>>]
  /\ at' = [at EXCEPT ![r] = "idle"] /\ to' = [to EXCEPT ![r] = INVAL]
  /\ stranded' = (stranded \/ (put # <<>> /\ ~pending))
  /\ UNCHANGED <<primary, rowVars, nameOf, vmid, starts, reused, pc, oldId, unlisted, svmVars,
                 put, accepted, pending, written, overlap, inVars, fl, calls, opened, astray>>

-----------------------------------------------------------------------------
(* Flush and close take the work item over                                 *)

\* gh_hvc_flush(wait = TRUE) looks the vmid up first, gh_hvc_notify_del last.
Flush ==
  /\ fl.pc = "idle" /\ calls < MaxFlush /\ Spare /\ calls' = calls + 1 /\ ~GetVmidFails
  /\ fl' = [NoFlush EXCEPT !.op = "flush", !.pc = "cancel", !.vmid = GetVmid(Con), !.upto = accepted]
  /\ UNCHANGED <<tableVars, outVars, inVars, opened, astray>>
NotifyDel ==
  /\ fl.pc = "idle" /\ calls < MaxFlush /\ Spare /\ calls' = calls + 1
  /\ fl' = [NoFlush EXCEPT !.op = "del", !.pc = "cancel", !.upto = accepted]
  /\ UNCHANGED <<tableVars, outVars, inVars, opened, astray>>

\* cancel_work_sync: take the pending bit, wait for a running work.
CancelWork ==
  /\ fl.pc = "cancel" /\ fl' = [fl EXCEPT !.pc = "wait", !.took = pending] /\ pending' = FALSE
  /\ UNCHANGED <<tableVars, put, accepted, at, to, buf, written, lost, stranded, overlap, inVars,
                 calls, opened, astray>>
CancelNoSync == TRUE
CancelSync == at["work"] = "idle"
\* Only if it was pending is gh_hvc_put_work_fn called.
DrainsNever == FALSE
Drains == fl.took
CancelDone ==
  /\ Cancelling /\ CancelSync
  /\ IF Drains
       THEN /\ Begin("flush")
            /\ fl' = [fl EXCEPT !.pc = IF GetVmidFails THEN "rpc" ELSE "fn"]
       ELSE fl' = [fl EXCEPT !.pc = "rpc"] /\ UNCHANGED <<at, to, stranded, overlap>>
  /\ UNCHANGED <<tableVars, put, accepted, pending, buf, written, lost, inVars, calls, opened, astray>>
FlushFnDone ==
  /\ fl.pc = "fn" /\ at["flush"] = "idle" /\ fl' = [fl EXCEPT !.pc = "rpc"]
  /\ UNCHANGED <<tableVars, outVars, inVars, calls, opened, astray>>

\* gh_rm_console_open and gh_rm_console_close, of the VM that has the vmid.
ConsoleOpen(id) == opened' = opened \cup {v \in Vms : vmid[v] = id /\ id # INVAL}
ConsoleShut(id) == opened' = {v \in opened : vmid[v] # id}

\* gh_rm_console_flush and the return.
ConsoleFlush ==
  /\ fl.op = "flush" /\ fl.pc = "rpc" /\ fl' = NoFlush
  /\ UNCHANGED <<tableVars, outVars, inVars, calls, opened, astray>>
\* The end of gh_hvc_notify_del: unless the look-up fails, the console is closed and
\* get_fifo reset.
ConsoleClose ==
  /\ fl.op = "del" /\ fl.pc = "rpc" /\ fl' = NoFlush
  /\ IF GetVmidFails THEN UNCHANGED <<get, opened>>
     ELSE get' = [get EXCEPT ![Con] = <<>>] /\ ConsoleShut(GetVmid(Con))
  /\ UNCHANGED <<tableVars, outVars, incoming, sent, calls, astray>>

\* gh_hvc_notify_add, for the VM of this name.
NotifyAdd ==
  /\ ~GetVmidFails /\ ConsoleOpen(GetVmid(Con)) /\ opened' # opened
  /\ UNCHANGED <<tableVars, outVars, inVars, fl, calls, astray>>

-----------------------------------------------------------------------------
(* Input                                                                   *)

\* The Resource Manager passes a character of an opened VM on (external).
CharsFrom(v) ==
  /\ v \in opened /\ incoming = {} /\ sent < MaxGet /\ Spare /\ sent' = sent + 1
  /\ incoming' = {[vmid |-> vmid[v], name |-> nameOf[v]]}
  /\ UNCHANGED <<tableVars, outVars, get, fl, calls, opened, astray>>

\* gh_hvc_notify_console_chars: dropped if the vmid is unknown or the fifo full.
NotifyConsoleChars ==
  /\ \E msg \in incoming :
       get' = [n \in Names |-> IF n \in GetName(msg.vmid) /\ Len(get[n]) < GetCap
                               THEN Append(get[n], msg.name) ELSE get[n]]
  /\ incoming' = {}
  /\ UNCHANGED <<tableVars, outVars, sent, fl, calls, opened, astray>>

\* gh_hvc_get_chars, called by the hvc core's poll.
GetChars ==
  /\ \E n \in Names : get[n] # <<>> /\ get' = [get EXCEPT ![n] = Tail(@)]
  /\ UNCHANGED <<tableVars, outVars, incoming, sent, fl, calls, opened, astray>>

-----------------------------------------------------------------------------
\* A step of the table; a VM that goes takes its open console with it.
Meant == {to[r] : r \in Runners} \cup {fl.vmid} \cup {m.vmid : m \in incoming}
Table ==
  /\ TableNext /\ (starts' > starts => Spare)
  /\ opened' = {v \in opened : vmid'[v] = vmid[v]}
  /\ astray' = (astray \/ \E v \in Vms : vmid'[v] \in Meant \ (Held \cup {INVAL}))
  /\ UNCHANGED <<outVars, inVars, fl, calls>>

HvcNext ==
  \/ \E count \in 1..2 : PutChars(count)
  \/ WorkBegins
  \/ \E r \in Runners : TakeChunk(r) \/ WriteDone(r) \/ WriteFails(r)
  \/ Flush \/ NotifyDel \/ CancelWork \/ CancelDone \/ FlushFnDone
  \/ ConsoleFlush \/ ConsoleClose \/ NotifyAdd
  \/ \E v \in Vms : CharsFrom(v)
  \/ NotifyConsoleChars \/ GetChars
  \/ Table

HvcSpec == HvcInit /\ [][HvcNext]_hvcVars

\* A queued work item runs, an RPC is answered, cancel_work_sync returns.
HvcFairSpec ==
  /\ HvcSpec
  /\ WF_hvcVars(WorkBegins) /\ WF_hvcVars(CancelWork) /\ WF_hvcVars(CancelDone)
  /\ \A r \in Runners : WF_hvcVars(TakeChunk(r)) /\ WF_hvcVars(WriteDone(r) \/ WriteFails(r))

-----------------------------------------------------------------------------
(* Properties                                                              *)

\* Output is neither duplicated nor lost on the way, and it keeps its order unless
\* the work item and a flush sent at the same time; and when CONSOLE_FLUSH or
\* CONSOLE_CLOSE is sent, all that was put before the call has left, unless a write
\* failed, something was left without a work item, or more was put meanwhile.
Left == {written[i].char : i \in DOMAIN written} \cup lost
Carried == ToSet(put) \cup UNION {ToSet(buf[r]) : r \in Runners}
OutputIntact ==
  /\ Left \cap Carried = {} /\ Left \cup Carried = 1..accepted
  /\ \A i, j \in DOMAIN written : i < j => /\ written[i].char # written[j].char
                                           /\ overlap \/ written[i].char < written[j].char
  /\ fl.pc = "rpc" => \/ 1..fl.upto \subseteq Left
                      \/ lost # {} \/ stranded \/ accepted > fl.upto

\* Characters in put_fifo leave it, unless a write failed, the look-up failed or the
\* schedule was refused because a flush was cancelling, with nothing put since.
OutputLeaves == (put # <<>>) ~> (put = <<>> \/ stranded)

\* A VM that came up is in its row, in the primary VM a row's vmid is of a VM of that
\* name, and output and input go to and come from the VM of the console's name.
\* Excepted are the VMs the table never learnt of and vmids given out again too early.
Listed(v) == pc[v] = "up" /\ v \notin unlisted /\ vmid[v] \notin ready /\ coreInit
TableRoutes ==
  \/ reused \/ astray
  \/ /\ \A v \in Vms : Listed(v) => row[nameOf[v]] = vmid[v]
     /\ \A n \in Names : primary /\ row[n] # INVAL =>
          \E v \in Vms : nameOf[v] = n /\ row[n] \in {vmid[v], oldId[v]}
     /\ \A i \in DOMAIN written : written[i].name = Con
     /\ \A n \in Names : ToSet(get[n]) \subseteq {n}
=============================================================================
