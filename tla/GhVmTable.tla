------------------------------ MODULE GhVmTable ------------------------------
(***************************************************************************)
(* gh_vm_table of gh_rm_iface.c: which vmid has the VM of a given name.    *)
(* In the primary VM a loader allocates a vmid from the Resource Manager   *)
(* and stores it, and deallocates it before it clears the row.  In a       *)
(* secondary VM the rows are filled from the identification the Resource   *)
(* Manager gives, for peers found at probe and on READY notifications      *)
(* (gh_rm_core.c).  The Resource Manager hands out any free vmid.          *)
(***************************************************************************)
EXTENDS Integers

CONSTANTS
  NumNames,   \* enum gh_vm_names without GH_SELF_VM: 1..NumNames
  NumVmids,   \* vmids the Resource Manager has
  Vms,        \* VMs that may be loaded; several may go by one name
  MaxStarts,  \* bound on VM loads
  MaxRmFails  \* bound on failing RPCs

ASSUME TableAssumption ==
  NumNames \in Nat \ {0} /\ NumVmids \in Nat /\ MaxStarts \in Nat /\ MaxRmFails \in Nat

Names == 1..NumNames
Vmids == 1..NumVmids
INVAL == 0       \* GH_VMID_INVAL

VARIABLES
  primary,   \* this is the primary VM
  coreInit,  \* gh_rm_core_initialized
  row,       \* [Names -> vmid]: gh_vm_table[].vmid
  info,      \* [Names -> BOOLEAN]: guid, uri, name or sign_auth is set
  nameOf,    \* [Vms -> the name the VM goes by]
  vmid,      \* [Vms -> its vmid, INVAL if the Resource Manager knows none]
  pc,        \* [Vms -> where its loading or unloading is]
  probe,     \* the next name gh_vm_check_peer looks up; NumNames + 1: notifier registered
  ready,     \* vmids with a READY notification under way
  starts, rmFails,
  oldId,     \* [Vms -> the vmid that is gone and that gh_rm_vm_dealloc_vmid has not cleared]
  reused,    \* history: a vmid was given out again while the table still had it
  unlisted   \* history: the VMs that came up without the table learning of them

rowVars == <<row, info>>
vmVars  == <<nameOf, vmid, starts, rmFails, reused>>
svmVars == <<coreInit, probe, ready>>
tableVars == <<primary, rowVars, vmVars, pc, oldId, unlisted, svmVars>>

Held == {vmid[v] : v \in Vms}

\* gh_init_vm_prop_table, gh_vm_probe.
TableInit ==
  /\ primary \in BOOLEAN /\ coreInit = primary
  /\ row = [n \in Names |-> INVAL] /\ info = [n \in Names |-> FALSE]
  /\ nameOf = [v \in Vms |-> 1] /\ vmid = [v \in Vms |-> INVAL]
  /\ pc = [v \in Vms |-> "off"]
  /\ probe = IF primary THEN NumNames + 1 ELSE 1
  /\ ready = {} /\ starts = 0 /\ rmFails = 0 /\ reused = FALSE
  /\ oldId = [v \in Vms |-> INVAL] /\ unlisted = {}

Step(v, from, to) == pc[v] = from /\ pc' = [pc EXCEPT ![v] = to]
\* Nothing of a VM that is gone counts.
Forgets(v) == nameOf' = [nameOf EXCEPT ![v] = 1] /\ unlisted' = unlisted \ {v}
RmFault == rmFails < MaxRmFails /\ rmFails' = rmFails + 1

-----------------------------------------------------------------------------
(* The table                                                               *)

\* gh_update_vm_prop_table: -EEXIST over identification that is there already.
Refused(n) == info[n]
Update(n, id, ident) ==
  IF Refused(n) THEN UNCHANGED rowVars
  ELSE row' = [row EXCEPT ![n] = id] /\ info' = [info EXCEPT ![n] = @ \/ ident]

\* gh_reset_vm_prop_table_entry: the first row that has the vmid.
FirstRow(id) == {n \in Names : row[n] = id /\ \A m \in Names : row[m] = id => n <= m}
ResetForgotten(id) == UNCHANGED rowVars
Reset(id) == /\ row'  = [n \in Names |-> IF n \in FirstRow(id) THEN INVAL ELSE row[n]]
             /\ info' = [n \in Names |-> info[n] /\ n \notin FirstRow(id)]

\* gh_rm_get_vmid: success, with GH_VMID_INVAL, also for a name nobody has.
GetVmid(n) == row[n]
GetVmidFails == ~coreInit

\* gh_rm_get_vm_name: the name of a vmid, or none.
GetName(id) == FirstRow(id)

-----------------------------------------------------------------------------
(* The primary VM                                                          *)

\* gh_rm_vm_alloc_vmid: the check, the RPC and the update, the lock being dropped
\* in between; two loaders of one name may both pass the check.
AllocCheck(v) ==
  /\ primary /\ Step(v, "off", "alloc") /\ starts < MaxStarts /\ starts' = starts + 1
  /\ \E n \in Names :
       LET twins == {w \in Vms : pc[w] # "off" /\ nameOf[w] = n} IN
       /\ row[n] = INVAL /\ nameOf' = [nameOf EXCEPT ![v] = n]
       /\ unlisted' = IF twins = {} THEN unlisted \ {v} ELSE unlisted \cup twins \cup {v}
  /\ UNCHANGED <<primary, rowVars, svmVars, vmid, oldId, rmFails, reused>>

\* A row still has this vmid, or a dealloc has yet to clear it.
StillMeant(id) == (\E n \in Names : row[n] = id) \/ (\E v \in Vms : oldId[v] = id)
AllocRpc(v) ==
  /\ \/ \E id \in Vmids \ Held :
          /\ vmid' = [vmid EXCEPT ![v] = id] /\ reused' = (reused \/ StillMeant(id))
          /\ Step(v, "alloc", "update") /\ UNCHANGED rmFails
          /\ UNCHANGED <<nameOf, unlisted>>
     \/ RmFault /\ Step(v, "alloc", "off") /\ Forgets(v) /\ UNCHANGED <<vmid, reused>>
  /\ UNCHANGED <<primary, rowVars, svmVars, oldId, starts>>
AllocUpdate(v) ==
  /\ Step(v, "update", "up") /\ Update(nameOf[v], vmid[v], FALSE)
  /\ UNCHANGED <<primary, vmVars, svmVars, oldId, unlisted>>

\* gh_rm_vm_dealloc_vmid: the Resource Manager lets the vmid go, then the row is
\* cleared.  A failed RPC leaves the row as it is, and one whose reply has the wrong
\* size does so too, with the vmid gone.
Dealloc(v) ==
  /\ primary
  /\ \/ /\ vmid' = [vmid EXCEPT ![v] = INVAL] /\ oldId' = [oldId EXCEPT ![v] = vmid[v]]
        /\ \/ Step(v, "up", "clear") /\ UNCHANGED rmFails
           \/ Step(v, "up", "stuck") /\ RmFault
     \/ RmFault /\ Step(v, "up", "stuck") /\ UNCHANGED <<vmid, oldId>>
  /\ UNCHANGED <<primary, rowVars, svmVars, nameOf, starts, reused, unlisted>>
DeallocClear(v) ==
  /\ Step(v, "clear", "off") /\ Reset(oldId[v]) /\ oldId' = [oldId EXCEPT ![v] = INVAL]
  /\ Forgets(v) /\ UNCHANGED <<primary, vmid, starts, rmFails, reused, svmVars>>

-----------------------------------------------------------------------------
(* A secondary VM: peers come and go by themselves                         *)

\* The Resource Manager says READY to those who listen.
PeerUp(v) ==
  /\ ~primary /\ Step(v, "off", "up") /\ starts < MaxStarts /\ starts' = starts + 1
  /\ \E n \in Names, id \in Vmids \ Held :
       /\ \A w \in Vms : pc[w] = "up" => nameOf[w] # n
       /\ nameOf' = [nameOf EXCEPT ![v] = n] /\ vmid' = [vmid EXCEPT ![v] = id]
       /\ reused' = (reused \/ StillMeant(id))
       /\ IF probe > NumNames
            THEN ready' = ready \cup {id} /\ unlisted' = unlisted \ {v}
            ELSE unlisted' = unlisted \cup {v} /\ UNCHANGED ready
  /\ UNCHANGED <<primary, rowVars, coreInit, probe, oldId, rmFails>>
\* Nothing tells the table: the handler knows READY and RUNNING only.
PeerDown(v) ==
  /\ ~primary /\ Step(v, "up", "off") /\ vmid' = [vmid EXCEPT ![v] = INVAL] /\ Forgets(v)
  /\ UNCHANGED <<primary, rowVars, svmVars, oldId, starts, rmFails, reused>>

\* gh_rm_vm_get_id and gh_rm_vm_lookup: the VM the Resource Manager knows by a vmid,
\* and the one it knows by a name, uri or guid.
GetId(id) == {v \in Vms : vmid[v] = id}
Lookup(n) == {v \in Vms : pc[v] = "up" /\ nameOf[v] = n}

\* gh_rm_get_vm_id_info: GET_ID, then the update under the name it gave.
Identify(id) ==
  LET who == GetId(id) IN
  \/ /\ \A v \in who : Update(nameOf[v], id, TRUE)
     /\ who = {} => UNCHANGED rowVars
     /\ unlisted' = {v \in unlisted : v \notin who} \cup {v \in who : Refused(nameOf[v])}
     /\ UNCHANGED rmFails
  \/ who # {} /\ RmFault /\ unlisted' = unlisted \cup who /\ UNCHANGED rowVars

\* gh_vm_check_peer, one name after the other; then the notifier is registered
\* and gh_rm_core_initialized set.
CheckPeer ==
  /\ probe <= NumNames /\ probe' = probe + 1
  /\ \/ \E v \in Lookup(probe) : Identify(vmid[v])
     \/ Lookup(probe) = {} /\ UNCHANGED <<rowVars, rmFails, unlisted>>
  /\ coreInit' = (probe = NumNames)
  /\ UNCHANGED <<primary, pc, oldId, ready, nameOf, vmid, starts, reused>>

\* gh_vm_status_nb_handler on READY.  (What it populates is GhResources'.)
Ready ==
  /\ \E id \in ready : ready' = ready \ {id} /\ Identify(id)
  /\ UNCHANGED <<primary, pc, oldId, coreInit, probe, nameOf, vmid, starts, reused>>

TableNext ==
  \/ \E v \in Vms : AllocCheck(v) \/ AllocRpc(v) \/ AllocUpdate(v) \/ Dealloc(v)
                    \/ DeallocClear(v) \/ PeerUp(v) \/ PeerDown(v)
  \/ CheckPeer \/ Ready
=============================================================================
