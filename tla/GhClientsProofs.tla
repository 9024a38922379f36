--------------------------- MODULE GhClientsProofs ---------------------------
(***************************************************************************)
(* Proofs about two clients of the Resource Manager: GhIrqLend, for any    *)
(* number of lends and failures, and GhConsole over GhVmTable, for any     *)
(* number of VMs, names and vmids, sizes of fifo and chunk, calls and      *)
(* failures.                                                               *)
(***************************************************************************)
EXTENDS GhIrqLend, GhConsole, SequenceTheorems, TLAPS

-----------------------------------------------------------------------------
(* Interrupt lending: type correctness                                     *)

LEMMA InitType == Init => TypeOK
<1> SUFFICES ASSUME Init PROVE TypeOK
  OBVIOUS
<1>1. 0 \in Handles /\ fails \in 0..MaxFails
  BY LendAssumption DEF Init, Handles
<1>2. early \in BOOLEAN
  BY Zenon DEF Init
<1> QED
  BY <1>1, <1>2 DEF Init, TypeOK

LEMMA LenderStepType ==
  ASSUME TypeOK,
         Lend \/ LendRpc \/ LendRpcFails \/ LendNotify \/ Reclaim \/ ReclaimDone
  PROVE  TypeOK'
<1> USE LendAssumption DEF TypeOK, Handles, borrowVars, rmVars
<1>1. CASE Lend
  BY <1>1 DEF Lend
<1>2. CASE LendRpc
  BY <1>2 DEF LendRpc
<1>3. CASE LendRpcFails
  BY <1>3 DEF LendRpcFails
<1>4. CASE LendNotify
  BY <1>4 DEF LendNotify, Notif
<1>5. CASE Reclaim
  BY <1>5, (early \/ lender # "RELEASED") \in BOOLEAN DEF Reclaim
<1>6. CASE ReclaimDone
  BY <1>6 DEF ReclaimDone
<1> QED
  BY <1>1, <1>2, <1>3, <1>4, <1>5, <1>6

LEMMA BorrowerStepType ==
  ASSUME TypeOK,
         \/ WaitForLend \/ Accept \/ AcceptDone \/ AcceptNotify
         \/ Release \/ ReleaseDone \/ ReleaseNotify
  PROVE  TypeOK'
<1> USE LendAssumption DEF TypeOK, Handles, lendVars, rmVars
<1>1. CASE WaitForLend
  BY <1>1 DEF WaitForLend
<1>2. CASE Accept
  BY <1>2 DEF Accept
<1>3. CASE AcceptDone
  BY <1>3 DEF AcceptDone
<1>4. CASE AcceptNotify
  BY <1>4 DEF AcceptNotify, Notif
<1>5. CASE Release
  BY <1>5 DEF Release
<1>6. CASE ReleaseDone
  BY <1>6 DEF ReleaseDone, AfterRelease
<1>7. CASE ReleaseNotify
  BY <1>7 DEF ReleaseNotify, Notif
<1> QED
  BY <1>1, <1>2, <1>3, <1>4, <1>5, <1>6, <1>7

LEMMA NotifStepType ==
  ASSUME TypeOK, NEW n \in notifs, ReleasedAcceptedNb(n) \/ LentNb(n)
  PROVE  TypeOK'
<1> USE DEF TypeOK, lendVars, borrowVars
<1>0. n.handle \in Handles /\ notifs \ {n} \subseteq [kind : {"LENT", "ACCEPTED", "RELEASED"}, handle : Handles]
  OBVIOUS
<1>1. CASE ReleasedAcceptedNb(n)
  BY <1>0, <1>1 DEF ReleasedAcceptedNb
<1>2. CASE LentNb(n)
  BY <1>0, <1>2 DEF LentNb
<1> QED
  BY <1>1, <1>2

LEMMA TypeStep == TypeOK /\ [Next]_vars => TypeOK'
<1> SUFFICES ASSUME TypeOK, [Next]_vars PROVE TypeOK'
  OBVIOUS
<1>1. CASE UNCHANGED vars
  BY <1>1 DEF vars, lendVars, borrowVars, rmVars, TypeOK
<1>2. CASE Next
  BY <1>2, LenderStepType, BorrowerStepType, NotifStepType DEF Next
<1> QED
  BY <1>1, <1>2

\* Every variable keeps its type: the states each side's entry can be in, and
\* handles within the bound, whatever the interleaving of the two VMs.
THEOREM TypeCorrect == Spec => []TypeOK
  BY InitType, TypeStep, PTL DEF Spec

-----------------------------------------------------------------------------
(* Interrupt lending: exclusive use                                        *)

\* What ties the two entries to the Resource Manager's view: the owner's entry is
\* NONE (or on its way there or away) only while the owner has the interrupt, and
\* the borrower's is ACCEPTED (or on its way) only while it is accepted.  A stale
\* notification during a lend moves the owner's entry, but never back to NONE.
OwnerHasIt    == lender = "NONE" \/ lendCall \in {"lending", "reclaimed"} => owner = "owner"
BorrowerHasIt ==
  borrowCall = "accepting" \/ (borrower = "ACCEPTED" /\ borrowCall # "releasing") => owner = "accepted"
LenderBusy == lendCall \in {"lending", "lent"} => lender # "NONE"
UseInv == OwnerHasIt /\ BorrowerHasIt /\ LenderBusy

LEMMA UseStep == UseInv /\ [Next]_vars => UseInv'
<1> SUFFICES ASSUME UseInv, [Next]_vars PROVE UseInv'
  OBVIOUS
<1> USE DEF UseInv, OwnerHasIt, BorrowerHasIt, LenderBusy, lendVars, borrowVars, rmVars
<1>1. CASE Lend \/ LendRpcFails \/ LendNotify
  BY <1>1 DEF Lend, LendRpcFails, LendNotify
<1>2. CASE LendRpc
  BY <1>2 DEF LendRpc
<1>3. CASE Reclaim \/ ReclaimDone
  BY <1>3 DEF Reclaim, ReclaimDone, MayReclaim, RmReclaims
<1>4. CASE WaitForLend \/ Accept \/ AcceptDone \/ AcceptNotify
  BY <1>4 DEF WaitForLend, Accept, AcceptDone, AcceptNotify
<1>5. CASE Release \/ ReleaseDone \/ ReleaseNotify
  BY <1>5 DEF Release, ReleaseDone, AfterRelease, ReleaseNotify
<1>6. ASSUME NEW n \in notifs, ReleasedAcceptedNb(n) PROVE UseInv'
  BY <1>6 DEF ReleasedAcceptedNb, ReleasedAcceptedListens
<1>7. ASSUME NEW n \in notifs, LentNb(n) PROVE UseInv'
  BY <1>7 DEF LentNb, LentListens
<1>8. CASE UNCHANGED vars
  BY <1>8 DEF vars
<1> QED
  BY <1>1, <1>2, <1>3, <1>4, <1>5, <1>6, <1>7, <1>8 DEF Next

\* The lending protocol of gh_irq_lend.c never lets both VMs take the interrupt
\* for theirs, however RPC returns and notifications interleave.
THEOREM UseIsExclusive == Spec => []ExclusiveUse
<1>1. Init => UseInv
  BY DEF Init, UseInv, OwnerHasIt, BorrowerHasIt, LenderBusy
<1>2. UseInv => ExclusiveUse
  BY DEF UseInv, OwnerHasIt, BorrowerHasIt, ExclusiveUse
<1> QED
  BY <1>1, <1>2, UseStep, PTL DEF Spec
-----------------------------------------------------------------------------
(* Interrupt lending: what the other VM accepted                           *)

\* The lend in progress, for an owner that has not reclaimed early, is in one
\* place at a time: about to be notified, in a LENT notification, in the other
\* VM's entry, in a RELEASED notification, or back.  BorrowerIdle and Quiet say
\* that it is not in the other VM's hands and not on its way.
BorrowerIdle == borrower \in {"NONE", "WAIT_LEND"} /\ borrowCall = "idle"
Quiet == BorrowerIdle /\ \A n \in notifs : n.kind = "ACCEPTED"

LentInTransit ==
  \A n \in notifs : n.kind = "LENT" =>
    /\ n.handle = handle /\ owner = "lent" /\ lendCall = "idle" /\ BorrowerIdle
    /\ \A m \in notifs : m.kind # "RELEASED"
ReleasedInTransit ==
  \A n \in notifs : n.kind = "RELEASED" =>
    n.handle = handle /\ owner = "lent" /\ lendCall = "idle" /\ BorrowerIdle
BackWithOwner ==
  /\ lender \in {"NONE", "RELEASED"} \/ lendCall \in {"lending", "reclaimed"}
       => Quiet /\ lendCall # "lent"
  /\ lendCall = "lending" => lender \notin {"NONE", "RELEASED"}
  /\ lendCall = "lent" => Quiet /\ owner = "lent"
InBorrower ==
  /\ borrower = "LENT" =>
       /\ borrowHandle = handle
       /\ \/ borrowCall = "idle" /\ owner = "lent"
          \/ borrowCall = "accepting" /\ owner = "accepted"
  /\ borrowCall = "accepting" => borrower = "LENT"
  /\ borrower = "ACCEPTED" =>
       /\ borrowHandle = handle
       /\ \/ borrowCall \in {"idle", "accepted"} /\ owner = "accepted"
          \/ borrowCall = "releasing" /\ owner = "lent"
  /\ borrowCall \in {"releasing", "accepted"} => borrower = "ACCEPTED"
  /\ borrowCall = "released" => borrower = "WAIT_LEND" /\ borrowHandle = handle /\ owner = "lent"
OnePlace == LentInTransit /\ ReleasedInTransit /\ BackWithOwner /\ InBorrower
PlaceInv == lendHandle = handle /\ (~early => OnePlace)

LEMMA LenderStepPlace ==
  ASSUME TypeOK, UseInv, PlaceInv,
         Lend \/ LendRpc \/ LendRpcFails \/ LendNotify \/ Reclaim \/ ReclaimDone
  PROVE  PlaceInv'
<1> USE DEF PlaceInv, OnePlace, LentInTransit, ReleasedInTransit, BackWithOwner, InBorrower,
            Quiet, BorrowerIdle, lendVars, borrowVars, rmVars
<1>1. CASE Lend
  BY <1>1 DEF Lend
<1>2. CASE LendRpc
  BY <1>2 DEF LendRpc
<1>3. CASE LendRpcFails
  BY <1>3 DEF LendRpcFails
<1>4. CASE LendNotify
  BY <1>4 DEF LendNotify, Notif
<1>5. CASE Reclaim
  <2>1. early' <=> early \/ lender # "RELEASED"
    BY <1>5, Zenon DEF Reclaim
  <2> QED
    BY <1>5, <2>1 DEF Reclaim, MayReclaim, RmReclaims
<1>6. CASE ReclaimDone
  BY <1>6 DEF ReclaimDone
<1> QED
  BY <1>1, <1>2, <1>3, <1>4, <1>5, <1>6

LEMMA BorrowerStepPlace ==
  ASSUME TypeOK, UseInv, PlaceInv,
         \/ WaitForLend \/ Accept \/ AcceptDone \/ AcceptNotify
         \/ Release \/ ReleaseDone \/ ReleaseNotify
  PROVE  PlaceInv'
<1> USE DEF PlaceInv, OnePlace, LentInTransit, ReleasedInTransit, BackWithOwner, InBorrower,
            Quiet, BorrowerIdle, lendVars, borrowVars, rmVars
<1>1. CASE WaitForLend
  BY <1>1 DEF WaitForLend
<1>2. CASE Accept
  BY <1>2 DEF Accept
<1>3. CASE AcceptDone
  BY <1>3 DEF AcceptDone
<1>4. CASE AcceptNotify
  BY <1>4 DEF AcceptNotify, Notif
<1>5. CASE Release
  BY <1>5 DEF Release
<1>6. CASE ReleaseDone
  BY <1>6 DEF ReleaseDone, AfterRelease
<1>7. CASE ReleaseNotify
  BY <1>7 DEF ReleaseNotify, Notif, TypeOK
<1> QED
  BY <1>1, <1>2, <1>3, <1>4, <1>5, <1>6, <1>7

LEMMA NotifStepPlace ==
  ASSUME TypeOK, PlaceInv, NEW n \in notifs, ReleasedAcceptedNb(n) \/ LentNb(n)
  PROVE  PlaceInv'
<1> USE DEF PlaceInv, OnePlace, LentInTransit, ReleasedInTransit, BackWithOwner, InBorrower,
            Quiet, BorrowerIdle, lendVars, borrowVars
<1>0. \A m \in notifs : m.kind = n.kind /\ m.handle = n.handle => m = n
  BY DEF TypeOK
<1>k. \A m \in notifs : m.kind \in {"LENT", "ACCEPTED", "RELEASED"}
  BY DEF TypeOK
<1>1. CASE ReleasedAcceptedNb(n)
  BY <1>0, <1>1, <1>k DEF ReleasedAcceptedNb, ReleasedAcceptedListens
<1>2. CASE LentNb(n)
  BY <1>0, <1>2, <1>k DEF LentNb, LentListens
<1> QED
  BY <1>1, <1>2

\* What the other VM's entry calls ACCEPTED is the lend the Resource Manager has
\* as accepted, so that gh_irq_release releases the right handle, for an owner
\* that reclaims after on_release.
THEOREM AcceptedMatches == Spec => []AcceptedIsMine
<1> DEFINE Inv == TypeOK /\ UseInv /\ PlaceInv
<1>1. Init => Inv
  BY InitType DEF Init, UseInv, OwnerHasIt, BorrowerHasIt, LenderBusy, PlaceInv, OnePlace,
     LentInTransit, ReleasedInTransit, BackWithOwner, InBorrower, Quiet, BorrowerIdle
<1>2. Inv /\ [Next]_vars => Inv'
  <2> SUFFICES ASSUME Inv, [Next]_vars PROVE PlaceInv'
    BY UseStep, TypeStep
  <2>1. CASE UNCHANGED vars
    BY <2>1 DEF vars, lendVars, borrowVars, rmVars, PlaceInv, OnePlace,
       LentInTransit, ReleasedInTransit, BackWithOwner, InBorrower, Quiet, BorrowerIdle
  <2>2. CASE Next
    BY <2>2, LenderStepPlace, BorrowerStepPlace, NotifStepPlace DEF Next
  <2> QED
    BY <2>1, <2>2
<1>3. Inv => AcceptedIsMine
  BY DEF TypeOK, PlaceInv, OnePlace, InBorrower, AcceptedIsMine
<1> QED
  BY <1>1, <1>2, <1>3, PTL DEF Spec

-----------------------------------------------------------------------------
(* The VM table: its inductive invariant                                   *)

TableType ==
  /\ primary \in BOOLEAN /\ coreInit \in BOOLEAN
  /\ row \in [Names -> 0..NumVmids] /\ info \in [Names -> BOOLEAN]
  /\ nameOf \in [Vms -> Names] /\ vmid \in [Vms -> 0..NumVmids] /\ oldId \in [Vms -> 0..NumVmids]
  /\ pc \in [Vms -> {"off", "alloc", "update", "up", "clear", "stuck"}]
  /\ probe \in 1..(NumNames + 1) /\ ready \subseteq Vmids /\ unlisted \subseteq Vms

\* The vmid a VM has, and the one its dealloc has not cleared, by where it is; the
\* Resource Manager gives no vmid to two VMs.
Ids ==
  /\ \A v \in Vms : /\ pc[v] \in {"update", "up"} => vmid[v] # INVAL
                    /\ vmid[v] # INVAL => pc[v] \in {"update", "up", "stuck"}
  /\ \A v \in Vms : /\ pc[v] = "clear" => oldId[v] # INVAL
                    /\ oldId[v] # INVAL => pc[v] \in {"clear", "stuck"}
  /\ \A v, w \in Vms : vmid[v] = vmid[w] /\ vmid[v] # INVAL => v = w

\* What only one of the two kinds of VM does.  Two VMs loaded by one name both passed
\* the check of gh_rm_vm_alloc_vmid.
Sides ==
  /\ primary => coreInit /\ probe = NumNames + 1 /\ ready = {} /\ \A n \in Names : ~info[n]
  /\ primary => \A v, w \in Vms :
       v # w /\ pc[v] # "off" /\ pc[w] # "off" /\ nameOf[v] = nameOf[w] => v \in unlisted
  /\ ~primary => \A v \in Vms : pc[v] \in {"off", "up"}
  /\ ~primary => \A v, w \in Vms : pc[v] = "up" /\ pc[w] = "up" /\ nameOf[v] = nameOf[w] => v = w

\* While no vmid is given out again too early: a vmid is one VM's, a row that has it is
\* the row of that VM's name and the only one, in the primary VM a row's vmid is some
\* VM's, and a VM that is up is in its row once the table has learnt of it.
Has(v, id) == id # INVAL /\ (vmid[v] = id \/ oldId[v] = id)
Apart    == \A v, w \in Vms : \A id \in Vmids : Has(v, id) /\ Has(w, id) => v = w
Single   == \A n, m \in Names : row[n] = row[m] /\ row[n] # INVAL => n = m
Named    == \A n \in Names : \A v \in Vms : Has(v, row[n]) => nameOf[v] = n
Backed   == primary => \A n \in Names : row[n] # INVAL => \E v \in Vms : Has(v, row[n])
UpListed == \A v \in Vms : pc[v] = "up" /\ v \notin unlisted /\ vmid[v] \notin ready => row[nameOf[v]] = vmid[v]
RowsOk   == Apart /\ Single /\ Named /\ Backed /\ UpListed

TableInv == TableType /\ Ids /\ Sides /\ (reused \/ RowsOk)

LEMMA TableConstants == /\ NumNames \in Nat \ {0} /\ NumVmids \in Nat
                        /\ Vmids \subseteq 0..NumVmids /\ INVAL \in 0..NumVmids /\ INVAL \notin Vmids
                        /\ 1 \in Names /\ \A id \in 0..NumVmids : id # INVAL => id \in Vmids
  BY TableAssumption DEF Vmids, INVAL, Names

LEMMA TableStart == TableInit => TableInv
<1> SUFFICES ASSUME TableInit PROVE TableInv
  OBVIOUS
<1>1. TableType
  <2>1. primary \in BOOLEAN /\ coreInit \in BOOLEAN
    BY Zenon DEF TableInit
  <2>2. probe \in 1..(NumNames + 1)
    BY TableConstants DEF TableInit
  <2> QED
    BY <2>1, <2>2, TableConstants DEF TableInit, TableType
<1>2. Ids
  BY DEF TableInit, Ids
<1>3. Sides
  BY DEF TableInit, Sides
<1>4. RowsOk
  BY DEF TableInit, RowsOk, Apart, Single, Named, Backed, UpListed, Has
<1> QED
  BY <1>1, <1>2, <1>3, <1>4 DEF TableInv

-----------------------------------------------------------------------------
(* The VM table: the primary VM                                            *)

LEMMA AllocCheckTable == ASSUME TableInv, NEW v \in Vms, AllocCheck(v) PROVE TableInv'
<1>0. TableType /\ Ids /\ Sides
  BY DEF TableInv
<1>1. /\ primary /\ pc[v] = "off" /\ pc' = [pc EXCEPT ![v] = "alloc"]
      /\ UNCHANGED <<primary, row, info, coreInit, probe, ready, vmid, oldId, reused>>
  BY DEF AllocCheck, Step, rowVars, svmVars
<1>2. PICK n \in Names : LET twins == {w \in Vms : pc[w] # "off" /\ nameOf[w] = n} IN
        /\ nameOf' = [nameOf EXCEPT ![v] = n]
        /\ unlisted' = IF twins = {} THEN unlisted \ {v} ELSE unlisted \cup twins \cup {v}
  BY DEF AllocCheck
<1>3. /\ \A w \in Vms : w # v => pc'[w] = pc[w] /\ nameOf'[w] = nameOf[w]
      /\ pc'[v] = "alloc" /\ nameOf'[v] = n
  BY <1>0, <1>1, <1>2 DEF TableType
<1>4. /\ \A w \in Vms : w # v /\ pc[w] # "off" /\ nameOf[w] = n => w \in unlisted' /\ v \in unlisted'
      /\ \A w \in unlisted : w # v => w \in unlisted'
      /\ unlisted' \subseteq Vms
  BY <1>0, <1>1, <1>2 DEF TableType
<1>5. TableType'
  BY <1>0, <1>1, <1>2, <1>4 DEF TableType
<1>6. Ids'
  BY <1>0, <1>1, <1>3 DEF Ids
<1>7. Sides'
  <2>1. ASSUME NEW x \in Vms, NEW y \in Vms, x # y, pc'[x] # "off", pc'[y] # "off", nameOf'[x] = nameOf'[y]
        PROVE  x \in unlisted'
    BY <1>0, <1>1, <1>3, <1>4, <2>1 DEF Sides
  <2> QED
    BY <1>0, <1>1, <2>1 DEF Sides
<1>8. ASSUME RowsOk PROVE RowsOk'
  <2>1. \A w \in Vms : \A id : Has(w, id)' <=> Has(w, id)
    BY <1>1 DEF Has
  <2>2. \A id : ~Has(v, id)
    BY <1>0, <1>1 DEF Has, Ids
  <2>3. Apart' /\ Single' /\ Backed'
    BY <1>1, <1>8, <2>1 DEF RowsOk, Apart, Single, Backed
  <2>4. Named'
    BY <1>1, <1>3, <1>8, <2>1, <2>2 DEF RowsOk, Named
  <2>5. UpListed'
    BY <1>1, <1>3, <1>4, <1>8 DEF RowsOk, UpListed
  <2> QED
    BY <2>3, <2>4, <2>5 DEF RowsOk
<1> QED
  BY <1>1, <1>5, <1>6, <1>7, <1>8 DEF TableInv

\* A VM gets a vmid the Resource Manager had free: unless that is still meant, it
\* disturbs no row.
LEMMA GivenId ==
  ASSUME TableType, NEW v \in Vms, pc[v] \in {"off", "alloc"}, Ids, NEW id \in Vmids \ Held, ~StillMeant(id),
         vmid' = [vmid EXCEPT ![v] = id], UNCHANGED <<row, oldId>>
  PROVE  /\ \A w \in Vms : \A x \in Vmids : Has(w, x)' <=> Has(w, x) \/ (w = v /\ x = id)
         /\ \A w \in Vms : ~Has(w, id)
         /\ \A n \in Names : row[n] # id
         /\ \A x : ~Has(v, x)
<1>1. \A w \in Vms : vmid[w] # id
  BY DEF Held
<1>2. \A n \in Names : row[n] # id
  BY DEF StillMeant
<1>3. \A w \in Vms : oldId[w] # id
  BY DEF StillMeant
<1>4. vmid[v] = INVAL /\ oldId[v] = INVAL
  BY DEF Ids
<1>5. id # INVAL
  BY TableConstants
<1>6. \A w \in Vms : vmid'[w] = IF w = v THEN id ELSE vmid[w]
  BY DEF TableType
<1> QED
  BY <1>1, <1>2, <1>3, <1>4, <1>5, <1>6 DEF Has

LEMMA AllocRpcTable == ASSUME TableInv, NEW v \in Vms, AllocRpc(v) PROVE TableInv'
<1>0. TableType /\ Ids /\ Sides
  BY DEF TableInv
<1>1. UNCHANGED <<primary, row, info, coreInit, probe, ready, oldId>> /\ pc[v] = "alloc"
  BY DEF AllocRpc, rowVars, svmVars, Step
<1>2. CASE \E id \in Vmids \ Held :
             /\ vmid' = [vmid EXCEPT ![v] = id] /\ reused' = (reused \/ StillMeant(id))
             /\ Step(v, "alloc", "update") /\ UNCHANGED <<nameOf, unlisted>>
  <2>1. PICK id \in Vmids \ Held :
             /\ vmid' = [vmid EXCEPT ![v] = id] /\ reused' = (reused \/ StillMeant(id))
             /\ pc' = [pc EXCEPT ![v] = "update"] /\ UNCHANGED <<nameOf, unlisted>>
    BY <1>2 DEF Step
  <2>2. /\ \A w \in Vms : w # v => pc'[w] = pc[w] /\ vmid'[w] = vmid[w]
        /\ pc'[v] = "update" /\ vmid'[v] = id /\ \A w \in Vms : vmid[w] # id
    BY <1>0, <2>1 DEF TableType, Held
  <2>3. TableType'
    BY <1>0, <1>1, <2>1, TableConstants DEF TableType
  <2>4. Ids'
    BY <1>0, <1>1, <2>2, TableConstants DEF Ids
  <2>5. Sides'
    BY <1>0, <1>1, <2>1, <2>2 DEF Sides
  <2>6. ASSUME RowsOk, ~StillMeant(id) PROVE RowsOk'
    <3>1. /\ \A w \in Vms : \A x \in Vmids : Has(w, x)' <=> Has(w, x) \/ (w = v /\ x = id)
          /\ \A w \in Vms : ~Has(w, id)
          /\ \A n \in Names : row[n] # id
          /\ \A x : ~Has(v, x)
      BY <1>0, <1>1, <2>1, <2>6, GivenId
    <3>2. \A n \in Names : row[n] # INVAL => row[n] \in Vmids
      BY <1>0, TableConstants DEF TableType
    <3>3. \A w \in Vms : \A n \in Names : Has(w, row[n])' <=> Has(w, row[n])
      BY <1>1, <3>1, <3>2 DEF Has
    <3>4. Apart'
      BY <2>6, <3>1 DEF RowsOk, Apart
    <3>5. Single' /\ Named' /\ Backed'
      BY <1>1, <2>1, <2>6, <3>3 DEF RowsOk, Single, Named, Backed
    <3>6. UpListed'
      BY <1>1, <2>1, <2>2, <2>6 DEF RowsOk, UpListed
    <3> QED
      BY <3>4, <3>5, <3>6 DEF RowsOk
  <2>7. reused' \/ RowsOk'
    BY <2>1, <2>6 DEF TableInv
  <2> QED
    BY <2>3, <2>4, <2>5, <2>7 DEF TableInv
<1>3. CASE Step(v, "alloc", "off") /\ Forgets(v) /\ UNCHANGED <<vmid, reused>>
  <2>1. /\ \A w \in Vms : w # v => pc'[w] = pc[w] /\ nameOf'[w] = nameOf[w]
        /\ pc'[v] = "off" /\ unlisted' = unlisted \ {v}
    BY <1>0, <1>3 DEF TableType, Step, Forgets
  <2>2. TableType'
    BY <1>0, <1>1, <1>3, TableConstants DEF TableType, Step, Forgets
  <2>3. Ids'
    BY <1>0, <1>1, <1>3, <2>1 DEF Ids
  <2>4. Sides'
    BY <1>0, <1>1, <2>1 DEF Sides
  <2>5. ASSUME RowsOk PROVE RowsOk'
    <3>1. /\ \A w \in Vms : \A x : Has(w, x)' <=> Has(w, x)
          /\ \A x : ~Has(v, x)
      BY <1>0, <1>1, <1>3 DEF Has, Ids
    <3>2. Apart' /\ Single' /\ Named' /\ Backed'
      BY <1>1, <2>1, <2>5, <3>1 DEF RowsOk, Apart, Single, Named, Backed
    <3>3. UpListed'
      BY <1>1, <1>3, <2>1, <2>5 DEF RowsOk, UpListed
    <3> QED
      BY <3>2, <3>3 DEF RowsOk
  <2> QED
    BY <1>3, <2>2, <2>3, <2>4, <2>5 DEF TableInv
<1> QED
  BY <1>2, <1>3 DEF AllocRpc

LEMMA AllocUpdateTable == ASSUME TableInv, NEW v \in Vms, AllocUpdate(v) PROVE TableInv'
<1>0. TableType /\ Ids /\ Sides
  BY DEF TableInv
<1>1. /\ UNCHANGED <<primary, nameOf, vmid, reused, coreInit, probe, ready, oldId, unlisted>>
      /\ pc[v] = "update" /\ pc' = [pc EXCEPT ![v] = "up"] /\ Update(nameOf[v], vmid[v], FALSE)
  BY DEF AllocUpdate, Step, vmVars, svmVars
<1> DEFINE n == nameOf[v]
<1>2. primary /\ n \in Names /\ ~info[n]
  BY <1>0, <1>1 DEF Sides, TableType
<1>3. /\ row' = [row EXCEPT ![n] = vmid[v]] /\ UNCHANGED info
  <2>1. row' = [row EXCEPT ![n] = vmid[v]] /\ info' = [info EXCEPT ![n] = @ \/ FALSE]
    BY <1>1, <1>2 DEF Update, Refused
  <2>2. [info EXCEPT ![n] = @ \/ FALSE] = info
    BY <1>0, <1>2 DEF TableType
  <2> QED
    BY <2>1, <2>2
<1>4. \A w \in Vms : pc'[w] = IF w = v THEN "up" ELSE pc[w]
  BY <1>0, <1>1 DEF TableType
<1>5. TableType' /\ Ids' /\ Sides'
  <2>1. TableType'
    BY <1>0, <1>1, <1>2, <1>3 DEF TableType
  <2>2. Ids'
    BY <1>0, <1>1, <1>4 DEF Ids
  <2>3. Sides'
    BY <1>0, <1>1, <1>2, <1>3, <1>4 DEF Sides
  <2> QED
    BY <2>1, <2>2, <2>3
<1>6. ASSUME RowsOk PROVE RowsOk'
  <2>1. \A w \in Vms : \A x : Has(w, x)' <=> Has(w, x)
    BY <1>1 DEF Has
  <2>2. vmid[v] # INVAL /\ vmid[v] \in Vmids /\ Has(v, vmid[v])
    BY <1>0, <1>1, TableConstants DEF Has, Ids, TableType
  <2>3. \A m \in Names : row'[m] = IF m = n THEN vmid[v] ELSE row[m]
    BY <1>0, <1>2, <1>3 DEF TableType
  <2>4. \A m \in Names : row[m] = vmid[v] => m = n
    BY <1>6, <2>2 DEF RowsOk, Named
  <2>5. Apart'
    BY <1>6, <2>1 DEF RowsOk, Apart
  <2>6. Single'
    BY <1>6, <2>3, <2>4 DEF RowsOk, Single
  <2>7. Named'
    <3>1. ASSUME NEW m \in Names, NEW w \in Vms, Has(w, row'[m]) PROVE nameOf[w] = m
      <4>1. CASE m = n
        BY <1>6, <2>2, <2>3, <3>1, <4>1 DEF RowsOk, Apart
      <4>2. CASE m # n
        BY <1>6, <2>3, <3>1, <4>2 DEF RowsOk, Named
      <4> QED
        BY <4>1, <4>2
    <3> QED
      BY <1>1, <2>1, <3>1 DEF Named
  <2>8. Backed'
    BY <1>6, <1>1, <2>1, <2>2, <2>3 DEF RowsOk, Backed
  <2>9. UpListed'
    <3>1. ASSUME NEW w \in Vms, pc'[w] = "up", w \notin unlisted, vmid[w] \notin ready PROVE row'[nameOf[w]] = vmid[w]
      <4>0. nameOf[w] \in Names
        BY <1>0 DEF TableType
      <4>1. CASE w = v
        BY <2>3, <4>0, <4>1
      <4>2. CASE w # v
        <5>1. pc[w] = "up" /\ nameOf[w] # n
          BY <1>0, <1>1, <1>2, <1>4, <3>1, <4>2 DEF Sides
        <5> QED
          BY <1>6, <2>3, <3>1, <4>0, <5>1 DEF RowsOk, UpListed
      <4> QED
        BY <4>1, <4>2
    <3> QED
      BY <1>1, <3>1 DEF UpListed
  <2> QED
    BY <2>5, <2>6, <2>7, <2>8, <2>9 DEF RowsOk
<1> QED
  BY <1>1, <1>5, <1>6 DEF TableInv

LEMMA DeallocTable == ASSUME TableInv, NEW v \in Vms, Dealloc(v) PROVE TableInv'
<1>0. TableType /\ Ids /\ Sides
  BY DEF TableInv
<1>1. /\ UNCHANGED <<primary, row, info, coreInit, probe, ready, nameOf, reused, unlisted>> /\ primary
      /\ \/ /\ pc' = [pc EXCEPT ![v] = "clear"] \/ pc' = [pc EXCEPT ![v] = "stuck"]
            /\ vmid' = [vmid EXCEPT ![v] = INVAL] /\ oldId' = [oldId EXCEPT ![v] = vmid[v]]
         \/ pc' = [pc EXCEPT ![v] = "stuck"] /\ UNCHANGED <<vmid, oldId>>
      /\ pc[v] = "up"
  BY DEF Dealloc, Step, rowVars, svmVars
<1>2. /\ \A w \in Vms : w # v => pc'[w] = pc[w] /\ vmid'[w] = vmid[w] /\ oldId'[w] = oldId[w]
      /\ \/ pc'[v] \in {"clear", "stuck"} /\ vmid'[v] = INVAL /\ oldId'[v] = vmid[v]
         \/ pc'[v] = "stuck" /\ vmid'[v] = vmid[v] /\ oldId'[v] = oldId[v]
  BY <1>0, <1>1 DEF TableType
<1>3. TableType'
  BY <1>0, <1>1, TableConstants DEF TableType
<1>4. Ids'
  BY <1>0, <1>1, <1>2 DEF Ids
<1>5. Sides'
  BY <1>0, <1>1, <1>2 DEF Sides
<1>6. ASSUME RowsOk PROVE RowsOk'
  <2>1. \A w \in Vms : \A x : Has(w, x)' <=> Has(w, x)
    BY <1>0, <1>1, <1>2 DEF Has, Ids
  <2>2. Apart' /\ Single' /\ Named' /\ Backed'
    BY <1>1, <1>6, <2>1 DEF RowsOk, Apart, Single, Named, Backed
  <2>3. UpListed'
    BY <1>1, <1>2, <1>6 DEF RowsOk, UpListed
  <2> QED
    BY <2>2, <2>3 DEF RowsOk
<1> QED
  BY <1>1, <1>3, <1>4, <1>5, <1>6 DEF TableInv

\* gh_reset_vm_prop_table_entry takes the vmid out of the table.
LEMMA ResetRow ==
  ASSUME TableType, NEW id \in Vmids, Reset(id)
  PROVE  /\ row' \in [Names -> 0..NumVmids] /\ info' \in [Names -> BOOLEAN]
         /\ \A n \in Names : (row[n] # id => row'[n] = row[n]) /\ (info'[n] => info[n])
         /\ Single => \A n \in Names : row[n] = id => row'[n] = INVAL
<1>1. /\ row'  = [n \in Names |-> IF n \in FirstRow(id) THEN INVAL ELSE row[n]]
      /\ info' = [n \in Names |-> info[n] /\ n \notin FirstRow(id)]
  BY DEF Reset
<1>2. \A n \in FirstRow(id) : row[n] = id
  BY DEF FirstRow
<1>3. row' \in [Names -> 0..NumVmids]
  BY <1>1, TableConstants DEF TableType
<1>4. info' \in [Names -> BOOLEAN]
  BY <1>1 DEF TableType
<1>5. \A n \in Names : (row[n] # id => row'[n] = row[n]) /\ (info'[n] => info[n])
  BY <1>1, <1>2
<1>6. ASSUME Single, NEW n \in Names, row[n] = id PROVE row'[n] = INVAL
  <2>1. \A m \in Names : row[m] = id => n <= m
    BY <1>6, TableConstants DEF Single, Names
  <2>2. n \in FirstRow(id)
    BY <1>6, <2>1 DEF FirstRow
  <2> QED
    BY <1>1, <2>2
<1> QED
  BY <1>3, <1>4, <1>5, <1>6

LEMMA DeallocClearTable == ASSUME TableInv, NEW v \in Vms, DeallocClear(v) PROVE TableInv'
<1>0. TableType /\ Ids /\ Sides
  BY DEF TableInv
<1>1. /\ UNCHANGED <<primary, vmid, reused, coreInit, probe, ready>>
      /\ pc[v] = "clear" /\ pc' = [pc EXCEPT ![v] = "off"] /\ Reset(oldId[v])
      /\ oldId' = [oldId EXCEPT ![v] = INVAL] /\ nameOf' = [nameOf EXCEPT ![v] = 1]
      /\ unlisted' = unlisted \ {v}
  BY DEF DeallocClear, Step, Forgets, svmVars
<1> DEFINE id == oldId[v]
<1>2. primary /\ id # INVAL /\ id \in Vmids /\ vmid[v] = INVAL
  BY <1>0, <1>1, TableConstants DEF Sides, Ids, TableType
<1>3. /\ row' \in [Names -> 0..NumVmids] /\ info' \in [Names -> BOOLEAN]
      /\ \A n \in Names : (row[n] # id => row'[n] = row[n]) /\ (info'[n] => info[n])
      /\ Single => \A n \in Names : row[n] = id => row'[n] = INVAL
  BY <1>0, <1>1, <1>2, ResetRow
<1>4. /\ \A w \in Vms : w # v => pc'[w] = pc[w] /\ oldId'[w] = oldId[w] /\ nameOf'[w] = nameOf[w]
      /\ pc'[v] = "off" /\ oldId'[v] = INVAL
  BY <1>0, <1>1 DEF TableType
<1> HIDE DEF id
<1>5. TableType'
  BY <1>0, <1>1, <1>3, TableConstants DEF TableType
<1>6. Ids'
  BY <1>0, <1>1, <1>4 DEF Ids
<1>7. Sides'
  BY <1>0, <1>1, <1>2, <1>3, <1>4 DEF Sides
<1>8. ASSUME RowsOk PROVE RowsOk'
  <2>1. /\ \A w \in Vms : \A x : w # v => (Has(w, x)' <=> Has(w, x))
        /\ \A x : ~Has(v, x)' /\ (Has(v, x) => x = id) /\ Has(v, id)
    BY <1>1, <1>2, <1>4 DEF Has, id
  <2>2. \A n \in Names : row'[n] # INVAL => row'[n] = row[n] /\ row[n] # id
    BY <1>3, <1>8 DEF RowsOk
  <2>3. Apart'
    BY <1>8, <2>1 DEF RowsOk, Apart
  <2>4. Single'
    BY <1>8, <2>2 DEF RowsOk, Single
  <2>5. Named'
    <3>1. ASSUME NEW n \in Names, NEW w \in Vms, Has(w, row[n])' PROVE nameOf'[w] = n
      <4>1. w # v /\ row'[n] # INVAL
        BY <2>1, <3>1 DEF Has
      <4>2. row'[n] = row[n]
        BY <2>2, <4>1
      <4>3. Has(w, row[n])
        BY <1>1, <1>4, <3>1, <4>1, <4>2 DEF Has
      <4> QED
        BY <1>4, <1>8, <4>1, <4>3 DEF RowsOk, Named
    <3> QED
      BY <3>1 DEF Named
  <2>6. Backed'
    <3>1. ASSUME NEW n \in Names, row'[n] # INVAL PROVE \E w \in Vms : Has(w, row[n])'
      <4>1. row'[n] = row[n] /\ row[n] # id /\ row[n] # INVAL
        BY <2>2, <3>1
      <4>2. PICK w \in Vms : Has(w, row[n])
        BY <1>2, <1>8, <4>1 DEF RowsOk, Backed
      <4>3. w # v
        BY <2>1, <4>1, <4>2
      <4>4. Has(w, row[n])'
        BY <1>1, <1>4, <4>1, <4>2, <4>3 DEF Has
      <4> QED
        BY <4>4
    <3> QED
      BY <3>1 DEF Backed
  <2>7. UpListed'
    <3>1. ASSUME NEW w \in Vms, pc'[w] = "up", w \notin unlisted', vmid[w] \notin ready PROVE row'[nameOf'[w]] = vmid[w]
      <4>1. w # v /\ pc[w] = "up" /\ w \notin unlisted /\ nameOf[w] \in Names /\ nameOf'[w] = nameOf[w]
        BY <1>0, <1>1, <1>4, <3>1 DEF TableType
      <4>2. row[nameOf[w]] = vmid[w] /\ vmid[w] # INVAL
        BY <1>0, <1>8, <3>1, <4>1 DEF RowsOk, UpListed, Ids
      <4>3. vmid[w] # id
        BY <1>2, <1>8, <2>1, <4>1, <4>2 DEF RowsOk, Apart, Has
      <4> QED
        BY <1>3, <4>1, <4>2, <4>3
    <3> QED
      BY <1>1, <3>1 DEF UpListed
  <2> QED
    BY <2>3, <2>4, <2>5, <2>6, <2>7 DEF RowsOk
<1> QED
  BY <1>1, <1>5, <1>6, <1>7, <1>8 DEF TableInv

-----------------------------------------------------------------------------
(* The VM table: a secondary VM                                            *)

LEMMA PeerUpTable == ASSUME TableInv, NEW v \in Vms, PeerUp(v) PROVE TableInv'
<1>0. TableType /\ Ids /\ Sides
  BY DEF TableInv
<1>1. UNCHANGED <<primary, row, info, coreInit, probe, oldId>> /\ ~primary
      /\ pc[v] = "off" /\ pc' = [pc EXCEPT ![v] = "up"]
  BY DEF PeerUp, rowVars, Step
<1>2. PICK n \in Names, id \in Vmids \ Held :
        /\ \A w \in Vms : pc[w] = "up" => nameOf[w] # n
        /\ nameOf' = [nameOf EXCEPT ![v] = n] /\ vmid' = [vmid EXCEPT ![v] = id]
        /\ reused' = (reused \/ StillMeant(id))
        /\ \/ ready' = ready \cup {id} /\ unlisted' = unlisted \ {v}
           \/ unlisted' = unlisted \cup {v} /\ UNCHANGED ready
  BY DEF PeerUp
<1>3. /\ \A w \in Vms : w # v => pc'[w] = pc[w] /\ vmid'[w] = vmid[w] /\ nameOf'[w] = nameOf[w]
      /\ pc'[v] = "up" /\ vmid'[v] = id /\ nameOf'[v] = n /\ \A w \in Vms : vmid[w] # id
  BY <1>0, <1>1, <1>2 DEF TableType, Held
<1>4. TableType'
  BY <1>0, <1>1, <1>2, TableConstants DEF TableType
<1>5. Ids'
  BY <1>0, <1>1, <1>3, TableConstants DEF Ids
<1>6. Sides'
  BY <1>0, <1>1, <1>2, <1>3 DEF Sides
<1>7. ASSUME RowsOk, ~StillMeant(id) PROVE RowsOk'
  <2>1. /\ \A w \in Vms : \A x \in Vmids : Has(w, x)' <=> Has(w, x) \/ (w = v /\ x = id)
        /\ \A w \in Vms : ~Has(w, id)
        /\ \A m \in Names : row[m] # id
        /\ \A x : ~Has(v, x)
    BY <1>0, <1>1, <1>2, <1>7, GivenId
  <2>2. \A m \in Names : row[m] # INVAL => row[m] \in Vmids
    BY <1>0, TableConstants DEF TableType
  <2>3. \A w \in Vms : \A m \in Names : Has(w, row[m])' <=> Has(w, row[m])
    BY <1>1, <2>1, <2>2 DEF Has
  <2>4. Apart'
    BY <1>7, <2>1 DEF RowsOk, Apart
  <2>5. Single' /\ Backed'
    BY <1>1, <1>7 DEF RowsOk, Single, Backed
  <2>6. Named'
    BY <1>1, <1>3, <1>7, <2>1, <2>3 DEF RowsOk, Named
  <2>7. UpListed'
    BY <1>1, <1>2, <1>3, <1>7 DEF RowsOk, UpListed
  <2> QED
    BY <2>4, <2>5, <2>6, <2>7 DEF RowsOk
<1>8. reused' \/ RowsOk'
  BY <1>2, <1>7 DEF TableInv
<1> QED
  BY <1>4, <1>5, <1>6, <1>8 DEF TableInv

LEMMA PeerDownTable == ASSUME TableInv, NEW v \in Vms, PeerDown(v) PROVE TableInv'
<1>0. TableType /\ Ids /\ Sides
  BY DEF TableInv
<1>1. /\ UNCHANGED <<primary, row, info, coreInit, probe, ready, oldId, reused>> /\ ~primary
      /\ pc[v] = "up" /\ pc' = [pc EXCEPT ![v] = "off"] /\ vmid' = [vmid EXCEPT ![v] = INVAL]
      /\ nameOf' = [nameOf EXCEPT ![v] = 1] /\ unlisted' = unlisted \ {v}
  BY DEF PeerDown, rowVars, svmVars, Step, Forgets
<1>2. /\ \A w \in Vms : w # v => pc'[w] = pc[w] /\ vmid'[w] = vmid[w] /\ nameOf'[w] = nameOf[w]
      /\ pc'[v] = "off" /\ vmid'[v] = INVAL
  BY <1>0, <1>1 DEF TableType
<1>3. TableType'
  BY <1>0, <1>1, TableConstants DEF TableType
<1>4. Ids'
  BY <1>0, <1>1, <1>2 DEF Ids
<1>5. Sides'
  BY <1>0, <1>1, <1>2 DEF Sides
<1>6. ASSUME RowsOk PROVE RowsOk'
  <2>1. /\ \A w \in Vms : \A x : w # v => (Has(w, x)' <=> Has(w, x))
        /\ \A x : ~Has(v, x)'
    BY <1>0, <1>1, <1>2 DEF Has, Ids
  <2>2. Apart' /\ Single' /\ Backed'
    BY <1>1, <1>6, <2>1 DEF RowsOk, Apart, Single, Backed
  <2>3. Named'
    BY <1>1, <1>2, <1>6, <2>1 DEF RowsOk, Named
  <2>4. UpListed'
    BY <1>1, <1>2, <1>6 DEF RowsOk, UpListed
  <2> QED
    BY <2>2, <2>3, <2>4 DEF RowsOk
<1> QED
  BY <1>1, <1>3, <1>4, <1>5, <1>6 DEF TableInv

\* GET_ID and the update: the VM with this vmid, if any, is in its row afterwards or
\* counts as one the table does not know.
LEMMA IdentifyTable ==
  ASSUME TableInv, ~primary, UNCHANGED <<primary, pc, oldId, nameOf, vmid, reused>>,
         NEW id \in Vmids, Identify(id), ready' \subseteq ready, ready \subseteq ready' \cup {id},
         coreInit' \in BOOLEAN, probe' \in 1..(NumNames + 1)
  PROVE  TableInv'
<1>0. TableType /\ Ids /\ Sides
  BY DEF TableInv
<1>1. id # INVAL
  BY TableConstants
<1>2. /\ row' \in [Names -> 0..NumVmids] /\ info' \in [Names -> BOOLEAN] /\ unlisted' \subseteq Vms
      /\ \A n \in Names : row'[n] = row[n] \/ (row'[n] = id /\ \E v \in Vms : vmid[v] = id /\ nameOf[v] = n)
      /\ \A v \in Vms : vmid[v] = id => v \in unlisted' \/ row'[nameOf[v]] = id
      /\ \A v \in Vms : vmid[v] # id /\ v \notin unlisted' => v \notin unlisted
  <2>1. CASE \A v \in Vms : vmid[v] # id
    <3>1. GetId(id) = {}
      BY <2>1 DEF GetId
    <3>2. UNCHANGED rowVars /\ unlisted' = unlisted
      BY <3>1 DEF Identify
    <3> QED
      BY <1>0, <2>1, <3>2 DEF TableType, rowVars
  <2>2. ASSUME NEW v \in Vms, vmid[v] = id
        PROVE  /\ row' \in [Names -> 0..NumVmids] /\ info' \in [Names -> BOOLEAN] /\ unlisted' \subseteq Vms
               /\ \A n \in Names : row'[n] = row[n] \/ (row'[n] = id /\ nameOf[v] = n)
               /\ v \in unlisted' \/ row'[nameOf[v]] = id
               /\ \A w \in Vms : w # v /\ w \notin unlisted' => w \notin unlisted
    <3>0. nameOf[v] \in Names /\ id \in 0..NumVmids
      BY <1>0, TableConstants DEF TableType
    <3>1. GetId(id) = {v}
      BY <1>0, <1>1, <2>2 DEF GetId, Ids
    <3>2. CASE Refused(nameOf[v]) \/ unlisted' = unlisted \cup {v}
      <4>1. CASE UNCHANGED rowVars /\ unlisted' = unlisted \cup {v}
        BY <1>0, <4>1 DEF TableType, rowVars
      <4>2. CASE /\ Update(nameOf[v], id, TRUE)
                 /\ unlisted' = {w \in unlisted : w \notin {v}} \cup {w \in {v} : Refused(nameOf[w])}
        <5>1. Refused(nameOf[v])
          BY <3>2, <4>2
        <5>2. UNCHANGED rowVars
          BY <4>2, <5>1 DEF Update
        <5> QED
          BY <1>0, <4>2, <5>1, <5>2 DEF TableType, rowVars
      <4> QED
        BY <3>1, <4>1, <4>2 DEF Identify
    <3>3. CASE ~Refused(nameOf[v]) /\ unlisted' # unlisted \cup {v}
      <4>1. /\ Update(nameOf[v], id, TRUE)
            /\ unlisted' = {w \in unlisted : w \notin {v}} \cup {w \in {v} : Refused(nameOf[w])}
        BY <3>1, <3>3 DEF Identify
      <4>2. row' = [row EXCEPT ![nameOf[v]] = id] /\ info' = [info EXCEPT ![nameOf[v]] = @ \/ TRUE]
        BY <3>3, <4>1 DEF Update
      <4>3. row' \in [Names -> 0..NumVmids] /\ row'[nameOf[v]] = id /\ \A n \in Names : n # nameOf[v] => row'[n] = row[n]
        BY <1>0, <3>0, <4>2 DEF TableType
      <4>4. info' \in [Names -> BOOLEAN]
        BY <1>0, <3>0, <4>2 DEF TableType
      <4> QED
        BY <1>0, <4>1, <4>3, <4>4 DEF TableType
    <3> QED
      BY <3>2, <3>3
  <2>3. \A v, w \in Vms : vmid[v] = id /\ vmid[w] = id => v = w
    BY <1>0, <1>1 DEF Ids
  <2>4. CASE \E v \in Vms : vmid[v] = id
    <3>1. PICK v \in Vms : vmid[v] = id
      BY <2>4
    <3> QED
      BY <2>2, <2>3, <3>1
  <2> QED
    BY <2>1, <2>4
<1>3. TableType'
  BY <1>0, <1>2 DEF TableType
<1>4. Ids' /\ Sides'
  BY <1>0 DEF Ids, Sides
<1>5. ASSUME RowsOk PROVE RowsOk'
  <2>1. \A w \in Vms : \A x : Has(w, x)' <=> Has(w, x)
    BY DEF Has
  <2>2. \A v \in Vms : vmid[v] = id => Has(v, id)
    BY <1>1 DEF Has
  <2>3. Apart' /\ Backed'
    BY <1>5, <2>1 DEF RowsOk, Apart, Backed
  <2>4. \A n \in Names : row'[n] # row[n] => row'[n] = id /\ \A v \in Vms : Has(v, id) => nameOf[v] = n
    BY <1>2, <1>5, <2>2 DEF RowsOk, Apart
  <2>5. Named'
    <3>1. ASSUME NEW n \in Names, NEW w \in Vms, Has(w, row'[n]) PROVE nameOf[w] = n
      BY <1>5, <2>4, <3>1 DEF RowsOk, Named
    <3> QED
      BY <2>1, <3>1 DEF Named
  <2>6. Single'
    <3>1. ASSUME NEW n \in Names, row'[n] = id, row[n] # id, NEW m \in Names, row'[m] = id PROVE m = n
      <4>1. PICK v \in Vms : vmid[v] = id /\ nameOf[v] = n
        BY <1>2, <3>1
      <4>2. Has(v, id)
        BY <2>2, <4>1
      <4> QED
        BY <2>1, <2>5, <3>1, <4>1, <4>2 DEF Named
    <3> QED
      BY <1>2, <1>5, <3>1 DEF RowsOk, Single
  <2>7. UpListed'
    <3>1. ASSUME NEW w \in Vms, pc[w] = "up", w \notin unlisted', vmid[w] \notin ready' PROVE row'[nameOf[w]] = vmid[w]
      <4>1. CASE vmid[w] = id
        BY <1>2, <3>1, <4>1
      <4>2. CASE vmid[w] # id
        <5>1. nameOf[w] \in Names /\ row[nameOf[w]] = vmid[w]
          BY <1>0, <1>2, <1>5, <3>1, <4>2 DEF RowsOk, UpListed, TableType
        <5>2. \A v \in Vms : vmid[v] = id => nameOf[v] # nameOf[w]
          BY <1>0, <1>1, <3>1, <4>2 DEF Sides, Ids
        <5> QED
          BY <1>2, <5>1, <5>2
      <4> QED
        BY <4>1, <4>2
    <3> QED
      BY <3>1 DEF UpListed
  <2> QED
    BY <2>3, <2>5, <2>6, <2>7 DEF RowsOk
<1> QED
  BY <1>3, <1>4, <1>5 DEF TableInv

LEMMA CheckPeerTable == ASSUME TableInv, CheckPeer PROVE TableInv'
<1>0. TableType /\ Ids /\ Sides
  BY DEF TableInv
<1>1. /\ UNCHANGED <<primary, pc, oldId, ready, nameOf, vmid, reused>>
      /\ probe <= NumNames /\ probe' = probe + 1 /\ coreInit' = (probe = NumNames)
      /\ \/ \E v \in Lookup(probe) : Identify(vmid[v])
         \/ UNCHANGED <<rowVars, unlisted>>
  BY DEF CheckPeer
<1>2. ~primary /\ coreInit' \in BOOLEAN /\ probe' \in 1..(NumNames + 1)
  BY <1>0, <1>1, TableConstants DEF Sides, TableType
<1>3. ASSUME NEW v \in Lookup(probe), Identify(vmid[v]) PROVE TableInv'
  <2>1. v \in Vms /\ vmid[v] \in Vmids
    BY <1>0, <1>3, TableConstants DEF Lookup, Ids, TableType
  <2> QED
    BY <1>1, <1>2, <1>3, <2>1, IdentifyTable
<1>4. CASE UNCHANGED <<rowVars, unlisted>>
  <2>1. UNCHANGED <<row, info>>
    BY <1>4 DEF rowVars
  <2>2. TableType'
    BY <1>0, <1>1, <1>2, <1>4, <2>1 DEF TableType
  <2>3. Ids' /\ Sides'
    BY <1>0, <1>1, <1>2, <1>4, <2>1 DEF Ids, Sides
  <2>4. \A w \in Vms : \A x : Has(w, x)' <=> Has(w, x)
    BY <1>1 DEF Has
  <2>5. RowsOk => RowsOk'
    BY <1>1, <1>2, <1>4, <2>1, <2>4 DEF RowsOk, Apart, Single, Named, Backed, UpListed
  <2> QED
    BY <1>1, <2>2, <2>3, <2>5 DEF TableInv
<1> QED
  BY <1>1, <1>3, <1>4

LEMMA ReadyTable == ASSUME TableInv, Ready PROVE TableInv'
<1>0. TableType /\ Ids /\ Sides
  BY DEF TableInv
<1>1. UNCHANGED <<primary, pc, oldId, coreInit, probe, nameOf, vmid, reused>>
  BY DEF Ready
<1>2. PICK id \in ready : ready' = ready \ {id} /\ Identify(id)
  BY DEF Ready
<1>3. ~primary /\ id \in Vmids /\ coreInit' \in BOOLEAN /\ probe' \in 1..(NumNames + 1)
  BY <1>0, <1>1, <1>2 DEF Sides, TableType
<1>4. ready' \subseteq ready /\ ready \subseteq ready' \cup {id}
  BY <1>2
<1> QED
  BY <1>1, <1>2, <1>3, <1>4, IdentifyTable

LEMMA TableStep == ASSUME TableInv, TableNext PROVE TableInv'
  BY AllocCheckTable, AllocRpcTable, AllocUpdateTable, DeallocTable, DeallocClearTable, PeerUpTable, PeerDownTable,
     CheckPeerTable, ReadyTable DEF TableNext

-----------------------------------------------------------------------------
(* The console: types, and what each step does to the sequences            *)

OutType ==
  /\ put \in Seq(Nat) /\ accepted \in Nat /\ lost \subseteq Nat
  /\ at \in [Runners -> {"idle", "out", "write"}] /\ to \in [Runners -> 0..NumVmids]
  /\ buf \in [Runners -> Seq(Nat)] /\ written \in Seq([char : Nat, name : Names])
FlushType ==
  /\ fl = [op |-> fl.op, pc |-> fl.pc, vmid |-> fl.vmid, took |-> fl.took, upto |-> fl.upto]
  /\ fl.pc \in {"idle", "cancel", "wait", "fn", "rpc"} /\ fl.upto \in Nat
InType ==
  /\ opened \subseteq Vms /\ incoming \subseteq [vmid : 0..NumVmids, name : Names]
  /\ get \in [Names -> Seq(Names)]

\* put_fifo holds the last characters accepted, in order.
Base   == accepted - Len(put)
Queued == /\ Len(put) <= PutCap /\ Len(put) <= accepted
          /\ \A i \in 1..Len(put) : put[i] = Base + i

LEMMA PutEffect ==
  ASSUME OutType, Queued, NEW count \in 1..2, PutChars(count)
  PROVE  \E n \in Nat :
           /\ put' \in Seq(Nat) /\ accepted' = accepted + n /\ Base' = Base /\ Queued'
           /\ n = 0 => UNCHANGED <<put, pending, stranded>>
           /\ n > 0 => pending' = Scheduled /\ stranded' = (Cancelling /\ ~fl.took)
           /\ Len(put') = Len(put) + n
<1> DEFINE n == IF count <= PutCap - Len(put) THEN count ELSE PutCap - Len(put)
           s == [i \in 1..n |-> accepted + i]
<1>1. put' = put \o s /\ accepted' = accepted + n
  BY DEF PutChars
<1>2. n \in Nat /\ Len(put) \in Nat /\ accepted \in Nat /\ n <= PutCap - Len(put) /\ PutCap \in Nat
  BY ConsoleAssumption DEF OutType, Queued
<1>3. /\ n > 0 => pending' = Scheduled /\ stranded' = (Cancelling /\ ~fl.took)
      /\ ~(n > 0) => UNCHANGED <<pending, stranded>>
  BY DEF PutChars
<1> HIDE DEF n
<1>4. s \in Seq(Nat) /\ Len(s) = n /\ \A i \in 1..n : s[i] = accepted + i
  <2>1. \A i \in 1..n : accepted + i \in Nat
    BY <1>2
  <2> QED
    BY <1>2, <2>1
<1> HIDE DEF s
<1>5. /\ put' \in Seq(Nat) /\ Len(put') = Len(put) + n
      /\ \A i \in 1..Len(put') : put'[i] = IF i <= Len(put) THEN put[i] ELSE s[i - Len(put)]
  <2>1. put \in Seq(Nat)
    BY DEF OutType
  <2>2. /\ put \o s \in Seq(Nat) /\ Len(put \o s) = Len(put) + Len(s)
        /\ \A i \in 1..(Len(put) + Len(s)) : (put \o s)[i] = IF i <= Len(put) THEN put[i] ELSE s[i - Len(put)]
    BY <1>4, <2>1, ConcatProperties
  <2> QED
    BY <1>1, <1>4, <2>2
<1>6. Base' = Base /\ Base \in Nat
  BY <1>1, <1>2, <1>5 DEF Base, Queued
<1>7. Queued'
  <2>1. ASSUME NEW i \in 1..Len(put') PROVE put'[i] = Base + i
    <3>1. CASE i <= Len(put)
      BY <1>2, <1>5, <2>1, <3>1 DEF Queued
    <3>2. CASE i > Len(put)
      <4>1. i - Len(put) \in 1..n
        BY <1>2, <1>5, <2>1, <3>2
      <4>2. put'[i] = accepted + (i - Len(put))
        BY <1>2, <1>4, <1>5, <2>1, <3>2, <4>1
      <4> QED
        BY <1>2, <4>2 DEF Base
    <3> QED
      BY <1>2, <3>1, <3>2
  <2>2. Len(put') <= PutCap /\ Len(put') <= accepted'
    BY <1>1, <1>2, <1>5 DEF Queued
  <2> QED
    BY <1>6, <2>1, <2>2 DEF Queued
<1>8. n = 0 => put' = put
  <2>1. n = 0 => s = <<>>
    BY <1>4
  <2> QED
    BY <1>1, <2>1, ConcatEmptySeq DEF OutType
<1>9. n = 0 => UNCHANGED <<put, pending, stranded>>
  BY <1>3, <1>8
<1> QED
  BY <1>1, <1>2, <1>3, <1>5, <1>6, <1>7, <1>9

\* A character is in a runner's chunk, or was taken by the Resource Manager.
InBuf(r, c) == \E i \in DOMAIN buf[r] : buf[r][i] = c
Wrote(c)    == \E i \in DOMAIN written : written[i].char = c

LEMMA TakeEffect ==
  ASSUME OutType, Queued, NEW r \in Runners, TakeChunk(r), put # <<>>
  PROVE  \E n \in Nat \ {0} :
           /\ put' \in Seq(Nat) /\ Queued' /\ Base' = Base + n /\ Base \in Nat
           /\ buf' \in [Runners -> Seq(Nat)] /\ buf'[r] # <<>> /\ \A q \in Runners : q # r => buf'[q] = buf[q]
           /\ \A c : InBuf(r, c)' <=> c \in (Base + 1)..(Base + n)
           /\ \A i \in DOMAIN buf'[r] : buf'[r][i] = Base + i
<1> DEFINE n == IF Len(put) < Chunk THEN Len(put) ELSE Chunk
           b == SubSeq(put, 1, n)
           p == SubSeq(put, n + 1, Len(put))
<1>1. buf' = [buf EXCEPT ![r] = b] /\ put' = p /\ UNCHANGED accepted
  BY DEF TakeChunk
<1>2. Len(put) \in Nat \ {0} /\ Chunk \in Nat \ {0} /\ put \in Seq(Nat) /\ accepted \in Nat
  BY ConsoleAssumption, EmptySeq DEF OutType
<1>3. n \in Nat \ {0} /\ n <= Len(put)
  BY <1>2
<1> HIDE DEF n
<1>4. b \in Seq(Nat) /\ Len(b) = n /\ \A i \in 1..n : b[i] = put[i]
  <2>1. \A i \in 1..n : put[i] \in Nat
    BY <1>2, <1>3
  <2> QED
    BY <1>2, <1>3, <2>1, SubSeqProperties
<1>5. p \in Seq(Nat) /\ Len(p) = Len(put) - n /\ \A i \in 1..(Len(put) - n) : p[i] = put[n + i]
  <2>1. \A i \in (n + 1)..Len(put) : put[i] \in Nat
    BY <1>2, <1>3
  <2> QED
    BY <1>2, <1>3, <2>1, SubSeqProperties
<1> HIDE DEF b, p
<1>6. /\ buf' \in [Runners -> Seq(Nat)] /\ buf'[r] = b /\ \A q \in Runners : q # r => buf'[q] = buf[q]
  BY <1>1, <1>4 DEF OutType
<1>7. Base \in Nat /\ Base' = Base + n
  BY <1>1, <1>2, <1>3, <1>5 DEF Base, Queued
<1>8. Queued'
  <2>1. ASSUME NEW i \in 1..Len(p) PROVE p[i] = Base + n + i
    <3>1. p[i] = put[n + i] /\ n + i \in 1..Len(put)
      BY <1>2, <1>3, <1>5, <2>1
    <3>2. put[n + i] = Base + (n + i)
      BY <3>1 DEF Queued
    <3> QED
      BY <1>3, <1>5, <1>7, <2>1, <3>1, <3>2
  <2>2. Len(p) <= PutCap /\ Len(p) <= accepted
    BY <1>2, <1>3, <1>5, ConsoleAssumption DEF Queued
  <2> QED
    BY <1>1, <1>7, <2>1, <2>2 DEF Queued
<1>9. DOMAIN buf'[r] = 1..n /\ \A i \in 1..n : buf'[r][i] = Base + i
  BY <1>2, <1>3, <1>4, <1>6 DEF Queued
<1>10. \A c : InBuf(r, c)' <=> c \in (Base + 1)..(Base + n)
  <2>1. ASSUME NEW c \in (Base + 1)..(Base + n) PROVE InBuf(r, c)'
    <3>1. c - Base \in 1..n /\ Base + (c - Base) = c
      BY <1>3, <1>7, <2>1
    <3> QED
      BY <1>9, <3>1 DEF InBuf
  <2>2. ASSUME NEW c, InBuf(r, c)' PROVE c \in (Base + 1)..(Base + n)
    BY <1>3, <1>7, <1>9, <2>2 DEF InBuf
  <2> QED
    BY <2>1, <2>2
<1>11. buf'[r] # <<>>
  BY <1>3, <1>4, <1>6
<1> QED
  BY <1>1, <1>3, <1>5, <1>6, <1>7, <1>8, <1>9, <1>10, <1>11

LEMMA Offset == ASSUME NEW a \in Nat, NEW b \in Nat, NEW i \in 1..(a + b), i > a PROVE \E k \in 1..b : a + k = i
<1>1. i - a \in 1..b /\ a + (i - a) = i
  OBVIOUS
<1> QED
  BY <1>1

LEMMA WriteEffect ==
  ASSUME OutType, TableType, NEW r \in Runners, WriteDone(r)
  PROVE  /\ written' \in Seq([char : Nat, name : Names]) /\ Len(written') = Len(written) + Len(buf[r])
         /\ \A i \in 1..Len(written) : written'[i] = written[i]
         /\ \A i \in 1..Len(buf[r]) : written'[Len(written) + i].char = buf[r][i]
         /\ buf' \in [Runners -> Seq(Nat)] /\ buf'[r] = <<>> /\ \A q \in Runners : q # r => buf'[q] = buf[q]
         /\ \A c : Wrote(c)' <=> Wrote(c) \/ InBuf(r, c)
         /\ \E v \in Vms : /\ vmid[v] = to[r] /\ to[r] # INVAL
                           /\ \A i \in DOMAIN written' : i > Len(written) => written'[i].name = nameOf[v]
<1> DEFINE C == [char : Nat, name : Names]
<1>1. PICK v \in Vms : /\ vmid[v] = to[r] /\ to[r] # INVAL
                       /\ written' = written \o [i \in 1..Len(buf[r]) |-> [char |-> buf[r][i], name |-> nameOf[v]]]
  BY DEF WriteDone
<1> DEFINE s == [i \in 1..Len(buf[r]) |-> [char |-> buf[r][i], name |-> nameOf[v]]]
<1>2. buf[r] \in Seq(Nat) /\ written \in Seq(C) /\ nameOf[v] \in Names
  BY DEF OutType, TableType
<1>3. Len(buf[r]) \in Nat /\ Len(written) \in Nat /\ \A i \in 1..Len(buf[r]) : buf[r][i] \in Nat
  BY <1>2
<1>4. /\ s \in Seq(C) /\ Len(s) = Len(buf[r])
      /\ \A i \in 1..Len(buf[r]) : s[i].char = buf[r][i] /\ s[i].name = nameOf[v]
  <2>1. \A i \in 1..Len(buf[r]) : [char |-> buf[r][i], name |-> nameOf[v]] \in C
    BY <1>2, <1>3
  <2>2. s \in [1..Len(buf[r]) -> C]
    BY <2>1
  <2>3. s \in Seq(C) /\ Len(s) = Len(buf[r])
    BY <1>3, <2>2
  <2> QED
    BY <2>3
<1>5. written' = written \o s
  BY <1>1
<1> HIDE DEF s, C
<1>6. /\ written' \in Seq(C) /\ Len(written') = Len(written) + Len(buf[r])
      /\ \A i \in 1..(Len(written) + Len(buf[r])) :
           written'[i] = IF i <= Len(written) THEN written[i] ELSE s[i - Len(written)]
  <2>1. /\ written \o s \in Seq(C) /\ Len(written \o s) = Len(written) + Len(s)
        /\ \A i \in 1..(Len(written) + Len(s)) :
             (written \o s)[i] = IF i <= Len(written) THEN written[i] ELSE s[i - Len(written)]
    <3>1. written \in Seq(C) /\ s \in Seq(C)
      BY <1>2, <1>4
    <3> QED
      BY ONLY <3>1, ConcatProperties
  <2> QED
    BY <1>4, <1>5, <2>1
<1>7. \A i \in 1..Len(written) : written'[i] = written[i]
  BY <1>3, <1>6
<1>8. ASSUME NEW i \in 1..Len(buf[r])
      PROVE  /\ Len(written) + i \in 1..Len(written') /\ written'[Len(written) + i].char = buf[r][i]
             /\ written'[Len(written) + i].name = nameOf[v]
  <2>1. Len(written) + i \in 1..(Len(written) + Len(buf[r])) /\ ~(Len(written) + i <= Len(written))
        /\ (Len(written) + i) - Len(written) = i
    BY <1>3
  <2> QED
    BY <1>4, <1>6, <2>1
<1>9. ASSUME NEW i \in 1..Len(written'), i > Len(written) PROVE \E k \in 1..Len(buf[r]) : Len(written) + k = i
  <2>1. i \in 1..(Len(written) + Len(buf[r]))
    BY <1>6
  <2> QED
    BY <1>3, <1>9, <2>1, Offset
<1>10. \A i \in DOMAIN written' : i > Len(written) => written'[i].name = nameOf[v]
  <2>1. ASSUME NEW i \in 1..Len(written'), i > Len(written) PROVE written'[i].name = nameOf[v]
    <3>1. PICK k \in 1..Len(buf[r]) : Len(written) + k = i
      BY <1>9, <2>1
    <3> QED
      BY <1>8, <3>1
  <2> QED
    BY <1>6, <2>1
<1>11. buf' \in [Runners -> Seq(Nat)] /\ buf'[r] = <<>> /\ \A q \in Runners : q # r => buf'[q] = buf[q]
  BY EmptySeq DEF WriteDone, OutType
<1>12. ASSUME NEW c PROVE Wrote(c)' <=> Wrote(c) \/ InBuf(r, c)
  <2>0. DOMAIN written = 1..Len(written) /\ DOMAIN written' = 1..Len(written') /\ DOMAIN buf[r] = 1..Len(buf[r])
    BY <1>2, <1>6
  <2>1. Wrote(c) => Wrote(c)'
    BY <1>3, <1>6, <1>7, <2>0 DEF Wrote
  <2>2. InBuf(r, c) => Wrote(c)'
    BY <1>8, <2>0 DEF Wrote, InBuf
  <2>3. ASSUME Wrote(c)', ~Wrote(c) PROVE InBuf(r, c)
    <3>1. PICK i \in 1..Len(written') : written'[i].char = c
      BY <2>0, <2>3 DEF Wrote
    <3>2. i > Len(written)
      BY <1>3, <1>6, <1>7, <2>0, <2>3, <3>1 DEF Wrote
    <3>3. PICK k \in 1..Len(buf[r]) : Len(written) + k = i
      BY <1>9, <3>2
    <3> QED
      BY <1>8, <2>0, <3>1, <3>3 DEF InBuf
  <2> QED
    BY <2>1, <2>2, <2>3
<1> QED
  BY <1>1, <1>6, <1>7, <1>8, <1>10, <1>11, <1>12 DEF C

-----------------------------------------------------------------------------
(* The console: output                                                     *)

\* A runner has a chunk exactly while it writes it; a chunk is in order, no character
\* is in two chunks, and all that was taken from put_fifo and is in no chunk has left.
Filled == \A r \in Runners : at[r] = "write" <=> buf[r] # <<>>
Chunks ==
  /\ \A r \in Runners : \A c \in Nat : InBuf(r, c) => c \in 1..Base
  /\ \A r \in Runners : \A i, j \in DOMAIN buf[r] : i < j => buf[r][i] < buf[r][j]
  /\ \A r, q \in Runners : \A c \in Nat : InBuf(r, c) /\ InBuf(q, c) => r = q
Gone ==
  /\ \A c \in Nat : Wrote(c) \/ c \in lost => c \in 1..Base /\ \A r \in Runners : ~InBuf(r, c)
  /\ \A c \in 1..Base : Wrote(c) \/ c \in lost \/ \E r \in Runners : InBuf(r, c)

\* Nothing is written twice, and in order as long as one runner was at it at a time.
WrittenOnce == \A i, j \in DOMAIN written : i < j => written[i].char # written[j].char
InTurn ==
  /\ \A i, j \in DOMAIN written : i < j => written[i].char < written[j].char
  /\ \A r, q \in Runners : at[r] # "idle" /\ at[q] # "idle" => r = q
  /\ \A r \in Runners : \A c, d \in Nat : Wrote(c) /\ InBuf(r, d) => c < d

OutInv == Queued /\ Filled /\ Chunks /\ Gone /\ WrittenOnce /\ (overlap \/ InTurn)

LEMMA BufTypes ==
  ASSUME OutType
  PROVE  /\ \A r \in Runners : \A c : InBuf(r, c) => c \in Nat
         /\ \A c : Wrote(c) => c \in Nat
         /\ \A r \in Runners : buf[r] = <<>> => \A c : ~InBuf(r, c)
<1>1. ASSUME NEW r \in Runners PROVE /\ \A c : InBuf(r, c) => c \in Nat
                                     /\ buf[r] = <<>> => \A c : ~InBuf(r, c)
  <2>1. buf[r] \in Seq(Nat)
    BY DEF OutType
  <2> QED
    BY <2>1 DEF InBuf
<1>2. ASSUME NEW c, Wrote(c) PROVE c \in Nat
  <2>1. written \in Seq([char : Nat, name : Names])
    BY DEF OutType
  <2>2. PICK i \in DOMAIN written : written[i].char = c
    BY <1>2 DEF Wrote
  <2>3. written[i] \in [char : Nat, name : Names]
    BY <2>1, <2>2, LenProperties, ElementOfSeq
  <2> QED
    BY <2>2, <2>3
<1> QED
  BY <1>1, <1>2

LEMMA KeptBuf ==
  ASSUME NEW r, buf'[r] = buf[r]
  PROVE  \A c : InBuf(r, c)' <=> InBuf(r, c)
  BY DEF InBuf

LEMMA PutOut == ASSUME OutType, OutInv, NEW count \in 1..2, PutChars(count) PROVE OutType' /\ OutInv'
<1>1. UNCHANGED <<at, to, buf, written, lost, overlap>>
  BY DEF PutChars
<1>2. PICK n \in Nat : put' \in Seq(Nat) /\ accepted' = accepted + n /\ Base' = Base /\ Queued'
  BY PutEffect DEF OutInv
<1>3. OutType'
  BY <1>1, <1>2 DEF OutType
<1>4. (\A r, c : InBuf(r, c)' <=> InBuf(r, c)) /\ (\A c : Wrote(c)' <=> Wrote(c))
  BY <1>1 DEF InBuf, Wrote
<1>5. Filled' /\ Chunks' /\ Gone'
  BY <1>1, <1>2, <1>4 DEF OutInv, Filled, Chunks, Gone
<1>6. WrittenOnce' /\ (overlap \/ InTurn)'
  BY <1>1, <1>4 DEF OutInv, WrittenOnce, InTurn
<1> QED
  BY <1>2, <1>3, <1>5, <1>6 DEF OutInv

\* Runner r begins or ends, with no chunk at hand.
LEMMA TurnOut ==
  ASSUME OutType, OutInv, UNCHANGED <<put, accepted, buf, written, lost>>, NEW r \in Runners, at[r] # "write",
         to' \in [Runners -> 0..NumVmids],
         \/ at' = [at EXCEPT ![r] = "idle"] /\ UNCHANGED overlap
         \/ /\ at' = [at EXCEPT ![r] = "out"] \/ UNCHANGED at
            /\ overlap' = (overlap \/ \E q \in Runners \ {r} : at[q] # "idle")
  PROVE  OutType' /\ OutInv'
<1>1. /\ \A q \in Runners : q # r => at'[q] = at[q]
      /\ at'[r] # "write" /\ at' \in [Runners -> {"idle", "out", "write"}]
  BY DEF OutType
<1>2. OutType'
  BY <1>1 DEF OutType
<1>3. (\A q, c : InBuf(q, c)' <=> InBuf(q, c)) /\ (\A c : Wrote(c)' <=> Wrote(c)) /\ Base' = Base
  BY DEF InBuf, Wrote, Base
<1>4. Queued' /\ Chunks' /\ Gone' /\ WrittenOnce'
  BY <1>3 DEF OutInv, Queued, Chunks, Gone, WrittenOnce
<1>5. Filled'
  BY <1>1 DEF OutInv, Filled
<1>6. ASSUME ~overlap' PROVE InTurn'
  <2>0. ~overlap
    BY <1>6
  <2>1. InTurn
    BY <2>0 DEF OutInv
  <2>2. \A p, q \in Runners : at'[p] # "idle" /\ at'[q] # "idle" => p = q
    <3>1. CASE at' = [at EXCEPT ![r] = "idle"]
      BY <1>1, <2>1, <3>1 DEF InTurn, OutType
    <3>2. CASE at' # [at EXCEPT ![r] = "idle"]
      <4>1. \A q \in Runners : q # r => at[q] = "idle"
        BY <1>6, <3>2
      <4> QED
        BY <1>1, <4>1
    <3> QED
      BY <3>1, <3>2
  <2> QED
    BY <1>3, <2>1, <2>2 DEF InTurn
<1> QED
  BY <1>2, <1>4, <1>5, <1>6 DEF OutInv

LEMMA TakeOut == ASSUME OutType, OutInv, NEW r \in Runners, TakeChunk(r) PROVE OutType' /\ OutInv'
<1>0. at[r] = "out" /\ UNCHANGED <<accepted, written, lost, overlap>>
  BY DEF TakeChunk
<1>1. CASE put = <<>>
  <2>1. at' = [at EXCEPT ![r] = "idle"] /\ to' = [to EXCEPT ![r] = INVAL] /\ UNCHANGED <<put, buf>>
    BY <1>1 DEF TakeChunk
  <2>2. to' \in [Runners -> 0..NumVmids]
    BY <2>1, TableConstants DEF OutType
  <2> QED
    BY <1>0, <2>1, <2>2, TurnOut
<1>2. CASE put # <<>>
  <2>1. at' = [at EXCEPT ![r] = "write"] /\ UNCHANGED to
    BY <1>2 DEF TakeChunk
  <2>2. PICK n \in Nat \ {0} :
           /\ put' \in Seq(Nat) /\ Queued' /\ Base' = Base + n /\ Base \in Nat
           /\ buf' \in [Runners -> Seq(Nat)] /\ buf'[r] # <<>> /\ \A q \in Runners : q # r => buf'[q] = buf[q]
           /\ \A c : InBuf(r, c)' <=> c \in (Base + 1)..(Base + n)
           /\ \A i \in DOMAIN buf'[r] : buf'[r][i] = Base + i
    BY <1>2, TakeEffect DEF OutInv
  <2>a. \A c : c \in 1..Base' <=> c \in 1..Base \/ c \in (Base + 1)..(Base + n)
    BY <2>2
  <2>b. \A c \in 1..Base : c \notin (Base + 1)..(Base + n)
    BY <2>2
  <2>c. Chunks /\ Gone
    BY DEF OutInv
  <2>d. \A c : InBuf(r, c)' <=> c \in (Base + 1)..(Base + n)
    BY <2>2
  <2>3. OutType'
    BY <1>0, <2>1, <2>2 DEF OutType
  <2>4. /\ \A c : Wrote(c)' <=> Wrote(c)
        /\ \A q \in Runners : q # r => \A c : InBuf(q, c)' <=> InBuf(q, c)
        /\ \A c : ~InBuf(r, c)
    <3>1. buf[r] = <<>>
      BY <1>0 DEF OutInv, Filled
    <3> QED
      BY <1>0, <2>2, <3>1, KeptBuf, BufTypes DEF Wrote
  <2>5. Filled'
    BY <2>1, <2>2 DEF OutInv, Filled, OutType
  <2>6. Chunks'
    <3>1. ASSUME NEW q \in Runners, NEW c \in Nat, InBuf(q, c)' PROVE c \in 1..Base'
      BY <2>a, <2>c, <2>d, <2>4, <3>1, Zenon DEF Chunks
    <3>2. ASSUME NEW q \in Runners, NEW i \in DOMAIN buf'[q], NEW j \in DOMAIN buf'[q], i < j
          PROVE  buf'[q][i] < buf'[q][j]
      <4>1. CASE q = r
        <5>1. i \in Nat /\ j \in Nat
          BY <2>2, <4>1
        <5> QED
          BY <2>2, <3>2, <4>1, <5>1
      <4>2. CASE q # r
        BY <2>2, <3>2, <4>2 DEF OutInv, Chunks
      <4> QED
        BY <4>1, <4>2
    <3>3. ASSUME NEW p \in Runners, NEW q \in Runners, NEW c \in Nat, InBuf(p, c)', InBuf(q, c)' PROVE p = q
      <4>1. CASE p # r /\ q # r
        BY <2>c, <2>4, <3>3, <4>1 DEF Chunks
      <4>2. CASE p = r /\ q # r
        <5>1. c \in 1..Base /\ c \in (Base + 1)..(Base + n)
          BY <2>c, <2>d, <2>4, <3>3, <4>2 DEF Chunks
        <5> QED
          BY <2>b, <5>1
      <4>3. CASE p # r /\ q = r
        <5>1. c \in 1..Base /\ c \in (Base + 1)..(Base + n)
          BY <2>c, <2>d, <2>4, <3>3, <4>3 DEF Chunks
        <5> QED
          BY <2>b, <5>1
      <4> QED
        BY <4>1, <4>2, <4>3
    <3> QED
      BY <3>1, <3>2, <3>3 DEF Chunks
  <2>7. Gone'
    <3>1. ASSUME NEW c \in Nat, Wrote(c) \/ c \in lost PROVE c \in 1..Base' /\ \A q \in Runners : ~InBuf(q, c)'
      <4>1. c \in 1..Base /\ \A q \in Runners : ~InBuf(q, c)
        BY <2>c, <3>1 DEF Gone
      <4> QED
        BY <2>a, <2>b, <2>d, <2>4, <4>1, Zenon
    <3>2. ASSUME NEW c \in 1..Base' PROVE Wrote(c) \/ c \in lost \/ \E q \in Runners : InBuf(q, c)'
      <4>1. CASE c \in 1..Base
        <5>1. Wrote(c) \/ c \in lost \/ \E q \in Runners : InBuf(q, c)
          BY <2>c, <4>1 DEF Gone
        <5> QED
          BY <2>4, <5>1
      <4>2. CASE c \in (Base + 1)..(Base + n)
        BY <2>d, <4>2
      <4> QED
        BY <2>a, <3>2, <4>1, <4>2
    <3> QED
      BY <1>0, <2>4, <3>1, <3>2 DEF Gone
  <2>8. WrittenOnce'
    BY <1>0 DEF OutInv, WrittenOnce
  <2>9. ASSUME ~overlap' PROVE InTurn'
    <3>1. InTurn
      BY <1>0, <2>9 DEF OutInv
    <3>2. \A p, q \in Runners : at'[p] # "idle" /\ at'[q] # "idle" => p = q
      BY <1>0, <2>1, <3>1 DEF InTurn, OutType
    <3>3. ASSUME NEW q \in Runners, NEW c \in Nat, NEW d \in Nat, Wrote(c), InBuf(q, d)' PROVE c < d
      <4>1. c \in 1..Base
        BY <2>c, <3>3 DEF Gone
      <4>2. CASE q = r
        <5>1. d \in (Base + 1)..(Base + n)
          BY <2>d, <3>3, <4>2
        <5> QED
          BY <2>2, <4>1, <5>1
      <4>3. CASE q # r
        BY <2>4, <3>1, <3>3, <4>3 DEF InTurn
      <4> QED
        BY <4>2, <4>3
    <3> QED
      BY <1>0, <2>4, <3>1, <3>2, <3>3 DEF InTurn
  <2> QED
    BY <2>2, <2>3, <2>5, <2>6, <2>7, <2>8, <2>9 DEF OutInv
<1> QED
  BY <1>1, <1>2

LEMMA WriteOut ==
  ASSUME OutType, TableType, OutInv, NEW r \in Runners, WriteDone(r)
  PROVE  OutType' /\ OutInv'
<1>0. at[r] = "write" /\ at' = [at EXCEPT ![r] = "out"] /\ UNCHANGED <<put, accepted, to, lost, overlap>>
  BY DEF WriteDone
<1>1. /\ written' \in Seq([char : Nat, name : Names]) /\ Len(written') = Len(written) + Len(buf[r])
      /\ \A i \in 1..Len(written) : written'[i] = written[i]
      /\ \A i \in 1..Len(buf[r]) : written'[Len(written) + i].char = buf[r][i]
      /\ buf' \in [Runners -> Seq(Nat)] /\ buf'[r] = <<>> /\ \A q \in Runners : q # r => buf'[q] = buf[q]
      /\ \A c : Wrote(c)' <=> Wrote(c) \/ InBuf(r, c)
  BY WriteEffect
<1>2. OutType'
  BY <1>0, <1>1 DEF OutType
<1>3. /\ Base' = Base /\ Queued'
  BY <1>0 DEF Base, OutInv, Queued
<1>4. /\ \A q \in Runners : q # r => \A c : InBuf(q, c)' <=> InBuf(q, c)
      /\ \A c : ~InBuf(r, c)'
      /\ \A q \in Runners : \A c : InBuf(q, c) => c \in Nat
  BY <1>1, KeptBuf, BufTypes DEF InBuf
<1>5. Filled'
  BY <1>0, <1>1 DEF OutInv, Filled, OutType
<1>6. Chunks'
  <2>1. ASSUME NEW q \in Runners, NEW i \in DOMAIN buf'[q], NEW j \in DOMAIN buf'[q], i < j
        PROVE  buf'[q][i] < buf'[q][j]
    <3>1. q # r
      <4>1. DOMAIN <<>> = {}
        OBVIOUS
      <4> QED
        BY <1>1, <2>1, <4>1
    <3>2. buf'[q] = buf[q]
      BY <1>1, <3>1
    <3> QED
      BY <2>1, <3>2 DEF OutInv, Chunks
  <2> QED
    BY <1>3, <1>4, <2>1 DEF OutInv, Chunks
<1>7. Gone'
  <2>1. ASSUME NEW c \in Nat, Wrote(c)' \/ c \in lost PROVE c \in 1..Base /\ \A q \in Runners : ~InBuf(q, c)'
    BY <1>1, <1>4, <2>1 DEF OutInv, Gone, Chunks
  <2>2. ASSUME NEW c \in 1..Base PROVE Wrote(c)' \/ c \in lost \/ \E q \in Runners : InBuf(q, c)'
    BY <1>1, <1>4 DEF OutInv, Gone
  <2> QED
    BY <1>0, <1>3, <2>1, <2>2 DEF Gone
<1>8. /\ DOMAIN written = 1..Len(written) /\ DOMAIN written' = 1..Len(written') /\ DOMAIN buf[r] = 1..Len(buf[r])
      /\ Len(written) \in Nat /\ Len(buf[r]) \in Nat
  BY <1>1 DEF OutType
<1>9. ASSUME NEW i \in DOMAIN written', NEW j \in DOMAIN written', i < j
      PROVE  /\ written'[i].char # written'[j].char
             /\ ~overlap => written'[i].char < written'[j].char
  <2>1. CASE j <= Len(written)
    <3>1. i \in DOMAIN written /\ j \in DOMAIN written /\ written'[i] = written[i] /\ written'[j] = written[j]
      BY <1>1, <1>8, <1>9, <2>1
    <3> QED
      BY <1>9, <3>1 DEF OutInv, WrittenOnce, InTurn
  <2>2. CASE j > Len(written)
    <3>1. PICK l \in 1..Len(buf[r]) : Len(written) + l = j
      <4>1. j \in 1..(Len(written) + Len(buf[r]))
        BY <1>1, <1>8
      <4> QED
        BY <1>8, <2>2, <4>1, Offset
    <3>2. written'[j].char = buf[r][l] /\ InBuf(r, buf[r][l])
      BY <1>1, <1>8, <3>1 DEF InBuf
    <3>3. CASE i <= Len(written)
      <4>1. i \in DOMAIN written /\ written'[i] = written[i]
        BY <1>1, <1>8, <1>9, <3>3
      <4>2. Wrote(written[i].char) /\ written[i].char \in Nat /\ buf[r][l] \in Nat
        BY <1>4, <3>2, <4>1, BufTypes DEF Wrote
      <4> QED
        BY <3>2, <4>1, <4>2 DEF OutInv, Gone, InTurn
    <3>4. CASE i > Len(written)
      <4>1. PICK k \in 1..Len(buf[r]) : Len(written) + k = i
        <5>1. i \in 1..(Len(written) + Len(buf[r]))
          BY <1>1, <1>8
        <5> QED
          BY <1>8, <3>4, <5>1, Offset
      <4>a. k < l
        <5>1. k \in Nat /\ l \in Nat
          BY <1>8, <3>1, <4>1
        <5> QED
          BY <1>8, <1>9, <3>1, <4>1, <5>1
      <4>2. k < l /\ written'[i].char = buf[r][k]
        BY <1>1, <4>1, <4>a
      <4>3. buf[r][k] < buf[r][l] /\ buf[r][k] \in Nat /\ buf[r][l] \in Nat
        BY <1>4, <1>8, <4>2 DEF OutInv, Chunks, InBuf
      <4> QED
        BY <3>2, <4>2, <4>3
    <3> QED
      BY <1>8, <1>9, <3>3, <3>4
  <2> QED
    BY <1>8, <1>9, <2>1, <2>2
<1>10. ASSUME ~overlap' PROVE InTurn'
  <2>1. ~overlap /\ InTurn
    BY <1>0, <1>10 DEF OutInv
  <2>2. \A p, q \in Runners : at'[p] # "idle" /\ at'[q] # "idle" => p = q
    BY <1>0, <2>1 DEF InTurn, OutType
  <2>3. \A q \in Runners : \A c : ~InBuf(q, c)'
    <3>1. \A q \in Runners : q # r => at[q] = "idle"
      BY <1>0, <2>1 DEF InTurn
    <3>2. \A q \in Runners : q # r => buf[q] = <<>>
      BY <3>1 DEF OutInv, Filled
    <3> QED
      BY <1>4, <3>2, BufTypes
  <2> QED
    BY <1>9, <2>1, <2>2, <2>3 DEF InTurn
<1> QED
  BY <1>2, <1>3, <1>5, <1>6, <1>7, <1>9, <1>10 DEF OutInv, WrittenOnce

LEMMA FailOut == ASSUME OutType, OutInv, NEW r \in Runners, WriteFails(r) PROVE OutType' /\ OutInv' /\ lost' # {}
<1>0. /\ at[r] = "write" /\ at' = [at EXCEPT ![r] = "idle"] /\ to' = [to EXCEPT ![r] = INVAL]
      /\ lost' = lost \cup ToSet(buf[r]) /\ buf' = [buf EXCEPT ![r] = <<>>]
      /\ UNCHANGED <<put, accepted, written, overlap>>
  BY DEF WriteFails
<1>1. buf' \in [Runners -> Seq(Nat)] /\ buf'[r] = <<>> /\ \A q \in Runners : q # r => buf'[q] = buf[q]
  BY <1>0, EmptySeq DEF OutType
<1>2. /\ \A q \in Runners : q # r => \A c : InBuf(q, c)' <=> InBuf(q, c)
      /\ \A c : ~InBuf(r, c)'
      /\ \A q \in Runners : \A c : InBuf(q, c) => c \in Nat
      /\ \A c : Wrote(c)' <=> Wrote(c)
  BY <1>0, <1>1, KeptBuf, BufTypes DEF InBuf, Wrote
<1>3. \A c : c \in lost' <=> c \in lost \/ InBuf(r, c)
  BY <1>0 DEF ToSet, InBuf
<1>4. OutType'
  <2>1. to' \in [Runners -> 0..NumVmids] /\ at' \in [Runners -> {"idle", "out", "write"}]
    BY <1>0, TableConstants DEF OutType
  <2>2. lost' \subseteq Nat
    BY <1>2, <1>3 DEF OutType
  <2> QED
    BY <1>0, <1>1, <2>1, <2>2 DEF OutType
<1>5. Base' = Base /\ Queued'
  BY <1>0 DEF Base, OutInv, Queued
<1>6. Filled'
  BY <1>0, <1>1 DEF OutInv, Filled, OutType
<1>7. Chunks'
  <2>1. ASSUME NEW q \in Runners, NEW i \in DOMAIN buf'[q], NEW j \in DOMAIN buf'[q], i < j
        PROVE  buf'[q][i] < buf'[q][j]
    <3>1. q # r
      <4>1. DOMAIN <<>> = {}
        OBVIOUS
      <4> QED
        BY <1>1, <2>1, <4>1
    <3>2. buf'[q] = buf[q]
      BY <1>1, <3>1
    <3> QED
      BY <2>1, <3>2 DEF OutInv, Chunks
  <2> QED
    BY <1>2, <1>5, <2>1 DEF OutInv, Chunks
<1>8. Gone'
  <2>1. ASSUME NEW c \in Nat, Wrote(c) \/ c \in lost' PROVE c \in 1..Base /\ \A q \in Runners : ~InBuf(q, c)'
    BY <1>2, <1>3, <2>1 DEF OutInv, Gone, Chunks
  <2>2. ASSUME NEW c \in 1..Base PROVE Wrote(c) \/ c \in lost' \/ \E q \in Runners : InBuf(q, c)'
    BY <1>2, <1>3 DEF OutInv, Gone
  <2> QED
    BY <1>2, <1>5, <2>1, <2>2 DEF Gone
<1>9. WrittenOnce'
  BY <1>0 DEF OutInv, WrittenOnce
<1>10. ASSUME ~overlap' PROVE InTurn'
  <2>1. InTurn
    BY <1>0, <1>10 DEF OutInv
  <2>2. \A p, q \in Runners : at'[p] # "idle" /\ at'[q] # "idle" => p = q
    BY <1>0, <2>1 DEF InTurn, OutType
  <2> QED
    BY <1>0, <1>2, <2>1, <2>2 DEF InTurn
<1>11. lost' # {}
  <2>1. buf[r] # <<>> /\ buf[r] \in Seq(Nat)
    BY <1>0 DEF OutInv, Filled, OutType
  <2>2. InBuf(r, buf[r][1])
    BY <2>1, EmptySeq, LenProperties DEF InBuf
  <2> QED
    BY <1>3, <2>2
<1> QED
  BY <1>4, <1>5, <1>6, <1>7, <1>8, <1>9, <1>10, <1>11 DEF OutInv

\* Nothing of the output moves.
LEMMA KeptOut ==
  ASSUME OutType, OutInv, UNCHANGED <<put, accepted, at, to, buf, written, lost, overlap>>
  PROVE  OutType' /\ OutInv'
<1>1. OutType' /\ Base' = Base /\ Queued' /\ Filled' /\ WrittenOnce'
  BY DEF OutType, Base, OutInv, Queued, Filled, WrittenOnce
<1>2. (\A q, c : InBuf(q, c)' <=> InBuf(q, c)) /\ (\A c : Wrote(c)' <=> Wrote(c))
  BY DEF InBuf, Wrote
<1>3. Chunks' /\ Gone'
  BY <1>1, <1>2 DEF OutInv, Chunks, Gone
<1>4. ASSUME ~overlap' PROVE InTurn'
  <2>1. InTurn
    BY <1>4 DEF OutInv
  <2> QED
    BY <1>2, <2>1 DEF InTurn
<1> QED
  BY <1>1, <1>3, <1>4 DEF OutInv

LEMMA BeginOut ==
  ASSUME TableType, OutType, OutInv, UNCHANGED <<put, accepted, buf, written, lost>>, NEW r \in Runners, Begin(r)
  PROVE  OutType' /\ OutInv'
<1>1. at[r] = "idle" /\ overlap' = (overlap \/ \E q \in Runners \ {r} : at[q] # "idle")
  BY DEF Begin
<1>2. \/ UNCHANGED <<at, to>>
      \/ at' = [at EXCEPT ![r] = "out"] /\ to' = [to EXCEPT ![r] = row[Con]]
  BY DEF Begin, GetVmid
<1>3. to' \in [Runners -> 0..NumVmids]
  <2>1. row[Con] \in 0..NumVmids /\ to \in [Runners -> 0..NumVmids]
    BY TableConstants, TableAssumption DEF TableType, OutType, Con, Names
  <2> QED
    BY <1>2, <2>1
<1>4. at' = [at EXCEPT ![r] = "out"] \/ UNCHANGED at
  BY <1>2
<1>5. at[r] # "write"
  BY <1>1
<1> QED
  BY <1>1, <1>3, <1>4, <1>5, TurnOut

LEMMA OutStep == ASSUME TableType, OutType, OutInv, [HvcNext]_hvcVars PROVE OutType' /\ OutInv'
<1>1. ASSUME NEW count \in 1..2, PutChars(count) PROVE OutType' /\ OutInv'
  BY <1>1, PutOut
<1>2. CASE WorkBegins
  <2>1. Begin("work") /\ UNCHANGED <<put, accepted, buf, written, lost>>
    BY <1>2 DEF WorkBegins
  <2> QED
    BY <2>1, BeginOut DEF Runners
<1>3. ASSUME NEW r \in Runners, TakeChunk(r) \/ WriteDone(r) \/ WriteFails(r) PROVE OutType' /\ OutInv'
  BY <1>3, TakeOut, WriteOut, FailOut
<1>4. CASE CancelDone
  <2>1. UNCHANGED <<put, accepted, buf, written, lost>>
    BY <1>4 DEF CancelDone
  <2>2. CASE Begin("flush")
    BY <2>1, <2>2, BeginOut DEF Runners
  <2>3. CASE UNCHANGED <<at, to, overlap>>
    BY <2>1, <2>3, KeptOut
  <2> QED
    BY <1>4, <2>2, <2>3 DEF CancelDone
<1>5. CASE \/ Flush \/ NotifyDel \/ CancelWork \/ FlushFnDone \/ ConsoleFlush \/ ConsoleClose \/ NotifyAdd
           \/ (\E v \in Vms : CharsFrom(v)) \/ NotifyConsoleChars \/ GetChars \/ Table \/ UNCHANGED hvcVars
  <2>1. UNCHANGED <<put, accepted, at, to, buf, written, lost, overlap>>
    BY <1>5 DEF Flush, NotifyDel, CancelWork, FlushFnDone, ConsoleFlush, ConsoleClose, NotifyAdd, CharsFrom,
                NotifyConsoleChars, GetChars, Table, hvcVars, consoleVars, outVars
  <2> QED
    BY <2>1, KeptOut
<1> QED
  BY <1>1, <1>2, <1>3, <1>4, <1>5 DEF HvcNext

LEMMA TableKept ==
  ASSUME TableInv,
         UNCHANGED <<primary, row, info, nameOf, vmid, reused, pc, oldId, unlisted, coreInit, probe, ready>>
  PROVE  TableInv'
<1>1. TableType' /\ Ids' /\ Sides'
  BY DEF TableInv, TableType, Ids, Sides
<1>2. \A v, x : Has(v, x)' <=> Has(v, x)
  BY DEF Has
<1>3. RowsOk => RowsOk'
  BY <1>2 DEF RowsOk, Apart, Single, Named, Backed, UpListed
<1> QED
  BY <1>1, <1>3 DEF TableInv

LEMMA TableHvc == ASSUME TableInv, [HvcNext]_hvcVars PROVE TableInv'
<1>1. CASE Table
  BY <1>1, TableStep DEF Table
<1>2. CASE ~Table
  <2>1. UNCHANGED <<primary, row, info, nameOf, vmid, reused, pc, oldId, unlisted, coreInit, probe, ready>>
    BY <1>2 DEF HvcNext, hvcVars, tableVars, rowVars, vmVars, svmVars, PutChars, WorkBegins, TakeChunk, WriteDone,
                WriteFails, Flush, NotifyDel, CancelWork, CancelDone, FlushFnDone, ConsoleFlush, ConsoleClose,
                NotifyAdd, CharsFrom, NotifyConsoleChars, GetChars
  <2> QED
    BY <2>1, TableKept
<1> QED
  BY <1>1, <1>2

-----------------------------------------------------------------------------
(* The console: flush and close                                            *)

\* What is in put_fifo is somebody's to send; a flush that has cancelled the work item
\* and not been overtaken by more output is alone, and leaves put_fifo empty.
Busy(r) == at[r] # "idle"
Pump == ~stranded /\ put # <<>> => pending \/ (\E r \in Runners : Busy(r)) \/ (Cancelling /\ fl.took)
Past == fl.pc \in {"fn", "rpc"} /\ accepted = fl.upto
Flushing ==
  /\ Cancelling => ~pending
  /\ Busy("flush") => fl.pc = "fn"
  /\ fl.upto <= accepted
  /\ Past => ~pending /\ ~Busy("work")
  /\ Past /\ ~Busy("flush") => put = <<>> \/ lost # {} \/ stranded

FlushInv == FlushType /\ Pump /\ Flushing

LEMMA PutFlush ==
  ASSUME OutType, OutInv, FlushInv, NEW count \in 1..2, PutChars(count)
  PROVE  FlushInv'
<1>1. UNCHANGED <<at, lost, fl>>
  BY DEF PutChars
<1>2. PICK n \in Nat : /\ accepted' = accepted + n
                       /\ n = 0 => UNCHANGED <<put, pending, stranded>>
                       /\ n > 0 => pending' = Scheduled /\ stranded' = (Cancelling /\ ~fl.took)
  BY PutEffect DEF OutInv
<1>3. FlushType' /\ accepted \in Nat /\ fl.upto \in Nat /\ fl.upto <= accepted
  BY <1>1 DEF FlushInv, FlushType, Flushing, OutType
<1>4. CASE n = 0
  <2>1. accepted' = accepted /\ UNCHANGED <<put, pending, stranded>>
    BY <1>2, <1>3, <1>4
  <2> QED
    BY <1>1, <1>3, <2>1 DEF FlushInv, Pump, Flushing, Past, Busy, Cancelling
<1>5. CASE n > 0
  <2>1. fl'.upto < accepted' /\ fl'.upto <= accepted' /\ ~Past'
    BY <1>1, <1>2, <1>3, <1>5 DEF Past
  <2>2. pending' = Scheduled /\ stranded' = (Cancelling /\ ~fl.took)
    BY <1>2, <1>5
  <2>3. Pump'
    BY <1>1, <2>2 DEF Pump, Scheduled, Cancelling, Busy
  <2>4. (Cancelling => ~pending)' /\ (Busy("flush") => fl.pc = "fn")'
    BY <1>1, <2>2 DEF FlushInv, Flushing, Scheduled, Cancelling, Busy
  <2> QED
    BY <1>3, <2>1, <2>3, <2>4 DEF FlushInv, Flushing
<1> QED
  BY <1>2, <1>4, <1>5

LEMMA WorkFlush ==
  ASSUME OutType, FlushInv, WorkBegins
  PROVE  FlushInv'
<1>1. UNCHANGED <<put, accepted, lost, fl>> /\ pending /\ pending' = FALSE /\ Begin("work")
  BY DEF WorkBegins
<1>2. FlushType' /\ ~Past /\ ~Past'
  BY <1>1 DEF FlushInv, FlushType, Flushing, Past
<1>3. \/ UNCHANGED at /\ stranded' = (stranded \/ put # <<>>)
      \/ at' = [at EXCEPT !["work"] = "out"] /\ UNCHANGED stranded
  BY <1>1 DEF Begin
<1>4. at'["flush"] = at["flush"]
  BY <1>3 DEF OutType, Runners
<1>5. Flushing'
  BY <1>1, <1>2, <1>4 DEF FlushInv, Flushing, Cancelling, Busy
<1>6. Pump'
  <2>1. CASE UNCHANGED at /\ stranded' = (stranded \/ put # <<>>)
    BY <1>1, <2>1 DEF Pump
  <2>2. CASE at' = [at EXCEPT !["work"] = "out"]
    <3>1. at'["work"] = "out" /\ "work" \in Runners
      BY <2>2 DEF OutType, Runners
    <3> QED
      BY <3>1 DEF Pump, Busy
  <2> QED
    BY <1>3, <2>1, <2>2
<1> QED
  BY <1>2, <1>5, <1>6 DEF FlushInv

LEMMA TakeFlush ==
  ASSUME OutType, FlushInv, NEW r \in Runners, TakeChunk(r)
  PROVE  FlushInv'
<1>1. UNCHANGED <<accepted, pending, lost, stranded, fl>> /\ at[r] = "out"
  BY DEF TakeChunk
<1>2. FlushType'
  BY <1>1 DEF FlushInv, FlushType
<1>3. \A q \in Runners : q # r => at'[q] = at[q]
  BY DEF TakeChunk, OutType
<1>4. \/ put = <<>> /\ put' = <<>> /\ at'[r] = "idle"
      \/ at'[r] = "write"
  BY DEF TakeChunk, OutType
<1>5. Busy(r) /\ (\A q \in Runners : Busy(q)' => Busy(q)) /\ {"work", "flush"} = Runners
  BY <1>1, <1>3 DEF Busy, Runners
<1>6. Pump'
  BY <1>4 DEF Pump, Busy
<1>7. (Past /\ ~Busy("flush") => put = <<>> \/ lost # {} \/ stranded)'
  <2>1. SUFFICES ASSUME Past, ~Busy("flush")' PROVE put' = <<>>
    BY <1>1 DEF Past
  <2>2. r = "flush"
    BY <1>5, <2>1 DEF FlushInv, Flushing
  <2> QED
    BY <1>4, <2>1, <2>2 DEF Busy
<1>8. Flushing'
  BY <1>1, <1>5, <1>7 DEF FlushInv, Flushing, Past, Cancelling
<1> QED
  BY <1>2, <1>6, <1>8 DEF FlushInv

LEMMA WriteFlush ==
  ASSUME OutType, FlushInv, NEW r \in Runners, WriteDone(r)
  PROVE  FlushInv'
<1>1. UNCHANGED <<put, accepted, pending, lost, stranded, fl>> /\ at[r] = "write"
  BY DEF WriteDone
<1>2. FlushType'
  BY <1>1 DEF FlushInv, FlushType
<1>3. (\A q \in Runners : q # r => at'[q] = at[q]) /\ at'[r] = "out"
  BY DEF WriteDone, OutType
<1>4. (\A q \in Runners : Busy(q)' <=> Busy(q)) /\ {"work", "flush"} = Runners
  BY <1>1, <1>3 DEF Busy, Runners
<1> QED
  BY <1>1, <1>2, <1>4 DEF FlushInv, Pump, Flushing, Past, Cancelling

LEMMA FailFlush ==
  ASSUME OutType, OutInv, FlushInv, NEW r \in Runners, WriteFails(r)
  PROVE  FlushInv'
<1>1. /\ UNCHANGED <<put, accepted, pending, fl>> /\ at[r] = "write" /\ lost' # {}
      /\ stranded' = (stranded \/ (put # <<>> /\ ~pending))
  BY FailOut DEF WriteFails
<1>2. FlushType'
  BY <1>1 DEF FlushInv, FlushType
<1>3. \A q \in Runners : q # r => at'[q] = at[q]
  BY DEF WriteFails, OutType
<1>4. Busy(r) /\ (\A q \in Runners : Busy(q)' => Busy(q)) /\ {"work", "flush"} = Runners
  BY <1>1, <1>3 DEF Busy, Runners
<1>5. Pump'
  BY <1>1 DEF Pump
<1>6. Flushing'
  BY <1>1, <1>4 DEF FlushInv, Flushing, Past, Cancelling
<1> QED
  BY <1>2, <1>5, <1>6 DEF FlushInv

LEMMA CancelFlush ==
  ASSUME OutType, FlushInv, CancelWork \/ CancelDone \/ FlushFnDone
  PROVE  FlushInv'
<1>1. UNCHANGED <<put, accepted, lost>> /\ fl'.upto = fl.upto
  BY DEF CancelWork, CancelDone, FlushFnDone, outVars, FlushInv, FlushType
<1>2. CASE CancelWork
  <2>1. /\ fl' = [fl EXCEPT !.pc = "wait", !.took = pending] /\ pending' = FALSE
        /\ UNCHANGED <<at, stranded>> /\ fl.pc = "cancel"
    BY <1>2 DEF CancelWork
  <2>2. FlushType' /\ fl'.pc = "wait" /\ fl'.took = pending
    BY <2>1 DEF FlushInv, FlushType
  <2> QED
    BY <1>1, <2>1, <2>2 DEF FlushInv, Pump, Flushing, Past, Cancelling, Busy
<1>3. CASE CancelDone
  <2>1. fl.pc = "wait" /\ at["work"] = "idle" /\ UNCHANGED pending /\ ~pending
    BY <1>3 DEF CancelDone, CancelSync, Cancelling, FlushInv, Flushing
  <2>2. at["flush"] = "idle"
    BY <2>1 DEF FlushInv, Flushing, Busy
  <2>3. ASSUME fl.took, GetVmidFails PROVE FlushInv'
    <3>1. fl' = [fl EXCEPT !.pc = "rpc"] /\ stranded' = (stranded \/ put # <<>>) /\ UNCHANGED at
      BY <1>3, <2>3 DEF CancelDone, Drains, Begin
    <3>2. FlushType' /\ fl'.pc = "rpc"
      BY <3>1 DEF FlushInv, FlushType
    <3> QED
      BY <1>1, <2>1, <2>2, <3>1, <3>2 DEF FlushInv, Pump, Flushing, Past, Cancelling, Busy
  <2>4. ASSUME fl.took, ~GetVmidFails PROVE FlushInv'
    <3>1. fl' = [fl EXCEPT !.pc = "fn"] /\ UNCHANGED stranded /\ at' = [at EXCEPT !["flush"] = "out"]
      BY <1>3, <2>4 DEF CancelDone, Drains, Begin
    <3>2. FlushType' /\ fl'.pc = "fn"
      BY <3>1 DEF FlushInv, FlushType
    <3>3. at'["flush"] = "out" /\ at'["work"] = "idle" /\ "flush" \in Runners
      BY <2>1, <3>1 DEF OutType, Runners
    <3> QED
      BY <1>1, <2>1, <2>2, <3>1, <3>2, <3>3 DEF FlushInv, Pump, Flushing, Past, Cancelling, Busy
  <2>5. ASSUME ~fl.took PROVE FlushInv'
    <3>1. fl' = [fl EXCEPT !.pc = "rpc"] /\ UNCHANGED <<at, stranded>>
      BY <1>3, <2>5 DEF CancelDone, Drains
    <3>2. FlushType' /\ fl'.pc = "rpc"
      BY <3>1 DEF FlushInv, FlushType
    <3>3. put = <<>> \/ stranded
      BY <2>1, <2>2, <2>5 DEF FlushInv, Pump, Busy, Runners
    <3> QED
      BY <1>1, <2>1, <2>2, <3>1, <3>2, <3>3 DEF FlushInv, Pump, Flushing, Past, Cancelling, Busy
  <2> QED
    BY <2>3, <2>4, <2>5
<1>4. CASE FlushFnDone
  <2>1. /\ fl' = [fl EXCEPT !.pc = "rpc"] /\ fl.pc = "fn" /\ at["flush"] = "idle"
        /\ UNCHANGED <<at, pending, stranded>>
    BY <1>4 DEF FlushFnDone, outVars
  <2>2. FlushType' /\ fl'.pc = "rpc"
    BY <2>1 DEF FlushInv, FlushType
  <2> QED
    BY <1>1, <2>1, <2>2 DEF FlushInv, Pump, Flushing, Past, Cancelling, Busy
<1> QED
  BY <1>2, <1>3, <1>4

LEMMA FlushStep == ASSUME OutType, OutInv, FlushInv, [HvcNext]_hvcVars PROVE FlushInv'
<1>1. CASE Flush \/ NotifyDel \/ ConsoleFlush \/ ConsoleClose
  <2>1. UNCHANGED <<put, accepted, pending, at, lost, stranded>> /\ fl.pc \notin {"wait", "fn"}
    BY <1>1 DEF Flush, NotifyDel, ConsoleFlush, ConsoleClose, outVars
  <2>2. FlushType' /\ fl'.pc \in {"idle", "cancel"} /\ fl'.upto \in {0, accepted}
    <3>1. accepted \in Nat
      BY DEF OutType
    <3>2. CASE Flush
      BY <3>1, <3>2 DEF Flush, NoFlush, FlushType
    <3>3. CASE NotifyDel
      BY <3>1, <3>3 DEF NotifyDel, NoFlush, FlushType
    <3>4. CASE ConsoleFlush \/ ConsoleClose
      BY <3>4 DEF ConsoleFlush, ConsoleClose, NoFlush, FlushType
    <3> QED
      BY <1>1, <3>2, <3>3, <3>4
  <2>3. fl'.upto <= accepted'
    BY <2>1, <2>2 DEF OutType
  <2>4. Flushing'
    BY <2>1, <2>2, <2>3 DEF FlushInv, Flushing, Past, Cancelling, Busy
  <2>5. Pump'
    BY <2>1 DEF FlushInv, Pump, Cancelling, Busy
  <2> QED
    BY <2>2, <2>4, <2>5 DEF FlushInv
<1>2. CASE \/ NotifyAdd \/ (\E v \in Vms : CharsFrom(v)) \/ NotifyConsoleChars \/ GetChars \/ Table
           \/ UNCHANGED hvcVars
  <2>1. UNCHANGED <<put, accepted, pending, at, lost, stranded, fl>>
    BY <1>2 DEF NotifyAdd, CharsFrom, NotifyConsoleChars, GetChars, Table, hvcVars, consoleVars, outVars
  <2> QED
    BY <2>1 DEF FlushInv, FlushType, Pump, Flushing, Past, Cancelling, Busy
<1> QED
  BY <1>1, <1>2, PutFlush, WorkFlush, TakeFlush, WriteFlush, FailFlush, CancelFlush DEF HvcNext

\* Left and Carried in terms of the characters.
LEMMA LeftCarried ==
  ASSUME OutType, OutInv
  PROVE  /\ \A c : c \in Left <=> Wrote(c) \/ c \in lost
         /\ \A c : c \in Carried <=> c \in (Base + 1)..accepted \/ \E r \in Runners : InBuf(r, c)
         /\ Base \in Nat /\ Base <= accepted /\ (put = <<>> => Base = accepted)
<1>0. put \in Seq(Nat) /\ Len(put) \in Nat /\ accepted \in Nat /\ DOMAIN put = 1..Len(put)
  BY DEF OutType
<1>1. Base \in Nat /\ Base <= accepted /\ (put = <<>> => Base = accepted) /\ accepted = Base + Len(put)
  BY <1>0 DEF OutInv, Queued, Base
<1>2. \A c : c \in Left <=> Wrote(c) \/ c \in lost
  BY DEF Left, Wrote
<1>3. ASSUME NEW c PROVE c \in ToSet(put) <=> c \in (Base + 1)..accepted
  <2>1. \A i \in 1..Len(put) : put[i] = Base + i
    BY DEF OutInv, Queued
  <2>2. ASSUME c \in ToSet(put) PROVE c \in (Base + 1)..accepted
    <3>1. PICK i \in 1..Len(put) : put[i] = c
      BY <1>0, <2>2 DEF ToSet
    <3>2. c = Base + i
      BY <2>1, <3>1
    <3> QED
      BY <1>0, <1>1, <3>2
  <2>3. ASSUME c \in (Base + 1)..accepted PROVE c \in ToSet(put)
    <3>1. c - Base \in 1..Len(put) /\ Base + (c - Base) = c
      BY <1>0, <1>1, <2>3
    <3>2. put[c - Base] = c
      BY <2>1, <3>1
    <3> QED
      BY <1>0, <3>1, <3>2 DEF ToSet
  <2> QED
    BY <2>2, <2>3
<1>4. ASSUME NEW c PROVE c \in UNION {ToSet(buf[r]) : r \in Runners} <=> \E r \in Runners : InBuf(r, c)
  <2>1. \A r \in Runners : c \in ToSet(buf[r]) <=> InBuf(r, c)
    BY DEF ToSet, InBuf
  <2> QED
    BY <2>1
<1>5. \A c : c \in Carried <=> c \in (Base + 1)..accepted \/ \E r \in Runners : InBuf(r, c)
  BY <1>3, <1>4 DEF Carried
<1> QED
  BY <1>1, <1>2, <1>5

LEMMA OutIntact == ASSUME OutType, OutInv, FlushInv PROVE OutputIntact
<1>0. /\ \A c : c \in Left <=> Wrote(c) \/ c \in lost
      /\ \A c : c \in Carried <=> c \in (Base + 1)..accepted \/ \E r \in Runners : InBuf(r, c)
      /\ Base \in Nat /\ Base <= accepted /\ (put = <<>> => Base = accepted)
  BY LeftCarried
<1>1. accepted \in Nat /\ lost \subseteq Nat /\ \A c : Wrote(c) => c \in Nat
  BY BufTypes DEF OutType
<1>2. \A c : c \in Left => c \in 1..Base /\ \A r \in Runners : ~InBuf(r, c)
  BY <1>0, <1>1 DEF OutInv, Gone
<1>3. \A c \in 1..Base : c \in Left \/ c \in Carried
  BY <1>0 DEF OutInv, Gone
<1>4. \A c : c \in 1..accepted <=> c \in 1..Base \/ c \in (Base + 1)..accepted
  BY <1>0, <1>1
<1>5. \A r \in Runners : \A c : InBuf(r, c) => c \in 1..Base
  BY BufTypes DEF OutInv, Chunks
<1>6. Left \cap Carried = {}
  <2>1. \A c \in 1..Base : c \notin (Base + 1)..accepted
    BY <1>0, <1>1
  <2> QED
    BY <1>0, <1>2, <2>1
<1>7. ASSUME NEW c PROVE c \in Left \cup Carried <=> c \in 1..accepted
  <2>1. c \in Left \cup Carried => c \in 1..Base \/ c \in (Base + 1)..accepted
    BY <1>0, <1>2, <1>5
  <2>2. c \in 1..Base \/ c \in (Base + 1)..accepted => c \in Left \cup Carried
    BY <1>0, <1>3
  <2> QED
    BY <1>4, <2>1, <2>2
<1>8. \A i, j \in DOMAIN written : i < j => /\ written[i].char # written[j].char
                                            /\ overlap \/ written[i].char < written[j].char
  BY DEF OutInv, WrittenOnce, InTurn
<1>9. ASSUME fl.pc = "rpc", lost = {}, ~stranded, ~(accepted > fl.upto) PROVE 1..fl.upto \subseteq Left
  <2>1. Past /\ accepted = fl.upto
    BY <1>1, <1>9 DEF FlushInv, FlushType, Flushing, Past
  <2>2. ~Busy("flush") /\ ~Busy("work") /\ put = <<>>
    BY <1>9, <2>1 DEF FlushInv, Flushing
  <2>3. \A r \in Runners : buf[r] = <<>>
    BY <2>2 DEF Busy, Runners, OutInv, Filled
  <2>4. \A r \in Runners : \A c : ~InBuf(r, c)
    BY <2>3, BufTypes
  <2>5. Base = fl.upto
    BY <1>0, <2>1, <2>2
  <2>6. \A c \in 1..Base : Wrote(c) \/ c \in lost
    BY <2>4 DEF OutInv, Gone
  <2> QED
    BY <1>0, <2>5, <2>6
<1> QED
  BY <1>6, <1>7, <1>8, <1>9 DEF OutputIntact

\* The initial state.
LEMMA OutStart == ASSUME HvcInit PROVE TableInv /\ OutType /\ OutInv /\ FlushInv
<1>1. TableInv
  BY TableStart DEF HvcInit
<1>2. /\ put = <<>> /\ accepted = 0 /\ at = [r \in Runners |-> "idle"] /\ to = [r \in Runners |-> 0]
      /\ buf = [r \in Runners |-> <<>>] /\ written = <<>> /\ lost = {} /\ fl = NoFlush
  BY DEF HvcInit, INVAL
<1>3. OutType
  <2>1. 0 \in 0..NumVmids
    BY TableConstants DEF INVAL
  <2> QED
    BY <1>2, <2>1, EmptySeq DEF OutType
<1>4. Len(put) = 0 /\ Base = 0 /\ (\A r, c : r \in Runners => ~InBuf(r, c)) /\ (\A c : ~Wrote(c))
  <2>1. Len(<<>>) = 0 /\ DOMAIN <<>> = {}
    OBVIOUS
  <2>2. Len(put) = 0 /\ Base = 0
    <3>1. put = <<>> /\ accepted = 0
      BY <1>2
    <3>2. Len(put) = 0
      BY <2>1, <3>1
    <3> QED
      <4>1. accepted - Len(put) = 0 - 0
        BY <3>1, <3>2
      <4> QED
        BY <3>2, <4>1 DEF Base
  <2>3. ASSUME NEW r \in Runners, NEW c PROVE ~InBuf(r, c)
    BY <1>2, <2>1 DEF InBuf
  <2>4. \A c : ~Wrote(c)
    BY <1>2, <2>1 DEF Wrote
  <2> QED
    BY <2>2, <2>3, <2>4
<1>5. Queued
  BY <1>2, <1>4, ConsoleAssumption DEF Queued
<1>6. Filled /\ Chunks /\ Gone
  BY <1>2, <1>4 DEF Filled, Chunks, Gone
<1>7. WrittenOnce /\ InTurn
  BY <1>2, <1>4 DEF WrittenOnce, InTurn
<1>8. FlushInv
  BY <1>2 DEF FlushInv, FlushType, Pump, Flushing, Past, Cancelling, Busy, NoFlush, Runners, HvcInit
<1> QED
  BY <1>1, <1>3, <1>5, <1>6, <1>7, <1>8 DEF OutInv

LEMMA OutInvariant == HvcSpec => [](TableInv /\ OutType /\ OutInv /\ FlushInv)
<1>1. HvcInit => TableInv /\ OutType /\ OutInv /\ FlushInv
  BY OutStart
<1>2. (TableInv /\ OutType /\ OutInv /\ FlushInv) /\ [HvcNext]_hvcVars
        => (TableInv /\ OutType /\ OutInv /\ FlushInv)'
  BY TableHvc, OutStep, FlushStep DEF TableInv
<1> QED
  BY <1>1, <1>2, PTL DEF HvcSpec

\* Console output is neither duplicated nor lost on the way, keeps its order unless the
\* work item and a flush sent at the same time, and has left when CONSOLE_FLUSH or
\* CONSOLE_CLOSE is sent: gh_hvc_put_chars, gh_hvc_put_work_fn, gh_hvc_flush and
\* gh_hvc_notify_del, for fifos and chunks of every size.
THEOREM OutputStaysIntact == HvcSpec => []OutputIntact
<1>1. OutType /\ OutInv /\ FlushInv => OutputIntact
  BY OutIntact
<1> QED
  BY <1>1, OutInvariant, PTL

-----------------------------------------------------------------------------
(* The console: where characters go and come from                          *)

\* A step of the table gives a VM a vmid nobody has or leaves the VM alone, and enters
\* into a row only the vmid of a VM of that name.
Moves ==
  /\ \A v \in Vms : vmid'[v] # INVAL => \/ vmid'[v] = vmid[v] /\ nameOf'[v] = nameOf[v]
                                        \/ vmid'[v] \notin Held
  /\ \A n \in Names : row'[n] # INVAL => \/ row'[n] = row[n]
                                         \/ \E v \in Vms : vmid[v] = row'[n] /\ nameOf[v] = n
  /\ ~reused' => ~reused

LEMMA IdentifyMoves ==
  ASSUME TableType, NEW id, Identify(id)
  PROVE  \A n \in Names : row'[n] = row[n] \/ \E v \in Vms : vmid[v] = row'[n] /\ nameOf[v] = n
<1>1. CASE UNCHANGED rowVars
  BY <1>1 DEF rowVars
<1>2. CASE ~UNCHANGED rowVars
  <2>1. (\A v \in GetId(id) : Update(nameOf[v], id, TRUE)) /\ GetId(id) # {}
    BY <1>2 DEF Identify
  <2>2. PICK v \in GetId(id) : Update(nameOf[v], id, TRUE)
    BY <2>1
  <2>3. v \in Vms /\ vmid[v] = id /\ nameOf[v] \in Names
    BY <2>2 DEF GetId, TableType
  <2>4. row' = [row EXCEPT ![nameOf[v]] = id]
    BY <1>2, <2>2 DEF Update
  <2>5. \A n \in Names : row'[n] = IF n = nameOf[v] THEN id ELSE row[n]
    BY <2>3, <2>4 DEF TableType
  <2> QED
    BY <2>3, <2>5
<1> QED
  BY <1>1, <1>2

LEMMA TableMoves == ASSUME TableInv, TableNext PROVE Moves
<1>0. TableType /\ Ids
  BY DEF TableInv
<1>1. ASSUME NEW v \in Vms, AllocCheck(v) \/ PeerDown(v) PROVE Moves
  <2>1. pc[v] = "off" \/ vmid' = [vmid EXCEPT ![v] = INVAL]
    BY <1>1 DEF AllocCheck, PeerDown, Step
  <2>2. /\ \A w \in Vms : w # v => vmid'[w] = vmid[w] /\ nameOf'[w] = nameOf[w]
        /\ vmid' = vmid \/ vmid' = [vmid EXCEPT ![v] = INVAL]
        /\ UNCHANGED <<row, reused>>
    BY <1>0, <1>1 DEF AllocCheck, PeerDown, Forgets, TableType, rowVars
  <2>3. vmid'[v] = INVAL
    BY <1>0, <2>1, <2>2 DEF Ids, TableType
  <2> QED
    BY <2>2, <2>3 DEF Moves
<1>2. ASSUME NEW v \in Vms, AllocRpc(v) PROVE Moves
  <2>a. UNCHANGED row /\ pc[v] = "alloc"
    BY <1>2 DEF AllocRpc, Step, rowVars
  <2>b. (\E id \in Vmids : reused' = (reused \/ StillMeant(id))) \/ reused' = reused
    BY <1>2 DEF AllocRpc
  <2>c. ASSUME ~reused' PROVE ~reused
    BY <2>b, <2>c, Zenon
  <2>1. UNCHANGED row /\ (~reused' => ~reused) /\ pc[v] = "alloc"
    BY <2>a, <2>c
  <2>2. \/ (\E id \in Vmids \ Held : vmid' = [vmid EXCEPT ![v] = id]) /\ UNCHANGED nameOf
        \/ UNCHANGED vmid /\ nameOf' = [nameOf EXCEPT ![v] = 1]
    BY <1>2 DEF AllocRpc, Forgets
  <2>3. \A w \in Vms : w # v => vmid'[w] = vmid[w] /\ nameOf'[w] = nameOf[w]
    BY <1>0, <2>2 DEF TableType
  <2>4. vmid'[v] = INVAL \/ vmid'[v] \notin Held
    BY <1>0, <2>1, <2>2 DEF Ids, TableType
  <2> QED
    BY <2>1, <2>3, <2>4 DEF Moves
<1>3. ASSUME NEW v \in Vms, AllocUpdate(v) PROVE Moves
  <2>1. UNCHANGED <<vmid, nameOf, reused>> /\ Update(nameOf[v], vmid[v], FALSE)
    BY <1>3 DEF AllocUpdate, vmVars
  <2>2. row' = row \/ row' = [row EXCEPT ![nameOf[v]] = vmid[v]]
    BY <2>1 DEF Update, rowVars
  <2>3. \A n \in Names : row'[n] = row[n] \/ (n = nameOf[v] /\ row'[n] = vmid[v])
    BY <1>0, <2>2 DEF TableType
  <2> QED
    BY <2>1, <2>3 DEF Moves
<1>4. ASSUME NEW v \in Vms, Dealloc(v) PROVE Moves
  <2>1. UNCHANGED <<row, nameOf, reused>> /\ (vmid' = vmid \/ vmid' = [vmid EXCEPT ![v] = INVAL])
    BY <1>4 DEF Dealloc, rowVars
  <2>2. \A w \in Vms : vmid'[w] = INVAL \/ vmid'[w] = vmid[w]
    BY <1>0, <2>1 DEF TableType
  <2> QED
    BY <2>1, <2>2 DEF Moves
<1>5. ASSUME NEW v \in Vms, DeallocClear(v) PROVE Moves
  <2>1. UNCHANGED <<vmid, reused>> /\ Reset(oldId[v]) /\ nameOf' = [nameOf EXCEPT ![v] = 1] /\ pc[v] = "clear"
    BY <1>5 DEF DeallocClear, Forgets, Step
  <2>2. \A n \in Names : row'[n] = INVAL \/ row'[n] = row[n]
    BY <2>1 DEF Reset
  <2>3. vmid'[v] = INVAL /\ \A w \in Vms : w # v => vmid'[w] = vmid[w] /\ nameOf'[w] = nameOf[w]
    BY <1>0, <2>1 DEF Ids, TableType
  <2> QED
    BY <2>1, <2>2, <2>3 DEF Moves
<1>6. ASSUME NEW v \in Vms, PeerUp(v) PROVE Moves
  <2>1. PICK n \in Names, id \in Vmids \ Held : /\ nameOf' = [nameOf EXCEPT ![v] = n]
                                                /\ vmid' = [vmid EXCEPT ![v] = id]
                                                /\ reused' = (reused \/ StillMeant(id))
    BY <1>6 DEF PeerUp
  <2>2. UNCHANGED row /\ (~reused' => ~reused)
    BY <1>6, <2>1 DEF PeerUp, rowVars
  <2>3. vmid'[v] \notin Held /\ \A w \in Vms : w # v => vmid'[w] = vmid[w] /\ nameOf'[w] = nameOf[w]
    BY <1>0, <2>1 DEF TableType
  <2> QED
    BY <2>2, <2>3 DEF Moves
<1>7. ASSUME CheckPeer \/ Ready PROVE Moves
  <2>1. UNCHANGED <<vmid, nameOf, reused>> /\ (UNCHANGED rowVars \/ \E id : Identify(id))
    BY <1>7 DEF CheckPeer, Ready
  <2>2. \A n \in Names : row'[n] = row[n] \/ \E v \in Vms : vmid[v] = row'[n] /\ nameOf[v] = n
    <3>1. CASE UNCHANGED rowVars
      BY <3>1 DEF rowVars
    <3>2. CASE \E id : Identify(id)
      BY <1>0, <3>2, IdentifyMoves
    <3> QED
      BY <2>1, <3>1, <3>2
  <2> QED
    BY <2>1, <2>2 DEF Moves
<1> QED
  BY <1>1, <1>2, <1>3, <1>4, <1>5, <1>6, <1>7 DEF TableNext

\* The vmid a runner looked up and that of a notification under way are still those
\* of the VM they were taken from, if anybody's; so is the row they lead to.
ToCon  == \A r \in Runners, v \in Vms : to[r] # INVAL /\ vmid[v] = to[r] => nameOf[v] = Con
Open   == \A v \in opened : vmid[v] # INVAL
FromIt == \A m \in incoming : /\ m.vmid # INVAL
                              /\ \A v \in Vms : vmid[v] = m.vmid => nameOf[v] = m.name
                              /\ \A n \in Names : row[n] = m.vmid => n = m.name
Sorted == /\ \A i \in DOMAIN written : written[i].name = Con
          /\ \A n \in Names : \A i \in DOMAIN get[n] : get[n][i] = n
Route  == ToCon /\ Open /\ FromIt /\ Sorted

RouteInv == InType /\ (reused \/ astray \/ Route)

LEMMA TableRoute ==
  ASSUME TableInv, InType, Table, ~reused', ~astray', ~reused /\ ~astray => Route
  PROVE  Route'
<1>1. /\ UNCHANGED <<to, incoming, written, get>> /\ opened' = {v \in opened : vmid'[v] = vmid[v]}
      /\ ~astray /\ ~\E v \in Vms : vmid'[v] \in Meant \ (Held \cup {INVAL})
  BY DEF Table, outVars, inVars
<1>2. Moves
  BY TableMoves DEF Table
<1>3. Route
  BY <1>1, <1>2 DEF Moves
<1>4. \A v \in Vms : vmid'[v] \in Meant /\ vmid'[v] # INVAL => vmid'[v] = vmid[v] /\ nameOf'[v] = nameOf[v]
  BY <1>1, <1>2 DEF Moves
<1>5. ToCon'
  <2>1. ASSUME NEW r \in Runners, NEW v \in Vms, to[r] # INVAL, vmid'[v] = to[r] PROVE nameOf'[v] = Con
    <3>1. to[r] \in Meant
      BY DEF Meant
    <3>2. vmid'[v] = vmid[v] /\ nameOf'[v] = nameOf[v]
      BY <1>4, <2>1, <3>1
    <3> QED
      BY <1>3, <2>1, <3>2 DEF Route, ToCon
  <2> QED
    BY <1>1, <2>1 DEF ToCon, Con
<1>6. Open'
  BY <1>1, <1>3 DEF Route, Open
<1>7. FromIt'
  <2>1. ASSUME NEW m \in incoming PROVE /\ m.vmid # INVAL
                                        /\ \A v \in Vms : vmid'[v] = m.vmid => nameOf'[v] = m.name
                                        /\ \A n \in Names : row'[n] = m.vmid => n = m.name
    <3>1. /\ m.vmid # INVAL /\ m.vmid \in Meant
          /\ \A v \in Vms : vmid[v] = m.vmid => nameOf[v] = m.name
          /\ \A n \in Names : row[n] = m.vmid => n = m.name
      BY <1>3 DEF Route, FromIt, Meant
    <3>2. \A v \in Vms : vmid'[v] = m.vmid => nameOf'[v] = m.name
      BY <1>4, <3>1
    <3>3. ASSUME NEW n \in Names, row'[n] = m.vmid PROVE n = m.name
      BY <1>2, <3>1, <3>3 DEF Moves
    <3> QED
      BY <3>1, <3>2, <3>3
  <2> QED
    BY <1>1, <2>1 DEF FromIt
<1>8. Sorted'
  BY <1>1, <1>3 DEF Route, Sorted, Con
<1> QED
  BY <1>5, <1>6, <1>7, <1>8 DEF Route

\* The table does not move.
LEMMA StillRoute ==
  ASSUME UNCHANGED <<vmid, nameOf, row>>
  PROVE  /\ UNCHANGED to /\ ToCon => ToCon'
         /\ opened' \subseteq opened /\ Open => Open'
         /\ incoming' \subseteq incoming /\ FromIt => FromIt'
         /\ UNCHANGED <<written, get>> /\ Sorted => Sorted'
  BY DEF ToCon, Open, FromIt, Sorted, Con

LEMMA BeginRoute ==
  ASSUME TableInv, OutType, ~reused, ToCon, NEW r \in Runners, Begin(r), UNCHANGED <<vmid, nameOf, row>>
  PROVE  ToCon'
<1>1. CASE UNCHANGED to
  BY <1>1, StillRoute
<1>2. CASE to' = [to EXCEPT ![r] = row[Con]]
  <2>1. \A q \in Runners : to'[q] = IF q = r THEN row[Con] ELSE to[q]
    BY <1>2 DEF OutType
  <2>2. ASSUME NEW v \in Vms, row[Con] # INVAL, vmid[v] = row[Con] PROVE nameOf[v] = Con
    <3>1. Con \in Names /\ Has(v, row[Con])
      BY <2>2, TableConstants DEF Con, Has
    <3> QED
      BY <3>1 DEF TableInv, RowsOk, Named
  <2> QED
    BY <2>1, <2>2 DEF ToCon, Con
<1> QED
  BY <1>1, <1>2 DEF Begin, GetVmid

LEMMA RunnerRoute ==
  ASSUME TableInv, OutType, ToCon, Sorted, NEW r \in Runners, TakeChunk(r) \/ WriteDone(r) \/ WriteFails(r)
  PROVE  ToCon' /\ Sorted'
<1>1. UNCHANGED <<vmid, nameOf, row, get>> /\ (to' = to \/ to' = [to EXCEPT ![r] = INVAL])
  BY DEF TakeChunk, WriteDone, WriteFails, tableVars, rowVars, vmVars, inVars
<1>2. ToCon'
  <2>1. \A q \in Runners : to'[q] = to[q] \/ to'[q] = INVAL
    BY <1>1 DEF OutType
  <2> QED
    BY <1>1, <2>1 DEF ToCon, Con
<1>3. CASE UNCHANGED written
  BY <1>1, <1>2, <1>3, StillRoute
<1>4. CASE WriteDone(r)
  <2>1. /\ \A i \in 1..Len(written) : written'[i] = written[i]
        /\ written' \in Seq([char : Nat, name : Names])
    BY <1>4, WriteEffect DEF TableInv
  <2>2. PICK v \in Vms : /\ vmid[v] = to[r] /\ to[r] # INVAL
                         /\ \A i \in DOMAIN written' : i > Len(written) => written'[i].name = nameOf[v]
    BY <1>4, WriteEffect DEF TableInv
  <2>3. nameOf[v] = Con
    BY <2>2 DEF ToCon
  <2>4. Len(written) \in Nat /\ DOMAIN written = 1..Len(written)
        /\ DOMAIN written' = 1..Len(written') /\ Len(written') \in Nat
    BY <2>1 DEF OutType
  <2>5. ASSUME NEW i \in DOMAIN written' PROVE written'[i].name = Con
    <3>1. CASE i > Len(written)
      BY <2>2, <2>3, <3>1
    <3>2. CASE ~(i > Len(written))
      <4>1. i \in 1..Len(written)
        BY <2>4, <3>2
      <4> QED
        BY <2>1, <2>4, <4>1 DEF Sorted
    <3> QED
      BY <3>1, <3>2
  <2> QED
    BY <1>1, <1>2, <2>5 DEF Sorted, Con
<1> QED
  BY <1>3, <1>4 DEF TakeChunk, WriteFails

\* Input: the characters of a notification are put into the fifo of their sender's name.
LEMMA CharsRoute ==
  ASSUME TableInv, InType, ~reused, Open, FromIt, NEW v \in Vms, CharsFrom(v)
  PROVE  InType' /\ FromIt'
<1>1. /\ v \in opened /\ incoming' = {[vmid |-> vmid[v], name |-> nameOf[v]]}
      /\ UNCHANGED <<vmid, nameOf, row, opened, get>>
  BY DEF CharsFrom, tableVars, rowVars, vmVars
<1>2. vmid[v] # INVAL /\ vmid[v] \in 0..NumVmids /\ nameOf[v] \in Names
  BY <1>1 DEF Open, TableInv, TableType
<1>3. \A w \in Vms : vmid[w] = vmid[v] => w = v
  BY <1>2 DEF TableInv, Ids
<1>4. ASSUME NEW n \in Names, row[n] = vmid[v] PROVE n = nameOf[v]
  <2>1. Has(v, row[n])
    BY <1>2, <1>4 DEF Has
  <2> QED
    BY <2>1 DEF TableInv, RowsOk, Named
<1>5. [vmid |-> vmid[v], name |-> nameOf[v]] \in [vmid : 0..NumVmids, name : Names]
  BY <1>2
<1>6. InType'
  BY <1>1, <1>5 DEF InType
<1>7. FromIt'
  BY <1>1, <1>2, <1>3, <1>4 DEF FromIt
<1> QED
  BY <1>6, <1>7

LEMMA SortRoute ==
  ASSUME InType, NotifyConsoleChars
  PROVE  InType' /\ (FromIt /\ Sorted => FromIt' /\ Sorted')
<1>1. PICK msg \in incoming :
        get' = [n \in Names |-> IF n \in GetName(msg.vmid) /\ Len(get[n]) < GetCap
                                THEN Append(get[n], msg.name) ELSE get[n]]
  BY DEF NotifyConsoleChars
<1>2. incoming' = {} /\ UNCHANGED <<opened, written>>
  BY DEF NotifyConsoleChars, outVars
<1>3. msg.name \in Names
  BY DEF InType
<1>4. ASSUME NEW n \in Names
      PROVE  /\ get[n] \in Seq(Names) /\ get'[n] \in Seq(Names)
             /\ FromIt /\ Sorted => \A i \in DOMAIN get'[n] : get'[n][i] = n
  <2>1. get[n] \in Seq(Names) /\ DOMAIN get[n] = 1..Len(get[n]) /\ Len(get[n]) \in Nat
    BY DEF InType
  <2>2. CASE get'[n] = get[n]
    BY <2>1, <2>2 DEF Sorted
  <2>3. CASE n \in GetName(msg.vmid) /\ get'[n] = Append(get[n], msg.name)
    <3>1. row[n] = msg.vmid
      BY <2>3 DEF GetName, FirstRow
    <3>2. FromIt => msg.name = n
      BY <3>1 DEF FromIt
    <3>3. /\ get'[n] \in Seq(Names) /\ DOMAIN get'[n] = 1..(Len(get[n]) + 1)
          /\ \A i \in 1..Len(get[n]) : get'[n][i] = get[n][i]
          /\ get'[n][Len(get[n]) + 1] = msg.name
      BY <1>3, <2>1, <2>3, AppendProperties
    <3>4. \A i \in 1..(Len(get[n]) + 1) : i \in 1..Len(get[n]) \/ i = Len(get[n]) + 1
      BY <2>1
    <3> QED
      BY <2>1, <3>2, <3>3, <3>4 DEF Sorted
  <2> QED
    BY <1>1, <2>2, <2>3
<1>5. InType'
  BY <1>1, <1>2, <1>4 DEF InType
<1>6. FromIt'
  BY <1>2 DEF FromIt
<1>7. FromIt /\ Sorted => Sorted'
  BY <1>2, <1>4 DEF Sorted, Con
<1> QED
  BY <1>5, <1>6, <1>7

LEMMA GetRoute == ASSUME InType, GetChars PROVE InType' /\ (Sorted => Sorted')
<1>1. PICK n \in Names : get[n] # <<>> /\ get' = [get EXCEPT ![n] = Tail(get[n])]
  BY DEF GetChars
<1>2. UNCHANGED <<incoming, opened, written>>
  BY DEF GetChars, outVars
<1>3. get[n] \in Seq(Names) /\ get \in [Names -> Seq(Names)]
  BY DEF InType
<1>4. /\ Tail(get[n]) \in Seq(Names) /\ Len(get[n]) \in Nat \ {0} /\ DOMAIN get[n] = 1..Len(get[n])
      /\ DOMAIN Tail(get[n]) = 1..(Len(get[n]) - 1)
      /\ \A i \in 1..(Len(get[n]) - 1) : Tail(get[n])[i] = get[n][i + 1]
  <2>1. get[n] \in Seq(Names) /\ get[n] # <<>>
    BY <1>1, <1>3
  <2> QED
    BY ONLY <2>1, HeadTailProperties, EmptySeq, LenProperties
<1>5. InType'
  BY <1>1, <1>2, <1>3, <1>4 DEF InType
<1>6. ASSUME Sorted PROVE Sorted'
  <2>1. ASSUME NEW m \in Names, NEW i \in DOMAIN get'[m] PROVE get'[m][i] = m
    <3>1. CASE m = n
      <4>1. get'[m] = Tail(get[n])
        BY <1>1, <1>3, <3>1
      <4>2. i \in 1..(Len(get[n]) - 1) /\ i + 1 \in 1..Len(get[n])
        BY <1>4, <2>1, <4>1
      <4>3. get'[m][i] = get[n][i + 1]
        BY <1>4, <4>1, <4>2
      <4>4. get[n][i + 1] = n
        BY <1>4, <1>6, <4>2 DEF Sorted
      <4> QED
        BY <3>1, <4>3, <4>4
    <3>2. CASE m # n
      <4>1. get'[m] = get[m]
        BY <1>1, <1>3, <3>2
      <4> QED
        BY <1>6, <2>1, <4>1 DEF Sorted
    <3> QED
      BY <3>1, <3>2
  <2> QED
    BY <1>2, <1>6, <2>1 DEF Sorted, Con
<1> QED
  BY <1>5, <1>6

LEMMA CloseRoute == ASSUME InType, ConsoleClose PROVE InType' /\ opened' \subseteq opened /\ (Sorted => Sorted')
<1>1. /\ get' = get \/ get' = [get EXCEPT ![Con] = <<>>]
      /\ opened' = opened \/ opened' = {v \in opened : vmid[v] # GetVmid(Con)}
      /\ UNCHANGED <<incoming, written>>
  BY DEF ConsoleClose, ConsoleShut, outVars
<1>2. \A n \in Names : get'[n] = get[n] \/ get'[n] = <<>>
  BY <1>1 DEF InType
<1>3. get' \in [Names -> Seq(Names)]
  BY <1>1, EmptySeq DEF InType
<1>4. DOMAIN <<>> = {}
  OBVIOUS
<1>5. Sorted => Sorted'
  BY <1>1, <1>2, <1>4 DEF Sorted, Con
<1> QED
  BY <1>1, <1>3, <1>5 DEF InType

LEMMA RouteStep == ASSUME TableInv, OutType, RouteInv, [HvcNext]_hvcVars PROVE RouteInv'
<1>0. InType
  BY DEF RouteInv
<1>1. CASE Table
  <2>1. UNCHANGED <<incoming, get>> /\ opened' \subseteq opened
    BY <1>1 DEF Table, inVars
  <2>2. InType'
    BY <1>0, <2>1 DEF InType
  <2>3. ASSUME ~reused', ~astray' PROVE Route'
    BY <1>0, <1>1, <2>3, TableRoute DEF RouteInv
  <2> QED
    BY <2>2, <2>3 DEF RouteInv
<1>2. CASE ~Table
  <2>0. UNCHANGED <<vmid, nameOf, row, reused, astray>>
    BY <1>2 DEF HvcNext, hvcVars, tableVars, rowVars, vmVars, PutChars, WorkBegins, TakeChunk, WriteDone, WriteFails,
                Flush, NotifyDel, CancelWork, CancelDone, FlushFnDone, ConsoleFlush, ConsoleClose, NotifyAdd,
                CharsFrom, NotifyConsoleChars, GetChars, consoleVars
  <2>1. SUFFICES ASSUME ~reused /\ ~astray => Route PROVE InType' /\ (~reused /\ ~astray => Route')
    BY <2>0 DEF RouteInv
  <2>2. ASSUME UNCHANGED inVars, UNCHANGED opened PROVE InType' /\ (FromIt => FromIt') /\ (Open => Open')
    BY <1>0, <2>0, <2>2, StillRoute DEF InType, inVars
  <2>3. CASE \/ (\E count \in 1..2 : PutChars(count)) \/ Flush \/ NotifyDel \/ CancelWork \/ FlushFnDone
             \/ ConsoleFlush \/ UNCHANGED hvcVars
    <3>1. UNCHANGED <<to, written, inVars, opened>>
      BY <2>3 DEF PutChars, Flush, NotifyDel, CancelWork, FlushFnDone, ConsoleFlush, hvcVars, consoleVars, outVars
    <3> QED
      BY <2>0, <2>1, <2>2, <3>1, StillRoute DEF Route, inVars
  <2>4. CASE WorkBegins \/ CancelDone
    <3>1. UNCHANGED <<written, inVars, opened>> /\ (UNCHANGED to \/ \E r \in Runners : Begin(r))
      BY <2>4 DEF WorkBegins, CancelDone, Runners
    <3>2. ~reused /\ ToCon => ToCon'
      BY <2>0, <3>1, StillRoute, BeginRoute
    <3> QED
      BY <2>0, <2>1, <2>2, <3>1, <3>2, StillRoute DEF Route, inVars
  <2>5. ASSUME NEW r \in Runners, TakeChunk(r) \/ WriteDone(r) \/ WriteFails(r)
        PROVE  InType' /\ (~reused /\ ~astray => Route')
    <3>1. UNCHANGED <<inVars, opened>>
      BY <2>5 DEF TakeChunk, WriteDone, WriteFails
    <3>2. ToCon /\ Sorted => ToCon' /\ Sorted'
      BY <2>5, RunnerRoute
    <3> QED
      BY <2>1, <2>2, <3>1, <3>2 DEF Route
  <2>6. CASE ConsoleClose
    <3>1. UNCHANGED <<to, incoming>>
      BY <2>6 DEF ConsoleClose, outVars
    <3>2. InType' /\ opened' \subseteq opened /\ (Sorted => Sorted')
      BY <1>0, <2>6, CloseRoute
    <3> QED
      BY <2>0, <2>1, <3>1, <3>2, StillRoute DEF Route
  <2>7. CASE NotifyAdd
    <3>1. /\ UNCHANGED <<to, written, inVars>>
          /\ opened' = opened \cup {v \in Vms : vmid[v] = GetVmid(Con) /\ GetVmid(Con) # INVAL}
      BY <2>7 DEF NotifyAdd, ConsoleOpen, outVars
    <3>2. InType'
      BY <1>0, <3>1 DEF InType, inVars
    <3>3. Open => Open'
      BY <2>0, <3>1 DEF Open
    <3> QED
      BY <2>0, <2>1, <3>1, <3>2, <3>3, StillRoute DEF Route, inVars
  <2>8. ASSUME NEW v \in Vms, CharsFrom(v) PROVE InType' /\ (~reused /\ ~astray => Route')
    <3>1. UNCHANGED <<to, written, get, opened>> /\ incoming' = {[vmid |-> vmid[v], name |-> nameOf[v]]}
      BY <2>8 DEF CharsFrom, outVars
    <3>2. InType'
      <4>1. [vmid |-> vmid[v], name |-> nameOf[v]] \in [vmid : 0..NumVmids, name : Names]
        BY DEF TableInv, TableType
      <4> QED
        BY <1>0, <3>1, <4>1 DEF InType
    <3>3. ~reused /\ Open /\ FromIt => FromIt'
      BY <1>0, <2>8, CharsRoute
    <3> QED
      BY <2>0, <2>1, <3>1, <3>2, <3>3, StillRoute DEF Route
  <2>9. CASE NotifyConsoleChars
    <3>1. UNCHANGED <<to, opened>>
      BY <2>9 DEF NotifyConsoleChars, outVars
    <3> QED
      BY <1>0, <2>0, <2>1, <2>9, <3>1, StillRoute, SortRoute DEF Route
  <2>10. CASE GetChars
    <3>1. UNCHANGED <<to, opened, incoming>>
      BY <2>10 DEF GetChars, outVars
    <3> QED
      BY <1>0, <2>0, <2>1, <2>10, <3>1, StillRoute, GetRoute DEF Route
  <2> QED
    BY <1>2, <2>3, <2>4, <2>5, <2>6, <2>7, <2>8, <2>9, <2>10 DEF HvcNext
<1> QED
  BY <1>1, <1>2

LEMMA RouteStart == ASSUME HvcInit PROVE RouteInv
<1>1. /\ opened = {} /\ incoming = {} /\ get = [n \in Names |-> <<>>] /\ written = <<>>
      /\ to = [r \in Runners |-> INVAL]
  BY DEF HvcInit
<1>2. DOMAIN <<>> = {}
  OBVIOUS
<1>3. InType
  BY <1>1, EmptySeq DEF InType
<1>4. ToCon /\ Open /\ FromIt
  BY <1>1 DEF ToCon, Open, FromIt
<1>5. Sorted
  BY <1>1, <1>2 DEF Sorted
<1> QED
  BY <1>3, <1>4, <1>5 DEF RouteInv, Route

LEMMA RoutesRight == ASSUME TableInv, RouteInv PROVE TableRoutes
<1> SUFFICES ASSUME ~reused, ~astray PROVE TableRoutes
  BY DEF TableRoutes
<1>1. RowsOk /\ Route /\ InType
  BY DEF TableInv, RouteInv
<1>2. \A v \in Vms : Listed(v) => row[nameOf[v]] = vmid[v]
  BY <1>1 DEF RowsOk, UpListed, Listed
<1>3. ASSUME NEW n \in Names, primary, row[n] # INVAL
      PROVE  \E v \in Vms : nameOf[v] = n /\ row[n] \in {vmid[v], oldId[v]}
  <2>1. PICK v \in Vms : Has(v, row[n])
    BY <1>1, <1>3 DEF RowsOk, Backed
  <2>2. nameOf[v] = n
    BY <1>1, <2>1 DEF RowsOk, Named
  <2> QED
    BY <2>1, <2>2 DEF Has
<1>4. \A n \in Names : ToSet(get[n]) \subseteq {n}
  BY <1>1 DEF Route, Sorted, ToSet
<1>5. \A i \in DOMAIN written : written[i].name = Con
  BY <1>1 DEF Route, Sorted
<1> QED
  BY <1>2, <1>3, <1>4, <1>5 DEF TableRoutes

\* A VM that came up is in its row of gh_vm_table, in the primary VM a row's vmid is of a
\* VM of that name, and console characters go to and come from the VM of the name; except
\* for VMs the table never learnt of and vmids given out again too early.  For any number
\* of VMs, names and vmids.
THEOREM TableRoutesRight == HvcSpec => []TableRoutes
<1>1. HvcInit => RouteInv
  BY RouteStart
<1>2. TableInv /\ OutType /\ RouteInv /\ [HvcNext]_hvcVars => RouteInv'
  BY RouteStep
<1>3. TableInv /\ RouteInv => TableRoutes
  BY RoutesRight
<1> QED
  BY <1>1, <1>2, <1>3, OutInvariant, PTL DEF HvcSpec
=============================================================================
