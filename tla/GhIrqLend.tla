------------------------------ MODULE GhIrqLend ------------------------------
(***************************************************************************)
(* gh_irq_lend.c on both sides of one interrupt label: the VM that owns    *)
(* the interrupt lends, is told of accept and release, and reclaims; the   *)
(* other one waits for the lend, accepts and releases.  Both run the same  *)
(* driver, each with its own gh_irq_entries[label], and meet only in the   *)
(* Resource Manager (external), which arbitrates the interrupt by handle   *)
(* and forwards notifications.  These are works of their own, so they may  *)
(* be handled in any order (gh_rm_core.c).                                 *)
(***************************************************************************)
EXTENDS Integers

CONSTANTS
  MaxLends,  \* bound on successful lends
  MaxFails   \* bound on failing lend RPCs

ASSUME LendAssumption == MaxLends \in Nat /\ MaxFails \in Nat

VARIABLES
  lender, lendHandle,      \* the owner's entry: state and virq_handle
  borrower, borrowHandle,  \* the other VM's entry
  lendCall, borrowCall,    \* where their client is in a call or between calls
  owner, handle,           \* the Resource Manager: who has it, latest handle
  notifs,                  \* notifications on their way
  early,                   \* the owner reclaimed before it was told of the release
  fails

lendVars   == <<lender, lendHandle, lendCall>>
borrowVars == <<borrower, borrowHandle, borrowCall>>
rmVars     == <<owner, handle, notifs>>
vars == <<lendVars, borrowVars, rmVars, early, fails>>

Handles == 0..MaxLends
Notif(kind, h) == [kind |-> kind, handle |-> h]

TypeOK ==
  /\ lender \in {"NONE", "WAIT_RELEASE_OR_ACCEPT", "ACCEPTED", "RELEASED"}
  /\ borrower \in {"NONE", "WAIT_LEND", "LENT", "ACCEPTED"}
  /\ lendHandle \in Handles /\ borrowHandle \in Handles
  /\ lendCall \in {"idle", "lending", "lent", "reclaimed"}
  /\ borrowCall \in {"idle", "accepting", "accepted", "releasing", "released"}
  /\ owner \in {"owner", "lent", "accepted"} /\ handle \in Handles
  /\ notifs \subseteq [kind : {"LENT", "ACCEPTED", "RELEASED"}, handle : Handles]
  /\ early \in BOOLEAN /\ fails \in 0..MaxFails

Init ==
  /\ lender = "NONE" /\ lendHandle = 0 /\ lendCall = "idle"
  /\ borrower = "NONE" /\ borrowHandle = 0 /\ borrowCall = "idle"
  /\ owner = "owner" /\ handle = 0 /\ notifs = {}
  /\ early = FALSE /\ fails = 0

-----------------------------------------------------------------------------
(* The owner's side.                                                       *)

\* gh_irq_lend_v2 up to the unlock: virq_handle is still the last lend's.
Lend ==
  /\ lendCall = "idle" /\ lender = "NONE"
  /\ lender' = "WAIT_RELEASE_OR_ACCEPT" /\ lendCall' = "lending"
  /\ UNCHANGED <<lendHandle, borrowVars, rmVars, early, fails>>

\* gh_rm_vm_irq_lend stores the handle, or fails and leaves the entry as it is.
LendRpc ==
  /\ lendCall = "lending" /\ handle < MaxLends
  /\ handle' = handle + 1 /\ owner' = "lent"
  /\ lendHandle' = handle + 1 /\ lendCall' = "lent"
  /\ UNCHANGED <<lender, borrowVars, notifs, early, fails>>
LendRpcFails ==
  /\ lendCall = "lending" /\ fails < MaxFails
  /\ fails' = fails + 1 /\ lendCall' = "idle"
  /\ UNCHANGED <<lender, lendHandle, borrowVars, rmVars, early>>

\* gh_irq_lend_notify: the client calls it once, when its lend has succeeded.
LendNotify ==
  /\ lendCall = "lent" /\ lender # "NONE"
  /\ notifs' = notifs \cup {Notif("LENT", lendHandle)} /\ lendCall' = "idle"
  /\ UNCHANGED <<lender, lendHandle, borrowVars, owner, handle, early, fails>>

\* gh_irq_reclaim: the RPC succeeds unless the handle is accepted or not lent.
MayReclaim == lender \in {"WAIT_RELEASE_OR_ACCEPT", "RELEASED"}
RmReclaims == lendHandle = handle /\ owner = "lent"
Reclaim ==
  /\ lendCall = "idle" /\ MayReclaim /\ RmReclaims
  /\ owner' = "owner" /\ lendCall' = "reclaimed"
  /\ early' = (early \/ lender # "RELEASED")
  /\ UNCHANGED <<lender, lendHandle, borrowVars, handle, notifs, fails>>
ReclaimDone ==
  /\ lendCall = "reclaimed"
  /\ lender' = "NONE" /\ lendCall' = "idle"
  /\ UNCHANGED <<lendHandle, borrowVars, rmVars, early, fails>>

\* gh_irq_released_accepted_nb_handler.
ReleasedAcceptedListensWaiting == lender = "WAIT_RELEASE_OR_ACCEPT"
ReleasedAcceptedListens == lender \in {"WAIT_RELEASE_OR_ACCEPT", "ACCEPTED"}
ReleasedAcceptedNb(n) ==
  /\ n.kind \in {"ACCEPTED", "RELEASED"}
  /\ notifs' = notifs \ {n}
  /\ lender' = IF ReleasedAcceptedListens /\ n.handle = lendHandle THEN n.kind ELSE lender
  /\ UNCHANGED <<lendHandle, lendCall, borrowVars, owner, handle, early, fails>>

-----------------------------------------------------------------------------
(* The other VM's side.                                                    *)

\* gh_irq_wait_for_lend_v2.
WaitForLend ==
  /\ borrowCall = "idle" /\ borrower = "NONE"
  /\ borrower' = "WAIT_LEND"
  /\ UNCHANGED <<borrowHandle, borrowCall, lendVars, rmVars, early, fails>>

\* gh_irq_lent_nb_handler.
LentListens == borrower \in {"WAIT_LEND", "LENT"}
LentNb(n) ==
  /\ n.kind = "LENT"
  /\ notifs' = notifs \ {n}
  /\ borrowHandle' = IF LentListens THEN n.handle ELSE borrowHandle
  /\ borrower' = IF LentListens THEN "LENT" ELSE borrower
  /\ UNCHANGED <<borrowCall, lendVars, owner, handle, early, fails>>

\* gh_irq_accept: RPC and state change are two steps; a handle that is not lent
\* (any more) is refused.
Accept ==
  /\ borrowCall = "idle" /\ borrower = "LENT"
  /\ borrowHandle = handle /\ owner = "lent"
  /\ owner' = "accepted" /\ borrowCall' = "accepting"
  /\ UNCHANGED <<borrower, borrowHandle, lendVars, handle, notifs, early, fails>>
AcceptDone ==
  /\ borrowCall = "accepting"
  /\ borrower' = "ACCEPTED" /\ borrowCall' = "accepted"
  /\ UNCHANGED <<borrowHandle, lendVars, rmVars, early, fails>>

\* gh_irq_accept_notify, which the client may also leave out.
AcceptNotify ==
  /\ borrowCall = "accepted" /\ borrower = "ACCEPTED"
  /\ \/ notifs' = notifs \cup {Notif("ACCEPTED", borrowHandle)}
     \/ UNCHANGED notifs
  /\ borrowCall' = "idle"
  /\ UNCHANGED <<borrower, borrowHandle, lendVars, owner, handle, early, fails>>

\* gh_irq_release: RPC, then the state.
Release ==
  /\ borrowCall = "idle" /\ borrower = "ACCEPTED"
  /\ owner = "accepted" /\ borrowHandle = handle
  /\ owner' = "lent" /\ borrowCall' = "releasing"
  /\ UNCHANGED <<borrower, borrowHandle, lendVars, handle, notifs, early, fails>>
AfterReleaseKept == borrower
AfterRelease == "WAIT_LEND"
ReleaseDone ==
  /\ borrowCall = "releasing"
  /\ borrower' = AfterRelease /\ borrowCall' = "released"
  /\ UNCHANGED <<borrowHandle, lendVars, rmVars, early, fails>>

\* gh_irq_release_notify, once per release; refused when a new lend came first.
ReleaseNotify ==
  /\ borrowCall = "released"
  /\ notifs' = IF borrower \in {"ACCEPTED", "WAIT_LEND"}
                 THEN notifs \cup {Notif("RELEASED", borrowHandle)} ELSE notifs
  /\ borrowCall' = "idle"
  /\ UNCHANGED <<borrower, borrowHandle, lendVars, owner, handle, early, fails>>

-----------------------------------------------------------------------------
Next ==
  \/ Lend \/ LendRpc \/ LendRpcFails \/ LendNotify \/ Reclaim \/ ReclaimDone
  \/ WaitForLend \/ Accept \/ AcceptDone \/ AcceptNotify \/ Release \/ ReleaseDone \/ ReleaseNotify
  \/ \E n \in notifs : ReleasedAcceptedNb(n) \/ LentNb(n)

Spec == Init /\ [][Next]_vars

\* Notification works run.
FairSpec == Spec /\ WF_vars(\E n \in notifs : ReleasedAcceptedNb(n) \/ LentNb(n))

-----------------------------------------------------------------------------
(* Properties                                                              *)

\* The two VMs never both take the interrupt for theirs: the owner's entry is
\* NONE again only when the other VM's gh_irq_release has gone through.
ExclusiveUse == lender = "NONE" => ~(borrower = "ACCEPTED" /\ borrowCall # "releasing")

\* An entry in state ACCEPTED on the borrowing side names the handle the Resource
\* Manager has as accepted, so that gh_irq_release will release the right one.
\* (Stated for an owner that reclaims after on_release, as gh_irq_reclaim asks:
\* after an early reclaim the LENT notification of the old lend can be handled
\* inside gh_irq_accept and replace virq_handle.)
AcceptedIsMine ==
  ~early /\ borrower = "ACCEPTED" /\ borrowCall # "releasing" => owner = "accepted" /\ borrowHandle = handle

\* Once the other VM has told of its release, the owner hears of it and may
\* reclaim, even when the earlier ACCEPTED notification is handled last.
ReleaseIsHeard ==
  ~early /\ Notif("RELEASED", lendHandle) \in notifs ~> lender = "RELEASED" \/ early
=============================================================================
