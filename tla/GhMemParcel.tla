----------------------------- MODULE GhMemParcel -----------------------------
(***************************************************************************)
(* Memory parcels: gh_rm_mem_share, lend, donate, append, accept, release, *)
(* reclaim and notify of gh_rm_iface.c and the notification dispatch of    *)
(* gh_mem_notifier.c, for one region that an owner VM offers to a recipient*)
(* VM.  Both VMs run these drivers; the Resource Manager and the clients   *)
(* of the interface (who calls what next) are external.                    *)
(*                                                                         *)
(* One action is one RPC with what its caller does up to the next one.  An *)
(* RPC may be refused, may fail before the Resource Manager sees it, or    *)
(* may be carried out and answered by a reply of the wrong size or by one  *)
(* that was cut short, for which gh_rm_call gives -EIO and rm_error 0.     *)
(***************************************************************************)
EXTENDS Naturals, Sequences, SequencesExt

CONSTANTS
  MaxSgl,        \* GH_RM_MEM_MAX_SGL_ENTRIES
  MaxEntries,    \* bound on the entries of a region
  MaxFrag,       \* entries the Resource Manager returns per ACCEPT reply
  MaxTransfers,  \* bound on how often the region is offered
  MaxFaults,     \* bound on failing RPCs and allocations
  MaxUnregs      \* bound on gh_mem_notifier_unregister calls

ASSUME SizesAssumption ==
  /\ MaxSgl \in Nat \ {0} /\ MaxEntries \in Nat \ {0} /\ MaxFrag \in Nat \ {0}
  /\ MaxTransfers \in Nat /\ MaxFaults \in Nat /\ MaxUnregs \in Nat

Sides == {"owner", "recipient"}

VARIABLES
  \* the Resource Manager (external)
  st,        \* the parcel: "none", "partial" (APPEND, no END yet) or "whole"
  got,       \* the entries it has been given
  mapped,    \* it is mapped for the recipient
  sent,      \* how many entries the ACCEPT replies have returned so far
  \* the owner VM
  own,       \* where its client is
  n,         \* sgl_desc->n_sgl_entries
  idx,       \* the loop variable of gh_rm_mem_share_lend_helper
  \* the recipient VM
  rec,       \* where its client is
  mode,      \* the sgl_desc and flags parameters of gh_rm_mem_accept
  gather,    \* the list of gh_sgl_fragment, newest first
  view,      \* the sg-list gh_rm_mem_accept returned
  \* gh_mem_notifier.c in both
  handler,   \* [Sides -> BOOLEAN]: mem_notifier_entries[tag].handler is set
  inCall,    \* [Sides -> BOOLEAN]: gh_mem_notifier_call has read the handler
  notifs,    \* the VMs a notification is on its way to
  transfers, faults, unregs,
  excuse     \* history: memory may be lost since here (see GhMemTransfer)

rmVars    == <<st, got, mapped, sent>>
ownVars   == <<own, n, idx, transfers>>
recVars   == <<rec, mode, gather, view>>
notifVars == <<handler, inCall, unregs>>
vars == <<rmVars, ownVars, recVars, notifVars, notifs, faults, excuse>>

OwnSteps == {"idle", "append", "undo", "notify", "wait", "reclaim"}
RecSteps == {"idle", "prepare", "accept", "done", "combine", "unwind", "holding", "tell"}
Modes    == {"given", "any", "anyDone"}   \* sgl_desc; none; none, with GH_RM_MEM_ACCEPT_DONE

TypeOK ==
  /\ st \in {"none", "partial", "whole"} /\ mapped \in BOOLEAN
  /\ got \in BoundedSeq(1..MaxEntries, MaxEntries) /\ sent \in 0..MaxEntries
  /\ own \in OwnSteps /\ n \in 0..MaxEntries /\ idx \in 0..MaxEntries
  /\ rec \in RecSteps /\ mode \in Modes
  /\ handler \in [Sides -> BOOLEAN] /\ inCall \in [Sides -> BOOLEAN] /\ notifs \subseteq Sides
  /\ transfers \in 0..MaxTransfers /\ faults \in 0..MaxFaults /\ unregs \in 0..MaxUnregs
  /\ excuse \in BOOLEAN

Init ==
  /\ st = "none" /\ got = << >> /\ mapped = FALSE /\ sent = 0
  /\ own = "idle" /\ n = 0 /\ idx = 0 /\ transfers = 0
  /\ rec = "idle" /\ mode = "any" /\ gather = << >> /\ view = << >>
  /\ handler = [s \in Sides |-> TRUE] /\ inCall = [s \in Sides |-> FALSE] /\ unregs = 0
  /\ notifs = {} /\ faults = 0 /\ excuse = FALSE

-----------------------------------------------------------------------------
(* gh_rm_call, as these callers see it                                     *)

Lesser(a, b) == IF a < b THEN a ELSE b

\* What may come of a request: what the Resource Manager answers by itself, or
\* one of the failures.
Normal(legal)  == IF legal THEN "ok" ELSE "refused"
Answers(legal) == {Normal(legal)} \cup
                  (IF faults = MaxFaults THEN {}
                   ELSE IF legal THEN {"refused", "unsent", "badsize", "cut"} ELSE {"unsent"})
Counted(legal, a) == faults' = IF a = Normal(legal) THEN faults ELSE faults + 1
CarriedOut(a) == a \in {"ok", "badsize", "cut"}

\* gh_rm_mem_release_helper and gh_rm_mem_notify look at gh_ret only, which
\* gh_rm_call leaves unset when the request could not be sent.
Returns(a) == CASE CarriedOut(a)  -> {"0"}
                [] a = "refused"  -> {"errno"}
                [] a = "unsent"   -> {"0", "errno"}

-----------------------------------------------------------------------------
(* The owner: gh_rm_mem_share_lend_helper                                  *)

Slice(from, to) == [i \in 1..(to - from) |-> from + i]

\* gh_rm_mem_share, lend or donate: the first MaxSgl entries, with APPEND if
\* there are more.  A reply that is not usable is an error and nothing is undone.
Share ==
  /\ own = "idle" /\ st = "none" /\ transfers < MaxTransfers
  /\ transfers' = transfers + 1
  /\ \E count \in 1..MaxEntries, a \in Answers(TRUE) :
       LET first == Lesser(count, MaxSgl) IN
       /\ Counted(TRUE, a)
       /\ IF CarriedOut(a)
            THEN /\ st' = IF count > MaxSgl THEN "partial" ELSE "whole"
                 /\ got' = Slice(0, first)
            ELSE UNCHANGED <<st, got>>
       /\ n' = IF a = "ok" THEN count ELSE 0
       /\ idx' = IF a = "ok" THEN first ELSE 0
       /\ own' = IF a # "ok" THEN "idle" ELSE IF first < count THEN "append" ELSE "notify"
       /\ excuse' = (excuse \/ (CarriedOut(a) /\ a # "ok"))
  /\ UNCHANGED <<mapped, sent, recVars, notifVars, notifs>>

\* The end of the slice sent next; GH_RM_MEM_APPEND_END goes with the last one.
NextIdx == Lesser(idx + MaxSgl, n)
AppendEnd == NextIdx = n

\* One iteration of the loop: gh_rm_mem_append.
Append1 ==
  /\ own = "append"
  /\ \E a \in Answers(st = "partial") :
       /\ Counted(st = "partial", a)
       /\ IF CarriedOut(a)
            THEN /\ got' = got \o Slice(idx, NextIdx)
                 /\ st' = IF AppendEnd THEN "whole" ELSE st
            ELSE UNCHANGED <<got, st>>
       /\ idx' = IF a = "ok" THEN NextIdx ELSE idx
       /\ own' = IF a # "ok" THEN "undo" ELSE IF NextIdx < n THEN "append" ELSE "notify"
  /\ UNCHANGED <<n, transfers, mapped, sent, recVars, notifVars, notifs, excuse>>

\* The Resource Manager takes a parcel back unless it is mapped.
Reclaimed(a) ==
  IF CarriedOut(a) THEN st' = "none" /\ got' = << >> ELSE UNCHANGED <<st, got>>
OwnerDone == own' = "idle" /\ n' = 0 /\ idx' = 0

\* err_mem_append: gh_rm_mem_reclaim, whose result is ignored.
UndoSkipped == FALSE
UndoReclaims == TRUE
Undo ==
  /\ own = "undo"
  /\ IF UndoReclaims
       THEN \E a \in Answers(~mapped) :
              /\ Counted(~mapped, a) /\ Reclaimed(a)
              /\ excuse' = (excuse \/ ~CarriedOut(a))
       ELSE UNCHANGED <<faults, st, got, excuse>>
  /\ OwnerDone
  /\ UNCHANGED <<transfers, mapped, sent, recVars, notifVars, notifs>>

\* gh_rm_mem_notify with GH_RM_MEM_NOTIFY_RECIPIENT_SHARED.  A client told of
\* an error takes the memory back.
NotifyShared ==
  /\ own = "notify"
  /\ \E a \in Answers(TRUE) :
       /\ Counted(TRUE, a)
       /\ notifs' = IF CarriedOut(a) THEN notifs \cup {"recipient"} ELSE notifs
       /\ \E ret \in Returns(a) : own' = IF ret = "0" THEN "wait" ELSE "reclaim"
  /\ UNCHANGED <<n, idx, transfers, rmVars, recVars, notifVars, excuse>>

\* gh_rm_mem_reclaim: refused while the recipient has the memory mapped; the
\* client then waits for the next notification.
Reclaim ==
  /\ own = "reclaim"
  /\ \E a \in Answers(~mapped) :
       /\ Counted(~mapped, a) /\ Reclaimed(a)
       /\ \E ret \in Returns(a) :
            /\ IF ret = "0" THEN OwnerDone ELSE own' = "wait" /\ UNCHANGED <<n, idx>>
            /\ excuse' = (excuse \/ (ret = "0" /\ ~CarriedOut(a)))
  /\ UNCHANGED <<transfers, mapped, sent, recVars, notifVars, notifs>>

-----------------------------------------------------------------------------
(* The recipient: gh_rm_mem_accept                                         *)

\* gh_rm_mem_accept_prepare_request, where a list of the caller's own has to fit,
\* and gh_sgl_fragment_init; both allocate.
AcceptPrepare ==
  /\ rec = "prepare"
  /\ \E m \in Modes :
       /\ mode' = m
       /\ \/ rec' = (IF m = "given" /\ n > MaxSgl THEN "tell" ELSE "accept") /\ UNCHANGED faults
          \/ faults < MaxFaults /\ faults' = faults + 1 /\ rec' = "tell"
  /\ UNCHANGED <<gather, view, rmVars, ownVars, notifVars, notifs, excuse>>

\* The end of the fragment the Resource Manager returns next.
FragEnd == Lesser(sent + MaxFrag, Len(got))

\* gh_sgl_fragment_append: list_add puts the fragment in front.
GatheredOverwrites(frag) == <<frag>>
Gathered(frag) == <<frag>> \o gather

\* accept_in_progress: set by the first reply without an error, whatever its size.
InProgress(a) == gather # << >> \/ a \in {"ok", "badsize"}
\* err_rm_call: what is in progress is released first.
AcceptFails(a) == IF InProgress(a) THEN "unwind" ELSE "tell"
\* gh_sgl_fragment_release.
FragmentRelease == gather' = << >>

\* One iteration of the loop.  The memory is mapped from the first call on.
AcceptCall ==
  LET legal == st = "whole" IN
  /\ rec = "accept"
  /\ \E a \in Answers(legal), noMem \in BOOLEAN :
       /\ noMem => a = "ok" /\ faults < MaxFaults        \* gh_sgl_fragment_append
       /\ faults' = faults + (IF noMem \/ a # Normal(legal) THEN 1 ELSE 0)
       /\ IF CarriedOut(a)
            THEN mapped' = TRUE /\ sent' = IF mode = "given" THEN sent ELSE FragEnd
            ELSE UNCHANGED <<mapped, sent>>
       /\ IF a # "ok" \/ noMem
            THEN rec' = AcceptFails(a) /\ UNCHANGED <<gather, view>>
            ELSE IF mode = "given"
            THEN rec' = "holding" /\ view' = got /\ UNCHANGED gather
            ELSE /\ gather' = Gathered(SubSeq(got, sent + 1, FragEnd))
                 /\ rec' = IF FragEnd < Len(got) THEN "accept"      \* INCOMPLETE
                           ELSE IF mode = "anyDone" THEN "done" ELSE "combine"
                 /\ UNCHANGED view
       /\ excuse' = (excuse \/ (CarriedOut(a) /\ ~InProgress(a)))
  /\ UNCHANGED <<mode, st, got, ownVars, notifVars, notifs>>

\* All fragments are there: the call with GH_RM_MEM_ACCEPT_DONE, whose reply may
\* have any size.
AcceptDone ==
  /\ rec = "done"
  /\ \E a \in Answers(TRUE) :
       /\ Counted(TRUE, a)
       /\ rec' = IF a \in {"ok", "badsize"} THEN "combine" ELSE "unwind"
  /\ UNCHANGED <<mode, gather, view, rmVars, ownVars, notifVars, notifs, excuse>>

\* gh_sgl_fragment_combine and gh_sgl_fragment_release.
AcceptCombine ==
  /\ rec = "combine"
  /\ \/ /\ view' = FlattenSeq(gather) /\ FragmentRelease /\ rec' = "holding"
        /\ UNCHANGED faults
     \/ /\ faults < MaxFaults /\ faults' = faults + 1      \* kvmalloc
        /\ rec' = "unwind" /\ UNCHANGED <<gather, view>>
  /\ UNCHANGED <<mode, rmVars, ownVars, notifVars, notifs, excuse>>

Unmapped(a) ==
  IF CarriedOut(a) THEN mapped' = FALSE /\ sent' = 0 ELSE UNCHANGED <<mapped, sent>>

\* err_rm_call: gh_rm_mem_release, whose result is ignored.
AcceptUnwind ==
  /\ rec = "unwind"
  /\ \E a \in Answers(mapped) :
       /\ Counted(mapped, a) /\ Unmapped(a)
       /\ excuse' = (excuse \/ ~CarriedOut(a))
  /\ FragmentRelease /\ rec' = "tell"
  /\ UNCHANGED <<mode, view, st, got, ownVars, notifVars, notifs>>

\* gh_rm_mem_release.
Release ==
  /\ rec = "holding"
  /\ \E a \in Answers(mapped) :
       /\ Counted(mapped, a) /\ Unmapped(a)
       /\ \E ret \in Returns(a) :
            /\ IF ret = "0" THEN rec' = "tell" /\ view' = << >> ELSE UNCHANGED <<rec, view>>
            /\ excuse' = (excuse \/ (ret = "0" /\ ~CarriedOut(a)))
  /\ UNCHANGED <<mode, gather, st, got, ownVars, notifVars, notifs>>

\* gh_rm_mem_notify with GH_RM_MEM_NOTIFY_OWNER_RELEASED; also by a client whose
\* gh_rm_mem_accept failed.
OwnerReleasedSwapped == "recipient"
OwnerReleased == "owner"
NotifyReleased ==
  /\ rec = "tell"
  /\ \E a \in Answers(TRUE) :
       /\ Counted(TRUE, a)
       /\ notifs' = IF CarriedOut(a) THEN notifs \cup {OwnerReleased} ELSE notifs
  /\ rec' = "idle"
  /\ UNCHANGED <<mode, gather, view, rmVars, ownVars, notifVars, excuse>>

-----------------------------------------------------------------------------
(* gh_mem_notifier.c                                                       *)

\* gh_mem_notifier_call reads the entry under the mutex; without a handler the
\* notification is gone.
NotifierRead(s) ==
  /\ s \in notifs /\ ~inCall[s]
  /\ notifs' = notifs \ {s}
  /\ inCall' = [inCall EXCEPT ![s] = handler[s]]
  /\ UNCHANGED <<handler, unregs, rmVars, ownVars, recVars, faults, excuse>>

\* The handler runs, with the mutex dropped: the client goes on.
NotifierCall(s) ==
  /\ inCall[s]
  /\ inCall' = [inCall EXCEPT ![s] = FALSE]
  /\ own' = IF s = "owner" /\ own = "wait" THEN "reclaim" ELSE own
  /\ rec' = IF s = "recipient" /\ rec = "idle" THEN "prepare" ELSE rec
  /\ UNCHANGED <<handler, unregs, n, idx, transfers, mode, gather, view, rmVars, notifs, faults, excuse>>

Register(s) ==
  /\ ~handler[s] /\ handler' = [handler EXCEPT ![s] = TRUE]
  /\ UNCHANGED <<inCall, unregs, rmVars, ownVars, recVars, notifs, faults, excuse>>
Unregister(s) ==
  /\ handler[s] /\ unregs < MaxUnregs /\ unregs' = unregs + 1
  /\ handler' = [handler EXCEPT ![s] = FALSE]
  /\ UNCHANGED <<inCall, rmVars, ownVars, recVars, notifs, faults, excuse>>

-----------------------------------------------------------------------------
OwnerNext == Append1 \/ Undo \/ NotifyShared \/ Reclaim
RecipientNext == \/ AcceptPrepare \/ AcceptCall \/ AcceptDone \/ AcceptCombine \/ AcceptUnwind
                 \/ Release \/ NotifyReleased
NotifierNext(s) == NotifierRead(s) \/ NotifierCall(s)

Next ==
  \/ Share \/ OwnerNext \/ RecipientNext
  \/ \E s \in Sides : NotifierNext(s) \/ Register(s) \/ Unregister(s)

Spec == Init /\ [][Next]_vars

\* Calls under way go on, notifications are delivered, and the recipient's
\* client does not keep the memory for ever.
FairSpec ==
  /\ Spec /\ WF_vars(OwnerNext) /\ WF_vars(RecipientNext)
  /\ \A s \in Sides : WF_vars(NotifierNext(s))

-----------------------------------------------------------------------------
(* Properties                                                              *)

\* Where the region is.  A parcel under construction is still the owner's; one
\* that its owner has forgotten, or that is mapped for a recipient that does not
\* know it, is lost.
Where ==
  IF st = "none" \/ own \in {"append", "undo"} THEN "owner"
  ELSE IF own = "idle" THEN "lost"
  ELSE IF mapped /\ rec \notin {"accept", "done", "combine", "unwind", "holding"} THEN "lost"
  ELSE IF rec = "holding" THEN "held"
  ELSE "offered"

Transfer == INSTANCE GhMemTransfer WITH
  Entries <- 1..MaxEntries,
  where   <- Where,
  region  <- IF Where \in {"offered", "held"} THEN 1..n ELSE {},
  seen    <- IF Where = "held" THEN ToSet(view) ELSE {},
  excuse  <- excuse

\* The memory calls implement GhMemTransfer: a region is offered as a whole
\* however many APPEND calls it takes, accepted as a whole or not at all however
\* many ACCEPT calls that takes, never taken back while the recipient holds it,
\* and every failure is undone unless the undoing call itself fails.
RefinesTransfer == Transfer!TSpec

\* The list gh_rm_mem_accept returns describes the region, whatever failed before:
\* it has as many entries as the region and every one of them, so each once, and the
\* fragments the Resource Manager returned are unbroken.  The order of the fragments
\* is left open: gh_sgl_fragment_append puts the newest first.
AcceptedIsWhole ==
  rec = "holding" =>
    /\ Len(view) = n /\ ToSet(view) = 1..n
    /\ \A i \in 1..(Len(view) - 1) : view[i + 1] = view[i] + 1 \/ view[i] % MaxFrag = 0 \/ view[i] = n

\* Memory that was offered comes back to its owner: no notification is lost
\* between the two VMs while the handlers stay registered and the calls succeed.
MemoryComesBack == own = "wait" ~> (own = "idle" \/ faults > 0 \/ unregs > 0)
=============================================================================
