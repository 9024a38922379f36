---------------------------- MODULE GhMemTransfer ----------------------------
(***************************************************************************)
(* What the memory calls of the Resource Manager interface promise for one *)
(* region of the owner VM: it is with the owner, offered as a whole, held  *)
(* by the recipient, or lost to both; and it is lost only when the answer  *)
(* to some call could not be used or a call that takes memory back failed. *)
(***************************************************************************)
CONSTANT Entries   \* the sg-list entries a region may consist of

VARIABLES
  where,    \* "owner", "offered", "held" or "lost"
  region,   \* the entries offered
  seen,     \* the entries the recipient was told of
  excuse    \* a call after which memory may be lost has failed

tvars == <<where, region, seen, excuse>>

TInit == where = "owner" /\ region = {} /\ seen = {} /\ excuse = FALSE

Offer == /\ where = "owner" /\ where' = "offered"
         /\ region' \in (SUBSET Entries) \ {{}} /\ seen' = {} /\ excuse' = excuse

\* The recipient gets all of the region or none of it.
Take == /\ where = "offered" /\ where' = "held"
        /\ seen' = region /\ UNCHANGED <<region, excuse>>
Leave == /\ where = "held" /\ where' = "offered"
         /\ seen' = {} /\ UNCHANGED <<region, excuse>>

\* Only memory the recipient does not hold goes back.
Return == /\ where = "offered" /\ where' = "owner"
          /\ region' = {} /\ UNCHANGED <<seen, excuse>>

Fail == excuse' = TRUE /\ UNCHANGED <<where, region, seen>>
Lose == /\ excuse' /\ where' = "lost" /\ seen' = {} /\ region' \in SUBSET Entries

TNext == Offer \/ Take \/ Leave \/ Return \/ Fail \/ Lose
TSpec == TInit /\ [][TNext]_tvars
=============================================================================
