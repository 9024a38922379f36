-------------------------------- MODULE GhRpc --------------------------------
(***************************************************************************)
(* What gh_rm_call promises its callers: the Resource Manager answers a    *)
(* request at most once and before the call returns, the call returns what *)
(* it answered, whole, or an error, and a request whose sending failed is  *)
(* not answered at all, neither before the call returns nor later.  And    *)
(* what the notifier chain is promised: whole notifications only, each     *)
(* after it was sent.                                                      *)
(***************************************************************************)
EXTENDS Integers

CONSTANTS Callers, Requests, MaxFrags

VARIABLES
  under,   \* [Callers -> the request under way, 0 if none]
  stage,   \* [Requests -> "new", "open", "answered" or "over"]
  reply,   \* [Requests -> the Resource Manager's answer]
  got,     \* [Callers -> what the last call returned]
  raised,  \* how many notifications the Resource Manager has sent
  told     \* the notifications the notifier chain was called with

callsVars == <<under, stage, reply, got>>
tellVars == <<raised, told>>
rpcVars == <<under, stage, reply, got, raised, told>>

NoReply == [sent |-> FALSE, num |-> 0, err |-> FALSE]
Nothing == [code |-> "none", data |-> << >>]
Error(code) == [code |-> code, data |-> << >>]

\* What was sent as c, in n continuation fragments after the first, in one piece.
Pieces(c, n) == [i \in 1..(n + 1) |-> <<c, i - 1>>]
Payload(c, n) == [code |-> "payload", data |-> Pieces(c, n)]

RpcInit ==
  /\ under = [t \in Callers |-> 0] /\ stage = [c \in Requests |-> "new"]
  /\ reply = [c \in Requests |-> NoReply] /\ got = [t \in Callers |-> Nothing]
  /\ raised = 0 /\ told = {}

Call(t, c) ==
  /\ under[t] = 0 /\ under' = [under EXCEPT ![t] = c]
  /\ stage[c] = "new" /\ stage' = [stage EXCEPT ![c] = "open"]
  /\ got' = [got EXCEPT ![t] = Nothing] /\ UNCHANGED <<reply, tellVars>>

Answer(c) ==
  /\ stage[c] = "open" /\ stage' = [stage EXCEPT ![c] = "answered"]
  /\ \E n \in 0..MaxFrags, err \in BOOLEAN :
       reply' = [reply EXCEPT ![c] = [sent |-> TRUE, num |-> n, err |-> err]]
  /\ UNCHANGED <<under, got, tellVars>>

Ends(t, c) == under[t] = c /\ under' = [under EXCEPT ![t] = 0] /\ stage' = [stage EXCEPT ![c] = "over"]

\* The answer arrived, or it did so in part only.
Return(t, c) ==
  /\ stage[c] = "answered" /\ Ends(t, c) /\ UNCHANGED <<reply, tellVars>>
  /\ \E r \in IF reply[c].err THEN {Error("RMERR")} ELSE {Payload(c, reply[c].num), Error("EIO")} :
       got' = [got EXCEPT ![t] = r]

\* The request was not sent, or not all of it.
Fail(t, c) ==
  /\ stage[c] = "open" /\ Ends(t, c) /\ UNCHANGED <<reply, tellVars>>
  /\ \E code \in {"ESEND", "ERESTARTSYS"} : got' = [got EXCEPT ![t] = Error(code)]

\* Notification k is the k-th, its fragments bear the number -k.
Notify == raised' = raised + 1 /\ UNCHANGED <<callsVars, told>>

Deliver ==
  /\ \E k \in 1..raised, n \in 0..MaxFrags : told' = told \cup {[num |-> n, data |-> Pieces(0 - k, n)]}
  /\ UNCHANGED <<callsVars, raised>>

RpcNext ==
  \/ \E c \in Requests : Answer(c) \/ \E t \in Callers : Call(t, c) \/ Return(t, c) \/ Fail(t, c)
  \/ Notify \/ Deliver
RpcSpec == RpcInit /\ [][RpcNext]_rpcVars
=============================================================================
