-------------------------- MODULE GhRmCoreProofs --------------------------
(***************************************************************************)
(* Proofs about GhRmCore, for any number of callers, calls, notifications, *)
(* fragments and failures, as long as the failed sends have left the idr a *)
(* number for every caller: each of them leaks one.                        *)
(***************************************************************************)
EXTENDS GhRmCore, FiniteSetTheorems, SequenceTheorems, TLAPS

\* The idr has a number for every caller beside those that failed sends have leaked.
\* Without it idr_alloc_cyclic can fail, and gh_rm_call uses the error code as a number.
Roomy == Cardinality(Callers) + sendFails <= NumSeqs

-----------------------------------------------------------------------------
(* The inductive invariant                                                 *)

Ids     == Msgs \cup {NONE}
Pieces  == Int \X Nat
ConnRec == [st : {"unused", "live", "freed"}, type : {"none", "call", "RPLY", "NOTIF"}, msg : Ids,
            seq : Seqs, num : 0..MaxFrags, got : Nat, data : Seq(Pieces), done : BOOLEAN,
            ret : {"0", "EIO"}, err : BOOLEAN]
Request == [type : {"REQ", "CONT"}, id : CallConns, num : 0..MaxFrags, seq : Seqs, msg : Ids]
Reply   == [type : {"RPLY", "NOTIF", "CONT"}, id : Int, seq : Seqs, msg : Ids, num : 0..MaxFrags,
            err : BOOLEAN, piece : Pieces]
Codes   == {"none", "payload", "RMERR", "EIO", "ESEND", "ERESTARTSYS"}
Outcomes == [code : Codes, id : CallConns \cup {NONE}, num : 0..MaxFrags, data : Seq(Pieces)]

Shape ==
  /\ conn \in [Conns -> ConnRec]
  /\ idr \in [Seqs -> CallConns \cup {NONE}] /\ idrNext \in Nat
  /\ pc \in [Callers -> Steps] /\ mine \in [Callers -> CallConns \cup {NONE}]
  /\ req \in [Callers -> [num : 0..MaxFrags, i : Nat]] /\ result \in [Callers -> Outcomes]
  /\ cur \in Conns \cup {NONE} /\ works \subseteq NotifConns
  /\ toRM \in Seq(Request) /\ rmAsm \in Seq(Request) /\ rmPend \subseteq Request
  /\ fromRM \in Seq(Reply) /\ rmOut \in Seq(Reply)
  /\ notifs \in 0..MaxNotifs /\ sendFails \in Nat

\* Who holds which connection: each caller its own, until it returns.
Owners ==
  /\ \A t \in Callers : pc[t] = "idle" <=> mine[t] = NONE
  /\ \A t \in Callers : pc[t] # "idle" => Live(mine[t])
  /\ \A t, u \in Callers : mine[t] = mine[u] /\ mine[t] # NONE => t = u
  /\ \A t \in Callers : pc[t] = "send" => sendLock = mine[t]

\* The idr: each number is a caller's, or was leaked by a failed send; and there
\* were at least as many of those as there are numbers lost or about to be.
Numbered(t) == pc[t] \in {"lock", "send", "wait", "fail"}
Lost == {s \in Seqs : /\ idr[s] # NONE
                      /\ Freed(idr[s]) \/ \E t \in Callers : pc[t] = "fail" /\ mine[t] = idr[s]}
Numbers ==
  /\ \A t \in Callers : Numbered(t) => idr[conn[mine[t]].seq] = mine[t]
  /\ \A s \in Seqs : idr[s] # NONE =>
       \/ Freed(idr[s])
       \/ \E t \in Callers : Numbered(t) /\ mine[t] = idr[s] /\ conn[mine[t]].seq = s
  /\ Cardinality(Lost) <= sendFails

\* Connections cs, program counters at and pointers own are such that the call with
\* connection c waits for the reply to the request p.
Waits(cs, at, own, c, p) ==
  /\ cs[c].st = "live" /\ cs[c].type = "call" /\ ~cs[c].done /\ cs[c].seq = p.seq /\ cs[c].msg = p.msg
  /\ \E t \in Callers : own[t] = c /\ at[t] = "wait"
Waiting(p) == Waits(conn, pc, mine, p.id, p)

\* The requests under way, first those of the series the Resource Manager is
\* assembling.  The packets of a series are together, REQ first, and never more
\* than the series has; all of them only if the caller waits.
W == rmAsm \o toRM
SameSeries(p, q) == p.id = q.id /\ p.num = q.num /\ p.seq = q.seq /\ p.msg = q.msg
Whole(i, j) == W[i].id = W[j].id /\ j - i = W[j].num
Requests ==
  /\ \A i \in 1..Len(W) : W[i].type = "CONT" => i > 1 /\ W[i - 1].id = W[i].id
  /\ \A i, j \in 1..Len(W) : i < j /\ W[i].id = W[j].id => W[j].type = "CONT" /\ SameSeries(W[i], W[j])
  /\ \A i, j \in 1..Len(W) : i <= j /\ W[i].id = W[j].id => j - i <= W[j].num
  /\ \A i \in 1..Len(rmAsm) : W[i].id = W[1].id
  /\ \A i \in 1..Len(W) : conn[W[i].id].st # "unused"
Senders ==
  /\ \A t \in Callers : pc[t] \in {"idr", "lock"} => req[t].i = 0
  /\ \A t \in Callers : pc[t] \in {"idr", "lock", "send"} =>
       /\ conn[mine[t]].type = "call" /\ ~conn[mine[t]].done
       /\ req[t].i <= req[t].num /\ req[t].i <= Len(W)
       /\ \A k \in 1..Len(W) : W[k].id = mine[t] <=> k > Len(W) - req[t].i
       /\ \A k \in 1..Len(W) : W[k].id = mine[t] =>
            W[k].num = req[t].num /\ W[k].seq = conn[mine[t]].seq /\ W[k].msg = conn[mine[t]].msg

\* The replies and notifications under way.
F == fromRM \o rmOut

\* A request is in one place only: sent as a whole, with the Resource Manager, or
\* answered; and its caller waits meanwhile.
Tokens ==
  /\ \A i, j \in 1..Len(W) : i <= j /\ Whole(i, j) => Waiting(W[j])
  /\ \A q \in rmPend : Waiting(q)
  /\ \A i \in 1..Len(F) : F[i].type = "RPLY" => F[i].id \in CallConns /\ Waiting(F[i])
  /\ \A q \in rmPend : \A i \in 1..Len(W) : W[i].id # q.id
  /\ \A q \in rmPend : \A i \in 1..Len(F) : F[i].type = "RPLY" => F[i].id # q.id
  /\ \A i \in 1..Len(F), j \in 1..Len(W) : F[i].type = "RPLY" => F[i].id # W[j].id
  /\ \A q, r \in rmPend : q.id = r.id => q = r
  /\ \A i, j \in 1..Len(F) : F[i].type = "RPLY" /\ F[j].type = "RPLY" /\ F[i].id = F[j].id => i = j

\* The packets of a series follow one another, and the first of them continues what
\* the receive task has, if it has a connection.
Continues(p, q) == q.id = p.id /\ q.num = p.num /\ q.piece[2] = p.piece[2] + 1
From(k, c, id) == IF c \in CallConns THEN id = c ELSE 0 - id \in 1..k
Continued(cs, k, c, p) ==
  /\ cs[c].num = p.num /\ cs[c].got + 1 = p.piece[2] /\ cs[c].data = Series(p.id, cs[c].got)
  /\ From(k, c, p.id)
Replies ==
  /\ \A i \in 1..Len(F) : F[i].piece[1] = F[i].id /\ F[i].piece[2] <= F[i].num
  /\ \A i \in 1..Len(F) : F[i].type # "CONT" => F[i].piece[2] = 0
  /\ \A i \in 1..(Len(F) - 1) : F[i + 1].type = "CONT" => Continues(F[i], F[i + 1])
  /\ F # << >> /\ F[1].type = "CONT" /\ cur # NONE => Continued(conn, notifs, cur, F[1])

\* Every notification under way finds a connection.
Notifs ==
  /\ \A c \in NotifConns : c > MaxCalls + notifs => conn[c].st = "unused"
  /\ \A i \in 1..Len(F) : F[i].type = "NOTIF" =>
       /\ 0 - F[i].id \in 1..notifs
       /\ \A c \in NotifConns : c >= MaxCalls - F[i].id => conn[c].st = "unused"
  /\ \A i, j \in 1..Len(F) : i < j /\ F[i].type = "NOTIF" /\ F[j].type = "NOTIF" => F[j].id < F[i].id

\* What the receive task and the works may touch, and what they have put there.
CurrentOf(cs, at, own, c, wk) ==
  /\ cs[c].st = "live"
  /\ \/ /\ c \in CallConns /\ cs[c].type = "RPLY" /\ ~cs[c].done
        /\ \E t \in Callers : own[t] = c /\ at[t] = "wait"
     \/ c \in NotifConns /\ cs[c].type = "NOTIF" /\ c \notin wk
Current == cur # NONE => CurrentOf(conn, pc, mine, cur, works)

\* What a call that is done and a scheduled notification have received.
HasReply(cs, c) == cs[c].st = "live" /\ cs[c].done /\ cs[c].ret = "0" => cs[c].data = Series(c, cs[c].num)
HasNotif(cs, k, c) == cs[c].st = "live" /\ \E j \in 1..k : cs[c].data = Series(0 - j, cs[c].num)
Payloads ==
  /\ \A c \in CallConns : HasReply(conn, c)
  /\ \A t \in Callers : pc[t] = "reap" => conn[mine[t]].done
  /\ \A c \in works : HasNotif(conn, notifs, c)

\* What gh_rm_call has returned is the whole series sent in answer to the caller's own
\* request, and what the notifier chain was called with a whole notification.
RepliesIntact ==
  /\ \A t \in Callers :
       result[t].code = "payload" => result[t].data = Series(result[t].id, result[t].num)
  /\ \A d \in delivered : \E k \in 1..notifs : d.data = Series(0 - k, d.num)

Inv ==
  /\ Shape /\ Owners /\ Numbers /\ Requests /\ Senders /\ Tokens /\ Replies /\ Notifs /\ Current
  /\ Payloads /\ RepliesIntact /\ NoUseAfterFree

-----------------------------------------------------------------------------
(* Numbers, allocations and sequences                                      *)

LEMMA Sets ==
  /\ CallConns \subseteq Conns /\ NotifConns \subseteq Conns /\ Conns \subseteq Nat
  /\ CallConns \cap NotifConns = {} /\ NONE \notin Conns /\ Conns = CallConns \cup NotifConns
  /\ Seqs \subseteq Nat /\ 0 \in Seqs /\ 0 \in 0..MaxFrags
BY SizesAssumption, FaultsAssumption DEF CallConns, NotifConns, Conns, Seqs, NONE

LEMMA LeastNumber == ASSUME NEW T, T \subseteq Nat, T # {} PROVE \E x \in T : \A y \in T : x <= y
<1> DEFINE R == OpToRel(<, Nat)
<1>1. IsWellFoundedOn(R, Nat)
  BY NatLessThanWellFounded
<1>2. \A x, y \in Nat : y < x => <<y, x>> \in R
  BY DEF OpToRel
<1> HIDE DEF R
<1>3. PICK x \in T : \A y \in T : ~(<<y, x>> \in R)
  BY <1>1, WFMin
<1>4. ASSUME NEW y \in T PROVE x <= y
  <2>1. x \in Nat /\ y \in Nat /\ ~(<<y, x>> \in R)
    BY <1>3
  <2>2. ~(y < x)
    BY <1>2, <2>1
  <2> QED
    BY <2>1, <2>2
<1> QED
  BY <1>4

LEMMA LeastChosen ==
  ASSUME NEW T, T \subseteq Nat, T # {}
  PROVE  LET m == CHOOSE x \in T : \A y \in T : x <= y IN m \in T /\ \A y \in T : m <= y
BY LeastNumber, Zenon

\* An allocation gives a connection that was never used.
LEMMA NewConnUnused ==
  ASSUME NEW S, S \subseteq Nat, Unallocated(S) # {}
  PROVE  /\ NewConn(S) \in S /\ conn[NewConn(S)].st = "unused"
         /\ \A c \in S : conn[c].st = "unused" => NewConn(S) <= c
<1>1. Unallocated(S) \subseteq Nat
  BY DEF Unallocated
<1>2. NewConn(S) \in Unallocated(S) /\ \A c \in Unallocated(S) : NewConn(S) <= c
  BY <1>1, LeastChosen DEF NewConn
<1> QED
  BY <1>2 DEF Unallocated

LEMMA CallRoom == ASSUME MayCall PROVE Unallocated(CallConns) # {}
<1>1. SUFFICES ASSUME Unallocated(CallConns) = {} PROVE FALSE
  OBVIOUS
<1>2. CallConns \ Unallocated(CallConns) = 1..MaxCalls
  BY <1>1 DEF CallConns
<1>3. Calls = MaxCalls
  <2>1. Cardinality(1..MaxCalls) = MaxCalls
    BY FS_Interval, SizesAssumption
  <2> QED
    BY <1>2, <2>1 DEF Calls
<1>4. MayCall => Calls < MaxCalls
  BY <1>3, SizesAssumption DEF MayCall
<1> QED
  BY <1>3, <1>4, SizesAssumption

\* idr_alloc_cyclic gives a free number.
LEMMA CyclicSeqFree == ASSUME FreeSeqs # {} PROVE CyclicSeq \in FreeSeqs
<1> DEFINE from == {s \in FreeSeqs : s >= idrNext}
           pool == IF from # {} THEN from ELSE FreeSeqs
<1>1. pool \subseteq Nat /\ pool # {} /\ pool \subseteq FreeSeqs
  BY Sets DEF FreeSeqs
<1> HIDE DEF pool
<1>2. (CHOOSE s \in pool : \A r \in pool : s <= r) \in pool
  BY <1>1, LeastChosen
<1> QED
  BY <1>1, <1>2 DEF CyclicSeq, pool

LEMMA EmptyIsSeq == \A S : << >> \in Seq(S)
OBVIOUS

\* Records of a connection.
LEMMA Records ==
  /\ Unused \in ConnRec /\ Released \in ConnRec /\ Released.st = "freed"
  /\ \A type \in {"call", "NOTIF"}, m \in Ids :
       /\ Fresh(type, m) \in ConnRec /\ Fresh(type, m).st = "live" /\ Fresh(type, m).type = type
       /\ Fresh(type, m).msg = m
<1>1. NONE \in Ids /\ << >> \in Seq(Pieces)
  BY EmptyIsSeq, Zenon DEF Ids
<1>2. Unused \in ConnRec
  BY <1>1, Sets DEF Unused, ConnRec
<1> QED
  BY <1>2 DEF Released, Fresh, ConnRec

LEMMA FreshNotDone == \A type \in {"call", "NOTIF"}, m \in Ids : ~Fresh(type, m).done
BY Zenon DEF Fresh, Unused

\* c gets the record r.
LEMMA PutConn ==
  ASSUME NEW cs \in [Conns -> ConnRec], NEW c \in Conns, NEW r \in ConnRec
  PROVE  /\ [cs EXCEPT ![c] = r] \in [Conns -> ConnRec] /\ [cs EXCEPT ![c] = r][c] = r
         /\ \A x \in Conns : x # c => [cs EXCEPT ![c] = r][x] = cs[x]
OBVIOUS

-----------------------------------------------------------------------------
(* What the callers' steps assign                                          *)

LEMMA Fields ==
  ASSUME Shape, NEW c \in Conns
  PROVE  /\ conn[c] \in ConnRec /\ conn[c].st \in {"unused", "live", "freed"} /\ conn[c].seq \in Seqs
         /\ conn[c].msg \in Ids /\ conn[c].num \in 0..MaxFrags /\ conn[c].got \in Nat
         /\ conn[c].data \in Seq(Pieces) /\ conn[c].ret \in {"0", "EIO"}
BY DEF Shape, ConnRec

LEMMA CallAssigns ==
  ASSUME Shape, NEW t \in Callers, CallAlloc(t)
  PROVE  \E c \in CallConns, m \in Msgs, n \in 0..MaxFrags :
           /\ conn[c].st = "unused" /\ conn' = [conn EXCEPT ![c] = Fresh("call", m)]
           /\ mine' = [mine EXCEPT ![t] = c] /\ req' = [req EXCEPT ![t] = [num |-> n, i |-> 0]]
<1>1. NewConn(CallConns) \in CallConns /\ conn[NewConn(CallConns)].st = "unused"
  <2>1. CallConns \subseteq Nat /\ Unallocated(CallConns) # {}
    BY CallRoom, Sets DEF CallAlloc
  <2> QED
    BY <2>1, NewConnUnused
<1> QED
  BY <1>1, Zenon DEF CallAlloc

\* As long as each caller can have a number beside the leaked ones, idr_alloc_cyclic
\* finds one.
LEMMA FreeNumber ==
  ASSUME Shape, Owners, Numbers, Roomy, NEW t \in Callers, pc[t] = "idr"
  PROVE  FreeSeqs # {}
<1>1. SUFFICES ASSUME FreeSeqs = {} PROVE FALSE
  OBVIOUS
<1> DEFINE Rest == Callers \ {t}
           f == [u \in Rest |-> conn[mine[u]].seq]
           G == {f[u] : u \in Rest}
<1>2. Seqs \subseteq Lost \cup G
  <2>1. SUFFICES ASSUME NEW s \in Seqs, s \notin Lost PROVE s \in G
    OBVIOUS
  <2>2. idr[s] # NONE
    BY <1>1 DEF FreeSeqs
  <2>3. ~Freed(idr[s])
    BY <2>1, <2>2 DEF Lost
  <2>4. PICK u \in Callers : Numbered(u) /\ conn[mine[u]].seq = s
    BY <2>2, <2>3 DEF Numbers
  <2>5. u \in Rest
    BY <2>4 DEF Numbered
  <2> QED
    BY <2>4, <2>5
<1>3. IsFiniteSet(Rest) /\ Cardinality(Rest) = Cardinality(Callers) - 1
  BY FS_RemoveElement, CallersAssumption
<1>4. IsFiniteSet(G) /\ Cardinality(G) <= Cardinality(Rest)
  <2>1. f \in Surjection(Rest, G)
    BY DEF Surjection
  <2> HIDE DEF f, G, Rest
  <2> QED
    BY <1>3, <2>1, FS_Surjection
<1>5. IsFiniteSet(Seqs) /\ Cardinality(Seqs) = NumSeqs
  BY FS_Interval, SizesAssumption DEF Seqs
<1>6. IsFiniteSet(Lost) /\ Cardinality(Lost) <= sendFails
  BY <1>5, FS_Subset DEF Lost, Numbers
<1> HIDE DEF G, Rest
<1>7. IsFiniteSet(Lost \cup G) /\ Cardinality(Lost \cup G) <= Cardinality(Lost) + Cardinality(G)
  <2>1. IsFiniteSet(Lost \cap G)
    BY <1>4, <1>6, FS_Intersection
  <2>2. Cardinality(Lost \cap G) \in Nat /\ Cardinality(Lost) \in Nat /\ Cardinality(G) \in Nat
    BY <1>4, <1>6, <2>1, FS_CardinalityType
  <2>3. /\ IsFiniteSet(Lost \cup G)
        /\ Cardinality(Lost \cup G) = Cardinality(Lost) + Cardinality(G) - Cardinality(Lost \cap G)
    BY <1>4, <1>6, FS_Union
  <2> QED
    BY <2>2, <2>3
<1>8. Cardinality(Seqs) <= Cardinality(Lost \cup G)
  BY <1>2, <1>7, FS_Subset
<1>9. /\ Cardinality(Lost) \in Nat /\ Cardinality(G) \in Nat /\ Cardinality(Rest) \in Nat
      /\ Cardinality(Callers) \in Nat /\ Cardinality(Lost \cup G) \in Nat
  BY <1>3, <1>4, <1>6, <1>7, FS_CardinalityType, CallersAssumption
<1>10. sendFails \in Nat /\ NumSeqs \in Nat /\ Cardinality(Callers) + sendFails <= NumSeqs
  BY SizesAssumption DEF Roomy, Shape
<1>11. NumSeqs <= Cardinality(Lost) + Cardinality(G)
  BY <1>5, <1>7, <1>8, <1>9, <1>10
<1>12. NumSeqs <= sendFails + (Cardinality(Callers) - 1)
  BY <1>3, <1>4, <1>6, <1>9, <1>10, <1>11
<1> QED
  BY <1>9, <1>10, <1>12

LEMMA IdrAssigns ==
  ASSUME Shape, Owners, Numbers, Roomy, NEW t \in Callers, CallIdr(t)
  PROVE  \E s \in Seqs :
           /\ idr[s] = NONE /\ conn' = [conn EXCEPT ![mine[t]].seq = s]
           /\ idr' = [idr EXCEPT ![s] = mine[t]] /\ idrNext' = s + 1
<1>1. FreeSeqs # {}
  BY FreeNumber DEF CallIdr, Step
<1>2. CyclicSeq \in Seqs /\ idr[CyclicSeq] = NONE
  BY <1>1, CyclicSeqFree DEF FreeSeqs
<1> QED
  BY <1>1, <1>2, Zenon DEF CallIdr

LEMMA SeqSet ==
  ASSUME Shape, NEW c \in Conns, NEW s \in Seqs, conn' = [conn EXCEPT ![c].seq = s]
  PROVE  /\ conn' \in [Conns -> ConnRec] /\ \A x \in Conns : x # c => conn'[x] = conn[x]
         /\ conn'[c].seq = s /\ conn'[c].st = conn[c].st /\ conn'[c].type = conn[c].type
         /\ conn'[c].msg = conn[c].msg /\ conn'[c].done = conn[c].done
<1>1. conn \in [Conns -> ConnRec] /\ conn[c] \in ConnRec
  BY Fields DEF Shape
<1>2. [conn[c] EXCEPT !.seq = s] \in ConnRec
  BY <1>1 DEF ConnRec
<1>3. conn' = [conn EXCEPT ![c] = [conn[c] EXCEPT !.seq = s]]
  OBVIOUS
<1>4. /\ conn' \in [Conns -> ConnRec] /\ \A x \in Conns : x # c => conn'[x] = conn[x]
      /\ conn'[c] = [conn[c] EXCEPT !.seq = s]
  BY <1>1, <1>2, <1>3, PutConn
<1>5. /\ conn'[c].seq = s /\ conn'[c].st = conn[c].st /\ conn'[c].type = conn[c].type
      /\ conn'[c].msg = conn[c].msg /\ conn'[c].done = conn[c].done
  BY <1>1, <1>4 DEF ConnRec
<1> QED
  BY <1>4, <1>5

LEMMA ConnPut ==
  ASSUME Shape, NEW c \in Conns, NEW r \in ConnRec, conn' = [conn EXCEPT ![c] = r]
  PROVE  conn' \in [Conns -> ConnRec] /\ conn'[c] = r /\ \A x \in Conns : x # c => conn'[x] = conn[x]
BY PutConn DEF Shape

Freeing(t) == CallIdrInterrupted(t) \/ CallFail(t) \/ CallReturn(t)
Moving(t)  == SendLock(t) \/ SendLockFails(t) \/ SendFragment(t) \/ SendFragmentFails(t) \/ CallReap(t)

\* How a caller's step changes the connections: it takes a new one, sets the number
\* of its own, frees it, or leaves all of them alone.
LEMMA CallerConn ==
  ASSUME Shape, Owners, Numbers, Roomy, NEW t \in Callers, CallerStep(t)
  PROVE  /\ conn' \in [Conns -> ConnRec]
         /\ CallAlloc(t) => mine[t] = NONE /\ pc[t] = "idle"
         /\ ~CallAlloc(t) => mine[t] \in CallConns /\ Live(mine[t]) /\ pc[t] # "idle"
         /\ CallIdr(t) \/ Freeing(t) => \A x \in Conns : x # mine[t] => conn'[x] = conn[x]
         /\ Freeing(t) => conn'[mine[t]] = Released
         /\ Moving(t) => UNCHANGED conn
<1>0. CallConns \subseteq Conns /\ Released \in ConnRec
  BY Sets, Records
<1>1. CallAlloc(t) => mine[t] = NONE /\ pc[t] = "idle"
  BY DEF CallAlloc, Step, Owners
<1>2. ~CallAlloc(t) => mine[t] \in CallConns /\ Live(mine[t]) /\ pc[t] # "idle"
  BY DEF CallerStep, CallIdr, CallIdrInterrupted, SendLock, SendLockFails, SendFragment, SendFragmentFails,
         CallFail, CallReap, CallReturn, Step, Owners, Shape
<1>3. CASE CallAlloc(t)
  <2>1. PICK c \in CallConns, m \in Msgs : conn' = [conn EXCEPT ![c] = Fresh("call", m)]
    BY <1>3, CallAssigns
  <2>2. Fresh("call", m) \in ConnRec
    BY Records DEF Ids
  <2>3. conn' \in [Conns -> ConnRec]
    BY <1>0, <2>1, <2>2, ConnPut
  <2>4. ~CallIdr(t) /\ ~Freeing(t) /\ ~Moving(t)
    BY <1>3, <1>1 DEF CallIdr, Freeing, Moving, CallIdrInterrupted, SendLock, SendLockFails, SendFragment,
         SendFragmentFails, CallFail, CallReap, CallReturn, Step
  <2> QED
    BY <1>1, <1>2, <2>3, <2>4
<1>4. CASE CallIdr(t)
  <2>1. PICK s \in Seqs : conn' = [conn EXCEPT ![mine[t]].seq = s]
    BY <1>4, IdrAssigns
  <2>2. pc[t] = "idr"
    BY <1>4 DEF CallIdr, Step
  <2>3. ~CallAlloc(t) /\ ~Freeing(t) /\ ~Moving(t)
    <3>1. pc'[t] = "lock"
      BY <1>4 DEF CallIdr, Step, Shape
    <3> QED
      BY <2>2, <3>1 DEF CallAlloc, Freeing, Moving, CallIdrInterrupted, SendLock, SendLockFails, SendFragment,
         SendFragmentFails, CallFail, CallReap, CallReturn, Step, Shape
  <2>4. mine[t] \in Conns
    BY <1>0, <1>2, <2>3
  <2>5. conn' \in [Conns -> ConnRec] /\ \A x \in Conns : x # mine[t] => conn'[x] = conn[x]
    BY <2>1, <2>4, SeqSet
  <2> QED
    BY <1>1, <1>2, <2>3, <2>5
<1>5. CASE Freeing(t)
  <2>1. conn' = [conn EXCEPT ![mine[t]] = Released]
    BY <1>5 DEF Freeing, CallIdrInterrupted, CallFail, CallReturn
  <2>2. pc[t] \in {"idr", "fail", "reap"} /\ pc'[t] = "idle"
    BY <1>5 DEF Freeing, CallIdrInterrupted, CallFail, CallReturn, Step, Shape
  <2>3. ~CallAlloc(t) /\ ~Moving(t) /\ ~CallIdr(t)
    BY <2>2 DEF CallAlloc, Moving, SendLock, SendLockFails, SendFragment, CallIdr,
         SendFragmentFails, CallReap, Step, Shape
  <2>4. mine[t] \in Conns
    BY <1>0, <1>2, <2>3
  <2>5. /\ conn' \in [Conns -> ConnRec] /\ conn'[mine[t]] = Released
        /\ \A x \in Conns : x # mine[t] => conn'[x] = conn[x]
    BY <1>0, <2>1, <2>4, ConnPut
  <2> QED
    BY <1>1, <1>2, <2>3, <2>5
<1>6. CASE Moving(t)
  <2>1. UNCHANGED conn
    BY <1>6 DEF Moving, SendLock, SendLockFails, SendFragment, SendFragmentFails, CallReap
  <2>2. pc[t] \in {"lock", "send", "wait"}
    BY <1>6 DEF Moving, SendLock, SendLockFails, SendFragment, SendFragmentFails, CallReap, Step
  <2>3. ~CallAlloc(t) /\ ~Freeing(t) /\ ~CallIdr(t)
    BY <2>2 DEF CallAlloc, Freeing, CallIdrInterrupted, CallFail, CallReturn, CallIdr, Step
  <2> QED
    BY <1>1, <1>2, <2>1, <2>3 DEF Shape
<1> QED
  BY <1>3, <1>4, <1>5, <1>6 DEF CallerStep, Freeing, Moving

-----------------------------------------------------------------------------
(* The callers: types, owners and numbers                                  *)

\* The variables that no caller changes.
Untouched == UNCHANGED <<recvVars, workVars, fromRM, rmVars>>

LEMMA CallerFrame == ASSUME NEW t \in Callers, CallerStep(t) PROVE Untouched
BY DEF CallerStep, CallAlloc, CallIdr, CallIdrInterrupted, SendLock, SendLockFails, SendFragment, SendFragmentFails,
       CallFail, CallReap, CallReturn, Untouched

LEMMA PacketType ==
  ASSUME Shape, NEW t \in Callers, mine[t] \in CallConns
  PROVE  Packet(t) \in Request
<1>1. /\ mine[t] \in Conns /\ req[t].num \in 0..MaxFrags
      /\ conn[mine[t]].seq \in Seqs /\ conn[mine[t]].msg \in Ids
  BY Sets, Fields DEF Shape
<1> QED
  BY <1>1 DEF Packet, Request

LEMMA OutcomeType == ASSUME Shape, NEW c \in CallConns PROVE Outcome(c) \in Outcomes
<1>1. conn[c].num \in 0..MaxFrags /\ conn[c].data \in Seq(Pieces)
  BY Sets, Fields
<1>2. NoResult \in Outcomes
  BY EmptyIsSeq, Sets, Zenon DEF NoResult, Outcomes, Codes
<1>3. [NoResult EXCEPT !.code = "RMERR"] \in Outcomes /\ [NoResult EXCEPT !.code = "EIO"] \in Outcomes
  BY <1>2 DEF Outcomes, Codes
<1>4. [code |-> "payload", id |-> c, num |-> conn[c].num, data |-> conn[c].data] \in Outcomes
  BY <1>1 DEF Outcomes, Codes
<1> QED
  BY <1>3, <1>4, Zenon DEF Outcome

\* A caller counts at most one failed send at a step.
LEMMA CallerFails == ASSUME NEW t \in Callers, CallerStep(t) PROVE sendFails' \in {sendFails, sendFails + 1}
BY DEF CallerStep, CallAlloc, CallIdr, CallIdrInterrupted, SendLock, SendLockFails, SendFragment, SendFragmentFails,
       CallFail, CallReap, CallReturn

LEMMA CallerShape ==
  ASSUME Shape, Owners, Numbers, Roomy, NEW t \in Callers, CallerStep(t)
  PROVE  Shape'
<1>0. conn' \in [Conns -> ConnRec] /\ (~CallAlloc(t) => mine[t] \in CallConns) /\ Untouched
  BY CallerConn, CallerFrame
<1>00. NoResult \in Outcomes
  BY EmptyIsSeq, Sets, Zenon DEF NoResult, Outcomes, Codes
<1>1. idr' \in [Seqs -> CallConns \cup {NONE}] /\ idrNext' \in Nat
  <2>1. CASE CallIdr(t)
    <3>1. PICK s \in Seqs : idr' = [idr EXCEPT ![s] = mine[t]] /\ idrNext' = s + 1
      BY <2>1, IdrAssigns
    <3> QED
      BY <3>1, Sets DEF Shape
  <2>2. CASE CallReap(t)
    BY <2>2 DEF CallReap, Shape
  <2>3. CASE ~CallIdr(t) /\ ~CallReap(t)
    BY <2>3 DEF CallerStep, CallAlloc, CallIdrInterrupted, SendLock, SendLockFails, SendFragment, SendFragmentFails,
                CallFail, FailIdr, CallReturn, Shape
  <2> QED
    BY <2>1, <2>2, <2>3
<1>2. pc' \in [Callers -> Steps] /\ sendFails' \in Nat
  <2>1. pc' \in [Callers -> Steps]
    <3>1. CASE CallAlloc(t) \/ CallIdr(t) \/ CallIdrInterrupted(t) \/ CallFail(t) \/ CallReturn(t)
      BY <3>1 DEF CallAlloc, CallIdr, CallIdrInterrupted, CallFail, CallReturn, Step, Steps, Shape
    <3>2. CASE SendLock(t) \/ SendLockFails(t) \/ SendFragment(t) \/ SendFragmentFails(t) \/ CallReap(t)
      BY <3>2 DEF SendLock, SendLockFails, SendFragment, SendFragmentFails, CallReap, Step, Steps, Shape
    <3> QED
      BY <3>1, <3>2 DEF CallerStep
  <2>2. sendFails' \in {sendFails, sendFails + 1}
    BY CallerFails
  <2> QED
    BY <2>1, <2>2 DEF Shape
<1>3. /\ mine' \in [Callers -> CallConns \cup {NONE}] /\ req' \in [Callers -> [num : 0..MaxFrags, i : Nat]]
  <2>1. CASE CallAlloc(t)
    <3>1. PICK c \in CallConns, n \in 0..MaxFrags :
            mine' = [mine EXCEPT ![t] = c] /\ req' = [req EXCEPT ![t] = [num |-> n, i |-> 0]]
      BY <2>1, CallAssigns
    <3> QED
      BY <3>1 DEF Shape
  <2>2. CASE SendFragment(t)
    <3>1. NoReq \in [num : 0..MaxFrags, i : Nat] /\ [req[t] EXCEPT !.i = @ + 1] \in [num : 0..MaxFrags, i : Nat]
      <4>1. req[t] \in [num : 0..MaxFrags, i : Nat] /\ req[t].i + 1 \in Nat
        BY DEF Shape
      <4> QED
        BY <4>1, Sets DEF NoReq
    <3> QED
      BY <2>2, <3>1 DEF SendFragment, Shape
  <2>3. CASE ~CallAlloc(t) /\ ~SendFragment(t)
    BY <2>3 DEF CallerStep, CallIdr, CallIdrInterrupted, SendLock, SendLockFails, SendFragmentFails,
                CallFail, CallReap, CallReturn, Shape
  <2> QED
    BY <2>1, <2>2, <2>3
<1>4. result' \in [Callers -> Outcomes]
  <2>1. CASE CallReturn(t)
    <3>1. ~CallAlloc(t)
      BY <2>1 DEF CallReturn, CallAlloc, Step
    <3>2. Outcome(mine[t]) \in Outcomes
      BY <1>0, <3>1, OutcomeType
    <3> QED
      BY <2>1, <3>2 DEF CallReturn, Shape
  <2>2. CASE CallAlloc(t)
    BY <1>00, <2>2 DEF CallAlloc, Shape
  <2>3. CASE CallIdrInterrupted(t) \/ CallFail(t)
    <3>1. PICK k \in {"ESEND", "ERESTARTSYS"} : result' = [result EXCEPT ![t].code = k]
      BY <2>3 DEF CallIdrInterrupted, CallFail
    <3>2. [result[t] EXCEPT !.code = k] \in Outcomes
      BY DEF Shape, Outcomes, Codes
    <3> QED
      BY <3>1, <3>2 DEF Shape
  <2>4. CASE UNCHANGED result
    BY <2>4 DEF Shape
  <2> QED
    BY <2>1, <2>2, <2>3, <2>4 DEF CallerStep, CallIdr, SendLock, SendLockFails, SendFragment, SendFragmentFails, CallReap
<1>5. toRM' \in Seq(Request)
  <2>1. CASE SendFragment(t)
    <3>1. ~CallAlloc(t)
      BY <2>1 DEF SendFragment, CallAlloc, Step
    <3>2. Packet(t) \in Request
      BY <1>0, <3>1, PacketType
    <3> QED
      BY <2>1, <3>2 DEF SendFragment, Shape
  <2>2. CASE ~SendFragment(t)
    BY <2>2 DEF CallerStep, CallAlloc, CallIdr, CallIdrInterrupted, SendLock, SendLockFails, SendFragmentFails,
                CallFail, CallReap, CallReturn, Shape
  <2> QED
    BY <2>1, <2>2
<1> QED
  BY <1>0, <1>1, <1>2, <1>3, <1>4, <1>5 DEF Shape, Untouched, recvVars, workVars, rmVars

\* The other callers and their connections.
LEMMA CallerOthers ==
  ASSUME Shape, Owners, Numbers, Roomy, NEW t \in Callers, CallerStep(t), NEW u \in Callers, u # t
  PROVE  /\ pc'[u] = pc[u] /\ mine'[u] = mine[u] /\ req'[u] = req[u]
         /\ mine[u] # NONE => conn'[mine[u]] = conn[mine[u]]
<1>1. pc'[u] = pc[u] /\ mine'[u] = mine[u] /\ req'[u] = req[u]
  <2>1. pc'[u] = pc[u] /\ mine'[u] = mine[u]
    BY DEF CallerStep, CallAlloc, CallIdr, CallIdrInterrupted, SendLock, SendLockFails, SendFragment, SendFragmentFails,
           CallFail, CallReap, CallReturn, Step, Shape
  <2>2. req'[u] = req[u]
    BY DEF CallerStep, CallAlloc, CallIdr, CallIdrInterrupted, SendLock, SendLockFails, SendFragment, SendFragmentFails,
           CallFail, CallReap, CallReturn, Step, Shape
  <2> QED
    BY <2>1, <2>2
<1>2. ASSUME mine[u] # NONE PROVE conn'[mine[u]] = conn[mine[u]]
  <2>1. mine[u] \in Conns /\ Live(mine[u]) /\ mine[u] # mine[t]
    BY <1>2, Sets DEF Owners, Shape
  <2>2. CASE CallAlloc(t)
    <3>1. PICK c \in CallConns, m \in Msgs : conn[c].st = "unused" /\ conn' = [conn EXCEPT ![c] = Fresh("call", m)]
      BY <2>2, CallAssigns
    <3>2. mine[u] # c
      BY <2>1, <3>1 DEF Live
    <3> QED
      BY <2>1, <3>1, <3>2 DEF Shape
  <2>3. CASE ~CallAlloc(t)
    BY <2>1, <2>3, CallerConn DEF CallerStep, Freeing, Moving
  <2> QED
    BY <2>2, <2>3
<1> QED
  BY <1>1, <1>2

\* The caller itself.
LEMMA CallerSelf ==
  ASSUME Shape, Owners, Numbers, Roomy, NEW t \in Callers, CallerStep(t)
  PROVE  /\ CallAlloc(t) => /\ pc'[t] = "idr" /\ mine'[t] \in CallConns /\ conn[mine'[t]].st = "unused"
                            /\ conn'[mine'[t]].st = "live" /\ conn'[mine'[t]].type = "call"
                            /\ ~conn'[mine'[t]].done /\ req'[t].i = 0 /\ req'[t].num \in 0..MaxFrags
                            /\ \A x \in Conns : x # mine'[t] => conn'[x] = conn[x]
         /\ Freeing(t) => /\ pc[t] \in {"idr", "fail", "reap"} /\ pc'[t] = "idle" /\ mine'[t] = NONE
                          /\ UNCHANGED <<idr, sendFails>> \/ CallIdrInterrupted(t)
         /\ CallIdr(t) \/ Moving(t) => mine'[t] = mine[t]
         /\ CallIdr(t) => pc[t] = "idr" /\ pc'[t] = "lock"
         /\ Moving(t) => pc[t] \in {"lock", "send", "wait"}
<1>1. ASSUME CallAlloc(t)
      PROVE  /\ pc'[t] = "idr" /\ mine'[t] \in CallConns /\ conn[mine'[t]].st = "unused"
             /\ conn'[mine'[t]].st = "live" /\ conn'[mine'[t]].type = "call"
             /\ ~conn'[mine'[t]].done /\ req'[t].i = 0 /\ req'[t].num \in 0..MaxFrags
             /\ \A x \in Conns : x # mine'[t] => conn'[x] = conn[x]
  <2>1. PICK c \in CallConns, m \in Msgs, n \in 0..MaxFrags :
           /\ conn[c].st = "unused" /\ conn' = [conn EXCEPT ![c] = Fresh("call", m)]
           /\ mine' = [mine EXCEPT ![t] = c] /\ req' = [req EXCEPT ![t] = [num |-> n, i |-> 0]]
    BY <1>1, CallAssigns
  <2>2. Fresh("call", m) \in ConnRec /\ Fresh("call", m).st = "live" /\ Fresh("call", m).type = "call"
    BY Records DEF Ids
  <2>3. ~Fresh("call", m).done
    BY FreshNotDone, Zenon DEF Ids
  <2>4. conn'[c] = Fresh("call", m) /\ \A x \in Conns : x # c => conn'[x] = conn[x]
    BY <2>1, <2>2, ConnPut, Sets
  <2>5. mine'[t] = c /\ pc'[t] = "idr" /\ req'[t].i = 0 /\ req'[t].num = n
    BY <1>1, <2>1 DEF Shape, CallAlloc, Step
  <2>6. ~conn'[mine'[t]].done
    BY <2>3, <2>4, <2>5, Zenon
  <2> QED
    BY <2>1, <2>2, <2>4, <2>5, <2>6
<1>2. ASSUME Freeing(t)
      PROVE  /\ pc[t] \in {"idr", "fail", "reap"} /\ pc'[t] = "idle" /\ mine'[t] = NONE
             /\ UNCHANGED <<idr, sendFails>> \/ CallIdrInterrupted(t)
  BY <1>2 DEF Freeing, CallIdrInterrupted, CallFail, FailIdr, CallReturn, Step, Shape
<1>3. CallIdr(t) \/ Moving(t) => mine'[t] = mine[t]
  BY DEF CallIdr, Moving, SendLock, SendLockFails, SendFragment, SendFragmentFails, CallReap
<1>4. CallIdr(t) => pc[t] = "idr" /\ pc'[t] = "lock"
  BY DEF CallIdr, Step, Shape
<1>5. Moving(t) => pc[t] \in {"lock", "send", "wait"}
  BY DEF Moving, SendLock, SendLockFails, SendFragment, SendFragmentFails, CallReap, Step
<1> QED
  BY <1>1, <1>2, <1>3, <1>4, <1>5

LEMMA CallerOwners ==
  ASSUME Shape, Owners, Numbers, Roomy, NEW t \in Callers, CallerStep(t)
  PROVE  Owners'
<1>0. /\ CallAlloc(t) \/ CallIdr(t) \/ Freeing(t) \/ Moving(t)
      /\ \A u \in Callers : u # t => /\ pc'[u] = pc[u] /\ mine'[u] = mine[u]
                                     /\ mine[u] # NONE => conn'[mine[u]] = conn[mine[u]]
  BY CallerOthers DEF CallerStep, Freeing, Moving
<1>1. pc'[t] = "idle" <=> mine'[t] = NONE
  <2>1. CASE CallAlloc(t)
    BY <2>1, CallerSelf, Sets
  <2>2. CASE CallIdr(t) \/ Moving(t)
    <3>1. pc[t] # "idle" /\ mine'[t] = mine[t]
      BY <2>2, CallerSelf
    <3>2. pc'[t] # "idle"
      BY <2>2 DEF CallIdr, Moving, SendLock, SendLockFails, SendFragment, SendFragmentFails, CallReap, Step, Shape
    <3> QED
      BY <3>1, <3>2 DEF Owners
  <2>3. CASE Freeing(t)
    BY <2>3, CallerSelf
  <2> QED
    BY <1>0, <2>1, <2>2, <2>3
<1>2. pc'[t] # "idle" => conn'[mine'[t]].st = "live"
  <2>1. CASE CallAlloc(t)
    BY <2>1, CallerSelf
  <2>2. CASE CallIdr(t)
    <3>1. PICK s \in Seqs : conn' = [conn EXCEPT ![mine[t]].seq = s]
      BY <2>2, IdrAssigns
    <3>2. mine[t] \in Conns /\ Live(mine[t]) /\ mine'[t] = mine[t]
      <4>1. pc[t] = "idr" /\ mine'[t] = mine[t]
        BY <2>2, CallerSelf
      <4>2. ~CallAlloc(t)
        BY <4>1 DEF CallAlloc, Step
      <4> QED
        BY <4>1, <4>2, CallerConn, Sets
    <3> QED
      BY <3>1, <3>2, SeqSet DEF Live
  <2>3. CASE Moving(t)
    BY <2>3, CallerSelf, CallerConn DEF Owners, Live
  <2>4. CASE Freeing(t)
    BY <2>4, CallerSelf
  <2> QED
    BY <1>0, <2>1, <2>2, <2>3, <2>4
<1>3. \A u \in Callers : mine'[u] = mine'[t] /\ mine'[u] # NONE => u = t
  <2>1. SUFFICES ASSUME NEW u \in Callers, u # t, mine'[u] = mine'[t], mine'[u] # NONE PROVE FALSE
    OBVIOUS
  <2>2. mine'[u] = mine[u] /\ Live(mine[u])
    BY <1>0, <2>1 DEF Owners
  <2>3. CASE CallAlloc(t)
    BY <2>1, <2>2, <2>3, CallerSelf DEF Live
  <2>4. CASE CallIdr(t) \/ Moving(t)
    <3>1. mine'[t] = mine[t]
      BY <2>4, CallerSelf
    <3> QED
      BY <2>1, <2>2, <3>1 DEF Owners
  <2>5. CASE Freeing(t)
    BY <2>1, <2>5, CallerSelf
  <2> QED
    BY <1>0, <2>3, <2>4, <2>5
<1>4. \A u \in Callers : pc'[u] = "send" => sendLock' = mine'[u]
  <2>1. SUFFICES ASSUME NEW u \in Callers, pc'[u] = "send" PROVE sendLock' = mine'[u]
    OBVIOUS
  <2>2. CASE u # t
    <3>1. pc[u] = "send" /\ sendLock = mine[u] /\ mine'[u] = mine[u] /\ mine[u] # NONE
      BY <1>0, <2>1, <2>2 DEF Owners
    <3>2. pc[t] # "send"
      BY <2>2, <3>1 DEF Owners
    <3>3. UNCHANGED sendLock
      BY <3>1, <3>2 DEF CallerStep, CallAlloc, CallIdr, CallIdrInterrupted, SendLock, SendLockFails, SendFragment,
             SendFragmentFails, CallFail, CallReap, CallReturn, Step
    <3> QED
      BY <3>1, <3>3
  <2>3. CASE u = t
    BY <2>1, <2>3 DEF CallerStep, CallAlloc, CallIdr, CallIdrInterrupted, SendLock, SendLockFails, SendFragment,
             SendFragmentFails, CallFail, CallReap, CallReturn, Step, Shape, Owners
  <2> QED
    BY <2>2, <2>3
<1>5. ASSUME NEW u \in Callers PROVE /\ pc'[u] = "idle" <=> mine'[u] = NONE
                                     /\ pc'[u] # "idle" => conn'[mine'[u]].st = "live"
  BY <1>0, <1>1, <1>2 DEF Owners, Live
<1>6. \A u, v \in Callers : mine'[u] = mine'[v] /\ mine'[u] # NONE => u = v
  BY <1>0, <1>3 DEF Owners
<1> QED
  BY <1>4, <1>5, <1>6 DEF Owners, Live

\* The idr changes where the caller takes its number or gives it back.
LEMMA CallerIdr ==
  ASSUME Shape, Owners, Numbers, Roomy, NEW t \in Callers, CallerStep(t)
  PROVE  /\ CallIdr(t) => \E s \in Seqs : /\ idr[s] = NONE /\ idr'[s] = mine[t] /\ conn'[mine[t]].seq = s
                                          /\ \A r \in Seqs : r # s => idr'[r] = idr[r]
         /\ CallReap(t) => /\ Numbered(t) /\ idr'[conn[mine[t]].seq] = NONE
                           /\ \A r \in Seqs : r # conn[mine[t]].seq => idr'[r] = idr[r]
         /\ ~CallIdr(t) /\ ~CallReap(t) => idr' = idr
<1>1. ASSUME CallIdr(t)
      PROVE  \E s \in Seqs : /\ idr[s] = NONE /\ idr'[s] = mine[t] /\ conn'[mine[t]].seq = s
                             /\ \A r \in Seqs : r # s => idr'[r] = idr[r]
  <2>1. PICK s \in Seqs : /\ idr[s] = NONE /\ conn' = [conn EXCEPT ![mine[t]].seq = s]
                          /\ idr' = [idr EXCEPT ![s] = mine[t]]
    BY <1>1, IdrAssigns
  <2>2. mine[t] \in Conns
    <3>1. pc[t] = "idr"
      BY <1>1, CallerSelf
    <3>2. ~CallAlloc(t)
      BY <3>1 DEF CallAlloc, Step
    <3> QED
      BY <3>2, CallerConn, Sets
  <2>3. conn'[mine[t]].seq = s
    BY <2>1, <2>2, SeqSet
  <2> QED
    BY <2>1, <2>3 DEF Shape
<1>2. ASSUME CallReap(t)
      PROVE  /\ Numbered(t) /\ idr'[conn[mine[t]].seq] = NONE
             /\ \A r \in Seqs : r # conn[mine[t]].seq => idr'[r] = idr[r]
  <2>1. pc[t] = "wait" /\ idr' = [idr EXCEPT ![conn[mine[t]].seq] = NONE]
    BY <1>2 DEF CallReap, Step
  <2>2. mine[t] \in Conns /\ conn[mine[t]].seq \in Seqs
    BY <2>1, Sets, Fields DEF Owners, Shape
  <2> QED
    BY <2>1, <2>2 DEF Shape, Numbered
<1>3. ASSUME ~CallIdr(t), ~CallReap(t) PROVE idr' = idr
  BY <1>3 DEF CallerStep, CallAlloc, CallIdrInterrupted, SendLock, SendLockFails, SendFragment, SendFragmentFails,
              CallFail, FailIdr, CallReturn
<1> QED
  BY <1>1, <1>2, <1>3

LEMMA CallerNumbers ==
  ASSUME Shape, Owners, Numbers, Roomy, NEW t \in Callers, CallerStep(t)
  PROVE  Numbers'
<1> DEFINE Fails == SendLockFails(t) \/ SendFragmentFails(t)
<1>0. /\ CallAlloc(t) \/ CallIdr(t) \/ Freeing(t) \/ Moving(t)
      /\ \A u \in Callers : u # t => /\ pc'[u] = pc[u] /\ mine'[u] = mine[u]
                                     /\ mine[u] # NONE => conn'[mine[u]] = conn[mine[u]]
  BY CallerOthers DEF CallerStep, Freeing, Moving
<1>o. Shape' /\ Owners'
  BY CallerShape, CallerOwners
<1>s. \A u \in Callers : mine[u] # NONE =>
        mine[u] \in Conns /\ Live(mine[u]) /\ conn[mine[u]].seq \in Seqs /\ pc[u] # "idle"
  BY Sets, Fields DEF Owners, Shape
<1>n. \A u \in Callers : Numbered(u) => mine[u] # NONE
  BY DEF Owners, Numbered
<1>1. ASSUME NEW u \in Callers, u # t, Numbered(u) PROVE idr'[conn[mine[u]].seq] = mine[u]
  <2>1. idr[conn[mine[u]].seq] = mine[u] /\ mine[u] # NONE /\ conn[mine[u]].seq \in Seqs
    BY <1>1, <1>n, <1>s DEF Numbers
  <2>2. CASE CallIdr(t)
    BY <2>1, <2>2, CallerIdr
  <2>3. CASE CallReap(t)
    <3>1. Numbered(t) /\ idr[conn[mine[t]].seq] = mine[t] /\ mine[t] # mine[u]
      BY <1>1, <2>1, <2>3, CallerIdr DEF Numbers, Owners
    <3> QED
      BY <2>1, <2>3, <3>1, CallerIdr
  <2>4. CASE ~CallIdr(t) /\ ~CallReap(t)
    BY <2>1, <2>4, CallerIdr
  <2> QED
    BY <2>2, <2>3, <2>4
<1>2. ASSUME Moving(t), ~CallReap(t)
      PROVE  Numbered(t) /\ pc'[t] \in {"lock", "send", "wait", "fail"} /\ mine'[t] = mine[t] /\ UNCHANGED <<conn, idr>>
  <2>1. Numbered(t) /\ mine'[t] = mine[t] /\ UNCHANGED conn
    BY <1>2, CallerSelf, CallerConn DEF Numbered
  <2>2. pc'[t] \in {"lock", "send", "wait", "fail"} /\ UNCHANGED idr
    BY <1>2 DEF Moving, SendLock, SendLockFails, SendFragment, SendFragmentFails, Step, Shape
  <2> QED
    BY <2>1, <2>2
<1>3. CallReap(t) => pc'[t] = "reap"
  BY DEF CallReap, Step, Shape
<1>4. ASSUME NEW u \in Callers, pc'[u] \in {"lock", "send", "wait", "fail"} PROVE idr'[conn'[mine'[u]].seq] = mine'[u]
  <2>1. CASE u # t
    <3>1. Numbered(u) /\ mine'[u] = mine[u] /\ conn'[mine[u]] = conn[mine[u]]
      BY <1>0, <1>4, <1>n, <2>1 DEF Numbered
    <3> QED
      BY <1>1, <2>1, <3>1
  <2>2. CASE u = t /\ CallIdr(t)
    BY <2>2, CallerIdr, CallerSelf
  <2>3. CASE u = t /\ Moving(t)
    BY <1>2, <1>3, <1>4, <2>3 DEF Numbers
  <2>4. CASE u = t /\ (CallAlloc(t) \/ Freeing(t))
    BY <1>4, <2>4, CallerSelf
  <2> QED
    BY <1>0, <2>1, <2>2, <2>3, <2>4
\* What a number that stays in the idr was before.
<1>5. ASSUME NEW s \in Seqs, idr'[s] # NONE
      PROVE  \/ CallIdr(t) /\ idr'[s] = mine[t] /\ conn'[mine[t]].seq = s
             \/ idr'[s] = idr[s] /\ (CallReap(t) => s # conn[mine[t]].seq)
  BY <1>5, CallerIdr
<1>6. ASSUME NEW s \in Seqs, idr[s] # NONE, Freed(idr[s]) PROVE conn'[idr[s]] = conn[idr[s]]
  <2>1. idr[s] \in Conns /\ conn[idr[s]].st = "freed"
    BY <1>6, Sets DEF Shape, Freed
  <2>2. CASE CallAlloc(t)
    BY <2>1, <2>2, CallerSelf
  <2>3. CASE ~CallAlloc(t)
    <3>1. idr[s] # mine[t]
      BY <2>1, <2>3, CallerConn DEF Live
    <3> QED
      BY <1>0, <2>1, <2>3, <3>1, CallerConn
  <2> QED
    BY <2>2, <2>3
<1>7. ASSUME NEW s \in Seqs, idr'[s] # NONE
      PROVE  \/ conn'[idr'[s]].st = "freed"
             \/ \E u \in Callers : /\ pc'[u] \in {"lock", "send", "wait", "fail"} /\ mine'[u] = idr'[s]
                                   /\ conn'[mine'[u]].seq = s
  <2>1. CASE CallIdr(t) /\ idr'[s] = mine[t] /\ conn'[mine[t]].seq = s
    BY <2>1, CallerSelf
  <2>2. CASE idr'[s] = idr[s] /\ (CallReap(t) => s # conn[mine[t]].seq)
    <3>1. CASE Freed(idr[s])
      BY <1>6, <1>7, <2>2, <3>1 DEF Freed
    <3>2. CASE ~Freed(idr[s])
      <4>1. PICK u \in Callers : Numbered(u) /\ mine[u] = idr[s] /\ conn[mine[u]].seq = s
        BY <1>7, <2>2, <3>2 DEF Numbers
      <4>2. CASE u # t
        BY <1>0, <1>n, <2>2, <4>1, <4>2 DEF Numbered
      <4>3. CASE u = t /\ Moving(t)
        BY <1>2, <2>2, <4>1, <4>3
      <4>4. CASE u = t /\ Freeing(t)
        <5>1. conn'[mine[t]] = Released
          BY <4>4, CallerConn
        <5> QED
          BY <2>2, <4>1, <4>4, <5>1, Records
      <4>5. CASE u = t /\ (CallAlloc(t) \/ CallIdr(t))
        <5>1. pc[t] \in {"idle", "idr"}
          BY <4>5, CallerSelf, CallerConn
        <5> QED
          BY <4>1, <4>5, <5>1 DEF Numbered
      <4> QED
        BY <1>0, <4>2, <4>3, <4>4, <4>5
    <3> QED
      BY <3>1, <3>2
  <2> QED
    BY <1>5, <1>7, <2>1, <2>2
<1>8. Lost' \subseteq IF Fails THEN Lost \cup {conn[mine[t]].seq} ELSE Lost
  <2>1. SUFFICES ASSUME NEW s \in Seqs, idr'[s] # NONE,
                        \/ conn'[idr'[s]].st = "freed"
                        \/ \E u \in Callers : pc'[u] = "fail" /\ mine'[u] = idr'[s]
                 PROVE  s \in Lost \/ (Fails /\ s = conn[mine[t]].seq)
    BY DEF Lost, Freed
  <2>2. CASE CallIdr(t) /\ idr'[s] = mine[t]
    <3>1. pc'[t] = "lock" /\ mine'[t] = mine[t] /\ mine[t] # NONE
      BY <2>2, CallerSelf DEF Owners
    <3>2. conn'[mine[t]].st = "live"
      BY <1>o, <3>1 DEF Owners, Live
    <3>3. PICK u \in Callers : pc'[u] = "fail" /\ mine'[u] = mine[t]
      BY <2>1, <2>2, <3>2
    <3>4. u = t
      BY <1>o, <3>1, <3>3 DEF Owners
    <3> QED
      BY <3>1, <3>3, <3>4
  <2>3. CASE idr'[s] = idr[s]
    <3>1. CASE Freed(idr[s])
      BY <2>1, <2>3, <3>1 DEF Lost
    <3>2. CASE ~Freed(idr[s])
      <4>1. PICK u \in Callers : Numbered(u) /\ mine[u] = idr[s] /\ conn[mine[u]].seq = s
        BY <2>1, <2>3, <3>2 DEF Numbers
      <4>2. CASE conn'[idr'[s]].st = "freed"
        <5>1. u = t
          BY <1>0, <1>n, <1>s, <2>3, <4>1, <4>2 DEF Live
        <5>2. Freeing(t)
          <6>1. CASE CallAlloc(t)
            BY <4>1, <5>1, <6>1, CallerConn DEF Numbered
          <6>2. CASE CallIdr(t)
            BY <4>1, <5>1, <6>2, CallerSelf DEF Numbered
          <6>3. CASE Moving(t)
            BY <2>3, <3>2, <4>2, <6>3, CallerConn DEF Freed
          <6> QED
            BY <1>0, <6>1, <6>2, <6>3
        <5>3. pc[t] = "fail"
          BY <4>1, <5>1, <5>2, CallerSelf DEF Numbered
        <5> QED
          BY <2>1, <2>3, <4>1, <5>1, <5>3 DEF Lost
      <4>3. CASE \E w \in Callers : pc'[w] = "fail" /\ mine'[w] = idr'[s]
        <5>1. PICK w \in Callers : pc'[w] = "fail" /\ mine'[w] = idr'[s]
          BY <4>3
        <5>2. CASE w # t
          BY <1>0, <2>1, <2>3, <5>1, <5>2 DEF Lost
        <5>3. CASE w = t
          <6>1. Fails
            BY <5>1, <5>3 DEF CallerStep, CallAlloc, CallIdr, CallIdrInterrupted, SendLock, SendFragment,
                              CallFail, CallReap, CallReturn, Step, Shape
          <6>2. mine'[t] = mine[t]
            BY <6>1, CallerSelf DEF Moving
          <6>3. u = t
            BY <1>n, <2>3, <4>1, <5>1, <5>3, <6>2 DEF Owners
          <6> QED
            BY <4>1, <6>1, <6>3
        <5> QED
          BY <5>2, <5>3
      <4> QED
        BY <2>1, <4>2, <4>3
    <3> QED
      BY <3>1, <3>2
  <2> QED
    BY <1>5, <2>1, <2>2, <2>3
<1>9. Cardinality(Lost') <= sendFails'
  <2>1. IsFiniteSet(Seqs) /\ Lost \subseteq Seqs
    BY FS_Interval, SizesAssumption DEF Seqs, Lost
  <2>2. IsFiniteSet(Lost) /\ Cardinality(Lost) \in Nat /\ Cardinality(Lost) <= sendFails /\ sendFails \in Nat
    BY <2>1, FS_Subset, FS_CardinalityType DEF Numbers, Shape
  <2>3. CASE Fails
    <3>1. sendFails' = sendFails + 1 /\ Lost' \subseteq Lost \cup {conn[mine[t]].seq}
      BY <1>8, <2>3 DEF SendLockFails, SendFragmentFails
    <3>2. /\ IsFiniteSet(Lost \cup {conn[mine[t]].seq})
          /\ Cardinality(Lost \cup {conn[mine[t]].seq}) <= Cardinality(Lost) + 1
      <4>1. Cardinality(Lost \cup {conn[mine[t]].seq}) \in {Cardinality(Lost), Cardinality(Lost) + 1}
        BY <2>2, FS_AddElement
      <4>2. IsFiniteSet(Lost \cup {conn[mine[t]].seq})
        BY <2>2, FS_AddElement
      <4> QED
        BY <2>2, <4>1, <4>2
    <3>3. /\ Cardinality(Lost') <= Cardinality(Lost \cup {conn[mine[t]].seq})
          /\ Cardinality(Lost') \in Nat /\ Cardinality(Lost \cup {conn[mine[t]].seq}) \in Nat
      BY <3>1, <3>2, FS_Subset, FS_CardinalityType
    <3> QED
      BY <2>2, <3>1, <3>2, <3>3
  <2>4. CASE ~Fails
    <3>1. sendFails' >= sendFails /\ sendFails' \in Nat
      BY <1>o, CallerFails DEF Shape
    <3>2. Cardinality(Lost') <= Cardinality(Lost) /\ Cardinality(Lost') \in Nat
      BY <1>8, <2>2, <2>4, FS_Subset, FS_CardinalityType
    <3> QED
      BY <2>2, <3>1, <3>2
  <2> QED
    BY <2>3, <2>4
<1> QED
  BY <1>4, <1>7, <1>9 DEF Numbers, Numbered, Freed

-----------------------------------------------------------------------------
(* The callers: requests, replies and payloads                             *)

LEMMA Streams ==
  ASSUME Shape
  PROVE  /\ W \in Seq(Request) /\ F \in Seq(Reply) /\ Len(W) = Len(rmAsm) + Len(toRM)
         /\ Len(F) = Len(fromRM) + Len(rmOut) /\ Len(W) \in Nat /\ Len(F) \in Nat
         /\ \A i \in 1..Len(W) : W[i] \in Request /\ W[i].id \in CallConns /\ W[i].num \in 0..MaxFrags
         /\ \A i \in 1..Len(F) : F[i] \in Reply
<1>1. W \in Seq(Request) /\ F \in Seq(Reply) /\ Len(W) = Len(rmAsm) + Len(toRM) /\ Len(F) = Len(fromRM) + Len(rmOut)
  BY DEF Shape, W, F
<1>2. \A i \in 1..Len(W) : W[i] \in Request
  BY <1>1
<1>3. \A i \in 1..Len(F) : F[i] \in Reply
  BY <1>1
<1> QED
  BY <1>1, <1>2, <1>3 DEF Request

LEMMA StreamsNext ==
  ASSUME Shape'
  PROVE  /\ W' \in Seq(Request) /\ F' \in Seq(Reply) /\ Len(W') \in Nat /\ Len(F') \in Nat
         /\ Len(W') = Len(rmAsm') + Len(toRM')
         /\ \A i \in 1..Len(W') : W'[i] \in Request /\ W'[i].id \in CallConns /\ W'[i].num \in 0..MaxFrags
         /\ \A i \in 1..Len(F') : F'[i] \in Reply
<1>1. Shape' => /\ W' \in Seq(Request) /\ F' \in Seq(Reply) /\ Len(W') = Len(rmAsm') + Len(toRM')
                /\ Len(F') = Len(fromRM') + Len(rmOut')
  BY DEF Shape, W, F
<1>2. \A i \in 1..Len(W') : W'[i] \in Request
  BY <1>1
<1>3. \A i \in 1..Len(F') : F'[i] \in Reply
  BY <1>1
<1>4. Len(W') \in Nat /\ Len(F') \in Nat
  BY <1>1
<1> QED
  BY <1>1, <1>2, <1>3, <1>4 DEF Request

\* No caller touches the connection of another call that waits for its reply, nor
\* its own before that has come.
LEMMA CallerWaiting ==
  ASSUME Inv, Roomy, NEW t \in Callers, CallerStep(t), NEW c \in CallConns, ~conn[c].done,
         \E u \in Callers : mine[u] = c /\ pc[u] = "wait"
  PROVE  conn'[c] = conn[c] /\ \E u \in Callers : mine'[u] = c /\ pc'[u] = "wait"
<1>1. PICK u \in Callers : mine[u] = c /\ pc[u] = "wait"
  OBVIOUS
<1>2. u # t
  <2>1. SUFFICES ASSUME u = t PROVE FALSE
    OBVIOUS
  <2>2. CallReap(t)
    BY <1>1, <2>1 DEF CallerStep, CallAlloc, CallIdr, CallIdrInterrupted, SendLock, SendLockFails, SendFragment,
                      SendFragmentFails, CallFail, CallReturn, Step
  <2>3. conn[mine[t]].done
    BY <2>2, Zenon DEF CallReap
  <2> QED
    BY <1>1, <2>1, <2>3
<1>3. mine[u] # NONE
  BY <1>1, Sets
<1> QED
  BY <1>1, <1>2, <1>3, CallerOthers DEF Inv

LEMMA CallerWaits ==
  ASSUME Inv, Roomy, NEW t \in Callers, CallerStep(t), NEW c \in CallConns, NEW p, Waits(conn, pc, mine, c, p)
  PROVE  Waits(conn', pc', mine', c, p)
<1>1. ~conn[c].done /\ \E u \in Callers : mine[u] = c /\ pc[u] = "wait"
  BY Zenon DEF Waits
<1>2. conn'[c] = conn[c] /\ \E u \in Callers : mine'[u] = c /\ pc'[u] = "wait"
  BY <1>1, CallerWaiting, Zenon
<1> QED
  BY <1>2, Zenon DEF Waits

\* Notifications are none of the callers' business, and what is allocated stays so.
LEMMA CallerLeaves ==
  ASSUME Inv, Roomy, NEW t \in Callers, CallerStep(t)
  PROVE  /\ \A c \in NotifConns : conn'[c] = conn[c]
         /\ \A c \in CallConns : conn[c].st # "unused" => conn'[c].st # "unused"
<1>0. CallAlloc(t) \/ CallIdr(t) \/ Freeing(t) \/ Moving(t)
  BY DEF CallerStep, Freeing, Moving
<1>i. Shape /\ Owners /\ Numbers
  BY DEF Inv
<1>1. CASE CallAlloc(t)
  <2>1. /\ mine'[t] \in CallConns /\ conn'[mine'[t]].st = "live"
        /\ \A x \in Conns : x # mine'[t] => conn'[x] = conn[x]
    BY <1>1, <1>i, CallerSelf
  <2> QED
    BY <2>1, Sets
<1>2. CASE ~CallAlloc(t)
  <2>1. mine[t] \in CallConns /\ \A x \in Conns : x # mine[t] => conn'[x] = conn[x]
    BY <1>0, <1>2, <1>i, CallerConn
  <2>2. conn'[mine[t]].st # "unused"
    <3>1. CASE Freeing(t)
      BY <1>i, <3>1, CallerConn, Records
    <3>2. CASE CallIdr(t) \/ Moving(t)
      <4>1. Owners' /\ mine'[t] = mine[t]
        BY <1>i, <3>2, CallerOwners, CallerSelf
      <4>2. mine'[t] # NONE
        BY <2>1, <4>1, Sets
      <4> QED
        BY <4>1, <4>2 DEF Owners, Live
    <3> QED
      BY <1>0, <1>2, <3>1, <3>2
  <2> QED
    BY <2>1, <2>2, Sets
<1> QED
  BY <1>1, <1>2

\* The request stream grows by the caller's next packet, or not at all.
LEMMA CallerStreams ==
  ASSUME Inv, Roomy, NEW t \in Callers, CallerStep(t)
  PROVE  /\ F' = F /\ UNCHANGED <<rmAsm, rmPend, notifs, cur, works>>
         /\ ~SendFragment(t) => W' = W
         /\ SendFragment(t) => /\ Len(W') = Len(W) + 1 /\ \A i \in 1..Len(W) : W'[i] = W[i]
                               /\ W'[Len(W) + 1] = Packet(t)
<1>0. Untouched /\ Shape
  BY CallerFrame DEF Inv
<1>1. F' = F /\ UNCHANGED <<rmAsm, rmPend, notifs, cur, works>>
  BY <1>0 DEF Untouched, F, rmVars, recvVars, workVars
<1>2. ASSUME ~SendFragment(t) PROVE W' = W
  <2>1. UNCHANGED toRM
    BY <1>2 DEF CallerStep, CallAlloc, CallIdr, CallIdrInterrupted, SendLock, SendLockFails, SendFragmentFails,
                CallFail, CallReap, CallReturn
  <2> QED
    BY <1>1, <2>1 DEF W
<1>3. ASSUME SendFragment(t)
      PROVE  /\ Len(W') = Len(W) + 1 /\ \A i \in 1..Len(W) : W'[i] = W[i]
             /\ W'[Len(W) + 1] = Packet(t)
  <2>1. toRM' = Append(toRM, Packet(t)) /\ rmAsm' = rmAsm /\ toRM \in Seq(Request) /\ rmAsm \in Seq(Request)
    BY <1>0, <1>1, <1>3 DEF SendFragment, Shape
  <2>2. Packet(t) \in Request
    <3>1. ~CallAlloc(t)
      BY <1>3 DEF SendFragment, CallAlloc, Step
    <3>2. mine[t] \in CallConns
      BY <3>1, CallerConn DEF Inv
    <3> QED
      BY <1>0, <3>2, PacketType
  <2>3. W' = rmAsm \o Append(toRM, Packet(t)) /\ W = rmAsm \o toRM
    BY <2>1 DEF W
  <2> HIDE DEF W
  <2> QED
    BY <2>1, <2>2, <2>3
<1> QED
  BY <1>1, <1>2, <1>3

LEMMA CallerRequests == ASSUME Inv, Roomy, NEW t \in Callers, CallerStep(t) PROVE Requests'
<1>0. Shape /\ Shape' /\ Requests /\ Senders
  BY CallerShape DEF Inv
<1>1. /\ UNCHANGED rmAsm /\ (~SendFragment(t) => W' = W)
      /\ SendFragment(t) => /\ Len(W') = Len(W) + 1 /\ \A i \in 1..Len(W) : W'[i] = W[i]
                            /\ W'[Len(W) + 1] = Packet(t)
  BY CallerStreams
<1>2. \A c \in CallConns : conn[c].st # "unused" => conn'[c].st # "unused"
  BY CallerLeaves
<1>t. /\ Len(W) \in Nat /\ Len(rmAsm) \in Nat /\ Len(W) >= Len(rmAsm)
      /\ \A i \in 1..Len(W) : W[i].id \in CallConns /\ W[i].num \in Nat
  <2>1. rmAsm \in Seq(Request) /\ toRM \in Seq(Request)
    BY <1>0 DEF Shape
  <2>2. Len(rmAsm) \in Nat /\ Len(toRM) \in Nat
    BY <2>1
  <2>3. /\ Len(W) = Len(rmAsm) + Len(toRM)
        /\ \A i \in 1..Len(W) : W[i].id \in CallConns /\ W[i].num \in 0..MaxFrags
    BY <1>0, Streams
  <2> QED
    BY <2>2, <2>3, SizesAssumption
<1>3. CASE ~SendFragment(t)
  BY <1>0, <1>1, <1>2, <1>3, <1>t DEF Requests
<1>4. CASE SendFragment(t)
  <2> DEFINE p == Packet(t)
             l == Len(W)
             b == req[t].i
  <2>1. /\ p.type = (IF b = 0 THEN "REQ" ELSE "CONT") /\ p.id = mine[t] /\ p.num = req[t].num
        /\ p.seq = conn[mine[t]].seq /\ p.msg = conn[mine[t]].msg
    BY DEF Packet
  <2>2. /\ b <= req[t].num /\ b <= l
        /\ \A k \in 1..l : W[k].id = mine[t] <=> k > l - b
        /\ \A k \in 1..l : W[k].id = mine[t] => SameSeries(W[k], p)
        /\ pc[t] = "send"
    BY <1>0, <1>4, <2>1 DEF Senders, SendFragment, SameSeries
  <2>3. b \in Nat /\ req[t].num \in Nat /\ mine[t] \in CallConns /\ conn[mine[t]].st # "unused"
    <3>1. b \in Nat /\ req[t].num \in 0..MaxFrags
      BY <1>0 DEF Shape
    <3>2. ~CallAlloc(t)
      BY <2>2 DEF CallAlloc, Step
    <3>3. mine[t] \in CallConns /\ Live(mine[t])
      BY <3>2, CallerConn DEF Inv
    <3> QED
      BY <3>1, <3>3, SizesAssumption DEF Live
  <2> HIDE DEF p, l, b
  <2>4. /\ Len(W') = l + 1 /\ \A i \in 1..l : W'[i] = W[i]
        /\ W'[l + 1] = p /\ l \in Nat /\ l = Len(W)
    BY <1>1, <1>4, <1>t DEF p, l
  <2>5. \A i \in 1..Len(W') : W'[i].type = "CONT" => i > 1 /\ W'[i - 1].id = W'[i].id
    <3>1. SUFFICES ASSUME NEW i \in 1..(l + 1), W'[i].type = "CONT" PROVE i > 1 /\ W'[i - 1].id = W'[i].id
      BY <2>4
    <3>2. CASE i \in 1..l
      <4>1. W[i].type = "CONT" /\ i > 1 /\ W[i - 1].id = W[i].id
        BY <1>0, <2>4, <3>1, <3>2 DEF Requests
      <4>2. i - 1 \in 1..l
        BY <2>4, <3>2, <4>1
      <4> QED
        BY <2>4, <3>2, <4>1, <4>2
    <3>3. CASE i = l + 1
      <4>1. b > 0 /\ l > 0 /\ l \in 1..l
        BY <2>1, <2>2, <2>3, <2>4, <3>1, <3>3
      <4>2. W[l].id = mine[t]
        BY <2>2, <2>3, <2>4, <4>1
      <4> QED
        BY <2>1, <2>4, <3>3, <4>1, <4>2
    <3> QED
      BY <2>4, <3>2, <3>3
  <2>6. \A i, j \in 1..Len(W') : i < j /\ W'[i].id = W'[j].id => W'[j].type = "CONT" /\ SameSeries(W'[i], W'[j])
    <3>1. SUFFICES ASSUME NEW i \in 1..(l + 1), NEW j \in 1..(l + 1), i < j, W'[i].id = W'[j].id
                   PROVE  W'[j].type = "CONT" /\ SameSeries(W'[i], W'[j])
      BY <2>4
    <3>2. i \in 1..l /\ W'[i] = W[i]
      BY <2>4, <3>1
    <3>3. CASE j \in 1..l
      BY <1>0, <2>4, <3>1, <3>2, <3>3 DEF Requests
    <3>4. CASE j = l + 1
      <4>1. W[i].id = mine[t] /\ W'[j] = p
        BY <2>1, <2>4, <3>1, <3>2, <3>4
      <4>2. SameSeries(W[i], p) /\ i > l - b
        BY <2>2, <3>2, <4>1
      <4>3. b # 0
        BY <2>3, <2>4, <3>2, <4>2
      <4> QED
        BY <2>1, <3>2, <4>1, <4>2, <4>3
    <3> QED
      BY <2>4, <3>3, <3>4
  <2>7. \A i, j \in 1..Len(W') : i <= j /\ W'[i].id = W'[j].id => j - i <= W'[j].num
    <3>1. SUFFICES ASSUME NEW i \in 1..(l + 1), NEW j \in 1..(l + 1), i <= j, W'[i].id = W'[j].id
                   PROVE  j - i <= W'[j].num
      BY <2>4
    <3>2. CASE j \in 1..l
      <4>1. i \in 1..l /\ W'[i] = W[i] /\ W'[j] = W[j]
        BY <2>4, <3>1, <3>2
      <4> QED
        BY <1>0, <2>4, <3>1, <3>2, <4>1 DEF Requests
    <3>3. CASE j = l + 1 /\ i = l + 1
      BY <2>1, <2>3, <2>4, <3>3
    <3>4. CASE j = l + 1 /\ i \in 1..l
      <4>1. W[i].id = mine[t] /\ W'[j] = p
        BY <2>1, <2>4, <3>1, <3>4
      <4>2. i > l - b
        BY <2>2, <3>4, <4>1
      <4> QED
        BY <2>1, <2>2, <2>3, <2>4, <3>4, <4>1, <4>2
    <3> QED
      BY <2>4, <3>2, <3>3, <3>4
  <2>8. \A i \in 1..Len(rmAsm') : W'[i].id = W'[1].id
    BY <1>0, <1>1, <1>t, <2>4 DEF Requests
  <2>9. \A i \in 1..Len(W') : conn'[W'[i].id].st # "unused"
    BY <1>0, <1>2, <1>t, <2>1, <2>3, <2>4 DEF Requests
  <2> QED
    BY <2>5, <2>6, <2>7, <2>8, <2>9 DEF Requests
<1> QED
  BY <1>3, <1>4

LEMMA CallerSenders == ASSUME Inv, Roomy, NEW t \in Callers, CallerStep(t) PROVE Senders'
<1>0. Shape /\ Shape' /\ Owners /\ Numbers /\ Requests /\ Senders
  BY CallerShape DEF Inv
<1>1. /\ (~SendFragment(t) => W' = W)
      /\ SendFragment(t) => /\ Len(W') = Len(W) + 1 /\ \A i \in 1..Len(W) : W'[i] = W[i]
                            /\ W'[Len(W) + 1] = Packet(t)
  BY CallerStreams
<1>t. Len(W) \in Nat /\ \A i \in 1..Len(W) : W[i].id \in CallConns
  BY <1>0, Streams
<1>2. ASSUME NEW u \in Callers, u # t, pc'[u] \in {"idr", "lock", "send"}
      PROVE  /\ pc'[u] \in {"idr", "lock"} => req'[u].i = 0
             /\ conn'[mine'[u]].type = "call" /\ ~conn'[mine'[u]].done
             /\ req'[u].i <= req'[u].num /\ req'[u].i <= Len(W')
             /\ \A k \in 1..Len(W') : W'[k].id = mine'[u] <=> k > Len(W') - req'[u].i
             /\ \A k \in 1..Len(W') : W'[k].id = mine'[u] =>
                  W'[k].num = req'[u].num /\ W'[k].seq = conn'[mine'[u]].seq /\ W'[k].msg = conn'[mine'[u]].msg
  <2>1. pc'[u] = pc[u] /\ mine'[u] = mine[u] /\ req'[u] = req[u] /\ conn'[mine[u]] = conn[mine[u]]
    BY <1>0, <1>2, CallerOthers DEF Owners
  <2>2. ~conn'[mine'[u]].done
    BY <1>0, <1>2, <2>1, Zenon DEF Senders
  <2>3. /\ pc[u] \in {"idr", "lock"} => req[u].i = 0
        /\ conn[mine[u]].type = "call" /\ req[u].i <= req[u].num /\ req[u].i <= Len(W)
        /\ \A k \in 1..Len(W) : W[k].id = mine[u] <=> k > Len(W) - req[u].i
        /\ \A k \in 1..Len(W) : W[k].id = mine[u] =>
             W[k].num = req[u].num /\ W[k].seq = conn[mine[u]].seq /\ W[k].msg = conn[mine[u]].msg
    BY <1>0, <1>2, <2>1 DEF Senders
  <2>4. CASE ~SendFragment(t)
    BY <1>1, <2>1, <2>2, <2>3, <2>4
  <2>5. CASE SendFragment(t)
    <3>1. pc[t] = "send" /\ sendLock = mine[t] /\ mine[t] # NONE
      BY <1>0, <2>5 DEF SendFragment, Owners
    <3>2. mine[u] # mine[t] /\ pc[u] # "send"
      BY <1>0, <1>2, <3>1 DEF Owners
    <3>3. req[u].i = 0 /\ Packet(t).id # mine[u]
      BY <1>2, <2>1, <2>3, <3>2 DEF Packet
    <3>4. \A k \in 1..Len(W') : W'[k].id # mine[u]
      <4>1. SUFFICES ASSUME NEW k \in 1..(Len(W) + 1) PROVE W'[k].id # mine[u]
        BY <1>1, <2>5
      <4>2. CASE k \in 1..Len(W)
        BY <1>1, <1>t, <2>3, <2>5, <3>3, <4>2
      <4>3. CASE k = Len(W) + 1
        BY <1>1, <2>5, <3>3, <4>3
      <4> QED
        BY <1>t, <4>2, <4>3
    <3>5. Len(W') = Len(W) + 1
      BY <1>1, <2>5
    <3> QED
      BY <1>t, <2>1, <2>2, <2>3, <3>3, <3>4, <3>5
  <2> QED
    BY <2>4, <2>5
<1>3. ASSUME pc'[t] \in {"idr", "lock", "send"}
      PROVE  /\ pc'[t] \in {"idr", "lock"} => req'[t].i = 0
             /\ conn'[mine'[t]].type = "call" /\ ~conn'[mine'[t]].done
             /\ req'[t].i <= req'[t].num /\ req'[t].i <= Len(W')
             /\ \A k \in 1..Len(W') : W'[k].id = mine'[t] <=> k > Len(W') - req'[t].i
             /\ \A k \in 1..Len(W') : W'[k].id = mine'[t] =>
                  W'[k].num = req'[t].num /\ W'[k].seq = conn'[mine'[t]].seq /\ W'[k].msg = conn'[mine'[t]].msg
  <2>1. CASE CallAlloc(t)
    <3>1. /\ mine'[t] \in CallConns /\ conn[mine'[t]].st = "unused" /\ conn'[mine'[t]].type = "call"
          /\ req'[t].i = 0 /\ req'[t].num \in 0..MaxFrags
      BY <1>0, <2>1, CallerSelf
    <3>2. ~conn'[mine'[t]].done
      BY <1>0, <2>1, CallerSelf, Zenon
    <3>3. W' = W
      BY <1>1, <2>1 DEF CallAlloc, SendFragment, Step
    <3>4. \A k \in 1..Len(W) : W[k].id # mine'[t]
      BY <1>0, <3>1 DEF Requests
    <3> QED
      BY <1>t, <3>1, <3>2, <3>3, <3>4, SizesAssumption
  <2>2. CASE CallIdr(t)
    <3>1. PICK s \in Seqs : conn' = [conn EXCEPT ![mine[t]].seq = s]
      BY <1>0, <2>2, IdrAssigns
    <3>2. pc[t] = "idr" /\ req' = req /\ mine' = mine /\ mine[t] \in Conns
      BY <1>0, <2>2, Sets DEF CallIdr, Step, Owners, Shape
    <3>3. /\ conn'[mine[t]].type = conn[mine[t]].type /\ conn'[mine[t]].msg = conn[mine[t]].msg
          /\ conn'[mine[t]].done = conn[mine[t]].done
      BY <1>0, <3>1, <3>2, SeqSet
    <3>4. ~conn'[mine'[t]].done
      BY <1>0, <3>2, <3>3, Zenon DEF Senders
    <3>5. W' = W
      BY <1>1, <3>2, <2>2 DEF SendFragment
    <3>6. /\ req[t].i = 0 /\ conn[mine[t]].type = "call" /\ 0 <= req[t].num
          /\ \A k \in 1..Len(W) : W[k].id = mine[t] <=> k > Len(W) - req[t].i
      BY <1>0, <3>2 DEF Senders
    <3>7. \A k \in 1..Len(W) : W[k].id # mine[t]
      BY <1>t, <3>6
    <3> QED
      BY <1>t, <3>2, <3>3, <3>4, <3>5, <3>6, <3>7
  <2>3. CASE SendLock(t)
    <3>1. pc[t] = "lock" /\ req' = req /\ mine' = mine /\ conn' = conn /\ W' = W
      BY <1>1, <2>3 DEF SendLock, Step, SendFragment
    <3>2. ~conn'[mine'[t]].done
      BY <1>0, <3>1, Zenon DEF Senders
    <3> QED
      BY <1>0, <3>1, <3>2 DEF Senders
  <2>4. CASE SendFragment(t)
    <3>1. /\ pc[t] = "send" /\ mine' = mine /\ conn' = conn /\ req[t].i # req[t].num
          /\ req' = [req EXCEPT ![t].i = @ + 1] /\ pc' = pc
      BY <1>0, <1>3, <2>4 DEF SendFragment, Shape
    <3>2. ~conn'[mine'[t]].done
      BY <1>0, <3>1, Zenon DEF Senders
    <3>3. /\ req'[t].i = req[t].i + 1 /\ req'[t].num = req[t].num
          /\ req[t].i \in Nat /\ req[t].num \in Nat
      BY <1>0, <3>1, SizesAssumption DEF Shape
    <3>4. /\ conn[mine[t]].type = "call" /\ req[t].i <= req[t].num /\ req[t].i <= Len(W)
          /\ \A k \in 1..Len(W) : W[k].id = mine[t] <=> k > Len(W) - req[t].i
          /\ \A k \in 1..Len(W) : W[k].id = mine[t] =>
               W[k].num = req[t].num /\ W[k].seq = conn[mine[t]].seq /\ W[k].msg = conn[mine[t]].msg
      BY <1>0, <3>1 DEF Senders
    <3>5. /\ Packet(t).id = mine[t] /\ Packet(t).num = req[t].num
          /\ Packet(t).seq = conn[mine[t]].seq /\ Packet(t).msg = conn[mine[t]].msg
      BY DEF Packet
    <3>6. Len(W') = Len(W) + 1 /\ (\A i \in 1..Len(W) : W'[i] = W[i]) /\ W'[Len(W) + 1] = Packet(t)
      BY <1>1, <2>4
    <3>7. ASSUME NEW k \in 1..(Len(W) + 1)
          PROVE  /\ W'[k].id = mine[t] <=> k > Len(W) - req[t].i
                 /\ W'[k].id = mine[t] =>
                      W'[k].num = req[t].num /\ W'[k].seq = conn[mine[t]].seq /\ W'[k].msg = conn[mine[t]].msg
      <4>1. CASE k \in 1..Len(W)
        BY <1>t, <3>3, <3>4, <3>6, <4>1
      <4>2. CASE k = Len(W) + 1
        BY <1>t, <3>3, <3>4, <3>5, <3>6, <4>2
      <4> QED
        BY <1>t, <4>1, <4>2
    <3>8. Len(W') - req'[t].i = Len(W) - req[t].i /\ req'[t].i <= req'[t].num /\ req'[t].i <= Len(W')
      <4>1. req[t].i # req[t].num /\ req[t].i <= req[t].num /\ req[t].i <= Len(W) /\ Len(W') = Len(W) + 1
        BY <3>1, <3>4, <3>6
      <4>2. Len(W) \in Nat
        BY <1>t
      <4>3. req'[t].i <= req'[t].num
        BY <3>3, <4>1
      <4>4. req'[t].i <= Len(W')
        BY <3>3, <4>1, <4>2
      <4>5. Len(W') - req'[t].i = Len(W) - req[t].i
        BY <3>3, <4>1, <4>2
      <4> QED
        BY <4>3, <4>4, <4>5
    <3> QED
      BY <3>1, <3>2, <3>3, <3>4, <3>6, <3>7, <3>8
  <2> QED
    BY <1>0, <1>3, <2>1, <2>2, <2>3, <2>4 DEF CallerStep, CallIdrInterrupted, SendLockFails, SendFragmentFails,
                                        CallFail, CallReap, CallReturn, Step, Shape
<1>4. ASSUME NEW u \in Callers, pc'[u] \in {"idr", "lock", "send"}
      PROVE  /\ pc'[u] \in {"idr", "lock"} => req'[u].i = 0
             /\ conn'[mine'[u]].type = "call" /\ ~conn'[mine'[u]].done
             /\ req'[u].i <= req'[u].num /\ req'[u].i <= Len(W')
             /\ \A k \in 1..Len(W') : W'[k].id = mine'[u] <=> k > Len(W') - req'[u].i
             /\ \A k \in 1..Len(W') : W'[k].id = mine'[u] =>
                  W'[k].num = req'[u].num /\ W'[k].seq = conn'[mine'[u]].seq /\ W'[k].msg = conn'[mine'[u]].msg
  BY <1>2, <1>3, <1>4, Zenon
<1> QED
  BY <1>4, Zenon DEF Senders

LEMMA CallerTokens == ASSUME Inv, Roomy, NEW t \in Callers, CallerStep(t) PROVE Tokens'
<1>0. Shape /\ Owners /\ Numbers /\ Senders /\ Tokens
  BY DEF Inv
<1>1. /\ F' = F /\ rmPend' = rmPend /\ (~SendFragment(t) => W' = W)
      /\ SendFragment(t) => /\ Len(W') = Len(W) + 1 /\ \A i \in 1..Len(W) : W'[i] = W[i]
                            /\ W'[Len(W) + 1] = Packet(t)
  BY CallerStreams
<1>t. /\ Len(W) \in Nat /\ \A i \in 1..Len(W) : W[i].id \in CallConns
      /\ \A q \in rmPend : q.id \in CallConns
  BY <1>0, Streams DEF Shape, Request
<1>2. ASSUME NEW c \in CallConns, NEW p, Waits(conn, pc, mine, c, p), SendFragment(t)
      PROVE  Packet(t).id # c
  <2>1. PICK u \in Callers : mine[u] = c /\ pc[u] = "wait"
    BY <1>2 DEF Waits
  <2>2. pc[t] = "send"
    BY <1>2 DEF SendFragment
  <2>3. mine[u] # NONE /\ u # t
    BY <2>1, <2>2, Sets
  <2> QED
    BY <1>0, <2>1, <2>3 DEF Owners, Packet
<1>3. ASSUME SendFragment(t), NEW i \in 1..(Len(W) + 1), W'[i].id = Packet(t).id, Len(W) + 1 - i = Packet(t).num
      PROVE  Waits(conn', pc', mine', Packet(t).id, Packet(t))
  <2>1. /\ Packet(t).id = mine[t] /\ Packet(t).num = req[t].num
        /\ Packet(t).seq = conn[mine[t]].seq /\ Packet(t).msg = conn[mine[t]].msg
    BY DEF Packet
  <2>2. pc[t] = "send" /\ conn' = conn /\ mine' = mine
    BY <1>3 DEF SendFragment
  <2>3. /\ req[t].i <= req[t].num /\ conn[mine[t]].type = "call"
        /\ \A k \in 1..Len(W) : W[k].id = mine[t] <=> k > Len(W) - req[t].i
    BY <1>0, <2>2 DEF Senders
  <2>4. req[t].i \in Nat /\ req[t].num \in Nat
    BY <1>0, SizesAssumption DEF Shape
  <2>5. req[t].i = req[t].num
    <3>1. CASE i = Len(W) + 1
      BY <1>3, <1>t, <2>1, <2>3, <2>4, <3>1
    <3>2. CASE i \in 1..Len(W)
      <4>1. i > Len(W) - req[t].i /\ Len(W) + 1 - i = req[t].num
        BY <1>1, <1>3, <2>1, <2>3, <3>2
      <4> QED
        BY <1>t, <2>3, <2>4, <4>1, <3>2
    <3> QED
      BY <1>t, <3>1, <3>2
  <2>6. pc'[t] = "wait" /\ mine'[t] = mine[t]
    BY <1>0, <1>3, <2>2, <2>5 DEF SendFragment, Shape
  <2>7. ~conn[mine[t]].done
    BY <1>0, <2>2, Zenon DEF Senders
  <2>8. conn[mine[t]].st = "live"
    BY <1>0, <2>2 DEF Owners, Live
  <2> QED
    BY <2>1, <2>2, <2>3, <2>6, <2>7, <2>8, Zenon DEF Waits
<1>4. \A i, j \in 1..Len(W') : i <= j /\ W'[i].id = W'[j].id /\ j - i = W'[j].num =>
        Waits(conn', pc', mine', W'[j].id, W'[j])
  <2>1. SUFFICES ASSUME NEW i \in 1..Len(W'), NEW j \in 1..Len(W'), i <= j, W'[i].id = W'[j].id,
                        j - i = W'[j].num
                 PROVE  Waits(conn', pc', mine', W'[j].id, W'[j])
    BY Zenon
  <2>2. CASE j \in 1..Len(W)
    <3>1. i \in 1..Len(W) /\ W'[i] = W[i] /\ W'[j] = W[j]
      BY <1>1, <1>t, <2>1, <2>2
    <3>2. Waits(conn, pc, mine, W[j].id, W[j])
      BY <1>0, <2>1, <2>2, <3>1 DEF Tokens, Whole, Waiting
    <3> QED
      BY <1>t, <2>2, <3>1, <3>2, CallerWaits
  <2>3. CASE SendFragment(t) /\ j = Len(W) + 1
    <3>1. W'[j] = Packet(t) /\ i \in 1..(Len(W) + 1)
      BY <1>1, <2>3
    <3> QED
      BY <1>3, <2>1, <2>3, <3>1
  <2> QED
    BY <1>1, <1>t, <2>1, <2>2, <2>3
<1>5. \A q \in rmPend : Waits(conn', pc', mine', q.id, q)
  BY <1>0, <1>t, CallerWaits DEF Tokens, Waiting
<1>6. \A i \in 1..Len(F) : F[i].type = "RPLY" =>
        F[i].id \in CallConns /\ Waits(conn', pc', mine', F[i].id, F[i])
  BY <1>0, CallerWaits DEF Tokens, Waiting
<1>7. ASSUME NEW c \in CallConns, NEW p, Waits(conn, pc, mine, c, p), \A j \in 1..Len(W) : W[j].id # c
      PROVE  \A j \in 1..Len(W') : W'[j].id # c
  <2>1. CASE ~SendFragment(t)
    BY <1>1, <1>7, <2>1
  <2>2. CASE SendFragment(t)
    <3>1. Packet(t).id # c
      BY <1>2, <1>7, <2>2
    <3>2. Len(W') = Len(W) + 1 /\ (\A i \in 1..Len(W) : W'[i] = W[i]) /\ W'[Len(W) + 1] = Packet(t)
      BY <1>1, <2>2
    <3>3. SUFFICES ASSUME NEW j \in 1..(Len(W) + 1) PROVE W'[j].id # c
      BY <3>2
    <3>4. j \in 1..Len(W) \/ j = Len(W) + 1
      BY <1>t
    <3> QED
      BY <1>7, <3>1, <3>2, <3>4
  <2> QED
    BY <2>1, <2>2
<1>8. \A q \in rmPend : \A i \in 1..Len(W') : W'[i].id # q.id
  <2>1. SUFFICES ASSUME NEW q \in rmPend PROVE \A i \in 1..Len(W') : W'[i].id # q.id
    OBVIOUS
  <2>2. Waits(conn, pc, mine, q.id, q) /\ \A j \in 1..Len(W) : W[j].id # q.id
    BY <1>0 DEF Tokens, Waiting
  <2> QED
    BY <1>7, <1>t, <2>2
<1>9. \A i \in 1..Len(F), j \in 1..Len(W') : F[i].type = "RPLY" => F[i].id # W'[j].id
  <2>1. SUFFICES ASSUME NEW i \in 1..Len(F), F[i].type = "RPLY" PROVE \A j \in 1..Len(W') : W'[j].id # F[i].id
    BY Zenon
  <2>2. F[i].id \in CallConns /\ Waits(conn, pc, mine, F[i].id, F[i]) /\ \A j \in 1..Len(W) : W[j].id # F[i].id
    BY <1>0, <2>1 DEF Tokens, Waiting
  <2> QED
    BY <1>7, <2>2
<1> QED
  BY <1>0, <1>1, <1>4, <1>5, <1>6, <1>8, <1>9 DEF Tokens, Whole, Waiting

\* What the receive task has at hand is out of the callers' reach.
LEMMA CallerCurrent ==
  ASSUME Inv, Roomy, NEW t \in Callers, CallerStep(t), cur # NONE
  PROVE  conn'[cur] = conn[cur] /\ CurrentOf(conn', pc', mine', cur, works)
<1>1. CurrentOf(conn, pc, mine, cur, works)
  BY DEF Inv, Current
<1>2. CASE cur \in NotifConns /\ conn[cur].type = "NOTIF" /\ cur \notin works
  <2>1. conn'[cur] = conn[cur]
    BY <1>2, CallerLeaves
  <2> QED
    BY <1>1, <1>2, <2>1, Zenon DEF CurrentOf
<1>3. CASE /\ cur \in CallConns /\ conn[cur].type = "RPLY" /\ ~conn[cur].done
           /\ \E u \in Callers : mine[u] = cur /\ pc[u] = "wait"
  <2>1. conn'[cur] = conn[cur] /\ \E u \in Callers : mine'[u] = cur /\ pc'[u] = "wait"
    BY <1>3, CallerWaiting, Zenon
  <2> QED
    BY <1>1, <1>3, <2>1, Zenon DEF CurrentOf
<1> QED
  BY <1>1, <1>2, <1>3, Zenon DEF CurrentOf

LEMMA CallerPayloads == ASSUME Inv, Roomy, NEW t \in Callers, CallerStep(t) PROVE Payloads'
<1>0. Shape /\ Shape' /\ Owners /\ Numbers /\ Senders /\ Payloads
  BY CallerShape DEF Inv
<1>1. /\ CallAlloc(t) \/ CallIdr(t) \/ Freeing(t) \/ Moving(t)
      /\ \A u \in Callers : u # t => /\ pc'[u] = pc[u] /\ mine'[u] = mine[u]
                                     /\ mine[u] # NONE => conn'[mine[u]] = conn[mine[u]]
  BY <1>0, CallerOthers DEF CallerStep, Freeing, Moving
<1>2. ASSUME NEW c \in CallConns PROVE HasReply(conn', c)
  <2>0. c \in Conns
    BY Sets
  <2>1. CASE conn'[c] = conn[c]
    BY <1>0, <2>1, Zenon DEF Payloads, HasReply
  <2>2. CASE CallAlloc(t) /\ c = mine'[t]
    <3>1. ~conn'[c].done
      BY <1>0, <2>2, CallerSelf, Zenon
    <3> QED
      BY <3>1, Zenon DEF HasReply
  <2>3. CASE CallIdr(t) /\ c = mine[t]
    <3>1. PICK s \in Seqs : conn' = [conn EXCEPT ![mine[t]].seq = s]
      BY <1>0, <2>3, IdrAssigns
    <3>2. conn'[c].done = conn[c].done
      BY <1>0, <2>0, <2>3, <3>1, SeqSet
    <3>3. pc[t] = "idr"
      BY <2>3 DEF CallIdr, Step
    <3>4. ~conn'[c].done
      BY <1>0, <2>3, <3>2, <3>3, Zenon DEF Senders
    <3> QED
      BY <3>4, Zenon DEF HasReply
  <2>4. CASE Freeing(t) /\ c = mine[t]
    <3>1. conn'[c].st = "freed"
      BY <1>0, <2>4, CallerConn, Records
    <3> QED
      BY <3>1 DEF HasReply
  <2>5. \/ conn'[c] = conn[c]
        \/ CallAlloc(t) /\ c = mine'[t]
        \/ CallIdr(t) /\ c = mine[t]
        \/ Freeing(t) /\ c = mine[t]
    <3>1. CASE CallAlloc(t)
      BY <1>0, <2>0, <3>1, CallerSelf
    <3>2. CASE CallIdr(t) \/ Freeing(t)
      BY <1>0, <2>0, <3>2, CallerConn
    <3>3. CASE Moving(t)
      BY <1>0, <3>3, CallerConn
    <3> QED
      BY <1>1, <3>1, <3>2, <3>3
  <2> QED
    BY <2>1, <2>2, <2>3, <2>4, <2>5
<1>3. ASSUME NEW u \in Callers, pc'[u] = "reap" PROVE conn'[mine'[u]].done
  <2>1. CASE u # t
    <3>1. pc[u] = "reap" /\ conn'[mine'[u]] = conn[mine[u]]
      BY <1>0, <1>1, <1>3, <2>1 DEF Owners
    <3> QED
      BY <1>0, <3>1, Zenon DEF Payloads
  <2>2. CASE u = t
    <3>1. CallReap(t)
      BY <1>0, <1>3, <2>2 DEF CallerStep, CallAlloc, CallIdr, CallIdrInterrupted, SendLock, SendLockFails, SendFragment,
             SendFragmentFails, CallFail, CallReturn, Step, Shape
    <3>2. conn[mine[t]].done /\ conn' = conn /\ mine' = mine
      BY <3>1, Zenon DEF CallReap
    <3> QED
      BY <2>2, <3>2, Zenon
  <2> QED
    BY <2>1, <2>2
<1>4. ASSUME NEW c \in works PROVE HasNotif(conn', notifs, c)
  <2>1. conn'[c] = conn[c]
    BY <1>0, CallerLeaves DEF Shape
  <2> QED
    BY <1>0, <2>1, Zenon DEF Payloads, HasNotif
<1>5. works' = works /\ notifs' = notifs
  BY CallerStreams
<1> QED
  BY <1>2, <1>3, <1>4, <1>5, Zenon DEF Payloads

LEMMA CallerIntact == ASSUME Inv, Roomy, NEW t \in Callers, CallerStep(t) PROVE RepliesIntact'
<1>0. Shape /\ Owners /\ Numbers /\ Payloads /\ RepliesIntact
  BY DEF Inv
<1>1. delivered' = delivered /\ notifs' = notifs
  BY CallerFrame DEF Untouched, workVars, rmVars
<1>2. ASSUME NEW u \in Callers, result'[u].code = "payload"
      PROVE  result'[u].data = Series(result'[u].id, result'[u].num)
  <2>1. CASE result'[u] = result[u]
    BY <1>0, <1>2, <2>1 DEF RepliesIntact
  <2>2. CASE CallReturn(t) /\ u = t
    <3>1. result'[u] = Outcome(mine[t]) /\ pc[t] = "reap"
      BY <1>0, <2>2 DEF CallReturn, Step, Shape
    <3>2. conn[mine[t]].done /\ conn[mine[t]].st = "live" /\ mine[t] \in CallConns
      <4>1. conn[mine[t]].done
        BY <1>0, <3>1, Zenon DEF Payloads
      <4>2. conn[mine[t]].st = "live" /\ mine[t] \in CallConns
        BY <1>0, <3>1 DEF Owners, Live, Shape
      <4> QED
        BY <4>1, <4>2
    <3>3. conn[mine[t]].ret \in {"0", "EIO"}
      BY <1>0, <3>2, Sets, Fields
    <3>4. HasReply(conn, mine[t])
      BY <1>0, <3>2 DEF Payloads
    <3>5. /\ [NoResult EXCEPT !.code = "RMERR"].code # "payload"
          /\ [NoResult EXCEPT !.code = "EIO"].code # "payload"
      BY DEF NoResult
    <3>6. Outcome(mine[t]).code = "payload"
      BY <1>2, <3>1
    <3>7. /\ Outcome(mine[t]) = [code |-> "payload", id |-> mine[t], num |-> conn[mine[t]].num, data |-> conn[mine[t]].data]
          /\ conn[mine[t]].ret # "EIO"
      BY <3>5, <3>6, Zenon DEF Outcome
    <3>8. conn[mine[t]].data = Series(mine[t], conn[mine[t]].num)
      BY <3>2, <3>3, <3>4, <3>7, Zenon DEF HasReply
    <3> QED
      BY <3>1, <3>7, <3>8
  <2>3. CASE u = t /\ CallAlloc(t)
    BY <1>0, <1>2, <2>3 DEF CallAlloc, NoResult, Shape
  <2>4. CASE u = t /\ (CallIdrInterrupted(t) \/ CallFail(t))
    <3>1. PICK k \in {"ESEND", "ERESTARTSYS"} : result' = [result EXCEPT ![t].code = k]
      BY <2>4 DEF CallIdrInterrupted, CallFail
    <3>2. [result[t] EXCEPT !.code = k].code = k
      BY <1>0 DEF Shape, Outcomes
    <3> QED
      BY <1>0, <1>2, <2>4, <3>1, <3>2 DEF Shape
  <2>5. \/ result'[u] = result[u]
        \/ u = t /\ (CallReturn(t) \/ CallAlloc(t) \/ CallIdrInterrupted(t) \/ CallFail(t))
    <3>1. CASE CallReturn(t) \/ CallAlloc(t)
      BY <1>0, <3>1 DEF CallReturn, CallAlloc, Shape
    <3>2. CASE CallIdrInterrupted(t) \/ CallFail(t)
      BY <1>0, <3>2 DEF CallIdrInterrupted, CallFail, Shape
    <3>3. CASE UNCHANGED result
      BY <3>3
    <3> QED
      BY <3>1, <3>2, <3>3 DEF CallerStep, CallIdr, SendLock, SendLockFails, SendFragment, SendFragmentFails, CallReap
  <2> QED
    BY <2>1, <2>2, <2>3, <2>4, <2>5
<1> QED
  BY <1>0, <1>1, <1>2 DEF RepliesIntact

LEMMA CallerInv == ASSUME Inv, Roomy, NEW t \in Callers, CallerStep(t) PROVE Inv'
<1>0. Shape /\ Owners /\ Numbers /\ Replies /\ Notifs
  BY DEF Inv
<1>1. Shape' /\ Owners' /\ Numbers'
  BY <1>0, CallerShape, CallerOwners, CallerNumbers
<1>2. F' = F /\ notifs' = notifs /\ cur' = cur /\ works' = works
  BY CallerStreams
<1>3. Replies'
  <2>1. ASSUME F # << >>, F[1].type = "CONT", cur # NONE PROVE Continued(conn', notifs, cur, F[1])
    <3>1. Continued(conn, notifs, cur, F[1]) /\ conn'[cur] = conn[cur]
      BY <1>0, <2>1, CallerCurrent DEF Replies
    <3> QED
      BY <3>1 DEF Continued
  <2> QED
    BY <1>0, <1>2, <2>1 DEF Replies
<1>4. Notifs'
  <2>1. \A c \in NotifConns : conn'[c] = conn[c]
    BY CallerLeaves
  <2> QED
    BY <1>0, <1>2, <2>1 DEF Notifs
<1>5. Current'
  BY <1>2, CallerCurrent DEF Current
<1>6. NoUseAfterFree'
  <2>1. uaf' = uaf
    BY CallerFrame DEF Untouched, recvVars
  <2>2. ~uaf
    BY Zenon DEF Inv, NoUseAfterFree
  <2> QED
    BY <2>1, <2>2, Zenon DEF NoUseAfterFree
<1>7. Requests' /\ Senders' /\ Tokens' /\ Payloads' /\ RepliesIntact'
  BY CallerRequests, CallerSenders, CallerTokens, CallerPayloads, CallerIntact
<1> QED
  BY <1>1, <1>3, <1>4, <1>5, <1>6, <1>7 DEF Inv

-----------------------------------------------------------------------------
(* The receive task                                                        *)

LEMMA SeriesStart == ASSUME NEW x \in Int PROVE <<<<x, 0>>>> = Series(x, 0)
BY DEF Series

LEMMA SeriesNext ==
  ASSUME NEW x \in Int, NEW g \in Nat
  PROVE  Append(Series(x, g), <<x, g + 1>>) = Series(x, g + 1)
<1>1. Series(x, g) \in Seq(Pieces) /\ Len(Series(x, g)) = g + 1 /\ <<x, g + 1>> \in Pieces
  BY DEF Series, Pieces
<1>2. /\ Append(Series(x, g), <<x, g + 1>>) \in Seq(Pieces)
      /\ Len(Append(Series(x, g), <<x, g + 1>>)) = g + 2
  BY <1>1
<1>3. Series(x, g + 1) \in Seq(Pieces) /\ Len(Series(x, g + 1)) = g + 2
  BY DEF Series, Pieces
<1>4. ASSUME NEW i \in 1..(g + 2) PROVE Append(Series(x, g), <<x, g + 1>>)[i] = Series(x, g + 1)[i]
  <2>1. CASE i = g + 2
    BY <1>1, <2>1 DEF Series
  <2>2. CASE i \in 1..(g + 1)
    BY <1>1, <2>2 DEF Series
  <2>3. i = g + 2 \/ i \in 1..(g + 1)
    OBVIOUS
  <2> QED
    BY <2>1, <2>2, <2>3
<1> QED
  BY <1>2, <1>3, <1>4, SeqEqual

\* gh_rm_abort_connection ends the current series only, and never as a success.
LEMMA Abort ==
  ASSUME Inv
  PROVE  /\ Aborted(conn) \in [Conns -> ConnRec]
         /\ \A x \in Conns : x # cur => Aborted(conn)[x] = conn[x]
         /\ \A x \in CallConns : /\ Aborted(conn)[x].st = conn[x].st /\ Aborted(conn)[x].seq = conn[x].seq
                                 /\ Aborted(conn)[x].msg = conn[x].msg
         /\ \A x \in NotifConns : Aborted(conn)[x].st = "unused" <=> conn[x].st = "unused"
         /\ \A x \in CallConns : HasReply(Aborted(conn), x)
         /\ \A x \in works : HasNotif(Aborted(conn), notifs, x)
<1> DEFINE cs == Aborted(conn)
<1>0. Shape /\ Payloads
  BY DEF Inv
<1>1. CASE cur = NONE
  <2>1. cs = conn
    BY <1>1 DEF Aborted
  <2> HIDE DEF cs
  <2>2. \A x \in CallConns : HasReply(cs, x)
    BY <1>0, <2>1 DEF Payloads
  <2>3. \A x \in works : HasNotif(cs, notifs, x)
    BY <1>0, <2>1 DEF Payloads
  <2>4. /\ cs \in [Conns -> ConnRec] /\ \A x \in Conns : x # cur => cs[x] = conn[x]
        /\ \A x \in CallConns : cs[x].st = conn[x].st /\ cs[x].seq = conn[x].seq /\ cs[x].msg = conn[x].msg
        /\ \A x \in NotifConns : cs[x].st = "unused" <=> conn[x].st = "unused"
    BY <1>0, <2>1 DEF Shape
  <2> QED
    BY <2>2, <2>3, <2>4 DEF cs
<1>2. CASE cur # NONE
  <2>1. cur \in Conns /\ conn[cur].st = "live" /\ CurrentOf(conn, pc, mine, cur, works)
    BY <1>0, <1>2 DEF Inv, Current, CurrentOf, Shape
  <2>2. PICK r \in ConnRec : /\ cs = [conn EXCEPT ![cur] = r]
                             /\ cur \in CallConns => /\ r.st = conn[cur].st /\ r.seq = conn[cur].seq
                                                     /\ r.msg = conn[cur].msg /\ r.ret = "EIO"
                             /\ cur \in NotifConns => r.st = "freed" /\ cur \notin works
    <3>1. CASE cur \in CallConns /\ conn[cur].type = "RPLY"
      <4> DEFINE r == [conn[cur] EXCEPT !.ret = "EIO", !.done = TRUE]
      <4>1. conn[cur] \in ConnRec
        BY <1>0, <2>1, Fields
      <4>2. /\ r \in ConnRec /\ r.st = conn[cur].st /\ r.seq = conn[cur].seq /\ r.msg = conn[cur].msg
            /\ r.ret = "EIO"
        BY <4>1 DEF ConnRec
      <4>3. cs = [conn EXCEPT ![cur] = r]
        BY <1>0, <1>2, <2>1, <3>1 DEF Aborted, Shape
      <4> HIDE DEF cs, r
      <4> QED
        BY <3>1, <4>2, <4>3, Sets
    <3>2. CASE cur \in NotifConns /\ conn[cur].type = "NOTIF" /\ cur \notin works
      <4>1. cs = [conn EXCEPT ![cur] = Released]
        BY <1>2, <3>2 DEF Aborted
      <4> HIDE DEF cs
      <4> QED
        BY <3>2, <4>1, Records, Sets
    <3> QED
      BY <2>1, <3>1, <3>2, Zenon DEF CurrentOf
  <2> HIDE DEF cs
  <2>3. cs \in [Conns -> ConnRec] /\ cs[cur] = r /\ \A x \in Conns : x # cur => cs[x] = conn[x]
    BY <1>0, <2>1, <2>2, PutConn DEF Shape
  <2>4. \A x \in CallConns : HasReply(cs, x)
    <3>1. SUFFICES ASSUME NEW x \in CallConns PROVE HasReply(cs, x)
      OBVIOUS
    <3>2. CASE x = cur
      BY <2>2, <2>3, <3>2 DEF HasReply
    <3>3. CASE x # cur
      <4>1. cs[x] = conn[x]
        BY <2>3, <3>3, Sets
      <4> QED
        BY <1>0, <4>1, Zenon DEF Payloads, HasReply
    <3> QED
      BY <3>2, <3>3
  <2>5. \A x \in works : HasNotif(cs, notifs, x)
    <3>1. SUFFICES ASSUME NEW x \in works PROVE HasNotif(cs, notifs, x)
      OBVIOUS
    <3>2. x \in NotifConns /\ x # cur
      BY <1>0, <2>2 DEF Shape
    <3>3. cs[x] = conn[x]
      BY <2>3, <3>2, Sets
    <3> QED
      BY <1>0, <3>3, Zenon DEF Payloads, HasNotif
  <2>6. \A x \in CallConns : cs[x].st = conn[x].st /\ cs[x].seq = conn[x].seq /\ cs[x].msg = conn[x].msg
    BY <2>2, <2>3, Sets
  <2>7. \A x \in NotifConns : cs[x].st = "unused" <=> conn[x].st = "unused"
    BY <2>1, <2>2, <2>3, Sets
  <2> QED
    BY <2>3, <2>4, <2>5, <2>6, <2>7 DEF cs
<1> QED
  BY <1>1, <1>2

\* cs is what the connections are before gh_rm_complete_connection(c): the first got
\* fragments of the series id are in c, and the packet after the one just read is
\* either its next fragment or starts another series.
Ready(cs, c, id) ==
  /\ cs \in [Conns -> ConnRec] /\ c \in Conns /\ id \in Int
  /\ CurrentOf(cs, pc, mine, c, works) /\ From(notifs, c, id) /\ cs[c].data = Series(id, cs[c].got)
  /\ \A x \in CallConns : HasReply(cs, x)
  /\ \A x \in works : HasNotif(cs, notifs, x)
  /\ Len(F) > 1 /\ F[2].type = "CONT" =>
       F[2].id = id /\ F[2].num = cs[c].num /\ F[2].piece[2] = cs[c].got + 1

\* What the receive task leaves behind, from the connections cs.
Leaves(cs) ==
  /\ conn' \in [Conns -> ConnRec] /\ cur' \in Conns \cup {NONE} /\ works' \subseteq NotifConns
  /\ \A x \in CallConns : conn'[x].st = cs[x].st /\ conn'[x].seq = cs[x].seq /\ conn'[x].msg = cs[x].msg
  /\ \A x \in NotifConns : cs[x].st = "unused" => conn'[x].st = "unused"
  /\ \A x \in CallConns : HasReply(conn', x)
  /\ \A x \in works' : HasNotif(conn', notifs, x)
  /\ cur' # NONE => /\ CurrentOf(conn', pc, mine, cur', works')
                    /\ Len(F) > 1 /\ F[2].type = "CONT" => Continued(conn', notifs, cur', F[2])

LEMMA Completed ==
  ASSUME Shape, NEW c, NEW cs, NEW id, Ready(cs, c, id), Complete(c, cs)
  PROVE  Leaves(cs) /\ \A x \in Conns : x # c => conn'[x] = cs[x]
<1>0. /\ cs \in [Conns -> ConnRec] /\ c \in Conns /\ id \in Int /\ CurrentOf(cs, pc, mine, c, works)
      /\ From(notifs, c, id) /\ cs[c].data = Series(id, cs[c].got)
      /\ \A x \in CallConns : HasReply(cs, x)
      /\ \A x \in works : HasNotif(cs, notifs, x)
      /\ Len(F) > 1 /\ F[2].type = "CONT" =>
           F[2].id = id /\ F[2].num = cs[c].num /\ F[2].piece[2] = cs[c].got + 1
      /\ works \subseteq NotifConns
  BY Zenon DEF Ready, Shape
<1>1. CASE ~Finished(cs[c])
  <2>1. conn' = cs /\ cur' = c /\ works' = works
    BY <1>1 DEF Complete
  <2>2. Len(F) > 1 /\ F[2].type = "CONT" => Continued(cs, notifs, c, F[2])
    BY <1>0 DEF Continued
  <2> QED
    BY <1>0, <2>1, <2>2, Zenon DEF Leaves
<1>2. CASE Finished(cs[c])
  <2>0. cur' = NONE /\ cs[c].st = "live" /\ cs[c].data = Series(id, cs[c].num) /\ cs[c] \in ConnRec
    BY <1>0, <1>2 DEF Complete, Finished, CurrentOf
  <2>1. CASE cs[c].type = "RPLY" /\ conn' = [cs EXCEPT ![c].done = TRUE] /\ works' = works
    <3>1. c \in CallConns /\ id = c
      BY <1>0, <2>1 DEF CurrentOf, From
    <3> DEFINE r == [cs[c] EXCEPT !.done = TRUE]
    <3>2. /\ r \in ConnRec /\ r.st = cs[c].st /\ r.seq = cs[c].seq /\ r.msg = cs[c].msg
          /\ r.data = cs[c].data /\ r.num = cs[c].num
      BY <2>0 DEF ConnRec
    <3>3. conn' = [cs EXCEPT ![c] = r]
      BY <2>1
    <3> HIDE DEF r
    <3>4. conn' \in [Conns -> ConnRec] /\ conn'[c] = r /\ \A x \in Conns : x # c => conn'[x] = cs[x]
      BY <1>0, <3>2, <3>3, PutConn
    <3>5. ASSUME NEW x \in CallConns
          PROVE  HasReply(conn', x) /\ conn'[x].st = cs[x].st /\ conn'[x].seq = cs[x].seq /\ conn'[x].msg = cs[x].msg
      <4>1. CASE x = c
        BY <2>0, <3>1, <3>2, <3>4, <4>1 DEF HasReply
      <4>2. CASE x # c
        <5>1. conn'[x] = cs[x] /\ HasReply(cs, x)
          BY <1>0, <3>4, <4>2, Sets
        <5> QED
          BY <5>1, Zenon DEF HasReply
      <4> QED
        BY <4>1, <4>2
    <3>6. ASSUME NEW x \in works PROVE HasNotif(conn', notifs, x)
      <4>1. conn'[x] = cs[x] /\ HasNotif(cs, notifs, x)
        BY <1>0, <3>1, <3>4, Sets
      <4> QED
        BY <4>1, Zenon DEF HasNotif
    <3>7. \A x \in NotifConns : conn'[x] = cs[x]
      BY <3>1, <3>4, Sets
    <3> QED
      BY <1>0, <2>0, <2>1, <3>4, <3>5, <3>6, <3>7, Zenon DEF Leaves
  <2>2. CASE cs[c].type = "NOTIF" /\ conn' = cs /\ works' = works \cup {c}
    <3>1. c \in NotifConns /\ c \notin CallConns /\ 0 - id \in 1..notifs
      BY <1>0, <2>2, Sets DEF CurrentOf, From
    <3>2. HasNotif(cs, notifs, c)
      <4>1. 0 - (0 - id) = id
        BY <1>0
      <4> QED
        BY <2>0, <3>1, <4>1 DEF HasNotif
    <3> QED
      BY <1>0, <2>0, <2>2, <3>1, <3>2, Zenon DEF Leaves
  <2>3. CASE cs[c].type = "NOTIF" /\ conn' = [cs EXCEPT ![c] = Released] /\ works' = works
    <3>1. c \in NotifConns /\ c \notin CallConns /\ c \notin works
      BY <1>0, <2>3, Sets DEF CurrentOf
    <3>2. conn' \in [Conns -> ConnRec] /\ \A x \in Conns : x # c => conn'[x] = cs[x]
      BY <1>0, <2>3, Records, PutConn
    <3>3. ASSUME NEW x \in CallConns PROVE HasReply(conn', x) /\ conn'[x] = cs[x]
      <4>1. conn'[x] = cs[x] /\ HasReply(cs, x)
        BY <1>0, <3>1, <3>2, Sets
      <4> QED
        BY <4>1, Zenon DEF HasReply
    <3>4. ASSUME NEW x \in works PROVE HasNotif(conn', notifs, x)
      <4>1. conn'[x] = cs[x] /\ HasNotif(cs, notifs, x)
        BY <1>0, <3>1, <3>2, Sets
      <4> QED
        BY <4>1, Zenon DEF HasNotif
    <3>5. \A x \in NotifConns : cs[x].st = "unused" => conn'[x].st = "unused"
      BY <2>0, <3>2, Sets
    <3> QED
      BY <1>0, <2>0, <2>3, <3>2, <3>3, <3>4, <3>5, Zenon DEF Leaves
  <2> QED
    BY <1>2, <2>1, <2>2, <2>3 DEF Complete
<1> QED
  BY <1>1, <1>2

\* The task reads the first packet under way.
LEMMA RecvStreams ==
  ASSUME Shape, fromRM # << >>, fromRM' = Tail(fromRM), UNCHANGED rmOut
  PROVE  /\ F # << >> /\ Len(F) \in Nat /\ Len(F) > 0 /\ F[1] = Head1 /\ F[1] \in Reply
         /\ Len(F') = Len(F) - 1 /\ \A i \in 1..Len(F') : F'[i] = F[i + 1]
<1>1. fromRM \in Seq(Reply) /\ rmOut \in Seq(Reply) /\ F = fromRM \o rmOut /\ F' = Tail(fromRM) \o rmOut
  BY DEF Shape, F
<1>2. Len(fromRM) \in Nat /\ Len(rmOut) \in Nat /\ Len(fromRM) > 0
  BY <1>1
<1>3. F \in Seq(Reply) /\ Len(F) = Len(fromRM) + Len(rmOut) /\ F[1] = fromRM[1]
  BY <1>1, <1>2
<1>4. Tail(fromRM) \in Seq(Reply) /\ Len(Tail(fromRM)) = Len(fromRM) - 1
  BY <1>1, <1>2
<1>5. Len(F') = Len(F) - 1
  BY <1>1, <1>2, <1>3, <1>4
<1>6. ASSUME NEW i \in 1..Len(F') PROVE F'[i] = F[i + 1]
  <2>1. CASE i <= Len(fromRM) - 1
    <3>1. F'[i] = Tail(fromRM)[i] /\ F[i + 1] = fromRM[i + 1]
      BY <1>1, <1>2, <1>4, <1>5, <1>3, <2>1
    <3> QED
      BY <1>1, <1>2, <2>1, <3>1
  <2>2. CASE i > Len(fromRM) - 1
    <3>1. F'[i] = rmOut[i - (Len(fromRM) - 1)] /\ F[i + 1] = rmOut[i + 1 - Len(fromRM)]
      BY <1>1, <1>2, <1>4, <1>5, <1>3, <2>2
    <3> QED
      BY <1>2, <3>1
  <2> QED
    BY <1>2, <2>1, <2>2
<1> QED
  BY <1>1, <1>2, <1>3, <1>5, <1>6 DEF Head1

\* What one iteration of the receive task does with the packet F[1].
Handled ==
  /\ conn' \in [Conns -> ConnRec] /\ cur' \in Conns \cup {NONE} /\ works' \subseteq NotifConns
  /\ \A x \in CallConns : conn'[x].st = conn[x].st /\ conn'[x].seq = conn[x].seq /\ conn'[x].msg = conn[x].msg
  /\ \A x \in CallConns : x # cur /\ ~(F[1].type = "RPLY" /\ F[1].id = x) => conn'[x] = conn[x]
  /\ \A x \in NotifConns : conn[x].st = "unused" =>
       conn'[x].st = "unused" \/ (F[1].type = "NOTIF" /\ x <= MaxCalls - F[1].id)
  /\ \A x \in CallConns : HasReply(conn', x)
  /\ \A x \in works' : HasNotif(conn', notifs, x)
  /\ cur' # NONE => /\ CurrentOf(conn', pc, mine, cur', works')
                    /\ Len(F) > 1 /\ F[2].type = "CONT" => Continued(conn', notifs, cur', F[2])
  /\ ~uaf'

LEMMA CurrentLive == ASSUME Inv, cur # NONE PROVE cur \in Conns /\ conn[cur].st = "live" /\ ~Freed(cur)
BY DEF Inv, Shape, Current, CurrentOf, Freed

LEMMA Grown ==
  ASSUME NEW rec \in ConnRec, NEW g \in Nat, NEW d \in Seq(Pieces)
  PROVE  LET r == [rec EXCEPT !.got = g, !.data = d] IN
         /\ r \in ConnRec /\ r.st = rec.st /\ r.seq = rec.seq /\ r.msg = rec.msg
         /\ r.type = rec.type /\ r.num = rec.num /\ r.got = g /\ r.data = d
BY DEF ConnRec

LEMMA RecvContHandled == ASSUME Inv, RecvCont PROVE Handled
<1>0. Shape /\ Payloads /\ Replies /\ Current
  BY DEF Inv
<1>u. ~uaf
  BY Zenon DEF Inv, NoUseAfterFree
<1>1. fromRM # << >> /\ Head1.type = "CONT" /\ fromRM' = Tail(fromRM) /\ UNCHANGED rmOut
  BY DEF RecvCont, Received, rmVars
<1>2. F # << >> /\ Len(F) \in Nat /\ Len(F) > 0 /\ F[1] = Head1 /\ F[1] \in Reply
  BY <1>0, <1>1, RecvStreams
<1>3. CASE cur = NONE
  <2>1. conn' = conn /\ cur' = NONE /\ works' = works
    BY <1>3 DEF RecvCont
  <2>2. uaf' = uaf
    BY <1>3 DEF RecvCont
  <2>3. ~uaf'
    BY <1>u, <2>2, Zenon
  <2>4. /\ \A x \in CallConns : HasReply(conn', x)
        /\ \A x \in works' : HasNotif(conn', notifs, x)
    BY <1>0, <2>1 DEF Payloads
  <2> QED
    BY <1>0, <2>1, <2>3, <2>4 DEF Handled, Shape
<1>4. CASE cur # NONE
  <2>1. cur \in Conns /\ conn[cur] \in ConnRec /\ ~Freed(cur) /\ CurrentOf(conn, pc, mine, cur, works)
    BY <1>0, <1>4, CurrentLive, Fields DEF Current
  <2>2. Continued(conn, notifs, cur, F[1])
    BY <1>0, <1>1, <1>2, <1>4 DEF Replies
  <2> DEFINE g == conn[cur].got
             p == F[1]
             r == [conn[cur] EXCEPT !.got = g + 1, !.data = Append(conn[cur].data, p.piece)]
             cs == [conn EXCEPT ![cur] = r]
  <2>3. g \in Nat /\ conn[cur].data \in Seq(Pieces) /\ p.id \in Int /\ p.piece \in Int \X Nat
    BY <1>0, <1>2, <2>1, Fields DEF Reply, Pieces
  <2>4. p.piece = <<p.id, g + 1>> /\ conn[cur].data = Series(p.id, g) /\ From(notifs, cur, p.id) /\ conn[cur].num = p.num
    <3>1. p.piece[1] = p.id
      BY <1>0, <1>2 DEF Replies
    <3>2. p.piece[2] = g + 1
      BY <2>2 DEF Continued
    <3> QED
      BY <2>2, <2>3, <3>1, <3>2 DEF Continued
  <2>5. /\ r \in ConnRec /\ r.st = conn[cur].st /\ r.seq = conn[cur].seq /\ r.msg = conn[cur].msg
        /\ r.type = conn[cur].type /\ r.num = conn[cur].num /\ r.got = g + 1
        /\ r.data = Append(conn[cur].data, p.piece)
    <3>1. Append(conn[cur].data, p.piece) \in Seq(Pieces)
      BY <2>3 DEF Pieces
    <3>2. g + 1 \in Nat
      BY <2>3
    <3> DEFINE d == Append(conn[cur].data, p.piece)
               n == g + 1
               old == conn[cur]
    <3>3. r = [old EXCEPT !.got = n, !.data = d]
      OBVIOUS
    <3>4. old \in ConnRec /\ n \in Nat /\ d \in Seq(Pieces)
      BY <2>1, <3>1, <3>2
    <3> HIDE DEF d, n, old
    <3>5. /\ r \in ConnRec /\ r.st = old.st /\ r.seq = old.seq /\ r.msg = old.msg
          /\ r.type = old.type /\ r.num = old.num /\ r.got = n /\ r.data = d
      <4> HIDE DEF r
      <4> QED
        BY <3>3, <3>4 DEF ConnRec
    <3> QED
      BY <3>5 DEF d, n, old
  <2>6. r.done = conn[cur].done
    BY <2>1 DEF ConnRec
  <2>7. r.data = Series(p.id, g + 1)
    BY <2>3, <2>4, <2>5, SeriesNext
  <2>8. Complete(cur, cs)
    <3>1. conn[cur].num = Head1.num
      BY <1>2, <2>4
    <3>2. Complete(cur, [conn EXCEPT ![cur].got = @ + 1, ![cur].data = Append(@, Head1.piece)])
      BY <1>4, <3>1 DEF RecvCont
    <3>3. cs = [conn EXCEPT ![cur].got = @ + 1, ![cur].data = Append(@, Head1.piece)]
      BY <1>0, <1>2, <2>1 DEF Shape, ConnRec
    <3> HIDE DEF cs
    <3> QED
      BY <3>2, <3>3
  <2> HIDE DEF r
  <2>9. cs \in [Conns -> ConnRec] /\ cs[cur] = r /\ \A x \in Conns : x # cur => cs[x] = conn[x]
    BY <1>0, <2>1, <2>5, PutConn DEF Shape
  <2> HIDE DEF cs
  <2>10. CurrentOf(cs, pc, mine, cur, works)
    BY <2>1, <2>5, <2>6, <2>9, Zenon DEF CurrentOf
  <2>11. \A x \in CallConns : HasReply(cs, x)
    <3>1. SUFFICES ASSUME NEW x \in CallConns PROVE HasReply(cs, x)
      OBVIOUS
    <3>2. CASE x = cur
      <4>1. ~cs[x].done
        BY <2>10, <3>2, Sets, Zenon DEF CurrentOf
      <4> QED
        BY <4>1, Zenon DEF HasReply
    <3>3. CASE x # cur
      <4>1. cs[x] = conn[x]
        BY <2>9, <3>3, Sets
      <4> QED
        BY <1>0, <4>1, Zenon DEF Payloads, HasReply
    <3> QED
      BY <3>2, <3>3
  <2>12. \A x \in works : HasNotif(cs, notifs, x)
    <3>1. SUFFICES ASSUME NEW x \in works PROVE HasNotif(cs, notifs, x)
      OBVIOUS
    <3>2. x \in NotifConns /\ x # cur
      BY <1>0, <2>1, Sets DEF Shape, CurrentOf
    <3>3. cs[x] = conn[x]
      BY <2>9, <3>2, Sets
    <3> QED
      BY <1>0, <3>3, Zenon DEF Payloads, HasNotif
  <2>13. Len(F) > 1 /\ F[2].type = "CONT" =>
           F[2].id = p.id /\ F[2].num = cs[cur].num /\ F[2].piece[2] = cs[cur].got + 1
    <3>1. SUFFICES ASSUME Len(F) > 1, F[2].type = "CONT" PROVE Continues(F[1], F[2])
      BY <2>3, <2>4, <2>5, <2>9 DEF Continues
    <3>2. 1 \in 1..(Len(F) - 1) /\ 1 + 1 = 2
      BY <1>2, <3>1
    <3> QED
      BY <1>0, <3>1, <3>2 DEF Replies
  <2>14. Ready(cs, cur, p.id)
    <3>1. cs[cur].data = Series(p.id, cs[cur].got)
      BY <2>5, <2>7, <2>9
    <3> QED
      BY <2>1, <2>3, <2>4, <2>9, <2>10, <2>11, <2>12, <2>13, <3>1, Zenon DEF Ready
  <2>15. Leaves(cs) /\ \A x \in Conns : x # cur => conn'[x] = cs[x]
    BY <1>0, <2>8, <2>14, Completed
  <2>16. ~uaf'
    <3>1. uaf' = (uaf \/ Freed(cur))
      BY <1>4 DEF RecvCont
    <3> QED
      BY <1>u, <2>1, <3>1, Zenon
  <2>17. \A x \in CallConns : cs[x].st = conn[x].st /\ cs[x].seq = conn[x].seq /\ cs[x].msg = conn[x].msg
    BY <2>5, <2>9, Sets
  <2>18. \A x \in NotifConns : conn[x].st = "unused" => cs[x].st = "unused"
    BY <2>5, <2>9, Sets
  <2>19. \A x \in CallConns : x # cur => conn'[x] = conn[x]
    BY <2>9, <2>15, Sets
  <2> QED
    BY <2>15, <2>16, <2>17, <2>18, <2>19 DEF Handled, Leaves
<1> QED
  BY <1>3, <1>4

\* A series that is ended and followed by nothing the task keeps.
LEMMA AbortHandled ==
  ASSUME Inv, conn' = Aborted(conn), cur' = NONE, works' = works, ~uaf'
  PROVE  Handled
<1> DEFINE cs == Aborted(conn)
<1>1. /\ cs \in [Conns -> ConnRec] /\ \A x \in Conns : x # cur => cs[x] = conn[x]
      /\ \A x \in CallConns : cs[x].st = conn[x].st /\ cs[x].seq = conn[x].seq /\ cs[x].msg = conn[x].msg
      /\ \A x \in NotifConns : cs[x].st = "unused" <=> conn[x].st = "unused"
      /\ \A x \in CallConns : HasReply(cs, x)
      /\ \A x \in works : HasNotif(cs, notifs, x)
  BY Abort
<1>2. conn' = cs /\ works \subseteq NotifConns
  BY DEF Inv, Shape
<1> HIDE DEF cs
<1>3. \A x \in CallConns : x # cur => conn'[x] = conn[x]
  BY <1>1, <1>2, Sets
<1>4. \A x \in works' : HasNotif(conn', notifs, x)
  BY <1>1, <1>2
<1>5. \A x \in CallConns : HasReply(conn', x)
  BY <1>1, <1>2
<1>6. ~uaf'
  OBVIOUS
<1> QED
  BY <1>1, <1>2, <1>3, <1>4, <1>5, <1>6 DEF Handled

LEMMA StartedRecord ==
  ASSUME NEW rec \in ConnRec, NEW p \in Reply
  PROVE  LET r == Started(rec, p) IN
         p.type # "CONT" =>
           /\ r \in ConnRec /\ r.st = rec.st /\ r.seq = rec.seq /\ r.msg = rec.msg /\ r.done = rec.done
           /\ r.type = p.type /\ r.num = p.num /\ r.got = 0 /\ r.data = <<p.piece>>
<1>1. /\ p.type \in {"RPLY", "NOTIF", "CONT"} /\ p.num \in 0..MaxFrags /\ <<p.piece>> \in Seq(Pieces)
  BY DEF Reply
<1> QED
  BY <1>1 DEF Started, ConnRec

\* A packet that starts a series for the connection c.
LEMMA StartHandled ==
  ASSUME Inv, NEW c \in Conns, NEW r \in ConnRec, fromRM # << >>, fromRM' = Tail(fromRM), UNCHANGED rmOut,
         Head1.type # "CONT", r.num = Head1.num, r.got = 0, r.data = <<Head1.piece>>, r.type = Head1.type,
         r.st = "live", c # cur, c \notin works, From(notifs, c, Head1.id),
         c \in CallConns => /\ r.type = "RPLY" /\ Head1.id = c /\ r.seq = conn[c].seq /\ r.msg = conn[c].msg
                            /\ ~r.done /\ conn[c].st = "live" /\ \E u \in Callers : mine[u] = c /\ pc[u] = "wait",
         c \in NotifConns => r.type = "NOTIF" /\ c <= MaxCalls - Head1.id,
         Complete(c, [Aborted(conn) EXCEPT ![c] = r]), ~uaf'
  PROVE  Handled
<1> DEFINE ab == Aborted(conn)
           cs == [ab EXCEPT ![c] = r]
           p  == F[1]
<1>0. Shape /\ Replies
  BY DEF Inv
<1>1. /\ ab \in [Conns -> ConnRec] /\ \A x \in Conns : x # cur => ab[x] = conn[x]
      /\ \A x \in CallConns : ab[x].st = conn[x].st /\ ab[x].seq = conn[x].seq /\ ab[x].msg = conn[x].msg
      /\ \A x \in NotifConns : ab[x].st = "unused" <=> conn[x].st = "unused"
      /\ \A x \in CallConns : HasReply(ab, x)
      /\ \A x \in works : HasNotif(ab, notifs, x)
  BY Abort
<1>2. F # << >> /\ Len(F) \in Nat /\ Len(F) > 0 /\ F[1] = Head1 /\ F[1] \in Reply
  BY <1>0, RecvStreams
<1>c. Complete(c, cs)
  OBVIOUS
<1> HIDE DEF ab
<1>3. cs \in [Conns -> ConnRec] /\ cs[c] = r /\ \A x \in Conns : x # c => cs[x] = ab[x]
  BY <1>1, PutConn
<1> HIDE DEF cs
<1>4. p.id \in Int /\ p.piece = <<p.id, 0>>
  <2>1. p.piece \in Int \X Nat /\ p.id \in Int
    BY <1>2 DEF Reply, Pieces
  <2>2. p.piece[1] = p.id /\ p.piece[2] = 0
    BY <1>0, <1>2 DEF Replies
  <2> QED
    BY <2>1, <2>2
<1>5. CurrentOf(cs, pc, mine, c, works)
  BY <1>3, Sets, Zenon DEF CurrentOf
<1>6. \A x \in CallConns : HasReply(cs, x)
  <2>1. SUFFICES ASSUME NEW x \in CallConns PROVE HasReply(cs, x)
    OBVIOUS
  <2>2. CASE x = c
    <3>1. ~cs[x].done
      BY <1>3, <2>2, Zenon
    <3> QED
      BY <3>1, Zenon DEF HasReply
  <2>3. CASE x # c
    <3>1. cs[x] = ab[x] /\ HasReply(ab, x)
      BY <1>1, <1>3, <2>3, Sets
    <3> QED
      BY <3>1, Zenon DEF HasReply
  <2> QED
    BY <2>2, <2>3
<1>7. \A x \in works : HasNotif(cs, notifs, x)
  <2>1. SUFFICES ASSUME NEW x \in works PROVE HasNotif(cs, notifs, x)
    OBVIOUS
  <2>2. x \in Conns /\ x # c
    BY <1>0, Sets DEF Shape
  <2>3. cs[x] = ab[x] /\ HasNotif(ab, notifs, x)
    BY <1>1, <1>3, <2>2
  <2> QED
    BY <2>3, Zenon DEF HasNotif
<1>8. Len(F) > 1 /\ F[2].type = "CONT" =>
        F[2].id = p.id /\ F[2].num = cs[c].num /\ F[2].piece[2] = cs[c].got + 1
  <2>1. SUFFICES ASSUME Len(F) > 1, F[2].type = "CONT" PROVE Continues(F[1], F[2])
    BY <1>2, <1>3, <1>4 DEF Continues
  <2>2. 1 \in 1..(Len(F) - 1) /\ 1 + 1 = 2
    BY <1>2, <2>1
  <2> QED
    BY <1>0, <2>1, <2>2 DEF Replies
<1>9. Ready(cs, c, p.id)
  <2>1. cs[c].data = Series(p.id, cs[c].got)
    BY <1>2, <1>3, <1>4, SeriesStart
  <2> QED
    BY <1>2, <1>3, <1>4, <1>5, <1>6, <1>7, <1>8, <2>1, Zenon DEF Ready
<1>10. Leaves(cs) /\ \A x \in Conns : x # c => conn'[x] = cs[x]
  BY <1>0, <1>9, <1>c, Completed
<1>11. ~uaf'
  OBVIOUS
<1>12. \A x \in CallConns : cs[x].st = conn[x].st /\ cs[x].seq = conn[x].seq /\ cs[x].msg = conn[x].msg
  BY <1>1, <1>3, Sets
<1>13. \A x \in NotifConns : conn[x].st = "unused" =>
         cs[x].st = "unused" \/ (F[1].type = "NOTIF" /\ x <= MaxCalls - F[1].id)
  BY <1>1, <1>2, <1>3, Sets
<1>14. \A x \in CallConns : x # cur /\ ~(F[1].type = "RPLY" /\ F[1].id = x) => conn'[x] = conn[x]
  BY <1>1, <1>2, <1>3, <1>10, Sets
<1> QED
  BY <1>10, <1>11, <1>12, <1>13, <1>14 DEF Handled, Leaves

\* A notification finds a connection that was never used.
LEMMA NewNotif ==
  ASSUME Inv, fromRM # << >>, fromRM' = Tail(fromRM), UNCHANGED rmOut, Head1.type = "NOTIF"
  PROVE  /\ NewConn(NotifConns) \in NotifConns /\ conn[NewConn(NotifConns)].st = "unused"
         /\ NewConn(NotifConns) <= MaxCalls - Head1.id /\ 0 - Head1.id \in 1..notifs /\ Head1.msg \in Ids
<1>0. Shape /\ Notifs
  BY DEF Inv
<1>1. Len(F) \in Nat /\ Len(F) > 0 /\ F[1] = Head1 /\ F[1] \in Reply
  BY <1>0, RecvStreams
<1> DEFINE c == NewConn(NotifConns)
           d == MaxCalls - Head1.id
<1>2. 0 - Head1.id \in 1..notifs /\ notifs \in 0..MaxNotifs /\ Head1.id \in Int /\ Head1.msg \in Ids
  <2>1. Head1.id \in Int /\ Head1.msg \in Ids
    BY <1>1 DEF Reply
  <2>2. 1 \in 1..Len(F)
    BY <1>1
  <2>3. 0 - Head1.id \in 1..notifs
    BY <1>0, <1>1, <2>2 DEF Notifs
  <2>4. notifs \in 0..MaxNotifs
    BY <1>0 DEF Shape
  <2> QED
    BY <2>1, <2>3, <2>4
<1>3. d \in NotifConns
  BY <1>2, SizesAssumption, FaultsAssumption DEF NotifConns
<1>4. conn[d].st = "unused"
  <2>1. d >= MaxCalls - F[1].id /\ 1 \in 1..Len(F)
    BY <1>1, <1>2, SizesAssumption
  <2> HIDE DEF d
  <2> QED
    BY <1>0, <1>1, <1>3, <2>1 DEF Notifs
<1>5. c \in NotifConns /\ conn[c].st = "unused" /\ c <= d
  <2>1. NotifConns \subseteq Nat /\ d \in Unallocated(NotifConns)
    BY <1>3, <1>4, Sets DEF Unallocated
  <2> QED
    BY <1>3, <1>4, <2>1, NewConnUnused
<1> QED
  BY <1>2, <1>5

LEMMA RecvNotifHandled == ASSUME Inv, RecvNotif PROVE Handled
<1>0. Shape /\ Payloads /\ Notifs
  BY DEF Inv
<1>1. fromRM # << >> /\ Head1.type = "NOTIF" /\ fromRM' = Tail(fromRM) /\ UNCHANGED rmOut
  BY DEF RecvNotif, Received, rmVars
<1>2. Len(F) \in Nat /\ Len(F) > 0 /\ F[1] = Head1 /\ F[1] \in Reply
  BY <1>0, <1>1, RecvStreams
<1>3. ~uaf'
  <2>1. uaf' = (uaf \/ (cur # NONE /\ Freed(cur)))
    BY DEF RecvNotif
  <2>2. ~uaf
    BY Zenon DEF Inv, NoUseAfterFree
  <2> QED
    BY <2>1, <2>2, CurrentLive, Zenon
<1> DEFINE c == NewConn(NotifConns)
           r == Started(Fresh("NOTIF", Head1.msg), Head1)
<1>4. CASE Complete(c, [Aborted(conn) EXCEPT ![c] = r])
  <2>1. /\ c \in NotifConns /\ conn[c].st = "unused" /\ c <= MaxCalls - Head1.id
        /\ 0 - Head1.id \in 1..notifs /\ Head1.msg \in Ids
    BY <1>1, NewNotif
  <2>2. Fresh("NOTIF", Head1.msg) \in ConnRec /\ Fresh("NOTIF", Head1.msg).st = "live"
    BY <2>1, Records
  <2>3. /\ r \in ConnRec /\ r.st = "live" /\ r.type = Head1.type /\ r.num = Head1.num /\ r.got = 0
        /\ r.data = <<Head1.piece>>
    <3> HIDE DEF r
    <3> QED
      BY <1>1, <1>2, <2>2, StartedRecord DEF r
  <2>4. c # cur /\ c \notin works /\ c \notin CallConns /\ c \in Conns
    BY <1>0, <2>1, CurrentLive, Sets DEF Payloads, HasNotif
  <2>5. From(notifs, c, Head1.id)
    BY <2>1, <2>4 DEF From
  <2> HIDE DEF c, r
  <2>6. Complete(c, [Aborted(conn) EXCEPT ![c] = r])
    BY <1>4
  <2> QED
    BY <1>1, <1>3, <2>1, <2>3, <2>4, <2>5, <2>6, StartHandled
<1>5. CASE conn' = Aborted(conn) /\ cur' = NONE /\ works' = works
  BY <1>3, <1>5, AbortHandled
<1> QED
  BY <1>4, <1>5 DEF RecvNotif, ErrorPointer

\* A reply's number finds the connection of the call it answers.
LEMMA ReplyFound ==
  ASSUME Inv, fromRM # << >>, fromRM' = Tail(fromRM), UNCHANGED rmOut, Head1.type = "RPLY"
  PROVE  /\ Head1.id \in CallConns /\ idr[Head1.seq] = Head1.id /\ conn[Head1.id].st = "live"
         /\ ~conn[Head1.id].done /\ conn[Head1.id].type = "call"
         /\ conn[Head1.id].seq = Head1.seq /\ conn[Head1.id].msg = Head1.msg
         /\ \E u \in Callers : mine[u] = Head1.id /\ pc[u] = "wait"
<1>0. Shape /\ Tokens /\ Numbers
  BY DEF Inv
<1>1. Len(F) \in Nat /\ Len(F) > 0 /\ F[1] = Head1
  BY <1>0, RecvStreams
<1>2. Head1.id \in CallConns /\ Waits(conn, pc, mine, Head1.id, Head1)
  BY <1>0, <1>1 DEF Tokens, Waiting
<1>3. PICK u \in Callers : mine[u] = Head1.id /\ pc[u] = "wait"
  BY <1>2, Zenon DEF Waits
<1>4. idr[Head1.seq] = Head1.id
  <2>1. conn[Head1.id].seq = Head1.seq
    BY <1>2, Zenon DEF Waits
  <2> QED
    BY <1>0, <1>3, <2>1 DEF Numbers, Numbered
<1> QED
  BY <1>2, <1>4, Zenon DEF Waits

LEMMA RecvRplyHandled == ASSUME Inv, RecvRply PROVE Handled
<1>0. Shape
  BY DEF Inv
<1>1. fromRM # << >> /\ Head1.type = "RPLY" /\ fromRM' = Tail(fromRM) /\ UNCHANGED rmOut
  BY DEF RecvRply, Received, rmVars
<1>2. F[1] = Head1 /\ Head1 \in Reply
  BY <1>0, <1>1, RecvStreams
<1> DEFINE c == Head1.id
           r == [Started(conn[c], Head1) EXCEPT !.err = Head1.err]
<1>3. /\ c \in CallConns /\ idr[Head1.seq] = c /\ conn[c].st = "live" /\ conn[c].type = "call"
      /\ conn[c].seq = Head1.seq /\ conn[c].msg = Head1.msg
      /\ \E u \in Callers : mine[u] = c /\ pc[u] = "wait"
  BY <1>1, ReplyFound
<1>d. ~conn[c].done
  BY <1>1, ReplyFound, Zenon
<1>4. ~uaf'
  <2>1. uaf' = (uaf \/ (cur # NONE /\ Freed(cur)) \/ (c # NONE /\ Freed(c)))
    BY <1>3 DEF RecvRply
  <2>2. ~uaf
    BY Zenon DEF Inv, NoUseAfterFree
  <2>3. ~Freed(c)
    BY <1>3 DEF Freed
  <2> QED
    BY <2>1, <2>2, <2>3, CurrentLive, Zenon
<1>5. Matches(c, Head1)
  BY <1>3, Sets DEF Matches
<1>6. c \in Conns /\ c \notin NotifConns /\ c # cur /\ c \notin works
  <2>1. c \in Conns /\ c \notin NotifConns
    BY <1>3, Sets
  <2>2. ASSUME c = cur PROVE FALSE
    <3>1. CurrentOf(conn, pc, mine, cur, works)
      BY <2>1, <2>2, Sets DEF Inv, Current
    <3> QED
      BY <1>3, <2>1, <2>2, <3>1, Zenon DEF CurrentOf
  <2> QED
    BY <1>0, <2>1, <2>2 DEF Shape
<1>7. Aborted(conn)[c] = conn[c] /\ Aborted(conn) \in [Conns -> ConnRec]
  BY <1>6, Abort
<1>8. CASE Complete(c, [Aborted(conn) EXCEPT ![c] = [Started(@, Head1) EXCEPT !.err = Head1.err]])
  <2>1. [Aborted(conn) EXCEPT ![c] = [Started(@, Head1) EXCEPT !.err = Head1.err]] = [Aborted(conn) EXCEPT ![c] = r]
    BY <1>6, <1>7
  <2>2. conn[c] \in ConnRec /\ Head1.err \in BOOLEAN
    BY <1>0, <1>2, <1>6, Fields DEF Reply
  <2> DEFINE s == Started(conn[c], Head1)
  <2>3. /\ s \in ConnRec /\ s.st = "live" /\ s.seq = conn[c].seq /\ s.msg = conn[c].msg /\ s.done = conn[c].done
        /\ s.type = Head1.type /\ s.num = Head1.num /\ s.got = 0 /\ s.data = <<Head1.piece>>
    <3> HIDE DEF s
    <3> QED
      BY <1>1, <1>2, <1>3, <2>2, StartedRecord DEF s
  <2> HIDE DEF s
  <2>4. r = [s EXCEPT !.err = Head1.err]
    BY DEF s
  <2> HIDE DEF r
  <2>5. /\ r \in ConnRec /\ r.st = "live" /\ r.seq = conn[c].seq /\ r.msg = conn[c].msg /\ r.done = conn[c].done
        /\ r.type = Head1.type /\ r.num = Head1.num /\ r.got = 0 /\ r.data = <<Head1.piece>>
    BY <2>2, <2>3, <2>4 DEF ConnRec
  <2>6. ~r.done
    BY <1>d, <2>5, Zenon
  <2>7. Complete(c, [Aborted(conn) EXCEPT ![c] = r])
    BY <1>8, <2>1
  <2>8. From(notifs, c, Head1.id)
    BY <1>3 DEF From
  <2> QED
    BY <1>1, <1>3, <1>4, <1>6, <2>5, <2>6, <2>7, <2>8, StartHandled
<1>9. CASE conn' = Aborted(conn) /\ cur' = NONE /\ works' = works
  BY <1>4, <1>9, AbortHandled
<1> QED
  BY <1>3, <1>5, <1>8, <1>9 DEF RecvRply, ErrorPointer

\* What every step outside the callers leaves alone of theirs: the numbers, the
\* program counters and pointers; and of a call's connection, what identifies it.
Kept ==
  /\ UNCHANGED callVars
  /\ \A x \in CallConns : conn'[x].st = conn[x].st /\ conn'[x].seq = conn[x].seq /\ conn'[x].msg = conn[x].msg

LEMMA KeptOwners == ASSUME Shape, Owners, Numbers, Kept PROVE Owners' /\ Numbers'
<1>1. /\ UNCHANGED <<idr, idrNext, sendLock, pc, mine, req, result, sendFails>>
      /\ \A x \in CallConns : conn'[x].st = conn[x].st /\ conn'[x].seq = conn[x].seq
  BY DEF Kept, callVars
<1>2. \A u \in Callers : pc[u] # "idle" => mine[u] \in CallConns
  BY DEF Owners, Shape
<1>3. Owners'
  BY <1>1, <1>2 DEF Owners, Live
<1>4. \A s \in Seqs : idr[s] # NONE => (conn'[idr[s]].st = conn[idr[s]].st)
  BY <1>1 DEF Shape
<1>5. Lost' = Lost
  BY <1>1, <1>4 DEF Lost, Freed
<1>6. \A u \in Callers : Numbered(u) => conn'[mine[u]].seq = conn[mine[u]].seq
  BY <1>1, <1>2 DEF Numbered
<1>7. Numbers'
  <2>1. \A u \in Callers : Numbered(u)' => idr'[conn'[mine'[u]].seq] = mine'[u]
    BY <1>1, <1>6 DEF Numbers, Numbered
  <2>2. \A s \in Seqs : idr'[s] # NONE =>
          \/ Freed(idr[s])'
          \/ \E u \in Callers : Numbered(u)' /\ mine'[u] = idr'[s] /\ conn'[mine'[u]].seq = s
    <3>1. SUFFICES ASSUME NEW s \in Seqs, idr[s] # NONE, ~Freed(idr[s])
                   PROVE  \E u \in Callers : Numbered(u)' /\ mine'[u] = idr'[s] /\ conn'[mine'[u]].seq = s
      BY <1>1, <1>4 DEF Freed
    <3>2. PICK u \in Callers : Numbered(u) /\ mine[u] = idr[s] /\ conn[mine[u]].seq = s
      BY <3>1 DEF Numbers
    <3> QED
      BY <1>1, <1>6, <3>2 DEF Numbered
  <2>3. Cardinality(Lost') <= sendFails'
    BY <1>1, <1>5 DEF Numbers
  <2> QED
    BY <2>1, <2>2, <2>3 DEF Numbers
<1> QED
  BY <1>3, <1>7

LEMMA RecvTokens ==
  ASSUME Inv, Handled, fromRM # << >>, fromRM' = Tail(fromRM), UNCHANGED <<callVars, toRM, rmVars>>
  PROVE  Tokens' /\ Senders'
<1>0. Shape /\ Owners /\ Senders /\ Tokens /\ Current
  BY DEF Inv
<1>1. /\ Len(F) \in Nat /\ Len(F) > 0 /\ Len(F') = Len(F) - 1 /\ \A i \in 1..Len(F') : F'[i] = F[i + 1]
  BY <1>0, RecvStreams DEF rmVars
<1>2. UNCHANGED <<pc, mine, req, rmPend>> /\ W' = W
  BY DEF callVars, rmVars, W
<1>3. \A x \in CallConns : x # cur /\ ~(F[1].type = "RPLY" /\ F[1].id = x) => conn'[x] = conn[x]
  BY DEF Handled
<1>t. /\ \A i \in 1..Len(W) : W[i].id \in CallConns
      /\ \A q \in rmPend : q.id \in CallConns
  BY <1>0, Streams DEF Shape, Request
<1>4. ASSUME NEW c \in CallConns, NEW p, Waits(conn, pc, mine, c, p), ~(F[1].type = "RPLY" /\ F[1].id = c)
      PROVE  Waits(conn', pc', mine', c, p)
  <2>1. c # cur
    <3>1. SUFFICES ASSUME c = cur PROVE FALSE
      OBVIOUS
    <3>2. CurrentOf(conn, pc, mine, cur, works) /\ cur \notin NotifConns
      BY <1>0, <3>1, Sets DEF Current
    <3>3. conn[cur].type = "call"
      BY <1>4, <3>1, Zenon DEF Waits
    <3> QED
      BY <3>2, <3>3, Zenon DEF CurrentOf
  <2>2. conn'[c] = conn[c]
    BY <1>3, <1>4, <2>1
  <2> QED
    BY <1>2, <1>4, <2>2, Zenon DEF Waits
<1>5. ASSUME NEW u \in Callers, pc[u] # "wait", mine[u] # NONE PROVE conn'[mine[u]] = conn[mine[u]]
  <2>1. mine[u] \in CallConns
    BY <1>0, <1>5 DEF Shape
  <2>2. \A v \in Callers : mine[v] = mine[u] => pc[v] # "wait"
    BY <1>0, <1>5 DEF Owners
  <2>3. mine[u] # cur
    <3>1. SUFFICES ASSUME mine[u] = cur PROVE FALSE
      OBVIOUS
    <3>2. CurrentOf(conn, pc, mine, cur, works) /\ cur \notin NotifConns
      BY <1>0, <2>1, <3>1, Sets DEF Current
    <3> QED
      BY <2>2, <3>1, <3>2, Zenon DEF CurrentOf
  <2>4. ~(F[1].type = "RPLY" /\ F[1].id = mine[u])
    <3>1. SUFFICES ASSUME F[1].type = "RPLY", F[1].id = mine[u] PROVE FALSE
      OBVIOUS
    <3>2. Waits(conn, pc, mine, F[1].id, F[1])
      BY <1>0, <1>1, <3>1 DEF Tokens, Waiting
    <3> QED
      BY <2>2, <3>1, <3>2, Zenon DEF Waits
  <2> QED
    BY <1>3, <2>1, <2>3, <2>4
<1>6. Senders'
  <2>1. ASSUME NEW u \in Callers, pc[u] \in {"idr", "lock", "send"} PROVE conn'[mine[u]] = conn[mine[u]]
    BY <1>0, <1>5, <2>1 DEF Owners
  <2>2. \A u \in Callers : pc[u] \in {"idr", "lock", "send"} => ~conn'[mine[u]].done
    BY <1>0, <2>1, Zenon DEF Senders
  <2> QED
    BY <1>0, <1>2, <2>1, <2>2 DEF Senders
<1>7. \A i, j \in 1..Len(W') : i <= j /\ W'[i].id = W'[j].id /\ j - i = W'[j].num =>
        Waits(conn', pc', mine', W'[j].id, W'[j])
  <2>1. SUFFICES ASSUME NEW i \in 1..Len(W), NEW j \in 1..Len(W), i <= j, W[i].id = W[j].id, j - i = W[j].num
                 PROVE  Waits(conn', pc', mine', W[j].id, W[j])
    BY <1>2, Zenon
  <2>2. Waits(conn, pc, mine, W[j].id, W[j]) /\ ~(F[1].type = "RPLY" /\ F[1].id = W[j].id)
    BY <1>0, <1>1, <2>1 DEF Tokens, Whole, Waiting
  <2> QED
    BY <1>4, <1>t, <2>2
<1>8. \A q \in rmPend : Waits(conn', pc', mine', q.id, q)
  <2>1. SUFFICES ASSUME NEW q \in rmPend PROVE Waits(conn', pc', mine', q.id, q)
    OBVIOUS
  <2>2. Waits(conn, pc, mine, q.id, q) /\ ~(F[1].type = "RPLY" /\ F[1].id = q.id)
    BY <1>0, <1>1 DEF Tokens, Waiting
  <2> QED
    BY <1>4, <1>t, <2>2
<1>9. \A i \in 1..Len(F') : F'[i].type = "RPLY" => F'[i].id \in CallConns /\ Waits(conn', pc', mine', F'[i].id, F'[i])
  <2>1. SUFFICES ASSUME NEW i \in 1..Len(F'), F'[i].type = "RPLY"
                 PROVE  F'[i].id \in CallConns /\ Waits(conn', pc', mine', F'[i].id, F'[i])
    OBVIOUS
  <2>2. i + 1 \in 1..Len(F) /\ 1 \in 1..Len(F) /\ F'[i] = F[i + 1] /\ i + 1 # 1
    BY <1>1
  <2>3. /\ F[i + 1].id \in CallConns /\ Waits(conn, pc, mine, F[i + 1].id, F[i + 1])
        /\ ~(F[1].type = "RPLY" /\ F[1].id = F[i + 1].id)
    BY <1>0, <2>1, <2>2 DEF Tokens, Waiting
  <2> QED
    BY <1>4, <2>2, <2>3
<1>10. /\ \A q \in rmPend : \A i \in 1..Len(F') : F'[i].type = "RPLY" => F'[i].id # q.id
       /\ \A i \in 1..Len(F'), j \in 1..Len(W) : F'[i].type = "RPLY" => F'[i].id # W[j].id
       /\ \A i, j \in 1..Len(F') : F'[i].type = "RPLY" /\ F'[j].type = "RPLY" /\ F'[i].id = F'[j].id => i = j
  <2>1. \A i \in 1..Len(F') : i + 1 \in 1..Len(F) /\ F'[i] = F[i + 1]
    BY <1>1
  <2>2. \A i, j \in 1..Len(F') : i + 1 = j + 1 => i = j
    BY <1>1
  <2>3. \A q \in rmPend : \A i \in 1..Len(F') : F'[i].type = "RPLY" => F'[i].id # q.id
    BY <1>0, <2>1 DEF Tokens
  <2>4. \A i \in 1..Len(F'), j \in 1..Len(W) : F'[i].type = "RPLY" => F'[i].id # W[j].id
    BY <1>0, <2>1 DEF Tokens
  <2>5. \A i, j \in 1..Len(F') : F'[i].type = "RPLY" /\ F'[j].type = "RPLY" /\ F'[i].id = F'[j].id => i = j
    <3>1. \A i, j \in 1..Len(F) : F[i].type = "RPLY" /\ F[j].type = "RPLY" /\ F[i].id = F[j].id => i = j
      BY <1>0 DEF Tokens
    <3> QED
      BY <2>1, <2>2, <3>1
  <2> QED
    BY <2>3, <2>4, <2>5
<1>11. Tokens'
  BY <1>0, <1>2, <1>7, <1>8, <1>9, <1>10 DEF Tokens, Whole, Waiting
<1> QED
  BY <1>6, <1>11

LEMMA RecvInv ==
  ASSUME Inv, Handled, fromRM # << >>, fromRM' = Tail(fromRM), UNCHANGED <<callVars, delivered, toRM, rmVars>>
  PROVE  Inv'
<1>0. Shape /\ Owners /\ Numbers /\ Requests /\ Replies /\ Notifs /\ Payloads /\ RepliesIntact /\ Tokens /\ Current
  BY DEF Inv
<1>1. /\ Len(F) \in Nat /\ Len(F) > 0 /\ Len(F') = Len(F) - 1 /\ \A i \in 1..Len(F') : F'[i] = F[i + 1]
      /\ F[1] \in Reply
  BY <1>0, RecvStreams DEF rmVars
<1>2. UNCHANGED <<idr, idrNext, sendLock, pc, mine, req, result, sendFails, rmAsm, rmPend, rmOut, notifs>> /\ W' = W
  BY DEF callVars, rmVars, W
<1>h. /\ conn' \in [Conns -> ConnRec] /\ cur' \in Conns \cup {NONE} /\ works' \subseteq NotifConns
      /\ \A x \in CallConns : conn'[x].st = conn[x].st /\ conn'[x].seq = conn[x].seq /\ conn'[x].msg = conn[x].msg
      /\ \A x \in CallConns : x # cur /\ ~(F[1].type = "RPLY" /\ F[1].id = x) => conn'[x] = conn[x]
      /\ \A x \in NotifConns : conn[x].st = "unused" =>
           conn'[x].st = "unused" \/ (F[1].type = "NOTIF" /\ x <= MaxCalls - F[1].id)
      /\ \A x \in CallConns : HasReply(conn', x)
      /\ \A x \in works' : HasNotif(conn', notifs, x)
      /\ cur' # NONE => /\ CurrentOf(conn', pc, mine, cur', works')
                        /\ Len(F) > 1 /\ F[2].type = "CONT" => Continued(conn', notifs, cur', F[2])
  BY Zenon DEF Handled
<1>3. Shape'
  BY <1>0, <1>2, <1>h DEF Shape
<1>4. Owners' /\ Numbers'
  BY <1>0, <1>h, KeptOwners DEF Kept
<1>5. Requests'
  <2>1. \A i \in 1..Len(W) : W[i].id \in CallConns
    BY <1>0, Streams
  <2> QED
    BY <1>0, <1>2, <1>h, <2>1 DEF Requests
<1>6. Senders' /\ Tokens'
  BY RecvTokens
<1>7. Replies'
  <2>1. \A i \in 1..Len(F') : i + 1 \in 1..Len(F) /\ F'[i] = F[i + 1]
    BY <1>1
  <2>2. /\ \A i \in 1..Len(F') : F'[i].piece[1] = F'[i].id /\ F'[i].piece[2] <= F'[i].num
        /\ \A i \in 1..Len(F') : F'[i].type # "CONT" => F'[i].piece[2] = 0
    BY <1>0, <2>1 DEF Replies
  <2>3. ASSUME NEW i \in 1..(Len(F') - 1), F'[i + 1].type = "CONT" PROVE Continues(F'[i], F'[i + 1])
    <3>1. i + 1 \in 1..(Len(F) - 1) /\ i \in 1..Len(F') /\ i + 1 \in 1..Len(F')
      BY <1>1
    <3>2. F'[i] = F[i + 1] /\ F'[i + 1] = F[(i + 1) + 1]
      BY <2>1, <3>1
    <3> QED
      BY <1>0, <2>3, <3>1, <3>2 DEF Replies
  <2>4. ASSUME F' # << >>, F'[1].type = "CONT", cur' # NONE PROVE Continued(conn', notifs', cur', F'[1])
    <3>1. Len(F') > 0 /\ Len(F') \in Nat
      <4>1. F' \in Seq(Reply)
        BY <1>3, StreamsNext
      <4> QED
        BY <2>4, <4>1
    <3>2. Len(F) > 1 /\ F'[1] = F[2]
      <4>1. 1 \in 1..Len(F') /\ 1 + 1 = 2
        BY <3>1
      <4>2. F'[1] = F[1 + 1]
        BY <2>1, <4>1
      <4> QED
        BY <1>1, <3>1, <4>1, <4>2
    <3> QED
      BY <1>2, <1>h, <2>4, <3>2
  <2> QED
    BY <2>2, <2>3, <2>4 DEF Replies
<1>8. Notifs'
  <2>1. \A i \in 1..Len(F') : i + 1 \in 1..Len(F) /\ F'[i] = F[i + 1] /\ 1 < i + 1
    BY <1>1
  <2>t. /\ \A i \in 1..Len(F) : F[i].id \in Int
        /\ NotifConns \subseteq Nat /\ MaxCalls \in Nat /\ 1 \in 1..Len(F) /\ notifs \in Nat
    <3>1. \A i \in 1..Len(F) : F[i] \in Reply
      BY <1>0, Streams
    <3>2. \A i \in 1..Len(F) : F[i].id \in Int
      BY <3>1 DEF Reply
    <3>3. notifs \in 0..MaxNotifs /\ NotifConns \subseteq Nat
      BY <1>0, Sets DEF Shape
    <3> QED
      BY <1>1, <3>2, <3>3, SizesAssumption, FaultsAssumption
  <2>2. ASSUME NEW c \in NotifConns, c > MaxCalls + notifs PROVE conn'[c].st = "unused"
    <3>1. conn[c].st = "unused"
      BY <1>0, <2>2 DEF Notifs
    <3>2. SUFFICES ASSUME F[1].type = "NOTIF", c <= MaxCalls - F[1].id PROVE FALSE
      BY <1>h, <3>1
    <3>3. 0 - F[1].id \in 1..notifs
      BY <1>0, <2>t, <3>2 DEF Notifs
    <3>4. c \in Nat /\ F[1].id \in Int
      BY <2>t
    <3> QED
      BY <2>2, <2>t, <3>2, <3>3, <3>4
  <2>3. ASSUME NEW i \in 1..Len(F'), F'[i].type = "NOTIF"
        PROVE  /\ 0 - F'[i].id \in 1..notifs
               /\ \A c \in NotifConns : c >= MaxCalls - F'[i].id => conn'[c].st = "unused"
    <3>1. F'[i] = F[i + 1] /\ i + 1 \in 1..Len(F) /\ 1 < i + 1 /\ F[i + 1].type = "NOTIF"
      BY <2>1, <2>3
    <3>2. /\ 0 - F[i + 1].id \in 1..notifs
          /\ \A c \in NotifConns : c >= MaxCalls - F[i + 1].id => conn[c].st = "unused"
          /\ F[1].type = "NOTIF" => F[i + 1].id < F[1].id
      BY <1>0, <2>t, <3>1 DEF Notifs
    <3>3. ASSUME NEW c \in NotifConns, c >= MaxCalls - F[i + 1].id PROVE conn'[c].st = "unused"
      <4>1. SUFFICES ASSUME F[1].type = "NOTIF", c <= MaxCalls - F[1].id PROVE FALSE
        BY <1>h, <3>2, <3>3
      <4>2. c \in Nat /\ F[1].id \in Int /\ F[i + 1].id \in Int /\ F[i + 1].id < F[1].id
        BY <2>t, <3>1, <3>2, <4>1
      <4> QED
        BY <2>t, <3>3, <4>1, <4>2
    <3> QED
      BY <3>1, <3>2, <3>3
  <2>4. \A i, j \in 1..Len(F') : i < j /\ F'[i].type = "NOTIF" /\ F'[j].type = "NOTIF" => F'[j].id < F'[i].id
    <3>1. \A i, j \in 1..Len(F') : i < j => i + 1 < j + 1
      BY <1>1
    <3> QED
      BY <1>0, <2>1, <3>1 DEF Notifs
  <2> QED
    BY <1>2, <2>2, <2>3, <2>4 DEF Notifs
<1>9. Current'
  BY <1>2, <1>h DEF Current
<1>10. Payloads'
  <2>1. ASSUME NEW u \in Callers, pc[u] = "reap" PROVE conn'[mine[u]].done
    <3>1. mine[u] \in CallConns /\ \A v \in Callers : mine[v] = mine[u] => pc[v] # "wait"
      BY <1>0, <2>1 DEF Owners, Shape
    <3>2. mine[u] # cur
      <4>1. SUFFICES ASSUME mine[u] = cur PROVE FALSE
        OBVIOUS
      <4>2. CurrentOf(conn, pc, mine, cur, works) /\ cur \notin NotifConns
        BY <1>0, <3>1, <4>1, Sets DEF Current
      <4> QED
        BY <3>1, <4>1, <4>2, Zenon DEF CurrentOf
    <3>3. ~(F[1].type = "RPLY" /\ F[1].id = mine[u])
      <4>1. SUFFICES ASSUME F[1].type = "RPLY", F[1].id = mine[u] PROVE FALSE
        OBVIOUS
      <4>2. Waits(conn, pc, mine, F[1].id, F[1])
        BY <1>0, <1>1, <4>1 DEF Tokens, Waiting
      <4> QED
        BY <3>1, <4>1, <4>2, Zenon DEF Waits
    <3>4. conn'[mine[u]] = conn[mine[u]]
      BY <1>h, <3>1, <3>2, <3>3
    <3> QED
      BY <1>0, <2>1, <3>4, Zenon DEF Payloads
  <2> QED
    BY <1>2, <1>h, <2>1, Zenon DEF Payloads
<1>11. RepliesIntact'
  BY <1>0, <1>2 DEF RepliesIntact
<1>12. NoUseAfterFree'
  BY Zenon DEF NoUseAfterFree, Handled
<1> QED
  BY <1>3, <1>4, <1>5, <1>6, <1>7, <1>8, <1>9, <1>10, <1>11, <1>12 DEF Inv

-----------------------------------------------------------------------------
(* The notification works                                                  *)

LEMMA NotifWorkInv == ASSUME Inv, NEW c \in Conns, NotifWork(c) PROVE Inv'
<1>0. /\ Shape /\ Owners /\ Numbers /\ Requests /\ Senders /\ Tokens /\ Replies /\ Notifs /\ Payloads /\ RepliesIntact
      /\ Current
  BY DEF Inv
<1>1. /\ c \in works /\ works' = works \ {c} /\ conn' = [conn EXCEPT ![c] = Released]
      /\ UNCHANGED <<callVars, recvVars, toRM, fromRM, rmVars>>
  BY DEF NotifWork
<1>2. c \in NotifConns /\ HasNotif(conn, notifs, c) /\ conn[c].st = "live"
  BY <1>0, <1>1 DEF Shape, Payloads, HasNotif
<1>3. conn' \in [Conns -> ConnRec] /\ \A x \in Conns : x # c => conn'[x] = conn[x]
  BY <1>0, <1>1, Records, ConnPut
<1>4. \A x \in CallConns : conn'[x] = conn[x]
  BY <1>2, <1>3, Sets
<1>5. /\ UNCHANGED <<idr, idrNext, sendLock, pc, mine, req, result, sendFails, cur, rmAsm, rmPend, rmOut, notifs>>
      /\ W' = W /\ F' = F
  BY <1>1 DEF callVars, recvVars, rmVars, W, F
<1>6. cur # NONE => cur # c /\ conn'[cur] = conn[cur]
  <2>1. SUFFICES ASSUME cur # NONE PROVE cur # c /\ conn'[cur] = conn[cur]
    OBVIOUS
  <2>2. cur \in Conns /\ cur # c
    BY <1>0, <1>1, <1>2, <2>1, Sets DEF Current, CurrentOf, Shape
  <2> QED
    BY <1>3, <2>2
<1>7. Shape'
  BY <1>0, <1>1, <1>3, <1>5 DEF Shape
<1>8. Owners' /\ Numbers'
  BY <1>0, <1>1, <1>4, KeptOwners DEF Kept
<1>9. Requests'
  <2>1. \A i \in 1..Len(W) : W[i].id \in CallConns
    BY <1>0, Streams
  <2> QED
    BY <1>0, <1>4, <1>5, <2>1 DEF Requests
<1>10. Senders'
  <2>1. ASSUME NEW u \in Callers, pc[u] \in {"idr", "lock", "send"} PROVE conn'[mine[u]] = conn[mine[u]]
    BY <1>0, <1>4, <2>1 DEF Owners, Shape
  <2>2. \A u \in Callers : pc[u] \in {"idr", "lock", "send"} => ~conn'[mine[u]].done
    BY <1>0, <2>1, Zenon DEF Senders
  <2> QED
    BY <1>0, <1>5, <2>1, <2>2 DEF Senders
<1>11. Tokens'
  <2>1. ASSUME NEW x \in CallConns, NEW p, Waits(conn, pc, mine, x, p) PROVE Waits(conn', pc', mine', x, p)
    BY <1>4, <1>5, <2>1, Zenon DEF Waits
  <2>2. /\ \A i \in 1..Len(W) : W[i].id \in CallConns
        /\ \A q \in rmPend : q.id \in CallConns
    BY <1>0, Streams DEF Shape, Request
  <2> QED
    BY <1>0, <1>5, <2>1, <2>2 DEF Tokens, Whole, Waiting
<1>12. Replies'
  <2>1. F # << >> /\ F[1].type = "CONT" /\ cur # NONE => Continued(conn', notifs, cur, F[1])
    BY <1>0, <1>6 DEF Replies, Continued
  <2> QED
    BY <1>0, <1>5, <2>1 DEF Replies
<1>13. Notifs'
  <2>1. \A x \in NotifConns : conn[x].st = "unused" => conn'[x].st = "unused"
    BY <1>2, <1>3, Sets
  <2> QED
    BY <1>0, <1>5, <2>1 DEF Notifs
<1>14. Current'
  <2>1. cur # NONE => CurrentOf(conn', pc, mine, cur, works')
    BY <1>0, <1>1, <1>6, Zenon DEF Current, CurrentOf
  <2> QED
    BY <1>5, <2>1 DEF Current
<1>15. Payloads'
  <2>1. \A x \in CallConns : HasReply(conn', x)
    BY <1>0, <1>4, Zenon DEF Payloads, HasReply
  <2>2. \A x \in works' : HasNotif(conn', notifs, x)
    <3>1. SUFFICES ASSUME NEW x \in works, x # c PROVE HasNotif(conn', notifs, x)
      BY <1>1
    <3>2. conn'[x] = conn[x]
      BY <1>0, <1>3, <3>1, Sets DEF Shape
    <3> QED
      BY <1>0, <3>2, Zenon DEF Payloads, HasNotif
  <2>3. \A u \in Callers : pc[u] = "reap" => conn'[mine[u]].done
    <3>1. \A u \in Callers : pc[u] = "reap" => mine[u] \in CallConns
      BY <1>0 DEF Owners, Shape
    <3> QED
      BY <1>0, <1>4, <3>1, Zenon DEF Payloads
  <2> QED
    BY <1>5, <2>1, <2>2, <2>3, Zenon DEF Payloads
<1>16. RepliesIntact'
  <2>1. PICK k \in 1..notifs : conn[c].data = Series(0 - k, conn[c].num)
    BY <1>2, Zenon DEF HasNotif
  <2>2. delivered' \subseteq delivered \cup {[num |-> conn[c].num, data |-> conn[c].data]}
    BY DEF NotifWork
  <2>3. \A d \in delivered' : \E j \in 1..notifs : d.data = Series(0 - j, d.num)
    <3>1. SUFFICES ASSUME NEW d \in delivered' PROVE \E j \in 1..notifs : d.data = Series(0 - j, d.num)
      OBVIOUS
    <3>2. CASE d \in delivered
      BY <1>0, <3>2 DEF RepliesIntact
    <3>3. CASE d = [num |-> conn[c].num, data |-> conn[c].data]
      <4>1. d.data = conn[c].data /\ d.num = conn[c].num
        BY <3>3
      <4> QED
        BY <2>1, <4>1
    <3> QED
      BY <2>2, <3>2, <3>3
  <2> QED
    BY <1>0, <1>5, <2>3 DEF RepliesIntact
<1>17. NoUseAfterFree'
  <2>1. uaf' = uaf
    BY <1>1 DEF recvVars
  <2> QED
    BY <2>1, Zenon DEF Inv, NoUseAfterFree
<1> QED
  BY <1>7, <1>8, <1>9, <1>10, <1>11, <1>12, <1>13, <1>14, <1>15, <1>16, <1>17 DEF Inv

-----------------------------------------------------------------------------
(* The Resource Manager's answers                                          *)

LEMMA ReplySide ==
  ASSUME Inv, Shape', UNCHANGED <<conn, callVars, recvVars, workVars, toRM, rmAsm>>,
         rmPend' \subseteq rmPend, notifs <= notifs', Replies', Notifs',
         \A i \in 1..Len(F') : F'[i].type = "RPLY" =>
           /\ F'[i].id \in CallConns /\ Waits(conn, pc, mine, F'[i].id, F'[i])
           /\ \A q \in rmPend' : F'[i].id # q.id
           /\ \A j \in 1..Len(W) : F'[i].id # W[j].id,
         \A i, j \in 1..Len(F') : F'[i].type = "RPLY" /\ F'[j].type = "RPLY" /\ F'[i].id = F'[j].id => i = j
  PROVE  Inv'
<1>0. /\ Shape /\ Owners /\ Numbers /\ Requests /\ Senders /\ Tokens /\ Payloads /\ RepliesIntact /\ Current
  BY DEF Inv
<1>1. /\ UNCHANGED <<conn, idr, idrNext, sendLock, pc, mine, req, result, sendFails, cur, works, delivered, rmAsm>>
      /\ W' = W
  BY DEF callVars, recvVars, workVars, W
<1>2. Owners' /\ Numbers'
  BY <1>0, KeptOwners DEF Kept
<1>3. Requests'
  BY <1>0, <1>1 DEF Requests
<1>4. Senders'
  <2>1. \A u \in Callers : pc[u] \in {"idr", "lock", "send"} => ~conn'[mine[u]].done
    BY <1>0, <1>1, Zenon DEF Senders
  <2> QED
    BY <1>0, <1>1, <2>1 DEF Senders
<1>5. Tokens'
  <2>1. \A i \in 1..Len(F') : F'[i].type = "RPLY" =>
           /\ F'[i].id \in CallConns /\ Waits(conn', pc', mine', F'[i].id, F'[i])
           /\ \A q \in rmPend' : F'[i].id # q.id
           /\ \A j \in 1..Len(W) : F'[i].id # W[j].id
    BY <1>1
  <2>2. /\ \A i, j \in 1..Len(W) : i <= j /\ Whole(i, j) => Waits(conn', pc', mine', W[j].id, W[j])
        /\ \A q \in rmPend' : Waits(conn', pc', mine', q.id, q)
    BY <1>0, <1>1 DEF Tokens, Waiting
  <2>3. /\ \A q \in rmPend' : \A i \in 1..Len(W) : W[i].id # q.id
        /\ \A q, r \in rmPend' : q.id = r.id => q = r
    BY <1>0 DEF Tokens
  <2> QED
    BY <1>1, <2>1, <2>2, <2>3 DEF Tokens, Whole, Waiting
<1>6. Current'
  BY <1>0, <1>1 DEF Current
<1>m. 1..notifs \subseteq 1..notifs'
  <2>1. notifs \in Nat /\ notifs' \in Nat
    BY <1>0 DEF Shape
  <2> QED
    BY <2>1
<1>7. Payloads'
  <2>1. \A x \in works : HasNotif(conn, notifs', x)
    BY <1>0, <1>m, Zenon DEF Payloads, HasNotif
  <2> QED
    BY <1>0, <1>1, <2>1, Zenon DEF Payloads
<1>8. RepliesIntact'
  BY <1>0, <1>1, <1>m DEF RepliesIntact
<1>9. NoUseAfterFree'
  <2>1. uaf' = uaf
    BY DEF recvVars
  <2> QED
    BY <2>1, Zenon DEF Inv, NoUseAfterFree
<1> QED
  BY <1>2, <1>3, <1>4, <1>5, <1>6, <1>7, <1>8, <1>9 DEF Inv

\* A packet stays where it is among those under way when it is sent.
LEMMA RmSendStream == ASSUME Shape, RmSend PROVE F' = F
<1>1. fromRM \in Seq(Reply) /\ rmOut \in Seq(Reply) /\ rmOut # << >>
  BY DEF Shape, RmSend
<1>2. /\ rmOut[1] \in Reply /\ fromRM' = Append(fromRM, rmOut[1]) /\ rmOut' = Tail(rmOut)
  BY <1>1 DEF RmSend
<1>3. F' = Append(fromRM, rmOut[1]) \o Tail(rmOut) /\ F = fromRM \o rmOut
  BY <1>2 DEF F
<1>4. /\ Len(fromRM) \in Nat /\ Len(rmOut) \in Nat /\ Len(rmOut) > 0
      /\ Append(fromRM, rmOut[1]) \in Seq(Reply) /\ Len(Append(fromRM, rmOut[1])) = Len(fromRM) + 1
      /\ Tail(rmOut) \in Seq(Reply) /\ Len(Tail(rmOut)) = Len(rmOut) - 1
  BY <1>1, <1>2
<1>5. F' \in Seq(Reply) /\ F \in Seq(Reply)
  BY <1>1, <1>3, <1>4
<1>6. Len(F') = Len(F) /\ Len(F) = Len(fromRM) + Len(rmOut)
  BY <1>1, <1>3, <1>4
<1>7. ASSUME NEW i \in 1..Len(F) PROVE F'[i] = F[i]
  <2>1. CASE i <= Len(fromRM)
    BY <1>1, <1>2, <1>3, <1>4, <1>6, <2>1
  <2>2. CASE i = Len(fromRM) + 1
    BY <1>1, <1>2, <1>3, <1>4, <1>6, <2>2
  <2>3. CASE i > Len(fromRM) + 1
    <3>1. F'[i] = Tail(rmOut)[i - (Len(fromRM) + 1)] /\ F[i] = rmOut[i - Len(fromRM)]
      BY <1>1, <1>3, <1>4, <1>6, <2>3
    <3>2. i - (Len(fromRM) + 1) \in 1..Len(Tail(rmOut))
      BY <1>4, <1>6, <2>3
    <3>3. Tail(rmOut)[i - (Len(fromRM) + 1)] = rmOut[i - (Len(fromRM) + 1) + 1]
      BY <1>1, <1>4, <3>2
    <3>4. i - (Len(fromRM) + 1) + 1 = i - Len(fromRM)
      BY <1>4
    <3> QED
      BY <3>1, <3>3, <3>4
  <2> QED
    BY <1>4, <2>1, <2>2, <2>3
<1> QED
  BY <1>5, <1>6, <1>7, SeqEqual

LEMMA RmSendInv == ASSUME Inv, RmSend PROVE Inv'
<1>0. Shape /\ Tokens /\ Replies /\ Notifs
  BY DEF Inv
<1>1. fromRM \in Seq(Reply) /\ rmOut \in Seq(Reply) /\ rmOut # << >>
  BY <1>0 DEF Shape, RmSend
<1>2. /\ rmOut[1] \in Reply /\ fromRM' = Append(fromRM, rmOut[1]) /\ rmOut' = Tail(rmOut)
      /\ fromRM' \in Seq(Reply) /\ rmOut' \in Seq(Reply)
  BY <1>1 DEF RmSend
<1>3. /\ UNCHANGED <<conn, callVars, recvVars, workVars, toRM, rmAsm>>
      /\ UNCHANGED <<rmPend, notifs, idr, idrNext, pc, mine, req, result, sendFails, cur, works>>
  BY DEF RmSend, callVars, recvVars, workVars
<1>4. Shape'
  BY <1>0, <1>2, <1>3 DEF Shape
<1>5. F' = F
  BY <1>0, RmSendStream
<1>6. Replies' /\ Notifs'
  BY <1>0, <1>3, <1>5 DEF Replies, Notifs
<1>7. notifs <= notifs' /\ rmPend' \subseteq rmPend
  BY <1>0, <1>3, FaultsAssumption DEF Shape
<1>8. /\ \A i \in 1..Len(F') : F'[i].type = "RPLY" =>
           /\ F'[i].id \in CallConns /\ Waits(conn, pc, mine, F'[i].id, F'[i])
           /\ \A q \in rmPend' : F'[i].id # q.id
           /\ \A j \in 1..Len(W) : F'[i].id # W[j].id
      /\ \A i, j \in 1..Len(F') : F'[i].type = "RPLY" /\ F'[j].type = "RPLY" /\ F'[i].id = F'[j].id => i = j
  BY <1>0, <1>3, <1>5 DEF Tokens, Waiting
<1> QED
  BY <1>3, <1>4, <1>6, <1>7, <1>8, ReplySide

LEMMA RmCutInv == ASSUME Inv, RmCut PROVE Inv'
<1>0. Shape /\ Tokens /\ Replies /\ Notifs
  BY DEF Inv
<1>1. /\ UNCHANGED <<conn, callVars, recvVars, workVars, toRM, rmAsm>> /\ rmOut' = << >> /\ fromRM' = fromRM
      /\ UNCHANGED <<rmPend, notifs, idr, idrNext, pc, mine, req, result, sendFails, cur, works>>
  BY DEF RmCut, callVars, recvVars, workVars
<1>2. Shape'
  BY <1>0, <1>1, EmptyIsSeq DEF Shape
<1>3. /\ Len(F) \in Nat /\ Len(F') \in Nat /\ Len(F') <= Len(F) /\ F \in Seq(Reply) /\ F' \in Seq(Reply)
      /\ \A i \in 1..Len(F') : F'[i] = F[i]
  <2>1. fromRM \in Seq(Reply) /\ rmOut \in Seq(Reply) /\ F = fromRM \o rmOut /\ F' = fromRM
    <3>1. fromRM \in Seq(Reply) /\ rmOut \in Seq(Reply)
      BY <1>0 DEF Shape
    <3>2. fromRM \o << >> = fromRM
      BY <3>1
    <3> QED
      BY <1>1, <3>1, <3>2 DEF F
  <2> QED
    BY <2>1
<1>4. \A i \in 1..Len(F') : i \in 1..Len(F) /\ F'[i] = F[i]
  BY <1>3
<1>5. Replies'
  <2>1. /\ \A i \in 1..Len(F') : F'[i].piece[1] = F'[i].id /\ F'[i].piece[2] <= F'[i].num
        /\ \A i \in 1..Len(F') : F'[i].type # "CONT" => F'[i].piece[2] = 0
    BY <1>0, <1>4 DEF Replies
  <2>2. ASSUME NEW i \in 1..(Len(F') - 1), F'[i + 1].type = "CONT" PROVE Continues(F'[i], F'[i + 1])
    <3>1. i \in 1..(Len(F) - 1) /\ i \in 1..Len(F') /\ i + 1 \in 1..Len(F')
      BY <1>3
    <3> QED
      BY <1>0, <1>4, <2>2, <3>1 DEF Replies
  <2>3. ASSUME F' # << >>, F'[1].type = "CONT", cur # NONE PROVE Continued(conn, notifs, cur, F'[1])
    <3>1. Len(F') > 0
      BY <1>3, <2>3
    <3>2. F # << >> /\ F'[1] = F[1]
      BY <1>3, <1>4, <3>1
    <3> QED
      BY <1>0, <2>3, <3>2 DEF Replies
  <2> QED
    BY <1>1, <2>1, <2>2, <2>3 DEF Replies
<1>6. Notifs'
  BY <1>0, <1>1, <1>4 DEF Notifs
<1>7. notifs <= notifs' /\ rmPend' \subseteq rmPend
  BY <1>0, <1>1, FaultsAssumption DEF Shape
<1>8. /\ \A i \in 1..Len(F') : F'[i].type = "RPLY" =>
           /\ F'[i].id \in CallConns /\ Waits(conn, pc, mine, F'[i].id, F'[i])
           /\ \A q \in rmPend' : F'[i].id # q.id
           /\ \A j \in 1..Len(W) : F'[i].id # W[j].id
      /\ \A i, j \in 1..Len(F') : F'[i].type = "RPLY" /\ F'[j].type = "RPLY" /\ F'[i].id = F'[j].id => i = j
  <2>1. /\ \A i \in 1..Len(F) : F[i].type = "RPLY" =>
             /\ F[i].id \in CallConns /\ Waits(conn, pc, mine, F[i].id, F[i])
             /\ \A q \in rmPend : F[i].id # q.id
             /\ \A j \in 1..Len(W) : F[i].id # W[j].id
        /\ \A i, j \in 1..Len(F) : F[i].type = "RPLY" /\ F[j].type = "RPLY" /\ F[i].id = F[j].id => i = j
    BY <1>0 DEF Tokens, Waiting
  <2> QED
    BY <1>1, <1>4, <2>1
<1> QED
  BY <1>1, <1>2, <1>5, <1>6, <1>7, <1>8, ReplySide

\* P is a whole series, as the Resource Manager sends it.
SeriesOf(P, type, id, seq, msg, n) ==
  /\ P \in Seq(Reply) /\ Len(P) = n + 1
  /\ \A i \in 1..(n + 1) : /\ P[i].type = (IF i = 1 THEN type ELSE "CONT") /\ P[i].id = id /\ P[i].seq = seq
                           /\ P[i].msg = msg /\ P[i].num = n /\ P[i].piece = <<id, i - 1>>

LEMMA PacketsOf ==
  ASSUME NEW type \in {"RPLY", "NOTIF"}, NEW id \in Int, NEW seq \in Seqs, NEW msg \in Ids, NEW n \in 0..MaxFrags,
         NEW err \in BOOLEAN
  PROVE  SeriesOf(Packets(type, id, seq, msg, n, err), type, id, seq, msg, n)
<1> DEFINE P == Packets(type, id, seq, msg, n, err)
<1>0. n \in Nat
  BY SizesAssumption
<1>1. ASSUME NEW i \in 1..(n + 1)
      PROVE  /\ P[i] \in Reply /\ P[i].type = (IF i = 1 THEN type ELSE "CONT") /\ P[i].id = id /\ P[i].seq = seq
             /\ P[i].msg = msg /\ P[i].num = n /\ P[i].piece = <<id, i - 1>>
  <2>1. P[i] = [type |-> IF i = 1 THEN type ELSE "CONT", id |-> id, seq |-> seq,
                msg |-> msg, num |-> n, err |-> err, piece |-> <<id, i - 1>>]
    BY DEF Packets
  <2>2. i - 1 \in Nat /\ <<id, i - 1>> \in Pieces /\ (IF i = 1 THEN type ELSE "CONT") \in {"RPLY", "NOTIF", "CONT"}
    BY <1>0 DEF Pieces
  <2> HIDE DEF P
  <2> QED
    BY <2>1, <2>2 DEF Reply
<1>2. P = [i \in 1..(n + 1) |-> P[i]]
  BY DEF Packets
<1>3. P \in Seq(Reply) /\ Len(P) = n + 1
  <2>1. n + 1 \in Nat
    BY <1>0
  <2>2. P \in [1..(n + 1) -> Reply]
    <3> HIDE DEF P
    <3> QED
      BY <1>1, <1>2
  <2> HIDE DEF P
  <2> QED
    BY <2>1, <2>2
<1> HIDE DEF P
<1>4. SeriesOf(P, type, id, seq, msg, n)
  BY <1>1, <1>3 DEF SeriesOf
<1> QED
  BY <1>4 DEF P

\* The Resource Manager starts to send the series P: the streams and the order of
\* their packets.
LEMMA SeriesSent ==
  ASSUME Inv, Shape', NEW type \in {"RPLY", "NOTIF"}, NEW id \in Int, NEW seq \in Seqs, NEW msg \in Ids,
         NEW n \in 0..MaxFrags, NEW P, SeriesOf(P, type, id, seq, msg, n), rmOut = << >>, rmOut' = P,
         fromRM' = fromRM, conn' = conn, cur' = cur, notifs <= notifs'
  PROVE  /\ Len(F) \in Nat /\ Len(F') = Len(F) + n + 1
         /\ \A i \in 1..Len(F) : F'[i] = F[i]
         /\ F'[Len(F) + 1].type = type /\ F'[Len(F) + 1].id = id
         /\ F'[Len(F) + 1].seq = seq /\ F'[Len(F) + 1].msg = msg
         /\ \A i \in (Len(F) + 2)..Len(F') : F'[i].type = "CONT"
         /\ Replies'
<1> DEFINE l == Len(F)
<1>0. Shape /\ Replies
  BY DEF Inv
<1>n. n \in Nat /\ notifs \in Nat /\ notifs' \in Nat
  BY <1>0, SizesAssumption, FaultsAssumption DEF Shape
<1>1. /\ P \in Seq(Reply) /\ Len(P) = n + 1
      /\ \A i \in 1..(n + 1) : /\ P[i].type = (IF i = 1 THEN type ELSE "CONT") /\ P[i].id = id /\ P[i].seq = seq
                               /\ P[i].msg = msg /\ P[i].num = n /\ P[i].piece = <<id, i - 1>>
  BY DEF SeriesOf
<1>3. F \in Seq(Reply) /\ F = fromRM /\ F' = F \o P
  <2>1. fromRM \in Seq(Reply) /\ fromRM \o << >> = fromRM
    BY <1>0 DEF Shape
  <2> QED
    BY <2>1 DEF F
<1>4. l \in Nat /\ Len(F') = l + n + 1 /\ (\A i \in 1..l : F'[i] = F[i]) /\ \A i \in 1..(n + 1) : F'[l + i] = P[i]
  <2>0. P \in Seq(Reply) /\ Len(P) = n + 1
    BY <1>1
  <2>1. l \in Nat /\ Len(F') = l + (n + 1)
    <3>0. F \in Seq(Reply) /\ P \in Seq(Reply)
      BY <1>3, <2>0
    <3>1. Len(F \o P) = Len(F) + Len(P) /\ Len(F) \in Nat
      BY <3>0
    <3> QED
      BY <1>3, <2>0, <3>1
  <2>2. \A i \in 1..l : F'[i] = F[i]
    BY <1>3, <1>n, <2>0, <2>1
  <2>3. ASSUME NEW i \in 1..(n + 1) PROVE F'[l + i] = P[i]
    <3>1. l + i \in 1..(l + (n + 1)) /\ l + i > l /\ (l + i) - l = i
      BY <1>n, <2>1
    <3> QED
      BY <1>3, <2>0, <2>1, <3>1
  <2> QED
    BY <1>n, <2>1, <2>2, <2>3
<1> HIDE DEF l
<1>5. ASSUME NEW i \in 1..Len(F'), i > l
      PROVE  /\ i - l \in 1..(n + 1) /\ F'[i].type = (IF i = l + 1 THEN type ELSE "CONT") /\ F'[i].id = id
             /\ F'[i].seq = seq /\ F'[i].msg = msg /\ F'[i].num = n /\ F'[i].piece = <<id, i - l - 1>>
  <2>1. i - l \in 1..(n + 1) /\ l + (i - l) = i /\ (i - l = 1 <=> i = l + 1)
    BY <1>4, <1>5, <1>n
  <2>2. F'[i] = P[i - l]
    BY <1>4, <2>1
  <2> QED
    BY <1>1, <2>1, <2>2
<1>6. /\ F'[l + 1].type = type /\ F'[l + 1].id = id /\ F'[l + 1].seq = seq /\ F'[l + 1].msg = msg
  <2>1. l + 1 \in 1..Len(F') /\ l + 1 > l
    BY <1>4, <1>n
  <2> QED
    BY <1>5, <2>1
<1>7. \A i \in (l + 2)..Len(F') : F'[i].type = "CONT"
  <2>1. SUFFICES ASSUME NEW i \in (l + 2)..Len(F') PROVE F'[i].type = "CONT"
    OBVIOUS
  <2>2. i \in 1..Len(F') /\ i > l /\ i # l + 1
    BY <1>4, <1>n
  <2> QED
    BY <1>5, <2>2
<1>8. Replies'
  <2>1. ASSUME NEW i \in 1..Len(F')
        PROVE  /\ F'[i].piece[1] = F'[i].id /\ F'[i].piece[2] <= F'[i].num
               /\ F'[i].type # "CONT" => F'[i].piece[2] = 0
    <3>1. CASE i <= l
      <4>1. i \in 1..Len(F) /\ F'[i] = F[i]
        BY <1>4, <3>1 DEF l
      <4>2. \A k \in 1..Len(F) : /\ F[k].piece[1] = F[k].id /\ F[k].piece[2] <= F[k].num
                                 /\ F[k].type # "CONT" => F[k].piece[2] = 0
        BY <1>0 DEF Replies
      <4> QED
        BY <4>1, <4>2
    <3>2. CASE i > l
      <4>1. /\ i - l \in 1..(n + 1) /\ F'[i].type = (IF i = l + 1 THEN type ELSE "CONT") /\ F'[i].id = id
            /\ F'[i].num = n /\ F'[i].piece = <<id, i - l - 1>>
        BY <1>5, <3>2
      <4>2. i - l - 1 <= n /\ (i = l + 1 => i - l - 1 = 0)
        BY <1>4, <1>n, <4>1
      <4> QED
        BY <4>1, <4>2
    <3> QED
      BY <1>4, <3>1, <3>2
  <2>2. ASSUME NEW i \in 1..(Len(F') - 1), F'[i + 1].type = "CONT" PROVE Continues(F'[i], F'[i + 1])
    <3>1. CASE i < l
      <4>1. i \in 1..(Len(F) - 1) /\ i \in 1..l /\ i + 1 \in 1..l
        BY <1>4, <3>1 DEF l
      <4> QED
        BY <1>0, <1>4, <2>2, <4>1 DEF Replies
    <3>2. CASE i = l
      BY <1>6, <2>2, <3>2
    <3>3. CASE i > l
      <4>1. i \in 1..Len(F') /\ i + 1 \in 1..Len(F') /\ i + 1 > l
        BY <1>4, <1>n, <3>3
      <4>2. F'[i].id = id /\ F'[i].num = n /\ F'[i].piece = <<id, i - l - 1>>
        BY <1>5, <3>3, <4>1
      <4>3. PICK j \in 1..Len(F') : j = i + 1 /\ F'[j].id = id /\ F'[j].num = n /\ F'[j].piece = <<id, j - l - 1>>
        <5>1. \A j \in 1..Len(F') : j > l => F'[j].id = id /\ F'[j].num = n /\ F'[j].piece = <<id, j - l - 1>>
          BY <1>5
        <5> QED
          BY <4>1, <5>1
      <4>4. j - l - 1 = (i - l - 1) + 1 /\ F'[j] = F'[i + 1]
        BY <1>4, <4>3
      <4> QED
        BY <4>2, <4>3, <4>4 DEF Continues
    <3> QED
      BY <1>4, <3>1, <3>2, <3>3
  <2>3. ASSUME F' # << >>, F'[1].type = "CONT", cur # NONE PROVE Continued(conn, notifs', cur, F'[1])
    <3>1. l # 0
      BY <1>6, <2>3
    <3>2. F'[1] = F[1] /\ F # << >>
      BY <1>3, <1>4, <3>1 DEF l
    <3>3. Continued(conn, notifs, cur, F[1])
      BY <1>0, <2>3, <3>2 DEF Replies
    <3> QED
      BY <1>n, <3>2, <3>3 DEF Continued, From
  <2> QED
    BY <2>1, <2>2, <2>3 DEF Replies
<1> QED
  BY <1>4, <1>6, <1>7, <1>8 DEF l

LEMMA RmReplyInv == ASSUME Inv, RmReply PROVE Inv'
<1>0. Shape /\ Tokens /\ Replies /\ Notifs
  BY DEF Inv
<1>1. PICK q \in rmPend, n \in 0..MaxFrags, err \in BOOLEAN :
        rmOut' = Packets("RPLY", q.id, q.seq, q.msg, n, err) /\ rmPend' = rmPend \ {q}
  BY Zenon DEF RmReply
<1>2. /\ UNCHANGED <<conn, callVars, recvVars, workVars, toRM, rmAsm>> /\ rmOut = << >> /\ fromRM' = fromRM
      /\ UNCHANGED <<notifs, idr, idrNext, pc, mine, req, result, sendFails, cur, works>>
  BY DEF RmReply, callVars, recvVars, workVars
<1>3. q.id \in CallConns /\ q.id \in Int /\ q.seq \in Seqs /\ q.msg \in Ids
  <2>1. q \in Request
    BY <1>0 DEF Shape
  <2>2. q.id \in CallConns /\ q.seq \in Seqs /\ q.msg \in Ids
    BY <2>1 DEF Request
  <2>3. q.id \in Nat
    BY <2>2, Sets
  <2>4. q.id \in Int
    BY <2>3
  <2> QED
    BY <2>2, <2>4
<1>4. PICK P : rmOut' = P /\ SeriesOf(P, "RPLY", q.id, q.seq, q.msg, n)
  <2>1. SeriesOf(Packets("RPLY", q.id, q.seq, q.msg, n, err), "RPLY", q.id, q.seq, q.msg, n)
    BY <1>3, PacketsOf, Zenon
  <2> QED
    BY <1>1, <2>1, Zenon
<1>5. Shape'
  <2>1. rmOut' \in Seq(Reply) /\ rmPend' \subseteq rmPend
    BY <1>1, <1>4 DEF SeriesOf
  <2> QED
    BY <1>0, <1>2, <2>1 DEF Shape
<1>n. n \in Nat /\ notifs \in Nat /\ notifs <= notifs'
  BY <1>0, <1>2, SizesAssumption, FaultsAssumption DEF Shape
<1>6. /\ Len(F) \in Nat /\ Len(F') = Len(F) + n + 1 /\ \A i \in 1..Len(F) : F'[i] = F[i]
      /\ F'[Len(F) + 1].type = "RPLY" /\ F'[Len(F) + 1].id = q.id
      /\ F'[Len(F) + 1].seq = q.seq /\ F'[Len(F) + 1].msg = q.msg
      /\ \A i \in (Len(F) + 2)..Len(F') : F'[i].type = "CONT"
      /\ Replies'
  BY <1>2, <1>3, <1>4, <1>5, <1>n, SeriesSent
<1>7. \A i \in 1..Len(F') : F'[i].type # "CONT" => i = Len(F) + 1 \/ (i \in 1..Len(F) /\ F'[i] = F[i])
  <2>1. SUFFICES ASSUME NEW i \in 1..Len(F'), F'[i].type # "CONT"
                 PROVE  i = Len(F) + 1 \/ i \in 1..Len(F)
    BY <1>6
  <2>2. ~(i \in (Len(F) + 2)..Len(F'))
    BY <1>6, <2>1
  <2> QED
    BY <1>6, <1>n, <2>2
<1>8. Notifs'
  <2>1. \A i \in 1..Len(F') : F'[i].type = "NOTIF" => i \in 1..Len(F) /\ F'[i] = F[i]
    BY <1>6, <1>7
  <2> QED
    BY <1>0, <1>2, <2>1 DEF Notifs
<1>9. ASSUME NEW i \in 1..Len(F'), F'[i].type = "RPLY"
      PROVE  /\ F'[i].id \in CallConns /\ Waits(conn, pc, mine, F'[i].id, F'[i])
             /\ \A r \in rmPend' : F'[i].id # r.id
             /\ \A j \in 1..Len(W) : F'[i].id # W[j].id
  <2>1. CASE i \in 1..Len(F) /\ F'[i] = F[i]
    BY <1>0, <1>1, <1>9, <2>1 DEF Tokens, Waiting
  <2>2. CASE i = Len(F) + 1
    <3>1. Waits(conn, pc, mine, q.id, q)
      BY <1>0 DEF Tokens, Waiting
    <3>2. Waits(conn, pc, mine, q.id, F'[i])
      BY <1>6, <2>2, <3>1, Zenon DEF Waits
    <3> QED
      BY <1>0, <1>1, <1>3, <1>6, <2>2, <3>2 DEF Tokens
  <2> QED
    BY <1>7, <1>9, <2>1, <2>2
<1>10. \A i, j \in 1..Len(F') : F'[i].type = "RPLY" /\ F'[j].type = "RPLY" /\ F'[i].id = F'[j].id => i = j
  <2>1. \A i \in 1..Len(F') : F'[i].type = "RPLY" =>
          i = Len(F) + 1 \/ (i \in 1..Len(F) /\ F'[i] = F[i] /\ F'[i].id # q.id)
    <3>1. \A i \in 1..Len(F) : F[i].type = "RPLY" => F[i].id # q.id
      BY <1>0 DEF Tokens
    <3> QED
      BY <1>7, <3>1
  <2>2. \A i, j \in 1..Len(F) : F[i].type = "RPLY" /\ F[j].type = "RPLY" /\ F[i].id = F[j].id => i = j
    BY <1>0 DEF Tokens
  <2>3. F'[Len(F) + 1].id = q.id
    BY <1>6
  <2> QED
    BY <2>1, <2>2, <2>3
<1>11. rmPend' \subseteq rmPend
  BY <1>1
<1> QED
  BY <1>2, <1>5, <1>6, <1>8, <1>9, <1>10, <1>11, <1>n, ReplySide

LEMMA RmNotifyInv == ASSUME Inv, RmNotify PROVE Inv'
<1>0. Shape /\ Tokens /\ Replies /\ Notifs
  BY DEF Inv
<1>1. /\ UNCHANGED <<conn, callVars, recvVars, workVars, toRM, rmAsm>> /\ rmOut = << >> /\ fromRM' = fromRM
      /\ UNCHANGED <<rmPend, idr, idrNext, pc, mine, req, result, sendFails, cur, works>>
      /\ notifs' = notifs + 1 /\ notifs < MaxNotifs
  BY DEF RmNotify, MayOccur, callVars, recvVars, workVars
<1>2. notifs \in Nat /\ notifs <= notifs' /\ notifs' \in 0..MaxNotifs /\ 0 - notifs' \in Int
  BY <1>0, <1>1, FaultsAssumption DEF Shape
<1>3. PICK n \in 0..MaxFrags, m \in Msgs : rmOut' = Packets("NOTIF", 0 - notifs', 0, m, n, FALSE)
  BY Zenon DEF RmNotify
<1>4. 0 \in Seqs /\ m \in Ids /\ n \in Nat
  BY Sets, SizesAssumption DEF Ids
<1>5. PICK P : rmOut' = P /\ SeriesOf(P, "NOTIF", 0 - notifs', 0, m, n)
  <2>1. SeriesOf(Packets("NOTIF", 0 - notifs', 0, m, n, FALSE), "NOTIF", 0 - notifs', 0, m, n)
    <3>1. FALSE \in BOOLEAN
      OBVIOUS
    <3> QED
      BY <1>2, <1>4, <3>1, PacketsOf, Zenon
  <2> QED
    BY <1>3, <2>1, Zenon
<1>6. Shape'
  <2>1. rmOut' \in Seq(Reply)
    BY <1>5 DEF SeriesOf
  <2> QED
    BY <1>0, <1>1, <1>2, <2>1 DEF Shape
<1>7. /\ Len(F) \in Nat /\ Len(F') = Len(F) + n + 1 /\ \A i \in 1..Len(F) : F'[i] = F[i]
      /\ F'[Len(F) + 1].type = "NOTIF" /\ F'[Len(F) + 1].id = 0 - notifs'
      /\ \A i \in (Len(F) + 2)..Len(F') : F'[i].type = "CONT"
      /\ Replies'
  BY <1>1, <1>2, <1>4, <1>5, <1>6, SeriesSent
<1>8. \A i \in 1..Len(F') : F'[i].type # "CONT" => i = Len(F) + 1 \/ (i \in 1..Len(F) /\ F'[i] = F[i])
  <2>1. SUFFICES ASSUME NEW i \in 1..Len(F'), F'[i].type # "CONT"
                 PROVE  i = Len(F) + 1 \/ i \in 1..Len(F)
    BY <1>7
  <2>2. ~(i \in (Len(F) + 2)..Len(F'))
    BY <1>7, <2>1
  <2> QED
    BY <1>4, <1>7, <2>2
<1>t. /\ \A i \in 1..Len(F) : F[i].id \in Int
      /\ NotifConns \subseteq Nat /\ MaxCalls \in Nat
  <2>1. \A i \in 1..Len(F) : F[i] \in Reply
    BY <1>0, Streams
  <2> QED
    BY <2>1, Sets, SizesAssumption DEF Reply
<1>9. Notifs'
  <2>1. \A c \in NotifConns : c > MaxCalls + notifs' => conn[c].st = "unused"
    BY <1>0, <1>1, <1>2, <1>t DEF Notifs
  <2>2. ASSUME NEW i \in 1..Len(F'), F'[i].type = "NOTIF"
        PROVE  /\ 0 - F'[i].id \in 1..notifs'
               /\ \A c \in NotifConns : c >= MaxCalls - F'[i].id => conn[c].st = "unused"
    <3>1. CASE i \in 1..Len(F) /\ F'[i] = F[i]
      <4>1. /\ 0 - F[i].id \in 1..notifs
            /\ \A c \in NotifConns : c >= MaxCalls - F[i].id => conn[c].st = "unused"
        BY <1>0, <2>2, <3>1 DEF Notifs
      <4> QED
        BY <1>1, <1>2, <3>1, <4>1
    <3>2. CASE i = Len(F) + 1
      <4>1. F'[i].id = 0 - notifs'
        BY <1>7, <3>2
      <4>2. ASSUME NEW c \in NotifConns, c >= MaxCalls - F'[i].id PROVE conn[c].st = "unused"
        <5>1. c > MaxCalls + notifs
          BY <1>1, <1>2, <1>t, <4>1, <4>2
        <5> QED
          BY <1>0, <5>1 DEF Notifs
      <4> QED
        BY <1>1, <1>2, <4>1, <4>2
    <3> QED
      BY <1>8, <2>2, <3>1, <3>2
  <2>3. ASSUME NEW i \in 1..Len(F'), NEW j \in 1..Len(F'), i < j, F'[i].type = "NOTIF", F'[j].type = "NOTIF"
        PROVE  F'[j].id < F'[i].id
    <3>1. i \in 1..Len(F) /\ F'[i] = F[i]
      BY <1>7, <1>8, <2>3
    <3>2. CASE j \in 1..Len(F) /\ F'[j] = F[j]
      BY <1>0, <2>3, <3>1, <3>2 DEF Notifs
    <3>3. CASE j = Len(F) + 1
      <4>1. 0 - F[i].id \in 1..notifs /\ F'[j].id = 0 - notifs' /\ F[i].id \in Int
        BY <1>0, <1>7, <1>t, <2>3, <3>1, <3>3 DEF Notifs
      <4> QED
        BY <1>1, <1>2, <3>1, <4>1
    <3> QED
      BY <1>8, <2>3, <3>2, <3>3
  <2> QED
    BY <1>1, <2>1, <2>2, <2>3 DEF Notifs
<1>10. \A i \in 1..Len(F') : F'[i].type = "RPLY" => i \in 1..Len(F) /\ F'[i] = F[i]
  BY <1>7, <1>8
<1>11. /\ \A i \in 1..Len(F') : F'[i].type = "RPLY" =>
            /\ F'[i].id \in CallConns /\ Waits(conn, pc, mine, F'[i].id, F'[i])
            /\ \A q \in rmPend' : F'[i].id # q.id
            /\ \A j \in 1..Len(W) : F'[i].id # W[j].id
       /\ \A i, j \in 1..Len(F') : F'[i].type = "RPLY" /\ F'[j].type = "RPLY" /\ F'[i].id = F'[j].id => i = j
  BY <1>0, <1>1, <1>10 DEF Tokens, Waiting
<1>12. rmPend' \subseteq rmPend
  BY <1>1
<1> QED
  BY <1>1, <1>2, <1>6, <1>7, <1>9, <1>11, <1>12, ReplySide

-----------------------------------------------------------------------------
(* The Resource Manager's requests                                         *)

LEMMA RmRecvStreams ==
  ASSUME Shape, toRM # << >>, toRM' = Tail(toRM)
  PROVE  LET a == Len(rmAsm) IN
         /\ a \in Nat /\ Len(W) \in Nat /\ a < Len(W) /\ toRM[1] = W[a + 1] /\ \A i \in 1..a : rmAsm[i] = W[i]
         /\ rmAsm' = Append(rmAsm, toRM[1]) => Len(W') = Len(W) /\ \A i \in 1..Len(W') : W'[i] = W[i]
         /\ rmAsm' = <<toRM[1]>> => Len(W') = Len(W) - a /\ \A i \in 1..Len(W') : W'[i] = W[i + a]
         /\ rmAsm' = << >> => Len(W') = Len(W) - (a + 1) /\ \A i \in 1..Len(W') : W'[i] = W[i + (a + 1)]
<1> DEFINE a == Len(rmAsm)
           b == Len(toRM)
           T == Tail(toRM)
<1>0. rmAsm \in Seq(Request) /\ toRM \in Seq(Request) /\ toRM # << >>
  BY DEF Shape
<1>1. W = rmAsm \o toRM /\ W' = rmAsm' \o T
  BY DEF W
<1>2. a \in Nat /\ b \in Nat /\ b > 0 /\ toRM[1] \in Request
  BY <1>0
<1>3. T \in Seq(Request) /\ Len(T) = b - 1 /\ \A i \in 1..(b - 1) : T[i] = toRM[i + 1]
  BY <1>0, <1>2
<1>4. Len(W) = a + b /\ (\A i \in 1..a : W[i] = rmAsm[i]) /\ \A i \in 1..b : W[a + i] = toRM[i]
  <2>1. Len(W) = a + b /\ \A i \in 1..a : W[i] = rmAsm[i]
    BY <1>0, <1>1, <1>2
  <2>2. ASSUME NEW i \in 1..b PROVE W[a + i] = toRM[i]
    <3>1. a + i \in 1..(a + b) /\ a + i > a /\ (a + i) - a = i
      BY <1>2
    <3> QED
      BY <1>0, <1>1, <3>1
  <2> QED
    BY <2>1, <2>2
<1> HIDE DEF a, b, T
<1>g. ASSUME NEW s \in Seq(Request), rmAsm' = s
      PROVE  /\ Len(s) \in Nat /\ Len(W') = Len(s) + (b - 1) /\ \A i \in 1..Len(s) : W'[i] = s[i]
             /\ \A i \in 1..(b - 1) : W'[Len(s) + i] = T[i]
  <2>1. W' = s \o T /\ Len(s) \in Nat
    BY <1>1, <1>g
  <2>2. Len(W') = Len(s) + (b - 1) /\ \A i \in 1..Len(s) : W'[i] = s[i]
    <3>1. T \in Seq(Request)
      BY <1>3
    <3>2. Len(s \o T) = Len(s) + Len(T) /\ \A i \in 1..Len(s) : (s \o T)[i] = s[i]
      BY <3>1
    <3> QED
      BY <1>3, <2>1, <3>2
  <2>3. ASSUME NEW i \in 1..(b - 1) PROVE W'[Len(s) + i] = T[i]
    <3>1. Len(s) + i \in 1..(Len(s) + (b - 1)) /\ Len(s) + i > Len(s) /\ (Len(s) + i) - Len(s) = i
      BY <1>2, <2>1
    <3> QED
      BY <1>3, <2>1, <3>1
  <2> QED
    BY <2>1, <2>2, <2>3
<1>5. ASSUME rmAsm' = Append(rmAsm, toRM[1]) PROVE Len(W') = Len(W) /\ \A i \in 1..Len(W') : W'[i] = W[i]
  <2> DEFINE s == Append(rmAsm, toRM[1])
  <2>1. s \in Seq(Request) /\ Len(s) = a + 1 /\ s[a + 1] = toRM[1] /\ \A i \in 1..a : s[i] = rmAsm[i]
    BY <1>0, <1>2 DEF a
  <2> HIDE DEF s
  <2>2. /\ Len(W') = a + b /\ \A i \in 1..(a + 1) : W'[i] = s[i]
        /\ \A i \in 1..(b - 1) : W'[(a + 1) + i] = T[i]
    <3>1. rmAsm' = s
      BY <1>5 DEF s
    <3>2. /\ Len(W') = Len(s) + (b - 1) /\ \A i \in 1..Len(s) : W'[i] = s[i]
          /\ \A i \in 1..(b - 1) : W'[Len(s) + i] = T[i]
      BY <1>g, <2>1, <3>1
    <3> QED
      BY <1>2, <2>1, <3>2
  <2>3. ASSUME NEW i \in 1..(a + b) PROVE W'[i] = W[i]
    <3>1. CASE i <= a
      BY <1>2, <1>4, <2>1, <2>2, <3>1
    <3>2. CASE i = a + 1
      BY <1>2, <1>4, <2>1, <2>2, <3>2
    <3>3. CASE i > a + 1
      <4>1. i - a - 1 \in 1..(b - 1) /\ (a + 1) + (i - a - 1) = i /\ (i - a - 1) + 1 \in 1..b /\ a + ((i - a - 1) + 1) = i
        BY <1>2, <3>3
      <4>2. W'[(a + 1) + (i - a - 1)] = T[i - a - 1] /\ T[i - a - 1] = toRM[(i - a - 1) + 1]
        BY <1>3, <2>2, <4>1
      <4>3. W[a + ((i - a - 1) + 1)] = toRM[(i - a - 1) + 1]
        BY <1>4, <4>1
      <4> QED
        BY <4>1, <4>2, <4>3
    <3> QED
      BY <1>2, <3>1, <3>2, <3>3
  <2> QED
    BY <1>4, <2>2, <2>3
<1>6. ASSUME rmAsm' = <<toRM[1]>> PROVE Len(W') = Len(W) - a /\ \A i \in 1..Len(W') : W'[i] = W[i + a]
  <2> DEFINE s == <<toRM[1]>>
  <2>1. s \in Seq(Request) /\ Len(s) = 1 /\ s[1] = toRM[1]
    BY <1>2
  <2> HIDE DEF s
  <2>2. Len(W') = 1 + (b - 1) /\ W'[1] = s[1] /\ \A i \in 1..(b - 1) : W'[1 + i] = T[i]
    <3>1. rmAsm' = s
      BY <1>6 DEF s
    <3>2. /\ Len(W') = Len(s) + (b - 1) /\ \A i \in 1..Len(s) : W'[i] = s[i]
          /\ \A i \in 1..(b - 1) : W'[Len(s) + i] = T[i]
      BY <1>g, <2>1, <3>1
    <3> QED
      BY <1>2, <2>1, <3>2
  <2>3. Len(W') = b /\ 1 + (b - 1) = b
    BY <1>2, <2>2
  <2>4. ASSUME NEW i \in 1..b PROVE W'[i] = toRM[i]
    <3>1. CASE i = 1
      BY <2>1, <2>2, <3>1
    <3>2. CASE i > 1
      <4>1. i - 1 \in 1..(b - 1) /\ 1 + (i - 1) = i /\ (i - 1) + 1 = i
        BY <1>2, <3>2
      <4>2. W'[1 + (i - 1)] = T[i - 1] /\ T[i - 1] = toRM[(i - 1) + 1]
        BY <1>3, <2>2, <4>1
      <4> QED
        BY <4>1, <4>2
    <3> QED
      BY <1>2, <3>1, <3>2
  <2>5. \A i \in 1..b : a + i = i + a
    BY <1>2
  <2>6. Len(W) - a = b
    BY <1>2, <1>4
  <2> QED
    BY <1>4, <2>3, <2>4, <2>5, <2>6
<1>7. ASSUME rmAsm' = << >> PROVE Len(W') = Len(W) - (a + 1) /\ \A i \in 1..Len(W') : W'[i] = W[i + (a + 1)]
  <2>1. W' = T
    BY <1>1, <1>3, <1>7
  <2>2. Len(W') = b - 1 /\ Len(W) - (a + 1) = b - 1
    BY <1>2, <1>3, <1>4, <2>1
  <2>3. ASSUME NEW i \in 1..(b - 1) PROVE W'[i] = W[i + (a + 1)]
    <3>1. i + 1 \in 1..b /\ a + (i + 1) = i + (a + 1)
      BY <1>2
    <3>2. W[a + (i + 1)] = toRM[i + 1] /\ W'[i] = toRM[i + 1]
      BY <1>3, <1>4, <2>1, <3>1
    <3> QED
      BY <3>1, <3>2
  <2> QED
    BY <2>2, <2>3
<1>8. a < Len(W) /\ toRM[1] = W[a + 1] /\ Len(W) \in Nat
  BY <1>2, <1>4
<1> QED
  BY <1>2, <1>4, <1>5, <1>6, <1>7, <1>8 DEF a

\* The request stream loses its first k packets.
LEMMA RequestSide ==
  ASSUME Inv, Shape', UNCHANGED <<conn, callVars, recvVars, workVars, fromRM, rmOut, notifs>>,
         NEW k \in Nat, k <= Len(W), Len(W') = Len(W) - k, \A i \in 1..Len(W') : W'[i] = W[i + k],
         k > 0 /\ k < Len(W) => W[k + 1].type # "CONT",
         \A u \in Callers : pc[u] \in {"idr", "lock", "send"} => req[u].i <= Len(W) - k,
         \A i \in 1..Len(rmAsm') : W'[i].id = W'[1].id,
         \A q \in rmPend' : \/ q \in rmPend
                            \/ /\ Waits(conn, pc, mine, q.id, q)
                               /\ \A i \in 1..Len(W') : W'[i].id # q.id
                               /\ \E j \in 1..Len(W) : q = W[j],
         \A q, r \in rmPend' : q.id = r.id => q = r
  PROVE  Inv'
<1>0. /\ Shape /\ Owners /\ Numbers /\ Requests /\ Senders /\ Tokens /\ Replies /\ Notifs /\ Payloads
      /\ RepliesIntact /\ Current
  BY DEF Inv
<1>1. /\ UNCHANGED <<conn, idr, idrNext, sendLock, pc, mine, req, result, sendFails, cur, works, delivered, notifs>>
      /\ F' = F
  BY DEF callVars, recvVars, workVars, F
<1>2. Owners' /\ Numbers'
  BY <1>0, KeptOwners DEF Kept
<1>t. Len(W) \in Nat
  BY <1>0, Streams
<1>s. \A i \in 1..Len(W') : i + k \in 1..Len(W) /\ W'[i] = W[i + k]
  BY <1>t
<1>3. Requests'
  <2>1. ASSUME NEW i \in 1..Len(W'), W'[i].type = "CONT" PROVE i > 1 /\ W'[i - 1].id = W'[i].id
    <3>1. i + k \in 1..Len(W) /\ W'[i] = W[i + k] /\ i + k > 1 /\ W[(i + k) - 1].id = W[i + k].id
      BY <1>0, <1>s, <2>1 DEF Requests
    <3>2. i > 1
      <4>1. SUFFICES ASSUME i = 1 PROVE FALSE
        BY <1>t
      <4>2. k > 0 /\ k < Len(W) /\ i + k = k + 1
        BY <1>t, <3>1, <4>1
      <4> QED
        BY <2>1, <3>1, <4>2
    <3>3. i - 1 \in 1..Len(W') /\ (i - 1) + k = (i + k) - 1
      BY <1>t, <3>2
    <3> QED
      BY <1>s, <3>1, <3>2, <3>3
  <2>2. ASSUME NEW i \in 1..Len(W'), NEW j \in 1..Len(W'), i < j, W'[i].id = W'[j].id
        PROVE  W'[j].type = "CONT" /\ SameSeries(W'[i], W'[j])
    <3>1. i + k < j + k
      BY <1>t, <2>2
    <3>2. i + k \in 1..Len(W) /\ j + k \in 1..Len(W) /\ W'[i] = W[i + k] /\ W'[j] = W[j + k]
      BY <1>s
    <3>3. W[j + k].type = "CONT" /\ SameSeries(W[i + k], W[j + k])
      BY <1>0, <2>2, <3>1, <3>2 DEF Requests
    <3> QED
      BY <3>2, <3>3
  <2>3. ASSUME NEW i \in 1..Len(W'), NEW j \in 1..Len(W'), i <= j, W'[i].id = W'[j].id
        PROVE  j - i <= W'[j].num
    <3>1. i + k <= j + k /\ (j + k) - (i + k) = j - i
      BY <1>t, <2>3
    <3>2. i + k \in 1..Len(W) /\ j + k \in 1..Len(W) /\ W'[i] = W[i + k] /\ W'[j] = W[j + k]
      BY <1>s
    <3>3. (j + k) - (i + k) <= W[j + k].num
      BY <1>0, <2>3, <3>1, <3>2 DEF Requests
    <3> QED
      BY <3>1, <3>2, <3>3
  <2>4. \A i \in 1..Len(W') : conn'[W'[i].id].st # "unused"
    BY <1>0, <1>1, <1>s DEF Requests
  <2> QED
    BY <2>1, <2>2, <2>3, <2>4 DEF Requests
<1>4. Senders'
  <2>1. ASSUME NEW u \in Callers, pc[u] \in {"idr", "lock", "send"}
        PROVE  /\ \A x \in 1..Len(W') : W'[x].id = mine[u] <=> x > Len(W') - req[u].i
               /\ \A x \in 1..Len(W') : W'[x].id = mine[u] =>
                    W'[x].num = req[u].num /\ W'[x].seq = conn[mine[u]].seq /\ W'[x].msg = conn[mine[u]].msg
    <3>1. /\ \A x \in 1..Len(W) : W[x].id = mine[u] <=> x > Len(W) - req[u].i
          /\ \A x \in 1..Len(W) : W[x].id = mine[u] =>
               W[x].num = req[u].num /\ W[x].seq = conn[mine[u]].seq /\ W[x].msg = conn[mine[u]].msg
      BY <1>0, <2>1 DEF Senders
    <3>2. req[u].i \in Nat
      BY <1>0 DEF Shape
    <3>3. ASSUME NEW x \in 1..Len(W')
          PROVE  /\ x + k \in 1..Len(W) /\ W'[x] = W[x + k]
                 /\ x > Len(W') - req[u].i <=> x + k > Len(W) - req[u].i
      <4>1. x + k \in 1..Len(W) /\ W'[x] = W[x + k]
        BY <1>s
      <4> DEFINE l == Len(W)
                 m == Len(W')
                 b == req[u].i
      <4>2. l \in Nat /\ b \in Nat /\ k \in Nat /\ m = l - k /\ x \in Int
        BY <1>t, <3>2
      <4> HIDE DEF l, m, b
      <4>3. x > m - b <=> x + k > l - b
        BY <4>2
      <4> QED
        BY <4>1, <4>3 DEF l, m, b
    <3>4. ASSUME NEW x \in 1..Len(W')
          PROVE  /\ W'[x].id = mine[u] <=> x > Len(W') - req[u].i
                 /\ W'[x].id = mine[u] =>
                      W'[x].num = req[u].num /\ W'[x].seq = conn[mine[u]].seq /\ W'[x].msg = conn[mine[u]].msg
      <4> DEFINE y == x + k
      <4>1. y \in 1..Len(W) /\ W'[x] = W[y] /\ (x > Len(W') - req[u].i <=> y > Len(W) - req[u].i)
        BY <3>3
      <4> HIDE DEF y
      <4> QED
        BY <3>1, <4>1, Zenon
    <3> QED
      BY <3>4, Zenon
  <2>2. \A u \in Callers : pc[u] \in {"idr", "lock", "send"} => ~conn[mine[u]].done
    BY <1>0, Zenon DEF Senders
  <2>3. /\ \A u \in Callers : pc[u] \in {"idr", "lock"} => req[u].i = 0
        /\ \A u \in Callers : pc[u] \in {"idr", "lock", "send"} =>
             conn[mine[u]].type = "call" /\ req[u].i <= req[u].num /\ req[u].i <= Len(W')
    BY <1>0 DEF Senders
  <2>4. UNCHANGED <<conn, pc, mine, req>>
    BY <1>1
  <2>5. \A u \in Callers : pc'[u] \in {"idr", "lock", "send"} => ~conn'[mine'[u]].done
    BY <2>2, <2>4, Zenon
  <2> QED
    BY <2>1, <2>3, <2>4, <2>5 DEF Senders
<1>5. Tokens'
  <2>1. ASSUME NEW i \in 1..Len(W'), NEW j \in 1..Len(W'), i <= j, W'[i].id = W'[j].id, j - i = W'[j].num
        PROVE  Waits(conn, pc, mine, W'[j].id, W'[j])
    <3>1. i + k <= j + k /\ (j + k) - (i + k) = j - i
      BY <1>t, <2>1
    <3>2. i + k \in 1..Len(W) /\ j + k \in 1..Len(W) /\ W'[i] = W[i + k] /\ W'[j] = W[j + k]
      BY <1>s
    <3>3. Waits(conn, pc, mine, W[j + k].id, W[j + k])
      BY <1>0, <2>1, <3>1, <3>2 DEF Tokens, Whole, Waiting
    <3> QED
      BY <3>2, <3>3
  <2>2. ASSUME NEW q \in rmPend'
        PROVE  /\ Waits(conn, pc, mine, q.id, q) /\ \A i \in 1..Len(W') : W'[i].id # q.id
               /\ \A i \in 1..Len(F) : F[i].type = "RPLY" => F[i].id # q.id
    <3>1. CASE q \in rmPend
      BY <1>0, <1>s, <3>1 DEF Tokens, Waiting
    <3>2. CASE /\ Waits(conn, pc, mine, q.id, q)
               /\ \A i \in 1..Len(W') : W'[i].id # q.id
               /\ \E j \in 1..Len(W) : q = W[j]
      BY <1>0, <3>2 DEF Tokens
    <3> QED
      BY <3>1, <3>2
  <2>3. /\ \A i \in 1..Len(F) : F[i].type = "RPLY" => F[i].id \in CallConns /\ Waits(conn, pc, mine, F[i].id, F[i])
        /\ \A i \in 1..Len(F), j \in 1..Len(W') : F[i].type = "RPLY" => F[i].id # W'[j].id
        /\ \A i, j \in 1..Len(F) : F[i].type = "RPLY" /\ F[j].type = "RPLY" /\ F[i].id = F[j].id => i = j
    BY <1>0, <1>s DEF Tokens, Waiting
  <2>4. UNCHANGED <<conn, pc, mine>> /\ F' = F
    BY <1>1
  <2> QED
    BY <2>1, <2>2, <2>3, <2>4 DEF Tokens, Whole, Waiting
<1>6. Replies' /\ Notifs'
  BY <1>0, <1>1 DEF Replies, Notifs
<1>7. Current'
  BY <1>0, <1>1 DEF Current
<1>8. Payloads'
  BY <1>0, <1>1, Zenon DEF Payloads
<1>9. RepliesIntact'
  BY <1>0, <1>1 DEF RepliesIntact
<1>10. NoUseAfterFree'
  <2>1. uaf' = uaf
    BY DEF recvVars
  <2> QED
    BY <2>1, Zenon DEF Inv, NoUseAfterFree
<1> QED
  BY <1>2, <1>3, <1>4, <1>5, <1>6, <1>7, <1>8, <1>9, <1>10 DEF Inv

LEMMA RmRecvInv == ASSUME Inv, RmRecv PROVE Inv'
<1> DEFINE a == Len(rmAsm)
           p == toRM[1]
<1>0. Shape /\ Owners /\ Requests /\ Senders /\ Tokens
  BY DEF Inv
<1>1. /\ toRM # << >> /\ toRM' = Tail(toRM)
      /\ UNCHANGED <<conn, callVars, recvVars, workVars, fromRM, rmOut, notifs>>
      /\ UNCHANGED <<idr, idrNext, pc, mine, req, result, sendFails, cur, works>>
  BY DEF RmRecv, callVars, recvVars, workVars
<1>2. /\ a \in Nat /\ Len(W) \in Nat /\ a < Len(W) /\ p = W[a + 1] /\ \A i \in 1..a : rmAsm[i] = W[i]
      /\ rmAsm' = Append(rmAsm, p) => Len(W') = Len(W) /\ \A i \in 1..Len(W') : W'[i] = W[i]
      /\ rmAsm' = <<p>> => Len(W') = Len(W) - a /\ \A i \in 1..Len(W') : W'[i] = W[i + a]
      /\ rmAsm' = << >> => Len(W') = Len(W) - (a + 1) /\ \A i \in 1..Len(W') : W'[i] = W[i + (a + 1)]
  BY <1>0, <1>1, RmRecvStreams
<1>3. /\ a + 1 \in 1..Len(W) /\ p \in Request /\ toRM \in Seq(Request) /\ rmAsm \in Seq(Request)
      /\ toRM' \in Seq(Request) /\ \A i \in 1..a : W[i] \in Request
  <2>1. a + 1 \in 1..Len(W)
    BY <1>2
  <2>2. toRM \in Seq(Request) /\ rmAsm \in Seq(Request) /\ Tail(toRM) \in Seq(Request)
    BY <1>0, <1>1 DEF Shape
  <2>3. \A i \in 1..Len(W) : W[i] \in Request
    BY <1>0, Streams
  <2> QED
    BY <1>1, <1>2, <2>1, <2>2, <2>3
<1>n. p.num \in Nat
  BY <1>3, SizesAssumption DEF Request
<1>4. p.type = "CONT" => /\ a > 0 /\ rmAsm # << >> /\ W[a].id = p.id
                         /\ \A i \in 1..a : W[i].id = p.id
  <2>1. SUFFICES ASSUME p.type = "CONT" PROVE a > 0 /\ rmAsm # << >> /\ W[a].id = p.id /\ \A i \in 1..a : W[i].id = p.id
    OBVIOUS
  <2>2. a + 1 > 1 /\ W[(a + 1) - 1].id = p.id
    BY <1>0, <1>2, <1>3, <2>1 DEF Requests
  <2>3. a > 0 /\ (a + 1) - 1 = a /\ a \in 1..a /\ 1 \in 1..a
    BY <1>2, <2>2
  <2>4. \A i \in 1..a : W[i].id = W[1].id
    BY <1>0 DEF Requests
  <2>5. \A i \in 1..a : W[i].id = p.id
    BY <2>2, <2>3, <2>4
  <2> QED
    BY <2>2, <2>3, <2>5
\* A caller that is not done with its request has its packets at the end.
<1>5. ASSUME NEW u \in Callers, pc[u] \in {"idr", "lock", "send"}, NEW x \in 1..Len(W), W[x].id # mine[u]
      PROVE  req[u].i <= Len(W) - x
  <2>1. ~(x > Len(W) - req[u].i)
    BY <1>0, <1>5 DEF Senders
  <2>2. req[u].i \in Nat
    BY <1>0 DEF Shape
  <2> QED
    BY <1>2, <2>1, <2>2
<1>6. ASSUME p.type = "CONT", rmAsm' = Append(rmAsm, p), rmPend' = rmPend PROVE Inv'
  <2>1. Len(W') = Len(W) - 0 /\ \A i \in 1..Len(W') : W'[i] = W[i + 0]
    <3>1. Len(W') = Len(W) /\ \A i \in 1..Len(W') : W'[i] = W[i]
      BY <1>2, <1>6
    <3>2. \A i \in 1..Len(W') : i + 0 = i
      BY <1>2, <3>1
    <3> QED
      BY <1>2, <3>1, <3>2
  <2>2. Len(rmAsm') = a + 1 /\ rmAsm' \in Seq(Request)
    BY <1>3, <1>6
  <2>3. \A i \in 1..Len(rmAsm') : W'[i].id = W'[1].id
    <3>1. Len(W') = Len(W) /\ \A i \in 1..Len(W') : W'[i] = W[i]
      BY <1>2, <1>6
    <3>2. \A i \in 1..(a + 1) : W'[i].id = p.id
      <4>1. SUFFICES ASSUME NEW i \in 1..(a + 1) PROVE W'[i].id = p.id
        OBVIOUS
      <4>2. W'[i] = W[i]
        BY <1>2, <1>3, <3>1
      <4>3. i = a + 1 \/ i \in 1..a
        BY <1>2
      <4> QED
        BY <1>2, <1>4, <1>6, <4>2, <4>3
    <3>3. 1 \in 1..(a + 1)
      BY <1>2
    <3> QED
      BY <2>2, <3>2, <3>3
  <2>4. Shape'
    BY <1>0, <1>1, <1>3, <1>6, <2>2 DEF Shape
  <2>5. \A u \in Callers : pc[u] \in {"idr", "lock", "send"} => req[u].i <= Len(W) - 0
    <3>1. Len(W) - 0 = Len(W)
      BY <1>2
    <3> QED
      BY <1>0, <3>1 DEF Senders
  <2>6. \A q, r \in rmPend' : q.id = r.id => q = r
    BY <1>0, <1>6 DEF Tokens
  <2>7. 0 \in Nat /\ 0 <= Len(W) /\ ~(0 > 0)
    BY <1>2
  <2> QED
    BY <1>1, <1>6, <2>1, <2>3, <2>4, <2>5, <2>6, <2>7, RequestSide
<1>7. ASSUME p.type = "REQ", rmAsm' = <<p>>, rmPend' = rmPend PROVE Inv'
  <2>1. Len(W') = Len(W) - a /\ \A i \in 1..Len(W') : W'[i] = W[i + a]
    BY <1>2, <1>7
  <2>2. Len(rmAsm') = 1 /\ rmAsm' \in Seq(Request)
    BY <1>3, <1>7
  <2>3. \A i \in 1..Len(rmAsm') : W'[i].id = W'[1].id
    BY <2>2
  <2>4. Shape'
    BY <1>0, <1>1, <1>3, <1>7, <2>2 DEF Shape
  <2>5. ASSUME NEW u \in Callers, pc[u] \in {"idr", "lock", "send"} PROVE req[u].i <= Len(W) - a
    <3>1. CASE a = 0
      <4>1. Len(W) - a = Len(W)
        BY <1>2, <3>1
      <4> QED
        BY <1>0, <2>5, <4>1 DEF Senders
    <3>2. CASE a > 0
      <4>1. a \in 1..Len(W) /\ a < a + 1
        BY <1>2, <3>2
      <4>2. W[a].id # p.id
        BY <1>0, <1>2, <1>3, <1>7, <4>1 DEF Requests
      <4>3. CASE W[a].id # mine[u]
        BY <1>5, <2>5, <4>1, <4>3
      <4>4. CASE W[a].id = mine[u]
        <5>1. p.id # mine[u]
          BY <4>2, <4>4
        <5>2. a > Len(W) - req[u].i
          BY <1>0, <2>5, <4>1, <4>4 DEF Senders
        <5>3. req[u].i <= Len(W) - (a + 1)
          BY <1>2, <1>3, <1>5, <2>5, <5>1
        <5>4. req[u].i \in Nat
          BY <1>0 DEF Shape
        <5> QED
          BY <1>2, <5>2, <5>3, <5>4
      <4> QED
        BY <4>3, <4>4
    <3> QED
      BY <1>2, <3>1, <3>2
  <2>6. \A q, r \in rmPend' : q.id = r.id => q = r
    BY <1>0, <1>7 DEF Tokens
  <2>7. a \in Nat /\ a <= Len(W) /\ W[a + 1].type # "CONT"
    BY <1>2, <1>7
  <2> HIDE DEF a
  <2> QED
    BY <1>1, <1>7, <2>1, <2>3, <2>4, <2>5, <2>6, <2>7, RequestSide
<1>8. ASSUME NEW s \in 1..(a + 1), rmAsm' = << >>, rmPend' = rmPend \cup {W[s]}, W[s].id = p.id, a + 1 - s = p.num
      PROVE  Inv'
  <2>1. Len(W') = Len(W) - (a + 1) /\ \A i \in 1..Len(W') : W'[i] = W[i + (a + 1)]
    BY <1>2, <1>8
  <2>2. s \in 1..Len(W) /\ s <= a + 1 /\ W[s] \in Request
    BY <1>2, <1>3, <1>8
  <2>3. Waits(conn, pc, mine, p.id, p)
    <3>1. W[s].id = W[a + 1].id /\ (a + 1) - s = W[a + 1].num
      BY <1>2, <1>8
    <3>2. Waits(conn, pc, mine, W[a + 1].id, W[a + 1])
      BY <1>0, <1>3, <2>2, <3>1 DEF Tokens, Whole, Waiting
    <3> QED
      BY <1>2, <3>2
  <2>4. Waits(conn, pc, mine, W[s].id, W[s])
    <3>1. W[s].id = p.id /\ W[s].seq = p.seq /\ W[s].msg = p.msg
      <4>1. CASE s = a + 1
        BY <1>2, <4>1
      <4>2. CASE s < a + 1
        BY <1>0, <1>2, <1>3, <1>8, <2>2, <4>2 DEF Requests, SameSeries
      <4> QED
        BY <1>2, <2>2, <4>1, <4>2
    <3> QED
      BY <2>3, <3>1, Zenon DEF Waits
  <2>5. ASSUME NEW x \in 1..Len(W), x > a + 1 PROVE W[x].id # p.id
    <3>1. SUFFICES ASSUME W[x].id = p.id PROVE FALSE
      OBVIOUS
    <3>2. x - s <= W[x].num
      <4>1. s <= x
        BY <1>2, <2>2, <2>5
      <4>2. W[s].id = W[x].id
        BY <1>8, <3>1
      <4> QED
        BY <1>0, <2>2, <4>1, <4>2 DEF Requests
    <3>3. W[x].num = p.num
      <4>1. a + 1 < x /\ W[a + 1].id = W[x].id
        BY <1>2, <2>5, <3>1
      <4>2. SameSeries(W[a + 1], W[x])
        BY <1>0, <1>3, <4>1 DEF Requests
      <4> QED
        BY <1>2, <4>2 DEF SameSeries
    <3> QED
      BY <1>2, <1>8, <1>n, <2>2, <2>5, <3>2, <3>3
  <2>6. \A i \in 1..Len(W') : W'[i].id # W[s].id
    <3>1. \A i \in 1..Len(W') : i + (a + 1) \in 1..Len(W) /\ i + (a + 1) > a + 1
      BY <1>2, <2>1
    <3> QED
      BY <1>8, <2>1, <2>5, <3>1
  <2>7. ASSUME a + 1 < Len(W) PROVE W[(a + 1) + 1].type # "CONT"
    <3>1. (a + 1) + 1 \in 1..Len(W) /\ (a + 1) + 1 > a + 1 /\ ((a + 1) + 1) - 1 = a + 1
      BY <1>2, <2>7
    <3>2. W[(a + 1) + 1].id # p.id
      BY <2>5, <3>1
    <3> QED
      BY <1>0, <1>2, <3>1, <3>2 DEF Requests
  <2>8. ASSUME NEW u \in Callers, pc[u] \in {"idr", "lock", "send"} PROVE req[u].i <= Len(W) - (a + 1)
    <3>1. W[a + 1].id # mine[u]
      <4>1. PICK v \in Callers : mine[v] = p.id /\ pc[v] = "wait"
        BY <2>3, Zenon DEF Waits
      <4>2. mine[u] # NONE /\ u # v
        BY <1>0, <2>8, <4>1 DEF Owners
      <4> QED
        BY <1>0, <1>2, <4>1, <4>2 DEF Owners
    <3> QED
      BY <1>3, <1>5, <2>8, <3>1
  <2>9. \A q, r \in rmPend' : q.id = r.id => q = r
    BY <1>0, <1>8, <2>2 DEF Tokens
  <2>10. Shape' /\ rmAsm' = << >> /\ Len(rmAsm') = 0
    <3>1. rmPend' \subseteq Request
      BY <1>0, <1>8, <2>2 DEF Shape
    <3>2. rmAsm' \in Seq(Request) /\ Len(rmAsm') = 0
      BY <1>8, EmptyIsSeq
    <3> QED
      BY <1>0, <1>1, <1>3, <1>8, <3>1, <3>2 DEF Shape
  <2>11. \A q \in rmPend' : \/ q \in rmPend
                            \/ /\ Waits(conn, pc, mine, q.id, q)
                               /\ \A i \in 1..Len(W') : W'[i].id # q.id
                               /\ \E j \in 1..Len(W) : q = W[j]
    BY <1>8, <2>2, <2>4, <2>6
  <2>12. \A i \in 1..Len(rmAsm') : W'[i].id = W'[1].id
    BY <2>10
  <2>13. a + 1 \in Nat /\ a + 1 <= Len(W)
    BY <1>2
  <2> DEFINE k == a + 1
  <2>14. /\ k \in Nat /\ k <= Len(W) /\ Len(W') = Len(W) - k /\ \A i \in 1..Len(W') : W'[i] = W[i + k]
         /\ k > 0 /\ k < Len(W) => W[k + 1].type # "CONT"
         /\ \A u \in Callers : pc[u] \in {"idr", "lock", "send"} => req[u].i <= Len(W) - k
    BY <2>1, <2>7, <2>8, <2>13
  <2> HIDE DEF k
  <2> QED
    BY <1>1, <2>9, <2>10, <2>11, <2>12, <2>14, RequestSide
<1>9. p.type \in {"REQ", "CONT"}
  BY <1>3 DEF Request
<1>10. CASE p.type = "REQ"
  <2>1. Len(<<p>>) = 1 /\ <<p>> # << >> /\ <<p>>[1] = p
    OBVIOUS
  <2>2. CASE 1 = p.num + 1
    <3>1. rmAsm' = << >> /\ rmPend' = rmPend \cup {p}
      BY <1>10, <2>1, <2>2 DEF RmRecv
    <3>2. a + 1 \in 1..(a + 1) /\ (a + 1) - (a + 1) = p.num
      BY <1>2, <1>n, <2>2
    <3> QED
      BY <1>2, <1>8, <3>1, <3>2
  <2>3. CASE 1 # p.num + 1
    <3>1. rmAsm' = <<p>> /\ rmPend' = rmPend
      BY <1>10, <2>1, <2>3 DEF RmRecv
    <3> QED
      BY <1>7, <1>10, <3>1
  <2> QED
    BY <2>2, <2>3
<1>11. CASE p.type = "CONT"
  <2> DEFINE r == Append(rmAsm, p)
  <2>1. rmAsm # << >> /\ Len(r) = a + 1 /\ r # << >> /\ r[1] = W[1] /\ W[1].id = p.id
    <3>1. a > 0 /\ rmAsm # << >> /\ 1 \in 1..a
      BY <1>2, <1>4, <1>11
    <3>2. Len(r) = a + 1 /\ r # << >> /\ r[1] = rmAsm[1]
      BY <1>3, <3>1
    <3> QED
      BY <1>2, <1>4, <1>11, <3>1, <3>2
  <2>2. CASE a + 1 = p.num + 1
    <3>1. rmAsm' = << >> /\ rmPend' = rmPend \cup {r[1]}
      BY <1>11, <2>1, <2>2 DEF RmRecv
    <3>2. 1 \in 1..(a + 1) /\ (a + 1) - 1 = p.num
      BY <1>2, <1>n, <2>2
    <3> QED
      BY <1>8, <2>1, <3>1, <3>2
  <2>3. CASE a + 1 # p.num + 1
    <3>1. rmAsm' = Append(rmAsm, p) /\ rmPend' = rmPend
      BY <1>11, <2>1, <2>3 DEF RmRecv
    <3> QED
      BY <1>6, <1>11, <3>1
  <2> QED
    BY <2>2, <2>3
<1> QED
  BY <1>9, <1>10, <1>11

-----------------------------------------------------------------------------
(* The theorems                                                            *)

LEMMA InitInv == ASSUME Init PROVE Inv
<1>0. rmAsm = << >> /\ toRM = << >> /\ fromRM = << >> /\ rmOut = << >> /\ rmPend = {} /\ works = {} /\ delivered = {}
  BY DEF Init
<1>1. W = << >> /\ F = << >> /\ Len(W) = 0 /\ Len(F) = 0 /\ Len(rmAsm) = 0
  BY <1>0 DEF W, F
<1>2. /\ conn = [c \in Conns |-> Unused] /\ Unused \in ConnRec /\ Unused.st = "unused"
      /\ \A c \in Conns : conn[c] = Unused
  BY Records DEF Init, Unused
<1>3. /\ idr = [s \in Seqs |-> NONE] /\ pc = [t \in Callers |-> "idle"] /\ mine = [t \in Callers |-> NONE]
      /\ req = [t \in Callers |-> NoReq] /\ result = [t \in Callers |-> NoResult] /\ cur = NONE
      /\ notifs = 0 /\ sendFails = 0 /\ idrNext = NumSeqs - 1
  BY DEF Init
<1>4. Shape
  <2>1. NoResult \in Outcomes
    BY EmptyIsSeq, Sets, Zenon DEF NoResult, Outcomes, Codes
  <2>2. NoReq \in [num : 0..MaxFrags, i : Nat]
    BY Sets DEF NoReq
  <2>3. idrNext \in Nat /\ notifs \in 0..MaxNotifs
    BY <1>3, SizesAssumption, FaultsAssumption
  <2>4. toRM \in Seq(Request) /\ rmAsm \in Seq(Request) /\ fromRM \in Seq(Reply) /\ rmOut \in Seq(Reply)
    BY <1>0, EmptyIsSeq
  <2> QED
    BY <1>0, <1>2, <1>3, <2>1, <2>2, <2>3, <2>4 DEF Shape, Steps
<1>5. Owners
  BY <1>3 DEF Owners
<1>6. Numbers
  <2>1. Lost = {}
    BY <1>3 DEF Lost
  <2>2. Cardinality(Lost) = 0
    BY <2>1, FS_EmptySet
  <2> QED
    BY <1>3, <2>2 DEF Numbers, Numbered
<1>7. Requests /\ Senders /\ Tokens
  BY <1>0, <1>1, <1>3 DEF Requests, Senders, Tokens
<1>8. Replies /\ Current
  BY <1>1, <1>3 DEF Replies, Current
<1>9. Notifs
  BY <1>1, <1>2, Sets DEF Notifs
<1>10. Payloads
  <2>1. \A c \in CallConns : HasReply(conn, c)
    BY <1>2, Sets DEF HasReply
  <2> QED
    BY <1>0, <1>3, <2>1 DEF Payloads
<1>11. RepliesIntact
  BY <1>0, <1>3 DEF RepliesIntact, NoResult
<1>12. NoUseAfterFree
  BY Zenon DEF Init, NoUseAfterFree
<1> QED
  BY <1>4, <1>5, <1>6, <1>7, <1>8, <1>9, <1>10, <1>11, <1>12 DEF Inv

LEMMA StutterInv == ASSUME Inv, UNCHANGED vars PROVE Inv'
<1>0. UNCHANGED <<conn, callVars, recvVars, workVars, toRM, fromRM, rmVars>>
  BY DEF vars
<1>1. /\ UNCHANGED <<conn, callVars, recvVars, workVars, toRM, rmAsm>> /\ F' = F
      /\ UNCHANGED <<rmPend, notifs, fromRM, rmOut, idr, idrNext, pc, mine, req, result, sendFails, cur, works>>
  BY <1>0 DEF callVars, recvVars, workVars, rmVars, F
<1>2. Shape /\ Tokens /\ Replies /\ Notifs
  BY DEF Inv
<1>3. Shape'
  BY <1>1, <1>2 DEF Shape
<1>4. Replies' /\ Notifs' /\ notifs <= notifs' /\ rmPend' \subseteq rmPend
  BY <1>1, <1>2, FaultsAssumption DEF Replies, Notifs, Shape
<1>5. /\ \A i \in 1..Len(F') : F'[i].type = "RPLY" =>
           /\ F'[i].id \in CallConns /\ Waits(conn, pc, mine, F'[i].id, F'[i])
           /\ \A q \in rmPend' : F'[i].id # q.id
           /\ \A j \in 1..Len(W) : F'[i].id # W[j].id
      /\ \A i, j \in 1..Len(F') : F'[i].type = "RPLY" /\ F'[j].type = "RPLY" /\ F'[i].id = F'[j].id => i = j
  BY <1>1, <1>2 DEF Tokens, Waiting
<1> QED
  BY <1>1, <1>3, <1>4, <1>5, ReplySide

LEMMA NextInv == ASSUME Inv, Roomy, [Next]_vars PROVE Inv'
<1>1. ASSUME NEW t \in Callers, CallerStep(t) PROVE Inv'
  BY <1>1, CallerInv
<1>2. CASE RecvNotif
  <2>1. fromRM # << >> /\ fromRM' = Tail(fromRM) /\ UNCHANGED <<callVars, delivered, toRM, rmVars>>
    BY <1>2 DEF RecvNotif, Received
  <2> QED
    BY <1>2, <2>1, RecvNotifHandled, RecvInv
<1>3. CASE RecvRply
  <2>1. fromRM # << >> /\ fromRM' = Tail(fromRM) /\ UNCHANGED <<callVars, delivered, toRM, rmVars>>
    BY <1>3 DEF RecvRply, Received
  <2> QED
    BY <1>3, <2>1, RecvRplyHandled, RecvInv
<1>4. CASE RecvCont
  <2>1. fromRM # << >> /\ fromRM' = Tail(fromRM) /\ UNCHANGED <<callVars, delivered, toRM, rmVars>>
    BY <1>4 DEF RecvCont, Received
  <2> QED
    BY <1>4, <2>1, RecvContHandled, RecvInv
<1>5. ASSUME NEW c \in Conns, NotifWork(c) PROVE Inv'
  BY <1>5, NotifWorkInv
<1>6. CASE RmRecv \/ RmReply \/ RmNotify \/ RmSend \/ RmCut
  BY <1>6, RmRecvInv, RmReplyInv, RmNotifyInv, RmSendInv, RmCutInv
<1>7. CASE UNCHANGED vars
  BY <1>7, StutterInv
<1> QED
  BY <1>1, <1>2, <1>3, <1>4, <1>5, <1>6, <1>7 DEF Next

\* A failed send is never forgotten.
LEMMA FailsGrow == ASSUME sendFails \in Nat, [Next]_vars PROVE sendFails' \in {sendFails, sendFails + 1}
<1>1. ASSUME NEW t \in Callers, CallerStep(t) PROVE sendFails' \in {sendFails, sendFails + 1}
  BY <1>1 DEF CallerStep, CallAlloc, CallIdr, CallIdrInterrupted, SendLock, SendLockFails, SendFragment,
              SendFragmentFails, CallFail, CallReap, CallReturn
<1>2. CASE RecvNotif \/ RecvRply \/ RecvCont \/ \E c \in Conns : NotifWork(c)
  BY <1>2 DEF RecvNotif, RecvRply, RecvCont, NotifWork, callVars
<1>3. CASE RmRecv \/ RmReply \/ RmNotify \/ RmSend \/ RmCut
  BY <1>3 DEF RmRecv, RmReply, RmNotify, RmSend, RmCut, callVars
<1>4. CASE UNCHANGED vars
  BY <1>4 DEF vars, callVars
<1> QED
  BY <1>1, <1>2, <1>3, <1>4 DEF Next

LEMMA IdrFollows == ASSUME Inv PROVE IdrSound
<1>0. Shape /\ Owners /\ Numbers
  BY DEF Inv
<1>1. \A t \in Callers : pc[t] \in {"lock", "send", "wait"} => idr[conn[mine[t]].seq] = mine[t]
  BY <1>0 DEF Numbers, Numbered
<1>2. ASSUME sendFails = 0, NEW s \in Seqs, idr[s] # NONE PROVE Live(idr[s])
  <2>1. IsFiniteSet(Lost) /\ Cardinality(Lost) = 0
    <3>1. IsFiniteSet(Seqs) /\ Lost \subseteq Seqs
      BY FS_Interval, SizesAssumption DEF Seqs, Lost
    <3>2. IsFiniteSet(Lost) /\ Cardinality(Lost) \in Nat
      BY <3>1, FS_Subset, FS_CardinalityType
    <3> QED
      BY <1>0, <1>2, <3>2 DEF Numbers
  <2>2. Lost = {}
    BY <2>1, FS_EmptySet
  <2>3. ~Freed(idr[s])
    BY <1>2, <2>2 DEF Lost
  <2>4. PICK t \in Callers : Numbered(t) /\ mine[t] = idr[s]
    BY <1>0, <1>2, <2>3 DEF Numbers
  <2> QED
    BY <1>0, <2>4 DEF Owners, Numbered
<1> QED
  BY <1>1, <1>2 DEF IdrSound

\* The invariant holds in every state in which the idr still has room for every
\* caller beside the numbers that failed sends have leaked.
THEOREM RpcInvariant == Spec => [](Roomy => Inv)
<1> DEFINE J == sendFails \in Nat /\ (Roomy => Inv)
<1>1. Init => J
  <2>1. Init => sendFails \in Nat
    BY DEF Init
  <2> QED
    BY <2>1, InitInv
<1>2. J /\ [Next]_vars => J'
  <2>1. SUFFICES ASSUME J, [Next]_vars PROVE J'
    OBVIOUS
  <2>2. sendFails' \in Nat /\ sendFails <= sendFails'
    BY <2>1, FailsGrow
  <2>3. Roomy' => Roomy
    <3>1. Cardinality(Callers) \in Nat
      BY CallersAssumption, FS_CardinalityType
    <3> QED
      BY <2>1, <2>2, <3>1, SizesAssumption DEF Roomy
  <2> QED
    BY <2>1, <2>2, <2>3, NextInv
<1>3. J => (Roomy => Inv)
  OBVIOUS
<1> QED
  BY <1>1, <1>2, <1>3, PTL DEF Spec

\* Every payload that gh_rm_call returns is the whole series sent in answer to its
\* own request, and every payload passed to the notifier chain is a whole
\* notification, whatever series are cut short, sends fail or memory is lacking in
\* between.
THEOREM RepliesStayIntact == Spec => [](Roomy => RepliesIntact)
<1>1. Inv => RepliesIntact
  BY DEF Inv
<1> QED
  BY <1>1, RpcInvariant, PTL

\* gh_rm_recv_task_fn, gh_rm_abort_connection and gh_rm_process_rply never follow a
\* pointer to a connection that gh_rm_call or a notification work has freed.
THEOREM NoFreedConnectionUsed == Spec => [](Roomy => NoUseAfterFree)
<1>1. Inv => NoUseAfterFree
  BY DEF Inv
<1> QED
  BY <1>1, RpcInvariant, PTL

\* From idr_alloc_cyclic to the reply, gh_rm_call_idr maps the number of a call to
\* its own connection, also after failed sends; without those, it holds live
\* connections only.
THEOREM IdrStaysSound == Spec => [](Roomy => IdrSound)
<1>1. Inv => IdrSound
  BY IdrFollows
<1> QED
  BY <1>1, RpcInvariant, PTL

-----------------------------------------------------------------------------
(* The answers                                                             *)

\* What the Resource Manager has answered: nothing to a request that is not yet, or
\* not wholly, with it; and what a reply packet or a connection that has received one
\* says of the answer is so.
AnswerOf(r) == [sent |-> TRUE, num |-> r.num, err |-> r.err]
Unanswered(c) == answer[c] = NoAnswer
Bears(cs, c) == cs[c].st = "live" => /\ cs[c].type = "RPLY" => answer[c] = AnswerOf(cs[c])
                                     /\ cs[c].done => cs[c].type = "RPLY"
Answers ==
  /\ answer \in [CallConns -> [sent : BOOLEAN, num : 0..MaxFrags, err : BOOLEAN]]
  /\ \A c \in CallConns : conn[c].st = "unused" => Unanswered(c)
  /\ \A i \in 1..Len(W) : Unanswered(W[i].id)
  /\ \A q \in rmPend : Unanswered(q.id)
  /\ \A t \in Callers : pc[t] \in {"idr", "lock", "send", "fail"} => Unanswered(mine[t])
  /\ \A i \in 1..Len(F) : F[i].type = "RPLY" => answer[F[i].id] = AnswerOf(F[i])
  /\ \A c \in CallConns : Bears(conn, c)
  /\ \A t \in Callers : pc[t] # "idle" => result[t] = NoResult

LEMMA CallerResult ==
  ASSUME Shape, Owners, Answers, NEW t \in Callers, CallerStep(t), NEW u \in Callers, pc'[u] # "idle"
  PROVE  result'[u] = NoResult
<1>0. pc \in [Callers -> Steps] /\ result \in [Callers -> Outcomes] /\ (pc[u] # "idle" => result[u] = NoResult)
  BY DEF Shape, Answers
<1>1. CASE CallAlloc(t)
  BY <1>0, <1>1 DEF CallAlloc, Step
<1>2. CASE Freeing(t)
  BY <1>0, <1>2 DEF Freeing, CallIdrInterrupted, CallFail, CallReturn, Step
<1>3. CASE CallIdr(t) \/ Moving(t)
  <2>1. result' = result /\ pc[t] # "idle"
    BY <1>3 DEF CallIdr, Moving, SendLock, SendLockFails, SendFragment, SendFragmentFails, CallReap, Step
  <2>2. u # t => pc'[u] = pc[u]
    BY <1>0, <1>3 DEF CallIdr, Moving, SendLock, SendLockFails, SendFragment, SendFragmentFails, CallReap, Step
  <2> QED
    BY <1>0, <2>1, <2>2
<1> QED
  BY <1>1, <1>2, <1>3 DEF CallerStep, Freeing, Moving

LEMMA CallerBears ==
  ASSUME Inv, Answers, Roomy, NEW t \in Callers, CallerStep(t), NEW c \in CallConns
  PROVE  Bears(conn, c)'
<1>0. Shape /\ Owners /\ Numbers /\ Senders /\ Bears(conn, c) /\ c \in Conns
  BY Sets DEF Inv, Answers
<1>a. answer' = answer
  BY CallerFrame DEF Untouched, rmVars
<1>1. CASE conn'[c] = conn[c]
  BY <1>0, <1>a, <1>1, Zenon DEF Bears
<1>2. CASE conn'[c].type = "call" /\ ~conn'[c].done
  BY <1>2, Zenon DEF Bears
<1>3. CASE conn'[c].st # "live"
  BY <1>3, Zenon DEF Bears
<1>4. CASE CallAlloc(t)
  <2>1. /\ mine'[t] \in CallConns /\ conn'[mine'[t]].type = "call"
        /\ \A x \in Conns : x # mine'[t] => conn'[x] = conn[x]
    BY <1>0, <1>4, CallerSelf
  <2>2. ~conn'[mine'[t]].done
    BY <1>0, <1>4, CallerSelf, Zenon
  <2> QED
    BY <1>0, <1>1, <1>2, <2>1, <2>2, Zenon
<1>5. CASE CallIdr(t)
  <2>1. PICK s \in Seqs : conn' = [conn EXCEPT ![mine[t]].seq = s]
    BY <1>0, <1>5, IdrAssigns
  <2>2. pc[t] = "idr" /\ mine[t] \in CallConns /\ mine[t] \in Conns
    BY <1>0, <1>5, Sets DEF CallIdr, Step, Owners, Shape
  <2>3. conn[mine[t]].type = "call" /\ ~conn[mine[t]].done
    BY <1>0, <2>2, Zenon DEF Senders
  <2>4. CASE c # mine[t]
    <3>1. conn'[c] = conn[c]
      BY <1>0, <2>1, <2>2, <2>4 DEF Shape
    <3> QED
      BY <1>1, <3>1
  <2>5. CASE c = mine[t]
    <3>1. conn'[c].type = conn[c].type /\ conn'[c].done = conn[c].done
      BY <1>0, <2>1, <2>2, <2>5, SeqSet
    <3> QED
      BY <1>2, <2>3, <2>5, <3>1, Zenon
  <2> QED
    BY <2>4, <2>5
<1>6. CASE Freeing(t)
  <2>1. c # mine[t] => conn'[c] = conn[c]
    BY <1>0, <1>6, CallerConn
  <2>2. conn'[mine[t]].st # "live"
    BY <1>0, <1>6, CallerConn, Records
  <2> QED
    BY <1>1, <1>3, <2>1, <2>2
<1>7. CASE Moving(t)
  <2>1. conn'[c] = conn[c]
    BY <1>0, <1>7, CallerConn
  <2> QED
    BY <1>1, <2>1
<1> QED
  BY <1>4, <1>5, <1>6, <1>7 DEF CallerStep, Freeing, Moving

LEMMA CallerAnswers == ASSUME Inv, Answers, Roomy, NEW t \in Callers, CallerStep(t) PROVE Answers'
<1>0. Shape /\ Owners /\ Numbers
  BY DEF Inv
<1>1. answer' = answer /\ F' = F /\ rmPend' = rmPend
  BY CallerFrame, CallerStreams DEF Untouched, rmVars
<1>2. \A c \in CallConns : conn'[c].st = "unused" => answer'[c] = NoAnswer
  BY <1>1, CallerLeaves DEF Answers, Unanswered
<1>3. \A i \in 1..Len(W') : answer'[W'[i].id] = NoAnswer
  <2>0. \A i \in 1..Len(W) : answer[W[i].id] = NoAnswer
    BY DEF Answers, Unanswered
  <2>1. CASE ~SendFragment(t)
    BY <1>1, <2>0, <2>1, CallerStreams
  <2>2. CASE SendFragment(t)
    <3>1. answer[Packet(t).id] = NoAnswer
      <4>1. pc[t] = "send"
        BY <2>2 DEF SendFragment
      <4> QED
        BY <4>1 DEF Answers, Unanswered, Packet
    <3>2. Len(W') = Len(W) + 1 /\ (\A i \in 1..Len(W) : W'[i] = W[i]) /\ W'[Len(W) + 1] = Packet(t)
      BY <2>2, CallerStreams
    <3>3. \A i \in 1..Len(W') : i \in 1..Len(W) \/ i = Len(W) + 1
      BY <1>0, <3>2, Streams
    <3> QED
      BY <1>1, <2>0, <3>1, <3>2, <3>3
  <2> QED
    BY <2>1, <2>2
<1>4. ASSUME NEW u \in Callers, pc'[u] \in {"idr", "lock", "send", "fail"} PROVE answer'[mine'[u]] = NoAnswer
  <2>1. CASE u # t
    BY <1>0, <1>1, <1>4, <2>1, CallerOthers DEF Answers, Unanswered
  <2>2. CASE u = t /\ CallAlloc(t)
    <3>1. mine'[t] \in CallConns /\ conn[mine'[t]].st = "unused"
      BY <1>0, <2>2, CallerSelf
    <3> QED
      BY <1>1, <2>2, <3>1 DEF Answers, Unanswered
  <2>3. CASE u = t /\ Freeing(t)
    BY <1>0, <1>4, <2>3, CallerSelf
  <2>4. CASE u = t /\ (CallIdr(t) \/ Moving(t))
    <3>1. pc[t] \in {"idr", "lock", "send"}
      BY <1>0, <1>4, <2>4 DEF CallIdr, Moving, SendLock, SendLockFails, SendFragment, SendFragmentFails, CallReap,
         Step, Shape
    <3> QED
      BY <1>0, <1>1, <2>4, <3>1, CallerSelf DEF Answers, Unanswered
  <2> QED
    BY <2>1, <2>2, <2>3, <2>4 DEF CallerStep, Freeing, Moving
<1>5. \A c \in CallConns : Bears(conn, c)'
  BY CallerBears
<1>6. \A u \in Callers : pc'[u] # "idle" => result'[u] = NoResult
  BY <1>0, CallerResult
<1> QED
  BY <1>1, <1>2, <1>3, <1>4, <1>5, <1>6 DEF Answers, Unanswered

\* What the receive task never changes of a reply it is receiving.
SameReply(r, s) == r.type = s.type /\ r.num = s.num /\ r.err = s.err

LEMMA AbortSame == ASSUME Inv, NEW x \in CallConns PROVE SameReply(Aborted(conn)[x], conn[x])
<1>0. conn \in [Conns -> ConnRec] /\ x \in Conns /\ conn[x] \in ConnRec
  BY Sets DEF Inv, Shape
<1>1. CASE x # cur
  BY <1>0, <1>1, Abort DEF SameReply
<1>2. CASE x = cur
  <2>1. CurrentOf(conn, pc, mine, cur, works) /\ cur # NONE
    BY <1>0, <1>2, Sets DEF Inv, Current
  <2>2. conn[cur].type = "RPLY"
    BY <1>2, <2>1, Sets DEF CurrentOf
  <2> DEFINE r == [conn[cur] EXCEPT !.ret = "EIO", !.done = TRUE]
  <2>3. Aborted(conn)[x] = r
    BY <1>0, <1>2, <2>1, <2>2 DEF Aborted
  <2>4. SameReply(r, conn[cur])
    BY <1>0, <1>2 DEF ConnRec, SameReply
  <2> HIDE DEF r
  <2> QED
    BY <1>2, <2>3, <2>4
<1> QED
  BY <1>1, <1>2

LEMMA CompleteSame ==
  ASSUME NEW cs \in [Conns -> ConnRec], NEW c \in Conns, Complete(c, cs), NEW x \in CallConns,
         c \in CallConns => cs[c].type = "RPLY"
  PROVE  SameReply(conn'[x], cs[x])
<1>0. x \in Conns /\ cs[c] \in ConnRec
  BY Sets
<1>1. CASE conn' = cs
  BY <1>1 DEF SameReply
<1>2. CASE conn' = [cs EXCEPT ![c].done = TRUE]
  <2>1. CASE x # c
    <3>1. conn'[x] = cs[x]
      BY <1>0, <1>2, <2>1
    <3> QED
      BY <3>1 DEF SameReply
  <2>2. CASE x = c
    <3> DEFINE r == [cs[c] EXCEPT !.done = TRUE]
    <3>1. conn'[x] = r
      BY <1>0, <1>2, <2>2
    <3>2. SameReply(r, cs[c])
      BY <1>0 DEF ConnRec, SameReply
    <3> HIDE DEF r
    <3> QED
      BY <2>2, <3>1, <3>2
  <2> QED
    BY <2>1, <2>2
<1>3. CASE conn' = [cs EXCEPT ![c] = Released] /\ cs[c].type = "NOTIF"
  <2>1. conn'[x] = cs[x]
    BY <1>0, <1>3
  <2> QED
    BY <2>1 DEF SameReply
<1> QED
  BY <1>1, <1>2, <1>3 DEF Complete

\* A connection bears an answer still if the task leaves it, or what it has of the
\* reply, alone.
LEMMA SameBears ==
  ASSUME NEW c \in CallConns, NEW cs, NEW ds, Bears(cs, c), cs[c].st = "live" => cs[c].type = "RPLY",
         SameReply(ds[c], cs[c]), ds[c].st = cs[c].st
  PROVE  Bears(ds, c)
<1>1. AnswerOf(ds[c]) = AnswerOf(cs[c]) /\ ds[c].type = cs[c].type
  BY Zenon DEF AnswerOf, SameReply
<1> QED
  BY <1>1, Zenon DEF Bears

LEMMA RecvContBears == ASSUME Inv, Answers, RecvCont, NEW c \in CallConns PROVE Bears(conn', c)
<1>0. Shape /\ Bears(conn, c) /\ Handled
  BY RecvContHandled DEF Inv, Answers
<1>1. F[1] = Head1 /\ Head1.type = "CONT"
  <2>1. fromRM # << >> /\ fromRM' = Tail(fromRM) /\ UNCHANGED rmOut /\ Head1.type = "CONT"
    BY DEF RecvCont, Received, rmVars
  <2> QED
    BY <1>0, <2>1, RecvStreams
<1>2. CASE c # cur
  <2>1. conn'[c] = conn[c]
    BY <1>0, <1>1, <1>2 DEF Handled
  <2> QED
    BY <1>0, <2>1, Zenon DEF Bears
<1>3. CASE c = cur
  <2>1. cur \in Conns /\ conn[cur] \in ConnRec /\ conn \in [Conns -> ConnRec]
    BY <1>0, <1>3, Sets, Fields DEF Shape
  <2>2. CurrentOf(conn, pc, mine, cur, works) /\ cur # NONE
    BY <1>3, Sets DEF Inv, Current
  <2>3. conn[cur].type = "RPLY"
    BY <1>3, <2>2, Sets DEF CurrentOf
  <2>4. PICK cs \in [Conns -> ConnRec] : Complete(cur, cs) /\ SameReply(cs[cur], conn[cur])
    <3>1. CASE conn[cur].num # Head1.num
      BY <2>1, <2>2, <3>1 DEF RecvCont, SameReply
    <3>2. CASE conn[cur].num = Head1.num
      <4> DEFINE r == [conn[cur] EXCEPT !.got = conn[cur].got + 1, !.data = Append(conn[cur].data, Head1.piece)]
      <4>1. Complete(cur, [conn EXCEPT ![cur].got = @ + 1, ![cur].data = Append(@, Head1.piece)])
        BY <2>2, <3>2 DEF RecvCont
      <4>2. [conn EXCEPT ![cur].got = @ + 1, ![cur].data = Append(@, Head1.piece)] = [conn EXCEPT ![cur] = r]
        BY <2>1 DEF ConnRec
      <4>3. conn[cur].got + 1 \in Nat /\ Append(conn[cur].data, Head1.piece) \in Seq(Pieces)
        <5>1. Head1 \in Reply
          BY <1>0, RecvStreams DEF RecvCont, Received, rmVars
        <5>2. Head1.piece \in Pieces /\ conn[cur].data \in Seq(Pieces) /\ conn[cur].got \in Nat
          BY <1>0, <2>1, <5>1, Fields DEF Reply
        <5> QED
          BY <5>2
      <4>4. r \in ConnRec /\ SameReply(r, conn[cur])
        <5> DEFINE n == conn[cur].got + 1
                   d == Append(conn[cur].data, Head1.piece)
                   old == conn[cur]
        <5>1. r = [old EXCEPT !.got = n, !.data = d] /\ old \in ConnRec /\ n \in Nat /\ d \in Seq(Pieces)
          BY <2>1, <4>3
        <5> HIDE DEF n, d, old
        <5>2. r \in ConnRec /\ SameReply(r, old)
          <6> HIDE DEF r
          <6> QED
            BY <5>1 DEF ConnRec, SameReply
        <5> QED
          BY <5>2 DEF old
      <4> HIDE DEF r
      <4> QED
        BY <2>1, <4>1, <4>2, <4>4
    <3> QED
      BY <3>1, <3>2
  <2>5. SameReply(conn'[c], cs[c])
    BY <1>3, <2>1, <2>3, <2>4, CompleteSame DEF SameReply
  <2>6. SameReply(conn'[c], conn[c]) /\ conn'[c].st = conn[c].st
    BY <1>0, <1>3, <2>4, <2>5 DEF SameReply, Handled
  <2> QED
    BY <1>0, <1>3, <2>3, <2>6, SameBears
<1> QED
  BY <1>2, <1>3

\* A series that another one ends.
LEMMA AbortBears ==
  ASSUME Inv, Answers, NEW c \in CallConns, SameReply(conn'[c], Aborted(conn)[c]), Handled,
         ~(F[1].type = "RPLY" /\ F[1].id = c)
  PROVE  Bears(conn', c)
<1>0. Bears(conn, c)
  BY DEF Answers
<1>1. CASE c # cur
  <2>1. conn'[c] = conn[c]
    BY <1>1 DEF Handled
  <2> QED
    BY <1>0, <2>1, Zenon DEF Bears
<1>2. CASE c = cur
  <2>1. CurrentOf(conn, pc, mine, cur, works) /\ cur # NONE
    BY <1>2, Sets DEF Inv, Current
  <2>2. conn[cur].type = "RPLY"
    BY <1>2, <2>1, Sets DEF CurrentOf
  <2>3. SameReply(conn'[c], conn[c]) /\ conn'[c].st = conn[c].st
    BY AbortSame DEF SameReply, Handled
  <2> QED
    BY <1>0, <1>2, <2>2, <2>3, SameBears
<1> QED
  BY <1>1, <1>2

LEMMA RecvNotifBears == ASSUME Inv, Answers, RecvNotif, NEW c \in CallConns PROVE Bears(conn', c)
<1>0. Handled /\ Shape
  BY RecvNotifHandled DEF Inv
<1>1. F[1].type = "NOTIF" /\ F[1] = Head1 /\ Head1.msg \in Ids /\ Head1 \in Reply /\ NewConn(NotifConns) \in NotifConns
  <2>1. fromRM # << >> /\ fromRM' = Tail(fromRM) /\ UNCHANGED rmOut /\ Head1.type = "NOTIF"
    BY DEF RecvNotif, Received, rmVars
  <2>2. F[1] = Head1 /\ F[1] \in Reply
    BY <1>0, <2>1, RecvStreams
  <2> QED
    BY <2>1, <2>2, NewNotif
<1>3. CASE conn' = Aborted(conn)
  <2>1. SameReply(conn'[c], Aborted(conn)[c])
    BY <1>3 DEF SameReply
  <2> QED
    BY <1>0, <1>1, <2>1, AbortBears
<1> DEFINE d == NewConn(NotifConns)
           r == Started(Fresh("NOTIF", Head1.msg), Head1)
<1>4. CASE Complete(d, [Aborted(conn) EXCEPT ![d] = r])
  <2>1. d \in NotifConns
    BY <1>1
  <2>2. r \in ConnRec
    <3>1. Fresh("NOTIF", Head1.msg) \in ConnRec
      BY <1>1, Records
    <3> QED
      BY <1>1, <3>1, StartedRecord
  <2> HIDE DEF d, r
  <2> DEFINE cs == [Aborted(conn) EXCEPT ![d] = r]
  <2>3. d \in Conns /\ c # d /\ c \in Conns /\ d \notin CallConns
    BY <2>1, Sets
  <2>4. cs \in [Conns -> ConnRec] /\ cs[c] = Aborted(conn)[c] /\ Complete(d, cs)
    BY <1>4, <2>2, <2>3, Abort, PutConn
  <2> HIDE DEF cs
  <2>5. SameReply(conn'[c], Aborted(conn)[c])
    BY <2>3, <2>4, CompleteSame
  <2> QED
    BY <1>0, <1>1, <2>5, AbortBears
<1> QED
  BY <1>3, <1>4 DEF RecvNotif, ErrorPointer

LEMMA RecvRplyBears == ASSUME Inv, Answers, RecvRply, NEW x \in CallConns PROVE Bears(conn', x)
<1>0. Shape /\ Handled
  BY RecvRplyHandled DEF Inv
<1>1. fromRM # << >> /\ Head1.type = "RPLY" /\ fromRM' = Tail(fromRM) /\ UNCHANGED <<rmOut, answer>>
  BY DEF RecvRply, Received, rmVars
<1>2. Len(F) \in Nat /\ Len(F) > 0 /\ F[1] = Head1 /\ Head1 \in Reply
  BY <1>0, <1>1, RecvStreams
<1> DEFINE c == Head1.id
           ab == Aborted(conn)
           r == [Started(ab[c], Head1) EXCEPT !.err = Head1.err]
           cs == [ab EXCEPT ![c] = r]
<1>3. c \in CallConns /\ idr[Head1.seq] = c /\ conn[c].type = "call" /\ c \in Conns /\ c # NONE
  BY <1>1, ReplyFound, Sets
<1>4. ~conn[c].done
  BY <1>1, ReplyFound, Zenon
<1>5. ab \in [Conns -> ConnRec] /\ ab[c] \in ConnRec
  BY <1>3, Abort
<1>6. CASE conn' = ab
  <2>1. CASE x = c
    <3>1. c # cur
      BY <1>3, Sets DEF Inv, Current, CurrentOf
    <3>2. conn'[c] = conn[c]
      BY <1>3, <1>6, <3>1, Abort
    <3> QED
      BY <2>1, <3>2, Zenon DEF Answers, Bears
  <2>2. CASE x # c
    <3>1. SameReply(conn'[x], Aborted(conn)[x])
      BY <1>6 DEF SameReply
    <3> QED
      BY <1>0, <1>2, <2>2, <3>1, AbortBears
  <2> QED
    BY <2>1, <2>2
<1>7. CASE Complete(c, [Aborted(conn) EXCEPT ![c] = [Started(@, Head1) EXCEPT !.err = Head1.err]])
  <2>1. [Aborted(conn) EXCEPT ![c] = [Started(@, Head1) EXCEPT !.err = Head1.err]] = cs
    BY <1>3, <1>5
  <2>2. r \in ConnRec /\ r.type = "RPLY" /\ r.num = Head1.num /\ r.err = Head1.err
    <3> DEFINE s == Started(ab[c], Head1)
    <3>1. s \in ConnRec /\ s.type = Head1.type /\ s.num = Head1.num
      <4> HIDE DEF s, ab
      <4> QED
        BY <1>1, <1>2, <1>5, StartedRecord DEF s
    <3>2. Head1.err \in BOOLEAN
      BY <1>2 DEF Reply
    <3>3. r = [s EXCEPT !.err = Head1.err]
      OBVIOUS
    <3> HIDE DEF s, r, ab
    <3> QED
      BY <1>1, <3>1, <3>2, <3>3 DEF ConnRec
  <2> HIDE DEF r
  <2>3. cs \in [Conns -> ConnRec] /\ cs[c] = r /\ \A y \in Conns : y # c => cs[y] = ab[y]
    BY <1>3, <1>5, <2>2, PutConn
  <2>4. Complete(c, cs)
    BY <1>7, <2>1
  <2> HIDE DEF cs
  <2>5. SameReply(conn'[x], cs[x])
    BY <1>3, <2>2, <2>3, <2>4, CompleteSame
  <2>6. CASE x = c
    <3>1. conn'[x].type = "RPLY" /\ conn'[x].num = Head1.num /\ conn'[x].err = Head1.err
      BY <2>2, <2>3, <2>5, <2>6 DEF SameReply
    <3>2. answer[x] = AnswerOf(Head1)
      BY <1>1, <1>2, <2>6 DEF Answers
    <3>3. AnswerOf(conn'[x]) = AnswerOf(Head1)
      BY <3>1, Zenon DEF AnswerOf
    <3> QED
      BY <3>1, <3>2, <3>3, Zenon DEF Bears
  <2>7. CASE x # c
    <3>1. SameReply(conn'[x], Aborted(conn)[x])
      BY <2>3, <2>5, <2>7, Sets
    <3> QED
      BY <1>0, <1>2, <2>7, <3>1, AbortBears
  <2> QED
    BY <2>6, <2>7
<1> QED
  BY <1>3, <1>6, <1>7 DEF RecvRply, ErrorPointer

\* A step that leaves the callers and the requests alone.
LEMMA RecvAnswers ==
  ASSUME Inv, Answers, Handled, fromRM # << >>, fromRM' = Tail(fromRM), UNCHANGED <<callVars, toRM, rmVars>>,
         \A c \in CallConns : Bears(conn', c)
  PROVE  Answers'
<1>1. UNCHANGED <<pc, mine, result, rmPend, rmOut, answer>> /\ W' = W
  BY DEF callVars, rmVars, W
<1>2. /\ Len(F) \in Nat /\ Len(F) > 0 /\ Len(F') = Len(F) - 1 /\ \A i \in 1..Len(F') : F'[i] = F[i + 1]
  BY <1>1, RecvStreams DEF Inv
<1>3. \A i \in 1..Len(F') : F'[i].type = "RPLY" => answer[F'[i].id] = AnswerOf(F'[i])
  <2>1. \A i \in 1..Len(F') : i + 1 \in 1..Len(F)
    BY <1>2
  <2> QED
    BY <1>2, <2>1 DEF Answers
<1>4. \A c \in CallConns : conn'[c].st = conn[c].st
  BY DEF Handled
<1>5. \A c \in CallConns : Bears(conn, c)'
  BY <1>1, Zenon DEF Bears
<1> QED
  BY <1>1, <1>3, <1>4, <1>5 DEF Answers, Unanswered

\* A step that leaves the connections and the callers alone.
LEMMA RmAnswers ==
  ASSUME Answers, UNCHANGED <<callVars, answer>>, \A c \in CallConns : conn'[c] = conn[c],
         \A i \in 1..Len(W') : \E j \in 1..Len(W) : W'[i] = W[j],
         \A q \in rmPend' : q \in rmPend \/ \E j \in 1..Len(W) : q = W[j],
         \A i \in 1..Len(F') : F'[i].type = "RPLY" => \E j \in 1..Len(F) : F'[i] = F[j]
  PROVE  Answers'
<1>1. UNCHANGED <<pc, mine, result, answer>>
  BY DEF callVars
<1>2. \A c \in CallConns : Bears(conn, c)'
  BY <1>1, Zenon DEF Answers, Bears
<1>3. \A i \in 1..Len(F') : F'[i].type = "RPLY" => answer[F'[i].id] = AnswerOf(F'[i])
  BY DEF Answers
<1>4. \A i \in 1..Len(W') : Unanswered(W'[i].id)
  BY DEF Answers
<1>5. \A q \in rmPend' : Unanswered(q.id)
  BY DEF Answers
<1> QED
  BY <1>1, <1>2, <1>3, <1>4, <1>5 DEF Answers, Unanswered

LEMMA NotifWorkAnswers == ASSUME Inv, Answers, NEW c \in Conns, NotifWork(c) PROVE Answers'
<1>1. conn' = [conn EXCEPT ![c] = Released] /\ c \in works
  BY DEF NotifWork
<1>2. UNCHANGED <<callVars, answer, rmPend>> /\ W' = W /\ F' = F
  BY DEF NotifWork, rmVars, W, F
<1>3. c \in NotifConns /\ conn \in [Conns -> ConnRec]
  BY <1>1 DEF Inv, Shape
<1>4. \A x \in CallConns : conn'[x] = conn[x]
  BY <1>1, <1>3, Sets
<1> QED
  BY <1>2, <1>4, RmAnswers

LEMMA RmSendAnswers == ASSUME Inv, Answers, RmSend PROVE Answers'
<1>1. UNCHANGED <<callVars, answer, conn, rmPend>> /\ W' = W
  BY DEF RmSend, W
<1>2. F' = F
  BY RmSendStream DEF Inv
<1> QED
  BY <1>1, <1>2, RmAnswers

LEMMA RmCutAnswers == ASSUME Inv, Answers, RmCut PROVE Answers'
<1>1. UNCHANGED <<callVars, answer, conn, rmPend>> /\ W' = W /\ rmOut' = << >> /\ fromRM' = fromRM
  BY DEF RmCut, W
<1>2. fromRM \in Seq(Reply) /\ rmOut \in Seq(Reply) /\ F = fromRM \o rmOut /\ F' = fromRM
  <2>1. fromRM \in Seq(Reply) /\ rmOut \in Seq(Reply)
    BY DEF Inv, Shape
  <2> QED
    BY <1>1, <2>1 DEF F
<1>3. \A i \in 1..Len(F') : i \in 1..Len(F) /\ F'[i] = F[i]
  BY <1>2
<1> QED
  BY <1>1, <1>3, RmAnswers

\* Of a new series only the first packet is no continuation.
LEMMA SeriesAdded ==
  ASSUME Shape, NEW type \in {"RPLY", "NOTIF"}, NEW id \in Int, NEW seq \in Seqs, NEW msg \in Ids,
         NEW n \in 0..MaxFrags, NEW err \in BOOLEAN, rmOut = << >>, fromRM' = fromRM,
         rmOut' = Packets(type, id, seq, msg, n, err)
  PROVE  \A i \in 1..Len(F') : F'[i].type # "CONT" =>
           \/ \E j \in 1..Len(F) : F'[i] = F[j]
           \/ F'[i].type = type /\ F'[i].id = id /\ AnswerOf(F'[i]) = [sent |-> TRUE, num |-> n, err |-> err]
<1> DEFINE P == Packets(type, id, seq, msg, n, err)
           First == [type |-> type, id |-> id, seq |-> seq, msg |-> msg, num |-> n, err |-> err, piece |-> <<id, 0>>]
<1>1. n \in Nat /\ P \in Seq(Reply) /\ Len(P) = n + 1
  BY PacketsOf, SizesAssumption DEF SeriesOf
<1>2. P[1] = First /\ \A k \in 1..(n + 1) : k # 1 => P[k].type = "CONT"
  <2>1. 1 \in 1..(n + 1) /\ 1 - 1 = 0
    BY <1>1
  <2> QED
    BY <2>1 DEF Packets
<1>3. First.type = type /\ First.id = id /\ AnswerOf(First) = [sent |-> TRUE, num |-> n, err |-> err]
  BY DEF AnswerOf
<1>4. fromRM \in Seq(Reply) /\ fromRM \o << >> = fromRM
  BY DEF Shape
<1>5. F = fromRM /\ F' = fromRM \o P
  BY <1>4 DEF F
<1> HIDE DEF P, First
<1>6. Len(fromRM) \in Nat /\ Len(F') = Len(fromRM) + (n + 1)
  <2>1. Len(fromRM \o P) = Len(fromRM) + Len(P) /\ Len(fromRM) \in Nat
    BY <1>1, <1>4
  <2> QED
    BY <1>1, <1>5, <2>1
<1>7. ASSUME NEW i \in 1..Len(F'), F'[i].type # "CONT"
      PROVE  (\E j \in 1..Len(F) : F'[i] = F[j]) \/ F'[i] = First
  <2>1. CASE i <= Len(fromRM)
    BY <1>1, <1>4, <1>5, <1>6, <2>1
  <2>2. CASE i > Len(fromRM)
    <3>1. i - Len(fromRM) \in 1..(n + 1)
      BY <1>1, <1>6, <2>2
    <3>2. F'[i] = P[i - Len(fromRM)]
      BY <1>1, <1>4, <1>5, <1>6, <2>2
    <3>3. i - Len(fromRM) = 1
      BY <1>2, <1>7, <3>1, <3>2
    <3> QED
      BY <1>2, <3>2, <3>3
  <2> QED
    BY <1>6, <2>1, <2>2
<1> QED
  BY <1>3, <1>7

LEMMA RmNotifyAnswers == ASSUME Inv, Answers, RmNotify PROVE Answers'
<1>0. Shape
  BY DEF Inv
<1>1. /\ UNCHANGED <<callVars, answer, conn, rmPend>> /\ W' = W /\ fromRM' = fromRM /\ rmOut = << >>
      /\ notifs' = notifs + 1
  BY DEF RmNotify, W
<1>2. PICK n \in 0..MaxFrags, m \in Msgs : rmOut' = Packets("NOTIF", 0 - notifs', 0, m, n, FALSE)
  BY DEF RmNotify
<1>3. 0 - notifs' \in Int /\ 0 \in Seqs /\ m \in Ids
  BY <1>0, <1>1, FaultsAssumption, Sets DEF Shape, Ids
<1>4. \A i \in 1..Len(F') : F'[i].type = "RPLY" => \E j \in 1..Len(F) : F'[i] = F[j]
  <2>1. SUFFICES ASSUME NEW i \in 1..Len(F'), F'[i].type = "RPLY" PROVE \E j \in 1..Len(F) : F'[i] = F[j]
    OBVIOUS
  <2> DEFINE id == 0 - notifs'
  <2>2. id \in Int /\ rmOut' = Packets("NOTIF", id, 0, m, n, FALSE)
    BY <1>2, <1>3
  <2> HIDE DEF id
  <2>3. \/ \E j \in 1..Len(F) : F'[i] = F[j]
        \/ F'[i].type = "NOTIF"
    BY <1>0, <1>1, <1>3, <2>1, <2>2, SeriesAdded
  <2> QED
    BY <2>1, <2>3
<1> QED
  BY <1>1, <1>4, RmAnswers

LEMMA RmReplyAnswers == ASSUME Inv, Answers, RmReply PROVE Answers'
<1>0. Shape /\ Owners /\ Tokens
  BY DEF Inv
<1>1. PICK q \in rmPend, n \in 0..MaxFrags, err \in BOOLEAN :
        /\ rmOut' = Packets("RPLY", q.id, q.seq, q.msg, n, err) /\ rmPend' = rmPend \ {q}
        /\ answer' = [answer EXCEPT ![q.id] = [sent |-> TRUE, num |-> n, err |-> err]]
  BY Zenon DEF RmReply
<1>2. UNCHANGED <<conn, pc, mine, result>> /\ W' = W /\ rmOut = << >> /\ fromRM' = fromRM
  BY DEF RmReply, callVars, W
<1>3. q.id \in CallConns /\ q.id \in Int /\ q.seq \in Seqs /\ q.msg \in Ids
  <2>1. q \in Request
    BY <1>0 DEF Shape
  <2>2. q.id \in CallConns /\ q.seq \in Seqs /\ q.msg \in Ids
    BY <2>1 DEF Request
  <2>3. q.id \in Nat
    BY <2>2, Sets
  <2>4. q.id \in Int
    BY <2>3
  <2> QED
    BY <2>2, <2>4
<1>4. Waits(conn, pc, mine, q.id, q)
  BY <1>0 DEF Tokens, Waiting
<1>5. conn[q.id].st = "live" /\ conn[q.id].type = "call" /\ \E t \in Callers : mine[t] = q.id /\ pc[t] = "wait"
  BY <1>4, Zenon DEF Waits
<1>d. ~conn[q.id].done
  BY <1>4, Zenon DEF Waits
<1> DEFINE A == [sent |-> TRUE, num |-> n, err |-> err]
<1>6. /\ answer' \in [CallConns -> [sent : BOOLEAN, num : 0..MaxFrags, err : BOOLEAN]]
      /\ answer'[q.id] = A /\ \A x \in CallConns : x # q.id => answer'[x] = answer[x]
  BY <1>1, <1>3 DEF Answers
<1> HIDE DEF A
<1>7. \A c \in CallConns : conn'[c].st = "unused" => answer'[c] = NoAnswer
  BY <1>2, <1>5, <1>6 DEF Answers, Unanswered
<1>8. \A i \in 1..Len(W') : answer'[W'[i].id] = NoAnswer
  <2>1. \A i \in 1..Len(W) : W[i].id \in CallConns /\ W[i].id # q.id /\ answer[W[i].id] = NoAnswer
    BY <1>0, Streams DEF Tokens, Answers, Unanswered
  <2> QED
    BY <1>2, <1>6, <2>1
<1>9. \A r \in rmPend' : answer'[r.id] = NoAnswer
  <2>1. ASSUME NEW r \in rmPend' PROVE r.id \in CallConns /\ r.id # q.id /\ answer[r.id] = NoAnswer
    <3>1. r \in rmPend /\ r # q /\ r \in Request
      BY <1>0, <1>1, <2>1 DEF Shape
    <3>2. r.id # q.id
      BY <1>0, <3>1 DEF Tokens
    <3>3. r.id \in CallConns
      BY <3>1 DEF Request
    <3> QED
      BY <3>1, <3>2, <3>3 DEF Answers, Unanswered
  <2> QED
    BY <1>6, <2>1
<1>10. ASSUME NEW t \in Callers, pc'[t] \in {"idr", "lock", "send", "fail"} PROVE answer'[mine'[t]] = NoAnswer
  <2>1. pc[t] \in {"idr", "lock", "send", "fail"} /\ mine'[t] = mine[t]
    BY <1>2, <1>10
  <2>2. mine[t] \in CallConns /\ mine[t] # q.id
    <3>1. mine[t] \in CallConns /\ mine[t] # NONE
      BY <1>0, <2>1 DEF Owners, Shape
    <3> QED
      BY <1>0, <1>5, <2>1, <3>1 DEF Owners
  <2> QED
    BY <1>6, <2>1, <2>2 DEF Answers, Unanswered
<1>11. ASSUME NEW i \in 1..Len(F'), F'[i].type = "RPLY" PROVE answer'[F'[i].id] = AnswerOf(F'[i])
  <2>1. (\E j \in 1..Len(F) : F'[i] = F[j]) \/ (F'[i].id = q.id /\ AnswerOf(F'[i]) = A)
    <3>1. \A k \in 1..Len(F') : F'[k].type # "CONT" =>
            \/ \E j \in 1..Len(F) : F'[k] = F[j]
            \/ F'[k].type = "RPLY" /\ F'[k].id = q.id /\ AnswerOf(F'[k]) = [sent |-> TRUE, num |-> n, err |-> err]
      BY <1>0, <1>1, <1>2, <1>3, SeriesAdded
    <3> QED
      BY <1>11, <3>1 DEF A
  <2>2. CASE \E j \in 1..Len(F) : F'[i] = F[j]
    <3>1. F'[i].id \in CallConns /\ F'[i].id # q.id /\ answer[F'[i].id] = AnswerOf(F'[i])
      BY <1>0, <1>11, <2>2 DEF Tokens, Answers
    <3> QED
      BY <1>6, <3>1
  <2>3. CASE F'[i].id = q.id /\ AnswerOf(F'[i]) = A
    BY <1>6, <2>3
  <2> QED
    BY <2>1, <2>2, <2>3
<1>12. ASSUME NEW c \in CallConns PROVE Bears(conn, c)'
  <2>1. CASE c = q.id
    BY <1>2, <1>5, <1>d, <2>1, Zenon DEF Bears
  <2>2. CASE c # q.id
    <3>1. answer'[c] = answer[c]
      BY <1>6, <2>2
    <3> QED
      BY <1>2, <3>1, Zenon DEF Answers, Bears
  <2> QED
    BY <2>1, <2>2
<1>13. \A t \in Callers : pc'[t] # "idle" => result'[t] = NoResult
  BY <1>2 DEF Answers
<1> QED
  BY <1>6, <1>7, <1>8, <1>9, <1>10, <1>11, <1>12, <1>13 DEF Answers, Unanswered

LEMMA RmRecvAnswers == ASSUME Inv, Answers, RmRecv PROVE Answers'
<1>0. Shape
  BY DEF Inv
<1> DEFINE a == Len(rmAsm)
           p == toRM[1]
<1>1. /\ toRM # << >> /\ toRM' = Tail(toRM) /\ UNCHANGED <<conn, callVars, answer>> /\ F' = F
  BY DEF RmRecv, F
<1>2. /\ a \in Nat /\ Len(W) \in Nat /\ a < Len(W) /\ p = W[a + 1] /\ \A i \in 1..a : rmAsm[i] = W[i]
      /\ rmAsm' = Append(rmAsm, p) => Len(W') = Len(W) /\ \A i \in 1..Len(W') : W'[i] = W[i]
      /\ rmAsm' = <<p>> => Len(W') = Len(W) - a /\ \A i \in 1..Len(W') : W'[i] = W[i + a]
      /\ rmAsm' = << >> => Len(W') = Len(W) - (a + 1) /\ \A i \in 1..Len(W') : W'[i] = W[i + (a + 1)]
  BY <1>0, <1>1, RmRecvStreams
<1>3. rmAsm' \in {<< >>, <<p>>, Append(rmAsm, p)}
  BY DEF RmRecv
<1>4. \A i \in 1..Len(W') : \E j \in 1..Len(W) : W'[i] = W[j]
  <2>1. SUFFICES ASSUME NEW i \in 1..Len(W') PROVE \E j \in 1..Len(W) : W'[i] = W[j]
    OBVIOUS
  <2>2. CASE rmAsm' = Append(rmAsm, p)
    BY <1>2, <2>2
  <2>3. CASE rmAsm' = <<p>>
    <3>1. i + a \in 1..Len(W) /\ W'[i] = W[i + a]
      BY <1>2, <2>3
    <3> QED
      BY <3>1
  <2>4. CASE rmAsm' = << >>
    <3>1. i + (a + 1) \in 1..Len(W) /\ W'[i] = W[i + (a + 1)]
      BY <1>2, <2>4
    <3> QED
      BY <3>1
  <2> QED
    BY <1>3, <2>2, <2>3, <2>4
<1>5. \A q \in rmPend' : q \in rmPend \/ \E j \in 1..Len(W) : q = W[j]
  <2>1. rmPend' \subseteq rmPend \cup {p} \cup (IF rmAsm = << >> THEN {} ELSE {Append(rmAsm, p)[1]})
    <3>1. <<p>>[1] = p
      OBVIOUS
    <3> QED
      BY <3>1 DEF RmRecv
  <2>2. a + 1 \in 1..Len(W) /\ p = W[a + 1]
    BY <1>2
  <2>3. ASSUME rmAsm # << >> PROVE 1 \in 1..Len(W) /\ Append(rmAsm, p)[1] = W[1]
    <3>1. rmAsm \in Seq(Request) /\ toRM \in Seq(Request) /\ toRM # << >>
      BY <1>0, <1>1 DEF Shape
    <3>2. a > 0 /\ p \in Request
      BY <2>3, <3>1
    <3>3. Append(rmAsm, p)[1] = rmAsm[1]
      BY <3>1, <3>2
    <3> QED
      BY <1>2, <3>2, <3>3
  <2> HIDE DEF p
  <2> QED
    BY <2>1, <2>2, <2>3
<1> QED
  BY <1>1, <1>4, <1>5, RmAnswers

LEMMA NextAnswers == ASSUME Inv, Answers, Roomy, [Next]_vars PROVE Answers'
<1>1. ASSUME NEW t \in Callers, CallerStep(t) PROVE Answers'
  BY <1>1, CallerAnswers
<1>2. CASE RecvNotif
  <2>1. fromRM # << >> /\ fromRM' = Tail(fromRM) /\ UNCHANGED <<callVars, toRM, rmVars>>
    BY <1>2 DEF RecvNotif, Received
  <2> QED
    BY <1>2, <2>1, RecvNotifHandled, RecvNotifBears, RecvAnswers
<1>3. CASE RecvRply
  <2>1. fromRM # << >> /\ fromRM' = Tail(fromRM) /\ UNCHANGED <<callVars, toRM, rmVars>>
    BY <1>3 DEF RecvRply, Received
  <2> QED
    BY <1>3, <2>1, RecvRplyHandled, RecvRplyBears, RecvAnswers
<1>4. CASE RecvCont
  <2>1. fromRM # << >> /\ fromRM' = Tail(fromRM) /\ UNCHANGED <<callVars, toRM, rmVars>>
    BY <1>4 DEF RecvCont, Received
  <2> QED
    BY <1>4, <2>1, RecvContHandled, RecvContBears, RecvAnswers
<1>5. ASSUME NEW c \in Conns, NotifWork(c) PROVE Answers'
  BY <1>5, NotifWorkAnswers
<1>6. CASE RmRecv \/ RmReply \/ RmNotify \/ RmSend \/ RmCut
  BY <1>6, RmRecvAnswers, RmReplyAnswers, RmNotifyAnswers, RmSendAnswers, RmCutAnswers
<1>7. CASE UNCHANGED vars
  <2>1. UNCHANGED <<callVars, answer, conn, rmPend>> /\ W' = W /\ F' = F
    BY <1>7 DEF vars, rmVars, W, F
  <2> QED
    BY <2>1, RmAnswers
<1> QED
  BY <1>1, <1>2, <1>3, <1>4, <1>5, <1>6, <1>7 DEF Next

LEMMA InitAnswers == ASSUME Init PROVE Answers
<1>1. /\ answer = [c \in CallConns |-> NoAnswer] /\ conn = [c \in Conns |-> Unused] /\ rmPend = {}
      /\ pc = [t \in Callers |-> "idle"]
  BY DEF Init
<1>2. W = << >> /\ F = << >> /\ Len(W) = 0 /\ Len(F) = 0
  BY DEF Init, W, F
<1>3. NoAnswer \in [sent : BOOLEAN, num : 0..MaxFrags, err : BOOLEAN]
  BY Sets DEF NoAnswer
<1>4. \A c \in CallConns : Bears(conn, c)
  <2>1. \A c \in CallConns : conn[c].st # "live"
    BY <1>1, Sets DEF Unused
  <2> QED
    BY <2>1, Zenon DEF Bears
<1> QED
  BY <1>1, <1>2, <1>3, <1>4 DEF Answers, Unanswered

-----------------------------------------------------------------------------
(* gh_rm_call implements the remote procedure call of GhRpc                *)

\* The refinement mapping, and what changes it.
Stages == [c \in CallConns |-> Stage(c)]
Gots   == [t \in Callers |-> [code |-> result[t].code, data |-> result[t].data]]
Abstract == <<mine, Stages, answer, Gots, notifs, delivered>>

LEMMA StageOf ==
  ASSUME NEW c \in CallConns
  PROVE  /\ conn[c].st = "unused" => Stage(c) = "new"
         /\ conn[c].st = "freed" => Stage(c) = "over"
         /\ conn[c].st = "live" /\ answer[c] = NoAnswer => Stage(c) = "open"
         /\ conn[c].st = "live" => \A r : answer[c] = AnswerOf(r) => Stage(c) = "answered"
BY DEF Stage, Freed, NoAnswer, AnswerOf

LEMMA StageNext ==
  ASSUME NEW c \in CallConns
  PROVE  /\ conn'[c].st = "freed" => Stage(c)' = "over"
         /\ conn'[c].st = "live" /\ answer'[c] = NoAnswer => Stage(c)' = "open"
         /\ conn'[c].st = "live" =>
              \A n, e : answer'[c] = [sent |-> TRUE, num |-> n, err |-> e] => Stage(c)' = "answered"
         /\ conn'[c].st = conn[c].st /\ answer'[c] = answer[c] => Stage(c)' = Stage(c)
BY DEF Stage, Freed, NoAnswer

LEMMA StagesPut ==
  ASSUME NEW c \in CallConns, NEW v, Stage(c)' = v, \A x \in CallConns : x # c => Stage(x)' = Stage(x)
  PROVE  Stages' = [Stages EXCEPT ![c] = v] /\ Stages[c] = Stage(c)
BY DEF Stages

LEMMA GotsPut ==
  ASSUME Shape, NEW t \in Callers, NEW r \in Outcomes, result' = [result EXCEPT ![t] = r]
  PROVE  Gots' = [Gots EXCEPT ![t] = [code |-> r.code, data |-> r.data]]
BY DEF Gots, Shape

\* A step that changes neither who calls, nor what is allocated, answered, returned
\* or notified.
LEMMA NoRpcStep ==
  ASSUME UNCHANGED <<mine, answer, result, notifs, delivered>>, \A c \in CallConns : conn'[c].st = conn[c].st
  PROVE  UNCHANGED Abstract
<1>1. \A c \in CallConns : Stage(c)' = Stage(c)
  BY StageNext
<1> QED
  BY <1>1 DEF Abstract, Stages, Gots

LEMMA CallIsRpc ==
  ASSUME Inv, Answers, Roomy, NEW t \in Callers, CallAlloc(t)
  PROVE  \E c \in CallConns : Rpc!Call(t, c)
<1>0. Shape /\ Owners /\ Numbers /\ CallerStep(t)
  BY DEF Inv, CallerStep
<1>1. PICK c \in CallConns : mine' = [mine EXCEPT ![t] = c]
  BY <1>0, CallAssigns
<1>2. /\ conn[c].st = "unused" /\ conn'[c].st = "live" /\ \A x \in Conns : x # c => conn'[x] = conn[x]
  <2>1. mine'[t] = c
    BY <1>0, <1>1 DEF Shape
  <2> QED
    BY <1>0, <2>1, CallerSelf
<1>3. UNCHANGED <<answer, notifs, delivered>> /\ mine[t] = 0
  BY <1>0, CallerFrame, CallerConn DEF Untouched, rmVars, workVars, NONE
<1>4. Stages[c] = "new" /\ Stages' = [Stages EXCEPT ![c] = "open"]
  <2>1. answer'[c] = NoAnswer
    BY <1>2, <1>3 DEF Answers, Unanswered
  <2>2. Stage(c) = "new" /\ Stage(c)' = "open"
    BY <1>2, <2>1, StageOf, StageNext
  <2>3. \A x \in CallConns : x # c => Stage(x)' = Stage(x)
    BY <1>2, <1>3, Sets, StageNext
  <2> QED
    BY <2>2, <2>3, StagesPut
<1>5. Gots' = [Gots EXCEPT ![t] = Rpc!Nothing]
  <2>1. result' = [result EXCEPT ![t] = NoResult] /\ NoResult \in Outcomes
    BY EmptyIsSeq, Sets, Zenon DEF CallAlloc, NoResult, Outcomes, Codes
  <2>2. [code |-> NoResult.code, data |-> NoResult.data] = Rpc!Nothing
    BY DEF NoResult, Rpc!Nothing
  <2> QED
    BY <1>0, <2>1, <2>2, GotsPut
<1> QED
  BY <1>1, <1>3, <1>4, <1>5 DEF Rpc!Call, Rpc!tellVars, Stages, Gots

\* The end of a call, whose result is r.
LEMMA EndIsRpc ==
  ASSUME Inv, Answers, Roomy, NEW t \in Callers, Freeing(t), NEW r \in Outcomes, result' = [result EXCEPT ![t] = r]
  PROVE  \E c \in CallConns :
           /\ mine[t] = c /\ conn[c].st = "live" /\ Stages[c] = Stage(c) /\ UNCHANGED <<answer, notifs, delivered>>
           /\ Rpc!Ends(t, c) /\ Gots' = [Gots EXCEPT ![t] = [code |-> r.code, data |-> r.data]]
<1>0. Shape /\ Owners /\ Numbers /\ CallerStep(t)
  BY DEF Inv, CallerStep, Freeing
<1>1. pc[t] # "idle" /\ mine' = [mine EXCEPT ![t] = NONE]
  BY DEF Freeing, CallIdrInterrupted, CallFail, CallReturn, Step
<1>2. PICK c \in CallConns : c = mine[t]
  BY <1>0, <1>1 DEF Owners, Shape
<1>3. /\ conn[c].st = "live" /\ conn'[c].st = "freed" /\ \A x \in CallConns : x # c => conn'[x] = conn[x]
  <2>1. conn[c].st = "live"
    BY <1>0, <1>1, <1>2 DEF Owners, Live
  <2>2. conn'[c] = Released /\ \A x \in Conns : x # c => conn'[x] = conn[x]
    BY <1>0, <1>2, CallerConn
  <2> QED
    BY <2>1, <2>2, Records, Sets
<1>4. UNCHANGED <<answer, notifs, delivered>>
  BY <1>0, CallerFrame DEF Untouched, rmVars, workVars
<1>5. Stages' = [Stages EXCEPT ![c] = "over"] /\ Stages[c] = Stage(c)
  <2>1. Stage(c)' = "over" /\ \A x \in CallConns : x # c => Stage(x)' = Stage(x)
    BY <1>3, <1>4, StageNext
  <2> QED
    BY <2>1, StagesPut
<1>6. Gots' = [Gots EXCEPT ![t] = [code |-> r.code, data |-> r.data]]
  BY <1>0, GotsPut
<1>7. Rpc!Ends(t, c)
  BY <1>1, <1>2, <1>5 DEF Rpc!Ends, Stages, NONE
<1> QED
  BY <1>2, <1>3, <1>4, <1>5, <1>6, <1>7

LEMMA FailIsRpc ==
  ASSUME Inv, Answers, Roomy, NEW t \in Callers, CallIdrInterrupted(t) \/ CallFail(t)
  PROVE  \E c \in CallConns : Rpc!Fail(t, c)
<1>0. Shape /\ pc[t] \in {"idr", "fail"}
  BY DEF Inv, CallIdrInterrupted, CallFail, Step
<1>1. PICK code \in {"ESEND", "ERESTARTSYS"} : result' = [result EXCEPT ![t].code = code]
  BY DEF CallIdrInterrupted, CallFail
<1> DEFINE r == [NoResult EXCEPT !.code = code]
<1>2. result[t] = NoResult /\ NoResult \in Outcomes
  BY <1>0, EmptyIsSeq, Sets, Zenon DEF Answers, NoResult, Outcomes, Codes
<1>3. result' = [result EXCEPT ![t] = r]
  BY <1>0, <1>1, <1>2 DEF Shape
<1>4. r \in Outcomes /\ r.code = code /\ r.data = << >>
  BY <1>2 DEF Outcomes, Codes, NoResult
<1> HIDE DEF r
<1>5. PICK c \in CallConns :
        /\ mine[t] = c /\ conn[c].st = "live" /\ Stages[c] = Stage(c) /\ UNCHANGED <<answer, notifs, delivered>>
        /\ Rpc!Ends(t, c) /\ Gots' = [Gots EXCEPT ![t] = [code |-> r.code, data |-> r.data]]
  BY <1>3, <1>4, EndIsRpc DEF Freeing
<1>6. Stages[c] = "open"
  <2>1. answer[c] = NoAnswer
    BY <1>0, <1>5 DEF Answers, Unanswered
  <2> QED
    BY <1>5, <2>1, StageOf
<1>7. Gots' = [Gots EXCEPT ![t] = Rpc!Error(code)]
  BY <1>4, <1>5 DEF Rpc!Error
<1> QED
  BY <1>5, <1>6, <1>7 DEF Rpc!Fail, Rpc!tellVars, Stages, Gots

LEMMA ReturnIsRpc ==
  ASSUME Inv, Answers, Roomy, NEW t \in Callers, CallReturn(t)
  PROVE  \E c \in CallConns : Rpc!Return(t, c)
<1>0. Shape /\ Owners /\ Payloads /\ pc[t] = "reap"
  BY DEF Inv, CallReturn, Step
<1>1. mine[t] \in CallConns /\ result' = [result EXCEPT ![t] = Outcome(mine[t])]
  BY <1>0 DEF CallReturn, Owners, Shape
<1>2. PICK r \in Outcomes : r = Outcome(mine[t])
  BY <1>0, <1>1, OutcomeType
<1>3. PICK c \in CallConns :
        /\ mine[t] = c /\ conn[c].st = "live" /\ Stages[c] = Stage(c) /\ UNCHANGED <<answer, notifs, delivered>>
        /\ Rpc!Ends(t, c) /\ Gots' = [Gots EXCEPT ![t] = [code |-> r.code, data |-> r.data]]
  BY <1>1, <1>2, EndIsRpc DEF Freeing
<1>4. conn[c].done
  BY <1>0, <1>3, Zenon DEF Payloads
<1>5. answer[c] = AnswerOf(conn[c])
  <2>1. Bears(conn, c)
    BY DEF Answers
  <2> QED
    BY <1>3, <1>4, <2>1, Zenon DEF Bears
<1>6. Stages[c] = "answered" /\ answer[c].num = conn[c].num
  <2>1. Stage(c) = "answered"
    BY <1>3, <1>5, StageOf, Zenon
  <2> QED
    BY <1>3, <1>5, <2>1 DEF AnswerOf
<1>7. answer[c].err = conn[c].err
  BY <1>5 DEF AnswerOf
<1> DEFINE out == [code |-> r.code, data |-> r.data]
<1>8. out \in IF answer[c].err THEN {Rpc!Error("RMERR")} ELSE {Rpc!Payload(c, answer[c].num), Rpc!Error("EIO")}
  <2>1. CASE conn[c].err
    <3>1. r = [NoResult EXCEPT !.code = "RMERR"]
      BY <1>2, <1>3, <2>1, Zenon DEF Outcome
    <3>2. out = Rpc!Error("RMERR")
      BY <3>1 DEF NoResult, Rpc!Error
    <3> HIDE DEF out
    <3> QED
      BY <1>7, <2>1, <3>2, Zenon
  <2>2. CASE ~conn[c].err /\ conn[c].ret = "EIO"
    <3>1. r = [NoResult EXCEPT !.code = "EIO"]
      BY <1>2, <1>3, <2>2, Zenon DEF Outcome
    <3>2. out = Rpc!Error("EIO")
      BY <3>1 DEF NoResult, Rpc!Error
    <3> HIDE DEF out
    <3> QED
      BY <1>7, <2>2, <3>2, Zenon
  <2>3. CASE ~conn[c].err /\ conn[c].ret # "EIO"
    <3>1. r = [code |-> "payload", id |-> c, num |-> conn[c].num, data |-> conn[c].data]
      BY <1>2, <1>3, <2>3, Zenon DEF Outcome
    <3>2. conn[c].ret = "0"
      BY <1>0, <2>3, Fields, Sets
    <3>3. conn[c].data = Series(c, conn[c].num)
      BY <1>0, <1>3, <1>4, <3>2, Zenon DEF Payloads, HasReply
    <3>4. out = Rpc!Payload(c, answer[c].num)
      BY <1>6, <3>1, <3>3 DEF Rpc!Payload, Rpc!Pieces, Series
    <3> HIDE DEF out
    <3> QED
      BY <1>7, <2>3, <3>4, Zenon
  <2> QED
    BY <2>1, <2>2, <2>3
<1> HIDE DEF out
<1>9. Gots' = [Gots EXCEPT ![t] = out]
  BY <1>3 DEF out
<1> QED
  BY <1>3, <1>6, <1>8, <1>9, Zenon DEF Rpc!Return, Rpc!tellVars, Stages, Gots

LEMMA AnswerIsRpc == ASSUME Inv, Answers, RmReply PROVE \E c \in CallConns : Rpc!Answer(c)
<1>0. Shape /\ Tokens
  BY DEF Inv
<1>1. PICK q \in rmPend, n \in 0..MaxFrags, err \in BOOLEAN :
        answer' = [answer EXCEPT ![q.id] = [sent |-> TRUE, num |-> n, err |-> err]]
  BY Zenon DEF RmReply
<1>2. UNCHANGED <<conn, mine, result, notifs, delivered>>
  BY DEF RmReply, callVars, workVars
<1>3. PICK c \in CallConns : c = q.id
  BY <1>0 DEF Shape, Request
<1>4. conn[c].st = "live" /\ answer[c] = NoAnswer
  <2>1. Waits(conn, pc, mine, c, q)
    BY <1>0, <1>3 DEF Tokens, Waiting
  <2> QED
    BY <1>3, <2>1, Zenon DEF Waits, Answers, Unanswered
<1>5. answer'[c] = [sent |-> TRUE, num |-> n, err |-> err] /\ \A x \in CallConns : x # c => answer'[x] = answer[x]
  BY <1>1, <1>3 DEF Answers
<1>6. Stages[c] = "open" /\ Stages' = [Stages EXCEPT ![c] = "answered"]
  <2>1. Stage(c) = "open" /\ Stage(c)' = "answered"
    BY <1>2, <1>4, <1>5, StageOf, StageNext
  <2>2. \A x \in CallConns : x # c => Stage(x)' = Stage(x)
    BY <1>2, <1>5, StageNext
  <2> QED
    BY <2>1, <2>2, StagesPut
<1>7. Gots' = Gots
  BY <1>2 DEF Gots
<1> QED
  BY <1>1, <1>2, <1>3, <1>6, <1>7, Zenon DEF Rpc!Answer, Rpc!tellVars, Stages, Gots

\* The notifier chain is called with a whole notification, or the payload is dropped.
LEMMA DeliverIsRpc ==
  ASSUME Inv, NEW c \in Conns, NotifWork(c)
  PROVE  Rpc!Deliver \/ UNCHANGED Abstract
<1>0. Shape /\ Payloads
  BY DEF Inv
<1>1. /\ c \in works /\ c \in NotifConns /\ conn' = [conn EXCEPT ![c] = Released]
      /\ UNCHANGED <<mine, answer, result, notifs>>
  BY <1>0 DEF NotifWork, Shape, callVars, rmVars
<1>2. \A x \in CallConns : conn'[x] = conn[x]
  BY <1>0, <1>1, Sets DEF Shape
<1>3. UNCHANGED <<mine, Stages, answer, Gots, notifs>>
  <2>1. \A x \in CallConns : Stage(x)' = Stage(x)
    BY <1>1, <1>2, StageNext
  <2> QED
    BY <1>1, <2>1 DEF Stages, Gots
<1>4. CASE delivered' = delivered
  BY <1>3, <1>4 DEF Abstract
<1>5. CASE delivered' = delivered \cup {[num |-> conn[c].num, data |-> conn[c].data]}
  <2>1. PICK k \in 1..notifs : conn[c].data = Series(0 - k, conn[c].num)
    BY <1>0, <1>1, Zenon DEF Payloads, HasNotif
  <2>2. conn[c].num \in 0..MaxFrags
    BY <1>0, Fields
  <2>3. Series(0 - k, conn[c].num) = Rpc!Pieces(0 - k, conn[c].num)
    BY DEF Series, Rpc!Pieces
  <2>4. delivered' = delivered \cup {[num |-> conn[c].num, data |-> Rpc!Pieces(0 - k, conn[c].num)]}
    BY <1>5, <2>1, <2>3, Zenon
  <2> QED
    BY <1>3, <2>2, <2>4, Zenon DEF Rpc!Deliver, Rpc!callsVars, Stages, Gots
<1> QED
  BY <1>4, <1>5 DEF NotifWork

LEMMA NextIsRpc ==
  ASSUME Inv, Answers, Roomy, [Next]_vars
  PROVE  [Rpc!RpcNext]_(Rpc!rpcVars)
<1>0. Shape /\ Owners /\ Numbers
  BY DEF Inv
<1>1. SUFFICES ASSUME ~Rpc!RpcNext PROVE UNCHANGED Abstract
  BY DEF Rpc!rpcVars, Abstract, Stages, Gots
<1>2. ASSUME NEW t \in Callers, CallerStep(t) PROVE UNCHANGED Abstract
  <2>1. CASE CallAlloc(t)
    BY <1>1, <2>1, CallIsRpc DEF Rpc!RpcNext
  <2>2. CASE CallIdrInterrupted(t) \/ CallFail(t)
    BY <1>1, <2>2, FailIsRpc DEF Rpc!RpcNext
  <2>3. CASE CallReturn(t)
    BY <1>1, <2>3, ReturnIsRpc DEF Rpc!RpcNext
  <2>4. CASE Moving(t) \/ CallIdr(t)
    <3>1. UNCHANGED <<mine, result>>
      BY <2>4 DEF CallIdr, Moving, SendLock, SendLockFails, SendFragment, SendFragmentFails, CallReap
    <3>2. UNCHANGED <<answer, notifs, delivered>>
      BY <1>2, CallerFrame DEF Untouched, rmVars, workVars
    <3>3. \A c \in CallConns : conn'[c].st = conn[c].st
      <4>1. CASE Moving(t)
        BY <1>0, <1>2, <4>1, CallerConn
      <4>2. CASE CallIdr(t)
        <5>1. PICK s \in Seqs : conn' = [conn EXCEPT ![mine[t]].seq = s]
          BY <1>0, <4>2, IdrAssigns
        <5>2. mine[t] \in Conns
          BY <1>0, <4>2, Sets DEF CallIdr, Step, Owners, Shape
        <5> QED
          BY <1>0, <5>1, <5>2, SeqSet, Sets
      <4> QED
        BY <2>4, <4>1, <4>2
    <3> QED
      BY <3>1, <3>2, <3>3, NoRpcStep
  <2> QED
    BY <1>2, <2>1, <2>2, <2>3, <2>4 DEF CallerStep, Moving
<1>3. CASE RecvNotif \/ RecvRply \/ RecvCont
  <2>1. Handled
    BY <1>3, RecvNotifHandled, RecvRplyHandled, RecvContHandled
  <2>2. UNCHANGED <<mine, answer, result, notifs, delivered>>
    BY <1>3 DEF RecvNotif, RecvRply, RecvCont, callVars, rmVars
  <2> QED
    BY <2>1, <2>2, NoRpcStep DEF Handled
<1>4. ASSUME NEW c \in Conns, NotifWork(c) PROVE UNCHANGED Abstract
  BY <1>1, <1>4, DeliverIsRpc DEF Rpc!RpcNext
<1>5. CASE RmReply
  BY <1>1, <1>5, AnswerIsRpc DEF Rpc!RpcNext
<1>6. CASE RmRecv \/ RmSend \/ RmCut
  <2>1. UNCHANGED <<conn, mine, answer, result, notifs, delivered>>
    BY <1>6 DEF RmRecv, RmSend, RmCut, callVars, workVars
  <2> QED
    BY <2>1, NoRpcStep
<1>8. CASE RmNotify
  <2>1. UNCHANGED <<conn, mine, answer, result, delivered>> /\ notifs' = notifs + 1
    BY <1>8 DEF RmNotify, callVars, workVars
  <2>2. UNCHANGED <<Stages, Gots>>
    BY <2>1 DEF Stages, Gots, Stage, Freed
  <2>3. Rpc!Notify
    BY <2>1, <2>2 DEF Rpc!Notify, Rpc!callsVars, Stages, Gots
  <2> QED
    BY <1>1, <2>3 DEF Rpc!RpcNext
<1>7. CASE UNCHANGED vars
  <2>1. UNCHANGED <<conn, mine, answer, result, notifs, delivered>>
    BY <1>7 DEF vars, callVars, rmVars, workVars
  <2> QED
    BY <2>1, NoRpcStep
<1> QED
  BY <1>2, <1>3, <1>4, <1>5, <1>6, <1>7, <1>8 DEF Next

LEMMA InitIsRpc == ASSUME Init PROVE Rpc!RpcInit
<1>1. /\ conn = [c \in Conns |-> Unused] /\ mine = [t \in Callers |-> 0] /\ result = [t \in Callers |-> NoResult]
      /\ answer = [c \in CallConns |-> NoAnswer] /\ notifs = 0 /\ delivered = {}
  BY DEF Init, NONE
<1>2. Stages = [c \in CallConns |-> "new"]
  <2>1. \A c \in CallConns : Stage(c) = "new"
    BY <1>1, StageOf, Sets DEF Unused
  <2> QED
    BY <2>1 DEF Stages
<1>3. Gots = [t \in Callers |-> Rpc!Nothing]
  <2>1. [code |-> NoResult.code, data |-> NoResult.data] = Rpc!Nothing
    BY DEF NoResult, Rpc!Nothing
  <2> QED
    BY <1>1, <2>1 DEF Gots
<1>4. NoAnswer = Rpc!NoReply
  BY DEF NoAnswer, Rpc!NoReply
<1> QED
  BY <1>1, <1>2, <1>3, <1>4 DEF Rpc!RpcInit, Stages, Gots

\* gh_rm_call and the receive task implement the remote procedure call of GhRpc, as long
\* as the idr has room: a request is answered at most once, by what the call then
\* returns, whole, or as an error, one whose sending failed is never answered, and
\* notifications are delivered whole, whatever series are cut short, sends fail or
\* memory is lacking in between.
THEOREM RpcRefined == Spec /\ []Roomy => RefinesRpc
<1> DEFINE J == Inv /\ Answers
<1>1. Init => J /\ Rpc!RpcInit
  BY InitInv, InitAnswers, InitIsRpc
<1>2. J /\ Roomy /\ [Next]_vars => J' /\ [Rpc!RpcNext]_(Rpc!rpcVars)
  BY NextInv, NextAnswers, NextIsRpc
<1> QED
  BY <1>1, <1>2, PTL DEF Spec, RefinesRpc, Rpc!RpcSpec
=============================================================================
