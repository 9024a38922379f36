------------------------- MODULE GhMemParcelProofs -------------------------
(***************************************************************************)
(* Theorems about GhMemParcel: it implements GhMemTransfer, and the list a *)
(* recipient gets is the region, for regions, requests and replies of any  *)
(* size, any number of transfers, and any failing calls.                   *)
(***************************************************************************)
EXTENDS GhMemParcel, SequenceTheorems, WellFoundedInduction, TLAPS

-----------------------------------------------------------------------------
(* The inductive invariant                                                 *)

\* The first k entries of the region, in order; and the same k in an order that
\* leaves the Resource Manager's fragments of a region of m entries unbroken.
Prefix(s, k) == Len(s) = k /\ \A i \in 1..k : s[i] = i
Unbroken(s, k, m) ==
  /\ Len(s) = k
  /\ \A i \in 1..k : s[i] \in 1..k
  /\ \A e \in 1..k : \E i \in 1..k : s[i] = e
  /\ \A i \in 1..(k - 1) : s[i + 1] = s[i] + 1 \/ s[i] % MaxFrag = 0 \/ s[i] = m

Shape ==
  /\ st \in {"none", "partial", "whole"} /\ mapped \in BOOLEAN
  /\ got \in Seq(Nat) /\ sent \in Nat
  /\ own \in OwnSteps /\ n \in 0..MaxEntries /\ idx \in 0..MaxEntries
  /\ rec \in RecSteps /\ mode \in Modes /\ gather \in Seq(Seq(Nat)) /\ view \in Seq(Nat)
  /\ handler \in [Sides -> BOOLEAN] /\ inCall \in [Sides -> BOOLEAN] /\ notifs \subseteq Sides
  /\ transfers \in Nat /\ faults \in Nat /\ unregs \in Nat /\ excuse \in BOOLEAN

\* What the owner has told the Resource Manager so far.
OwnerStage ==
  /\ own = "append" => st = "partial" /\ Prefix(got, idx) /\ idx < n
  /\ own = "undo" => st # "none"
  /\ own \in {"notify", "wait", "reclaim"} => st = "whole" /\ Prefix(got, n) /\ n > 0
  /\ mapped => st = "whole"
  /\ ~mapped => sent = 0

\* One conversation per transfer: the notification that the memory is shared, the
\* recipient's calls, the notification that it is released, the owner's reclaim.
OneTurn ==
  /\ own # "wait" => rec = "idle" /\ notifs = {} /\ \A s \in Sides : ~inCall[s]
  /\ rec # "idle" => notifs = {} /\ \A s \in Sides : ~inCall[s]
  /\ \A s \in notifs : notifs = {s} /\ \A t \in Sides : ~inCall[t]
  /\ \A s, t \in Sides : inCall[s] /\ inCall[t] => s = t
  /\ "recipient" \in notifs \/ inCall["recipient"] \/ own \in {"append", "undo", "notify"} => ~mapped

\* How far gh_rm_mem_accept has come.
RecipientStage ==
  /\ rec \in {"idle", "prepare", "tell"} => gather = << >>
  /\ rec = "prepare" => ~mapped
  /\ rec = "accept" => IF gather = << >> THEN ~mapped
                       ELSE mapped /\ mode # "given" /\ sent < n /\ sent % MaxFrag = 0
  /\ rec \in {"done", "combine"} => mapped /\ gather # << >> /\ sent = n
  /\ rec \in {"accept", "done", "combine"} /\ gather # << >> => Unbroken(FlattenSeq(gather), sent, n)
  /\ rec = "unwind" => mapped
  /\ rec = "holding" => mapped /\ gather = << >> /\ Unbroken(view, n, n)
  /\ rec \in {"idle", "prepare", "tell"} /\ mapped => excuse

IInv == Shape /\ OwnerStage /\ OneTurn /\ RecipientStage

-----------------------------------------------------------------------------
(* Sequences                                                               *)

\* Every set of numbers has a least one: the induction below rests on it.
LEMMA LeastNumber == ASSUME NEW T, T \subseteq Nat, T # {} PROVE \E x \in T : \A y \in T : x <= y
<1> DEFINE R == OpToRel(<, Nat)
<1>1. IsWellFoundedOn(R, Nat)
  BY NatLessThanWellFounded
<1>2. \A x, y \in Nat : y < x => <<y, x>> \in R
  BY DEF OpToRel
<1> HIDE DEF R
<1>3. PICK x \in T : \A y \in T : ~(<<y, x>> \in R)
  BY <1>1, WFMin
<1>4. ASSUME NEW y \in T PROVE x <= y
  <2>1. x \in Nat /\ y \in Nat /\ ~(<<y, x>> \in R)
    BY <1>3
  <2>2. ~(y < x)
    BY <1>2, <2>1
  <2> QED
    BY <2>1, <2>2
<1> QED
  BY <1>4

\* c[i] is the concatenation of the first i members of g, up to the k-th.
Joins(c, g, k) == c[1] = g[1] /\ \A i \in 2..k : c[i] = c[i - 1] \o g[i]

LEMMA JoinExists ==
  ASSUME NEW S, NEW g \in Seq(Seq(S)), g # << >>
  PROVE  \E c \in [1..Len(g) -> Seq(S)] : Joins(c, g, Len(g))
<1> DEFINE Has(k) == \E c \in [1..k -> Seq(S)] : Joins(c, g, k)
           T == {k \in 1..Len(g) : ~Has(k)}
<1>0. Len(g) \in Nat \ {0} /\ \A i \in 1..Len(g) : g[i] \in Seq(S)
  OBVIOUS
<1>1. Has(1)
  <2>1. [i \in 1..1 |-> g[1]] \in [1..1 -> Seq(S)]
    BY <1>0
  <2>2. Joins([i \in 1..1 |-> g[1]], g, 1)
    BY DEF Joins
  <2> QED
    BY <2>1, <2>2, Zenon
<1>2. ASSUME NEW k \in 1..Len(g), k # Len(g), Has(k) PROVE Has(k + 1)
  <2>1. PICK c \in [1..k -> Seq(S)] : Joins(c, g, k)
    BY <1>2
  <2> DEFINE e == [i \in 1..(k + 1) |-> IF i = k + 1 THEN c[k] \o g[k + 1] ELSE c[i]]
  <2>2. k \in Nat \ {0} /\ k + 1 \in 1..Len(g) /\ k \in 1..k
    BY <1>0, <1>2
  <2>3. c[k] \in Seq(S) /\ g[k + 1] \in Seq(S)
    BY <1>0, <2>2
  <2>4. c[k] \o g[k + 1] \in Seq(S)
    BY <2>3
  <2>5. e \in [1..(k + 1) -> Seq(S)]
    BY <2>2, <2>4
  <2>6. e[1] = g[1]
    BY <2>1, <2>2 DEF Joins
  <2>7. ASSUME NEW i \in 2..(k + 1) PROVE e[i] = e[i - 1] \o g[i]
    <3>1. CASE i = k + 1
      <4>1. e[i] = c[k] \o g[k + 1] /\ e[i - 1] = c[k]
        BY <2>2, <3>1
      <4> QED
        BY <3>1, <4>1
    <3>2. CASE i # k + 1
      <4>1. i \in 2..k /\ i - 1 \in 1..k /\ i \in 1..(k + 1) /\ i - 1 # k + 1
        BY <2>2, <3>2
      <4>2. e[i] = c[i] /\ e[i - 1] = c[i - 1]
        BY <2>2, <4>1
      <4> QED
        BY <2>1, <4>1, <4>2 DEF Joins
    <3> QED
      BY <3>1, <3>2
  <2> HIDE DEF e
  <2>8. Joins(e, g, k + 1)
    BY <2>6, <2>7 DEF Joins
  <2> QED
    BY <2>5, <2>8
<1> HIDE DEF Has
<1>3. T = {}
  <2> SUFFICES ASSUME T # {} PROVE FALSE
    OBVIOUS
  <2>1. T \subseteq Nat
    BY <1>0
  <2>2. PICK k \in T : \A j \in T : k <= j
    BY <2>1, LeastNumber, Zenon
  <2>3. k # 1 /\ k \in 1..Len(g)
    BY <1>1
  <2>4. k - 1 \in 1..Len(g) /\ k - 1 # Len(g) /\ (k - 1) + 1 = k
    BY <1>0, <2>3
  <2>5. Has(k - 1)
    BY <1>0, <2>2, <2>4
  <2>6. Has((k - 1) + 1)
    BY <1>2, <2>4, <2>5
  <2> QED
    BY <2>4, <2>6
<1>4. Len(g) \in 1..Len(g)
  BY <1>0
<1> QED
  BY <1>3, <1>4 DEF Has

LEMMA FlattenIsJoin ==
  ASSUME NEW S, NEW g \in Seq(Seq(S)), g # << >>, NEW c \in [1..Len(g) -> Seq(S)], Joins(c, g, Len(g))
  PROVE  FlattenSeq(g) = c[Len(g)]
<1> DEFINE F(h) == [i \in 1..Len(g) |-> IF i = 1 THEN g[i] ELSE h[i - 1] \o g[i]]
           f == CHOOSE h : h = F(h)
           T == {i \in 1..Len(g) : f[i] # c[i]}
<1>0. Len(g) \in Nat \ {0}
  OBVIOUS
<1>1. c = F(c)
  <2>1. \A i \in 1..Len(g) : c[i] = IF i = 1 THEN g[i] ELSE c[i - 1] \o g[i]
    <3> SUFFICES ASSUME NEW i \in 1..Len(g) PROVE c[i] = IF i = 1 THEN g[i] ELSE c[i - 1] \o g[i]
      OBVIOUS
    <3>1. i = 1 \/ i \in 2..Len(g)
      BY <1>0
    <3>2. \A j \in 2..Len(g) : j # 1
      OBVIOUS
    <3> QED
      BY <3>1, <3>2, Zenon DEF Joins
  <2> QED
    BY <2>1, Zenon
<1>2. f = F(f)
  BY <1>1
<1>3. FlattenSeq(g) = f[Len(g)]
  BY <1>0 DEF FlattenSeq
<1> HIDE DEF f
<1>4. \A i \in 1..Len(g) : f[i] = IF i = 1 THEN g[i] ELSE f[i - 1] \o g[i]
  BY <1>2
<1>5. T = {}
  <2> SUFFICES ASSUME T # {} PROVE FALSE
    OBVIOUS
  <2>1. T \subseteq Nat
    BY <1>0
  <2>2. PICK i \in T : \A j \in T : i <= j
    BY <2>1, LeastNumber, Zenon
  <2>3. i = 1 \/ (i \in 2..Len(g) /\ i - 1 \in 1..Len(g) /\ i - 1 \notin T)
    BY <1>0, <2>2
  <2>4. CASE i = 1
    BY <1>0, <1>4, <2>2, <2>4 DEF Joins
  <2>5. CASE i \in 2..Len(g) /\ i - 1 \in 1..Len(g) /\ i - 1 \notin T
    BY <1>0, <1>4, <2>2, <2>5, ZenonT(40) DEF Joins
  <2> QED
    BY <2>3, <2>4, <2>5
<1>6. Len(g) \in 1..Len(g)
  BY <1>0
<1> QED
  BY <1>3, <1>5, <1>6, Zenon

\* gh_sgl_fragment_combine of a list with one more fragment in front.
LEMMA FlattenFirst == ASSUME NEW S, NEW f \in Seq(S) PROVE FlattenSeq(<<f>>) = f
<1>1. <<f>> \in Seq(Seq(S)) /\ <<f>> # << >> /\ Len(<<f>>) = 1 /\ <<f>>[1] = f
  OBVIOUS
<1>2. PICK c \in [1..Len(<<f>>) -> Seq(S)] : Joins(c, <<f>>, Len(<<f>>))
  BY <1>1, JoinExists, Zenon
<1>3. FlattenSeq(<<f>>) = c[Len(<<f>>)]
  BY <1>1, <1>2, FlattenIsJoin, Zenon
<1> QED
  BY <1>1, <1>2, <1>3 DEF Joins

Associates(r, s, t) == r \o (s \o t) = (r \o s) \o t
LEMMA ConcatAssociates ==
  ASSUME NEW S, NEW r \in Seq(S), NEW s \in Seq(S), NEW t \in Seq(S) PROVE Associates(r, s, t)
BY ConcatAssociative DEF Associates

LEMMA FlattenPrepend ==
  ASSUME NEW S, NEW f \in Seq(S), NEW g \in Seq(Seq(S)), g # << >>
  PROVE  FlattenSeq(<<f>> \o g) = f \o FlattenSeq(g) /\ FlattenSeq(g) \in Seq(S)
<1> DEFINE h == <<f>> \o g
<1>0. Len(g) \in Nat \ {0} /\ \A i \in 1..Len(g) : g[i] \in Seq(S)
  OBVIOUS
<1>1. PICK c \in [1..Len(g) -> Seq(S)] : Joins(c, g, Len(g))
  BY JoinExists, Zenon
<1>2. FlattenSeq(g) = c[Len(g)]
  BY <1>1, FlattenIsJoin, Zenon
<1>3. h \in Seq(Seq(S)) /\ h # << >> /\ Len(h) = Len(g) + 1 /\ h[1] = f /\ \A i \in 2..Len(h) : h[i] = g[i - 1]
  BY <1>0
<1> HIDE DEF h
<1> DEFINE e == [i \in 1..Len(h) |-> IF i = 1 THEN f ELSE f \o c[i - 1]]
<1>4. \A i \in 2..Len(h) : i - 1 \in 1..Len(g) /\ c[i - 1] \in Seq(S)
  <2>1. ASSUME NEW i \in 2..Len(h) PROVE i - 1 \in 1..Len(g)
    BY <1>0, <1>3
  <2>2. \A j \in 1..Len(g) : c[j] \in Seq(S)
    BY Zenon
  <2> QED
    BY <2>1, <2>2, Zenon
<1>5. e \in [1..Len(h) -> Seq(S)]
  <2>1. ASSUME NEW i \in 1..Len(h) PROVE (IF i = 1 THEN f ELSE f \o c[i - 1]) \in Seq(S)
    <3>1. i = 1 \/ i \in 2..Len(h)
      BY <1>0, <1>3
    <3> QED
      BY <1>4, <3>1
  <2> QED
    BY <2>1
<1>6. e[1] = h[1]
  BY <1>0, <1>3
<1>7. ASSUME NEW i \in 2..Len(h) PROVE e[i] = e[i - 1] \o h[i]
  <2>1. i \in 1..Len(h) /\ i # 1 /\ i - 1 \in 1..Len(h)
    BY <1>0, <1>3
  <2>2. e[i] = f \o c[i - 1]
    BY <2>1
  <2>3. CASE i = 2
    <3>1. e[2] = f \o c[1] /\ e[1] = f /\ h[2] = g[1]
      BY <1>0, <1>3, <2>1, <2>2, <2>3
    <3>2. c[1] = g[1] /\ i - 1 = 1
      BY <1>1, <2>3 DEF Joins
    <3> HIDE DEF e
    <3> QED
      BY <2>3, <3>1, <3>2, Zenon
  <2>4. CASE i # 2
    <3>1. i - 1 \in 2..Len(g) /\ i - 1 # 1 /\ i - 1 \in 2..Len(h)
      BY <1>0, <1>3, <2>4
    <3>2. c[i - 1] = c[(i - 1) - 1] \o g[i - 1] /\ h[i] = g[i - 1]
      BY <1>1, <1>3, <3>1 DEF Joins
    <3>3. e[i - 1] = f \o c[(i - 1) - 1]
      BY <2>1, <3>1
    <3>4. c[(i - 1) - 1] \in Seq(S) /\ g[i - 1] \in Seq(S)
      BY <1>0, <1>4, <3>1
    <3>5. Associates(f, c[(i - 1) - 1], g[i - 1])
      BY <3>4, ConcatAssociates, Zenon
    <3> HIDE DEF e
    <3> QED
      BY <2>2, <3>2, <3>3, <3>5, Zenon DEF Associates
  <2> QED
    BY <2>3, <2>4
<1> HIDE DEF e
<1>8. Joins(e, h, Len(h))
  BY <1>6, <1>7 DEF Joins
<1>9. FlattenSeq(h) = e[Len(h)]
  BY <1>3, <1>5, <1>8, FlattenIsJoin, Zenon
<1>10. e[Len(h)] = f \o c[Len(g)]
  <2>1. Len(h) \in 1..Len(h) /\ Len(h) # 1 /\ Len(h) - 1 = Len(g)
    BY <1>0, <1>3
  <2>2. e[Len(h)] = f \o c[Len(h) - 1]
    BY <2>1, Zenon DEF e
  <2> QED
    BY <2>1, <2>2
<1>11. c[Len(g)] \in Seq(S)
  <2>1. Len(g) \in 1..Len(g)
    BY <1>0
  <2> QED
    BY <2>1, Zenon
<1> QED
  BY <1>2, <1>9, <1>10, <1>11 DEF h
-----------------------------------------------------------------------------
(* What the calls send and return                                          *)

LEMMA SliceIs ==
  ASSUME NEW from \in Nat, NEW to \in Nat, from <= to
  PROVE  /\ Slice(from, to) \in Seq(Nat) /\ Len(Slice(from, to)) = to - from
         /\ \A i \in 1..(to - from) : Slice(from, to)[i] = from + i
<1>1. to - from \in Nat
  OBVIOUS
<1> QED
  BY <1>1 DEF Slice

LEMMA SliceIsPrefix == ASSUME NEW k \in Nat PROVE Slice(0, k) \in Seq(Nat) /\ Prefix(Slice(0, k), k)
<1>1. 0 \in Nat /\ 0 <= k /\ k - 0 = k /\ \A i \in 1..k : 0 + i = i
  OBVIOUS
<1>2. /\ Slice(0, k) \in Seq(Nat) /\ Len(Slice(0, k)) = k - 0
      /\ \A i \in 1..(k - 0) : Slice(0, k)[i] = 0 + i
  BY <1>1, SliceIs
<1> QED
  BY <1>1, <1>2 DEF Prefix

LEMMA PrefixGrows ==
  ASSUME NEW s \in Seq(Nat), NEW from \in Nat, NEW to \in Nat, from <= to, Prefix(s, from)
  PROVE  s \o Slice(from, to) \in Seq(Nat) /\ Prefix(s \o Slice(from, to), to)
<1> DEFINE t == Slice(from, to)
<1>1. t \in Seq(Nat) /\ Len(t) = to - from /\ \A i \in 1..(to - from) : t[i] = from + i
  BY SliceIs
<1> HIDE DEF t
<1>2. s \o t \in Seq(Nat) /\ Len(s \o t) = to
  <2>1. s \o t \in Seq(Nat) /\ Len(s \o t) = Len(s) + Len(t)
    BY <1>1, ConcatProperties
  <2>2. Len(s) = from
    BY DEF Prefix
  <2> QED
    BY <1>1, <2>1, <2>2
<1>3. ASSUME NEW i \in 1..to PROVE (s \o t)[i] = i
  <2>1. CASE i <= from
    BY <1>1, <2>1 DEF Prefix
  <2>2. CASE i > from
    <3>1. (s \o t)[i] = t[i - from] /\ i - from \in 1..(to - from)
      BY <1>1, <2>2 DEF Prefix
    <3> QED
      BY <1>1, <3>1
  <2>3. i <= from \/ i > from
    OBVIOUS
  <2> QED
    BY <2>1, <2>2, <2>3
<1> QED
  BY <1>2, <1>3 DEF Prefix, t

LEMMA MultipleGrows == ASSUME NEW m \in Nat \ {0}, NEW s \in Nat, s % m = 0 PROVE (s + m) % m = 0
<1> DEFINE q == s \div m
           r == (s + m) % m
           p == (s + m) \div m
<1>1. q \in Nat /\ s = m * q
  OBVIOUS
<1>2. r \in 0..(m - 1) /\ p \in Nat /\ s + m = m * p + r
  OBVIOUS
<1> HIDE DEF q, r, p
<1>3. m * (q + 1 - p) = r
  BY <1>1, <1>2
<1>4. q + 1 - p \in Int
  BY <1>1, <1>2
<1>5. ASSUME NEW k \in Int, k >= 1 PROVE m * k >= m
  BY <1>5
<1>6. ASSUME NEW k \in Int, k <= -1 PROVE m * k < 0
  BY <1>6
<1>7. q + 1 - p = 0
  BY <1>2, <1>3, <1>4, <1>5, <1>6
<1>8. r = 0
  BY <1>3, <1>7
<1> QED
  BY <1>8 DEF r

LEMMA ConcatRight ==
  ASSUME NEW S, NEW r \in Seq(S), NEW s \in Seq(S)
  PROVE  \A i \in 1..Len(s) : (r \o s)[Len(r) + i] = s[i]
<1>1. SUFFICES ASSUME NEW i \in 1..Len(s) PROVE (r \o s)[Len(r) + i] = s[i]
  OBVIOUS
<1>2. Len(r) + i \in 1..(Len(r) + Len(s)) /\ ~(Len(r) + i <= Len(r)) /\ (Len(r) + i) - Len(r) = i
  OBVIOUS
<1> QED
  BY <1>2, ConcatProperties

\* The next fragment, in front of those that were gathered before.
LEMMA FragmentFits ==
  ASSUME NEW k \in Nat, NEW e \in Nat, k < e, NEW m \in Nat, e % MaxFrag = 0 \/ e = m,
         NEW f \in Seq(Nat), Len(f) = e - k, \A i \in 1..(e - k) : f[i] = k + i,
         NEW w \in Seq(Nat), Unbroken(w, k, m)
  PROVE  Unbroken(f \o w, e, m)
<1> DEFINE v == f \o w
           d == e - k
<1>0. d \in Nat \ {0} /\ d + k = e /\ Len(w) = k
  BY DEF Unbroken
<1>1. v \in Seq(Nat) /\ Len(v) = e
  <2>1. v \in Seq(Nat) /\ Len(v) = Len(f) + Len(w)
    BY ConcatProperties
  <2> QED
    BY <1>0, <2>1
<1>2. \A i \in 1..d : v[i] = k + i
  BY <1>0
<1>3. \A i \in 1..k : v[d + i] = w[i]
  <2>1. \A i \in 1..Len(w) : (f \o w)[Len(f) + i] = w[i]
    BY ConcatRight
  <2> QED
    BY <1>0, <2>1
<1> HIDE DEF v, d
<1>4. \A i \in 1..e : i \in 1..d \/ (i - d \in 1..k /\ d + (i - d) = i)
  BY <1>0
<1>5. ASSUME NEW i \in 1..e PROVE v[i] \in 1..e
  <2>1. CASE i \in 1..d
    BY <1>0, <1>2, <2>1
  <2>2. CASE i - d \in 1..k /\ d + (i - d) = i
    <3>1. v[i] = w[i - d] /\ w[i - d] \in 1..k
      BY <1>3, <2>2 DEF Unbroken
    <3> QED
      BY <3>1
  <2> QED
    BY <1>4, <2>1, <2>2
<1>6. ASSUME NEW x \in 1..e PROVE \E i \in 1..e : v[i] = x
  <2>1. CASE x \in 1..k
    <3>1. PICK i \in 1..k : w[i] = x
      BY <2>1 DEF Unbroken
    <3>2. d + i \in 1..e /\ v[d + i] = x
      BY <1>0, <1>3, <3>1
    <3> QED
      BY <3>2
  <2>2. CASE x > k
    <3>1. x - k \in 1..d /\ x - k \in 1..e /\ v[x - k] = x
      BY <1>0, <1>2, <2>2
    <3> QED
      BY <3>1
  <2> QED
    BY <2>1, <2>2
<1>7. ASSUME NEW i \in 1..(e - 1) PROVE v[i + 1] = v[i] + 1 \/ v[i] % MaxFrag = 0 \/ v[i] = m
  <2>1. CASE i < d
    BY <1>0, <1>2, <2>1
  <2>2. CASE i = d
    BY <1>0, <1>2, <2>2
  <2>3. CASE i > d
    <3>1. i - d \in 1..(k - 1) /\ i - d \in 1..k /\ (i - d) + 1 \in 1..k
      BY <1>0, <2>3
    <3>2. v[d + (i - d)] = w[i - d] /\ v[d + ((i - d) + 1)] = w[(i - d) + 1]
      BY <1>3, <3>1
    <3>3. d + (i - d) = i /\ d + ((i - d) + 1) = i + 1
      BY <1>0
    <3>4. v[i] = w[i - d] /\ v[i + 1] = w[(i - d) + 1]
      BY <3>2, <3>3
    <3>5. w[(i - d) + 1] = w[i - d] + 1 \/ w[i - d] % MaxFrag = 0 \/ w[i - d] = m
      BY <3>1 DEF Unbroken
    <3> QED
      BY <3>4, <3>5
  <2> QED
    BY <1>0, <2>1, <2>2, <2>3
<1> QED
  BY <1>1, <1>5, <1>6, <1>7 DEF Unbroken, v

LEMMA FirstFragment ==
  ASSUME NEW e \in Nat, NEW m \in Nat, NEW f \in Seq(Nat), Prefix(f, e)
  PROVE  Unbroken(f, e, m)
BY DEF Prefix, Unbroken

LEMMA AnswerFacts ==
  ASSUME Shape, NEW legal \in BOOLEAN, NEW a \in Answers(legal)
  PROVE  /\ a \in {"ok", "refused", "unsent", "badsize", "cut"}
         /\ CarriedOut(a) <=> a \in {"ok", "badsize", "cut"}
         /\ CarriedOut(a) => legal
         /\ Counted(legal, a) => faults' \in Nat
         /\ \A ret \in Returns(a) : ret \in {"0", "errno"} /\ (CarriedOut(a) => ret = "0")
<1>1. /\ a \in {"ok", "refused", "unsent", "badsize", "cut"}
      /\ CarriedOut(a) => legal
  BY DEF Answers, Normal, CarriedOut
<1>2. Counted(legal, a) => faults' \in Nat
  BY DEF Counted, Shape
<1>3. \A ret \in Returns(a) : ret \in {"0", "errno"} /\ (CarriedOut(a) => ret = "0")
  BY <1>1 DEF Returns, CarriedOut
<1> QED
  BY <1>1, <1>2, <1>3 DEF CarriedOut
-----------------------------------------------------------------------------
(* Types                                                                   *)

Bools == /\ mapped \in BOOLEAN /\ excuse \in BOOLEAN
         /\ handler \in [Sides -> BOOLEAN] /\ inCall \in [Sides -> BOOLEAN]

LEMMA BoolStep == ASSUME Bools, Next PROVE Bools'
<1> USE DEF Bools, rmVars, ownVars, recVars, notifVars
<1>1. CASE Share \/ OwnerNext
  BY <1>1, Zenon DEF Share, OwnerNext, Append1, Undo, NotifyShared, Reclaim
<1>2. CASE RecipientNext
  <2>1. CASE AcceptCall
    BY <2>1, Zenon DEF AcceptCall
  <2>2. CASE AcceptUnwind \/ Release
    BY <2>2, Zenon DEF AcceptUnwind, Release, Unmapped
  <2>3. CASE AcceptPrepare \/ AcceptDone \/ AcceptCombine \/ NotifyReleased
    BY <2>3, Zenon DEF AcceptPrepare, AcceptDone, AcceptCombine, NotifyReleased
  <2> QED
    BY <1>2, <2>1, <2>2, <2>3, Zenon DEF RecipientNext
<1>3. ASSUME NEW s \in Sides, NotifierNext(s) \/ Register(s) \/ Unregister(s) PROVE Bools'
  <2>1. handler[s] \in BOOLEAN /\ TRUE \in BOOLEAN /\ FALSE \in BOOLEAN
    BY Zenon
  <2>2. \A f \in [Sides -> BOOLEAN] : \A b \in BOOLEAN : [f EXCEPT ![s] = b] \in [Sides -> BOOLEAN]
    OBVIOUS
  <2> QED
    BY <1>3, <2>1, <2>2, Zenon DEF NotifierNext, NotifierRead, NotifierCall, Register, Unregister
<1> QED
  BY <1>1, <1>2, <1>3, Zenon DEF Next

Others ==
  /\ st \in {"none", "partial", "whole"} /\ got \in Seq(Nat) /\ sent \in Nat
  /\ own \in OwnSteps /\ n \in 0..MaxEntries /\ idx \in 0..MaxEntries
  /\ rec \in RecSteps /\ mode \in Modes /\ gather \in Seq(Seq(Nat)) /\ view \in Seq(Nat)
  /\ notifs \subseteq Sides /\ transfers \in Nat /\ faults \in Nat /\ unregs \in Nat
Rest == Others /\ OwnerStage /\ OneTurn /\ RecipientStage

LEMMA Sizes == MaxSgl \in Nat \ {0} /\ MaxEntries \in Nat \ {0} /\ MaxFrag \in Nat \ {0} /\ MaxFaults \in Nat
BY SizesAssumption

LEMMA NoEntries == << >> \in Seq(Nat) /\ << >> \in Seq(Seq(Nat))
OBVIOUS

LEMMA OwnerRest == ASSUME IInv, Bools', Share \/ OwnerNext PROVE Rest'
<1> USE Sizes DEF IInv, Shape, Rest, Others, OwnerStage, OneTurn, RecipientStage, OwnSteps, RecSteps, Modes, Sides,
        rmVars, ownVars, recVars, notifVars
<1>1. CASE Share
  <2> DEFINE first(count) == Lesser(count, MaxSgl)
  <2>1. PICK count \in 1..MaxEntries, a \in Answers(TRUE) :
          /\ Counted(TRUE, a)
          /\ IF CarriedOut(a)
               THEN st' = (IF count > MaxSgl THEN "partial" ELSE "whole") /\ got' = Slice(0, first(count))
               ELSE UNCHANGED <<st, got>>
          /\ n' = IF a = "ok" THEN count ELSE 0
          /\ idx' = IF a = "ok" THEN first(count) ELSE 0
          /\ own' = IF a # "ok" THEN "idle" ELSE IF first(count) < count THEN "append" ELSE "notify"
          /\ excuse' = (excuse \/ (CarriedOut(a) /\ a # "ok"))
    BY <1>1, Zenon DEF Share
  <2>2. /\ own = "idle" /\ st = "none" /\ ~mapped /\ transfers' = transfers + 1
        /\ UNCHANGED <<mapped, sent, recVars, notifVars, notifs>>
    BY <1>1 DEF Share
  <2>3. CarriedOut(a) <=> a \in {"ok", "badsize", "cut"}
    BY AnswerFacts
  <2>4. faults' \in Nat
    BY <2>1, AnswerFacts
  <2>5. first(count) \in 1..count /\ (first(count) < count <=> count > MaxSgl)
    BY DEF Lesser
  <2>6. got' \in Seq(Nat) /\ (CarriedOut(a) => Prefix(got', first(count)))
    <3>1. Slice(0, first(count)) \in Seq(Nat) /\ Prefix(Slice(0, first(count)), first(count))
      <4>1. \A k \in Nat : Slice(0, k) \in Seq(Nat) /\ Prefix(Slice(0, k), k)
        BY SliceIsPrefix
      <4> QED
        BY <2>5, <4>1
    <3> QED
      BY <2>1, <3>1
  <2> HIDE DEF first
  <2>7. Others'
    BY <2>1, <2>2, <2>3, <2>4, <2>5, <2>6
  <2>8. OwnerStage'
    BY <2>1, <2>2, <2>3, <2>5, <2>6
  <2>9. OneTurn' /\ RecipientStage'
    BY <2>1, <2>2
  <2> QED
    BY <2>7, <2>8, <2>9
<1>2. CASE Append1
  <2>1. PICK a \in Answers(st = "partial") :
          /\ Counted(st = "partial", a)
          /\ IF CarriedOut(a)
               THEN got' = got \o Slice(idx, NextIdx) /\ st' = (IF AppendEnd THEN "whole" ELSE st)
               ELSE UNCHANGED <<got, st>>
          /\ idx' = IF a = "ok" THEN NextIdx ELSE idx
          /\ own' = IF a # "ok" THEN "undo" ELSE IF NextIdx < n THEN "append" ELSE "notify"
    BY <1>2, Zenon DEF Append1
  <2>2. /\ own = "append" /\ st = "partial" /\ Prefix(got, idx) /\ idx < n /\ ~mapped
        /\ UNCHANGED <<n, transfers, mapped, sent, recVars, notifVars, notifs, excuse>>
    BY <1>2 DEF Append1
  <2>3. faults' \in Nat /\ (CarriedOut(a) <=> a \in {"ok", "badsize", "cut"})
    BY <2>1, AnswerFacts
  <2>4. NextIdx \in Nat /\ idx <= NextIdx /\ NextIdx <= n /\ (AppendEnd <=> NextIdx = n)
    BY <2>2 DEF NextIdx, AppendEnd, Lesser
  <2>5. got' \in Seq(Nat) /\ (CarriedOut(a) => Prefix(got', NextIdx))
    <3>1. got \o Slice(idx, NextIdx) \in Seq(Nat) /\ Prefix(got \o Slice(idx, NextIdx), NextIdx)
      BY <2>2, <2>4, PrefixGrows
    <3> QED
      BY <2>1, <3>1
  <2>6. Others'
    BY <2>1, <2>2, <2>3, <2>4, <2>5
  <2>7. OwnerStage'
    BY <2>1, <2>2, <2>3, <2>4, <2>5
  <2>8. OneTurn' /\ RecipientStage'
    BY <2>1, <2>2
  <2> QED
    BY <2>6, <2>7, <2>8
<1>3. CASE Undo
  <2>1. PICK a \in Answers(~mapped) : Counted(~mapped, a) /\ Reclaimed(a) /\ excuse' = (excuse \/ ~CarriedOut(a))
    BY <1>3, Zenon DEF Undo, UndoReclaims
  <2>2. /\ own = "undo" /\ st # "none" /\ ~mapped /\ own' = "idle" /\ n' = 0 /\ idx' = 0
        /\ UNCHANGED <<transfers, mapped, sent, recVars, notifVars, notifs>>
    BY <1>3 DEF Undo, OwnerDone
  <2>3. faults' \in Nat
    BY <2>1, AnswerFacts
  <2>4. (st' = "none" /\ got' = << >>) \/ UNCHANGED <<st, got>>
    BY <2>1 DEF Reclaimed
  <2>5. Others'
    <3>1. got' \in Seq(Nat)
      BY <2>4, NoEntries, Zenon
    <3> QED
      BY <2>2, <2>3, <2>4, <3>1
  <2>6. OwnerStage' /\ OneTurn'
    BY <2>2, <2>4
  <2>7. RecipientStage'
    BY <2>2
  <2> QED
    BY <2>5, <2>6, <2>7
<1>4. CASE NotifyShared
  <2>1. PICK a \in Answers(TRUE) :
          /\ Counted(TRUE, a)
          /\ notifs' = IF CarriedOut(a) THEN notifs \cup {"recipient"} ELSE notifs
          /\ \E ret \in Returns(a) : own' = IF ret = "0" THEN "wait" ELSE "reclaim"
    BY <1>4, Zenon DEF NotifyShared
  <2>2. own = "notify" /\ ~mapped /\ UNCHANGED <<n, idx, transfers, rmVars, recVars, notifVars, excuse>>
    BY <1>4 DEF NotifyShared
  <2>3. faults' \in Nat /\ own' \in {"wait", "reclaim"} /\ (CarriedOut(a) => own' = "wait")
    BY <2>1, AnswerFacts
  <2> QED
    BY <2>1, <2>2, <2>3
<1>5. CASE Reclaim
  <2>1. PICK a \in Answers(~mapped) :
          /\ Counted(~mapped, a) /\ Reclaimed(a)
          /\ \E ret \in Returns(a) :
               /\ IF ret = "0" THEN OwnerDone ELSE own' = "wait" /\ UNCHANGED <<n, idx>>
               /\ excuse' = (excuse \/ (ret = "0" /\ ~CarriedOut(a)))
    BY <1>5, Zenon DEF Reclaim
  <2>2. own = "reclaim" /\ UNCHANGED <<transfers, mapped, sent, recVars, notifVars, notifs>>
    BY <1>5 DEF Reclaim
  <2>3. faults' \in Nat /\ (CarriedOut(a) => ~mapped)
    <3>1. (~mapped) \in BOOLEAN
      BY Zenon
    <3> QED
      BY <2>1, <3>1, AnswerFacts
  <2>4. \/ own' = "idle" /\ n' = 0 /\ idx' = 0
        \/ own' = "wait" /\ UNCHANGED <<n, idx>> /\ ~CarriedOut(a)
    <3>1. (~mapped) \in BOOLEAN
      BY Zenon
    <3> QED
      BY <2>1, <3>1, AnswerFacts DEF OwnerDone
  <2>5. IF CarriedOut(a) THEN st' = "none" /\ got' = << >> ELSE UNCHANGED <<st, got>>
    BY <2>1 DEF Reclaimed
  <2>6. excuse => excuse'
    BY <2>1, Zenon
  <2>7. Others'
    <3>1. got' \in Seq(Nat)
      BY <2>5, NoEntries, Zenon
    <3> QED
      BY <2>2, <2>3, <2>4, <2>5, <3>1, SMTT(30)
  <2>8. OwnerStage' /\ OneTurn'
    BY <2>2, <2>3, <2>4, <2>5
  <2>9. RecipientStage'
    BY <2>2, <2>6
  <2> QED
    BY <2>7, <2>8, <2>9
<1> QED
  BY <1>1, <1>2, <1>3, <1>4, <1>5 DEF OwnerNext
\* One more ACCEPT reply in the list of fragments.
LEMMA GatherGrows ==
  ASSUME IInv, rec = "accept", mode # "given", st = "whole"
  PROVE  LET g == Gathered(SubSeq(got, sent + 1, FragEnd)) IN
         /\ Len(got) = n /\ FragEnd \in Nat /\ FragEnd <= n
         /\ g \in Seq(Seq(Nat)) /\ g # << >> /\ Unbroken(FlattenSeq(g), FragEnd, n)
         /\ FragEnd < n => FragEnd % MaxFrag = 0
<1> DEFINE f == SubSeq(got, sent + 1, FragEnd)
<1>0. /\ own = "wait" /\ got \in Seq(Nat) /\ Len(got) = n /\ \A i \in 1..n : got[i] = i
      /\ n \in Nat /\ n > 0 /\ sent \in Nat /\ MaxFrag \in Nat \ {0} /\ gather \in Seq(Seq(Nat))
  BY Sizes DEF IInv, Shape, OneTurn, OwnerStage, Prefix
<1>1. sent < n /\ sent % MaxFrag = 0
  <2>1. CASE gather = << >>
    <3>1. sent = 0
      BY <2>1 DEF IInv, RecipientStage, OwnerStage
    <3> QED
      BY <1>0, <3>1
  <2>2. CASE gather # << >>
    BY <2>2 DEF IInv, RecipientStage
  <2> QED
    BY <2>1, <2>2
<1>2. FragEnd \in Nat /\ sent < FragEnd /\ FragEnd <= n /\ (FragEnd = sent + MaxFrag \/ FragEnd = n)
  BY <1>0, <1>1 DEF FragEnd, Lesser
<1>3. FragEnd % MaxFrag = 0 \/ FragEnd = n
  BY <1>0, <1>1, <1>2, MultipleGrows
<1>4. f \in Seq(Nat) /\ Len(f) = FragEnd - sent /\ \A i \in 1..(FragEnd - sent) : f[i] = sent + i
  <2>1. sent + 1 \in 1..(n + 1) /\ FragEnd \in sent..n /\ FragEnd - sent \in Nat
    BY <1>0, <1>1, <1>2
  <2>2. f \in Seq(Nat)
    BY <1>0, <2>1
  <2>3. Len(f) = FragEnd - sent
    BY <1>0, <1>2, <2>1
  <2>4. ASSUME NEW i \in 1..(FragEnd - sent) PROVE f[i] = sent + i
    <3>1. f[i] = got[(sent + 1) + i - 1] /\ (sent + 1) + i - 1 = sent + i /\ sent + i \in 1..n
      BY <1>0, <1>2, <2>1
    <3> QED
      BY <1>0, <3>1
  <2> QED
    BY <2>2, <2>3, <2>4
<1> HIDE DEF f
<1>5. <<f>> \o gather \in Seq(Seq(Nat)) /\ <<f>> \o gather # << >>
  <2>1. <<f>> \in Seq(Seq(Nat)) /\ Len(<<f>>) = 1
    BY <1>4
  <2>2. <<f>> \o gather \in Seq(Seq(Nat)) /\ Len(<<f>> \o gather) = 1 + Len(gather)
    BY <1>0, <2>1, ConcatProperties
  <2>3. Len(gather) \in Nat
    BY <1>0
  <2> QED
    BY <2>2, <2>3
<1>6. Unbroken(FlattenSeq(<<f>> \o gather), FragEnd, n)
  <2>1. CASE gather = << >>
    <3>1. sent = 0
      BY <2>1 DEF IInv, RecipientStage, OwnerStage
    <3>2. <<f>> \o gather = <<f>>
      BY <2>1
    <3>3. FlattenSeq(<<f>>) = f
      BY <1>4, FlattenFirst, Zenon
    <3>4. Prefix(f, FragEnd)
      BY <1>2, <1>4, <3>1 DEF Prefix
    <3>5. Unbroken(f, FragEnd, n)
      BY <1>0, <1>2, <1>4, <3>4, FirstFragment
    <3> QED
      BY <3>2, <3>3, <3>5, Zenon
  <2>2. CASE gather # << >>
    <3>1. FlattenSeq(<<f>> \o gather) = f \o FlattenSeq(gather) /\ FlattenSeq(gather) \in Seq(Nat)
      BY <1>0, <1>4, <2>2, FlattenPrepend, Zenon
    <3>2. Unbroken(FlattenSeq(gather), sent, n)
      BY <2>2 DEF IInv, RecipientStage
    <3>3. Unbroken(f \o FlattenSeq(gather), FragEnd, n)
      BY <1>0, <1>2, <1>3, <1>4, <3>1, <3>2, FragmentFits
    <3> QED
      BY <3>1, <3>3, Zenon
  <2> QED
    BY <2>1, <2>2
<1> QED
  BY <1>0, <1>2, <1>3, <1>5, <1>6 DEF Gathered, f

LEMMA RecipientRest == ASSUME IInv, Bools', RecipientNext PROVE Rest'
<1> USE Sizes DEF IInv, Shape, Rest, Others, OwnerStage, OneTurn, RecipientStage, OwnSteps, RecSteps, Modes, Sides,
        rmVars, ownVars, recVars, notifVars
<1>1. CASE AcceptPrepare
  <2>1. /\ rec = "prepare" /\ ~mapped /\ rec' \in {"accept", "tell"} /\ mode' \in Modes /\ faults' \in Nat
        /\ gather = << >> /\ UNCHANGED <<gather, view, rmVars, ownVars, notifVars, notifs, excuse>>
    BY <1>1 DEF AcceptPrepare
  <2> QED
    BY <2>1
<1>2. CASE AcceptCall
  <2>1. PICK a \in Answers(st = "whole"), noMem \in BOOLEAN :
       /\ noMem => a = "ok" /\ faults < MaxFaults
       /\ faults' = faults + (IF noMem \/ a # Normal(st = "whole") THEN 1 ELSE 0)
       /\ IF CarriedOut(a)
            THEN mapped' = TRUE /\ sent' = IF mode = "given" THEN sent ELSE FragEnd
            ELSE UNCHANGED <<mapped, sent>>
       /\ IF a # "ok" \/ noMem
            THEN rec' = AcceptFails(a) /\ UNCHANGED <<gather, view>>
            ELSE IF mode = "given"
            THEN rec' = "holding" /\ view' = got /\ UNCHANGED gather
            ELSE /\ gather' = Gathered(SubSeq(got, sent + 1, FragEnd))
                 /\ rec' = IF FragEnd < Len(got) THEN "accept"
                           ELSE IF mode = "anyDone" THEN "done" ELSE "combine"
                 /\ UNCHANGED view
       /\ excuse' = (excuse \/ (CarriedOut(a) /\ ~InProgress(a)))
    BY <1>2, Zenon DEF AcceptCall
  <2>2. /\ rec = "accept" /\ own = "wait" /\ st = "whole" /\ Prefix(got, n) /\ n > 0
        /\ UNCHANGED <<mode, st, got, ownVars, notifVars, notifs>>
    BY <1>2 DEF AcceptCall
  <2>3. faults' \in Nat /\ (CarriedOut(a) <=> a \in {"ok", "badsize", "cut"})
    BY <2>1 DEF CarriedOut
  <2>4. mode # "given" =>
         /\ Len(got) = n /\ FragEnd \in Nat /\ FragEnd <= n
         /\ Gathered(SubSeq(got, sent + 1, FragEnd)) \in Seq(Seq(Nat))
         /\ Gathered(SubSeq(got, sent + 1, FragEnd)) # << >>
         /\ Unbroken(FlattenSeq(Gathered(SubSeq(got, sent + 1, FragEnd))), FragEnd, n)
         /\ FragEnd < n => FragEnd % MaxFrag = 0
    BY <2>2, GatherGrows
  <2>5. sent' \in Nat /\ (CarriedOut(a) => mapped') /\ (~CarriedOut(a) => UNCHANGED <<mapped, sent>>)
    BY <2>1, <2>4
  <2>6. CASE a # "ok" \/ noMem
    <3>1. rec' = AcceptFails(a) /\ UNCHANGED <<gather, view>>
      BY <2>1, <2>6
    <3>2. \/ rec' = "unwind" /\ mapped'
          \/ rec' = "tell" /\ gather = << >> /\ (mapped' => excuse')
      <4>1. CASE InProgress(a)
        BY <2>2, <2>3, <2>5, <3>1, <4>1 DEF AcceptFails, InProgress
      <4>2. CASE ~InProgress(a)
        <5>1. rec' = "tell" /\ gather = << >> /\ ~mapped
          BY <2>2, <3>1, <4>2 DEF AcceptFails, InProgress
        <5>2. CarriedOut(a) => excuse'
          BY <2>1, <4>2, Zenon
        <5>3. mapped' => excuse'
          BY <2>5, <5>1, <5>2
        <5> QED
          BY <5>1, <5>3
      <4> QED
        BY <4>1, <4>2
    <3>3. Others' /\ OwnerStage'
      BY <2>2, <2>3, <2>5, <3>1, <3>2
    <3>4. OneTurn' /\ RecipientStage'
      BY <2>2, <3>1, <3>2
    <3> QED
      BY <3>3, <3>4
  <2>7. CASE a = "ok" /\ ~noMem /\ mode = "given"
    <3>1. rec' = "holding" /\ view' = got /\ UNCHANGED gather /\ mapped'
      BY <2>1, <2>3, <2>5, <2>7
    <3>2. gather = << >> /\ Unbroken(got, n, n)
      BY <2>2, <2>7, FirstFragment
    <3>3. Others' /\ OwnerStage'
      BY <2>2, <2>3, <2>5, <3>1
    <3>4. OneTurn' /\ RecipientStage'
      BY <2>2, <3>1, <3>2
    <3> QED
      BY <3>3, <3>4
  <2>8. CASE a = "ok" /\ ~noMem /\ mode # "given"
    <3>1. /\ gather' = Gathered(SubSeq(got, sent + 1, FragEnd)) /\ sent' = FragEnd /\ mapped' /\ UNCHANGED view
          /\ rec' = IF FragEnd < Len(got) THEN "accept" ELSE IF mode = "anyDone" THEN "done" ELSE "combine"
      BY <2>1, <2>3, <2>5, <2>8
    <3>2. gather' \in Seq(Seq(Nat)) /\ gather' # << >> /\ Unbroken(FlattenSeq(gather'), sent', n)
      BY <2>4, <2>8, <3>1
    <3>3. Others' /\ OwnerStage'
      BY <2>2, <2>3, <2>4, <2>8, <3>1, <3>2
    <3>4. OneTurn' /\ RecipientStage'
      BY <2>2, <2>4, <2>8, <3>1, <3>2
    <3> QED
      BY <3>3, <3>4
  <2> QED
    BY <2>6, <2>7, <2>8
<1>3. CASE AcceptDone
  <2>1. PICK a \in Answers(TRUE) : Counted(TRUE, a) /\ rec' = IF a \in {"ok", "badsize"} THEN "combine" ELSE "unwind"
    BY <1>3, Zenon DEF AcceptDone
  <2>2. rec = "done" /\ UNCHANGED <<mode, gather, view, rmVars, ownVars, notifVars, notifs, excuse>>
    BY <1>3 DEF AcceptDone
  <2>3. faults' \in Nat
    BY <2>1, AnswerFacts
  <2>4. rec' \in {"combine", "unwind"}
    BY <2>1
  <2> QED
    BY <2>2, <2>3, <2>4
<1>4. CASE AcceptCombine
  <2>1. rec = "combine" /\ UNCHANGED <<mode, rmVars, ownVars, notifVars, notifs, excuse>>
    BY <1>4 DEF AcceptCombine
  <2>2. FlattenSeq(gather) \in Seq(Nat) /\ Unbroken(FlattenSeq(gather), n, n)
    <3>1. gather # << >> /\ gather \in Seq(Seq(Nat)) /\ << >> \in Seq(Nat)
      BY <2>1, NoEntries
    <3>2. FlattenSeq(gather) \in Seq(Nat)
      BY <3>1, FlattenPrepend, Zenon
    <3> QED
      BY <2>1, <3>2
  <2>3. \/ view' = FlattenSeq(gather) /\ gather' = << >> /\ rec' = "holding" /\ UNCHANGED faults
        \/ rec' = "unwind" /\ UNCHANGED <<gather, view>> /\ faults' = faults + 1
    BY <1>4 DEF AcceptCombine, FragmentRelease
  <2>4. gather' \in Seq(Seq(Nat)) /\ view' \in Seq(Nat)
    BY <2>2, <2>3, NoEntries, Zenon
  <2>5. Others' /\ OwnerStage'
    BY <2>1, <2>3, <2>4
  <2>6. OneTurn' /\ RecipientStage'
    BY <2>1, <2>2, <2>3
  <2> QED
    BY <2>5, <2>6
<1>5. CASE AcceptUnwind
  <2>1. PICK a \in Answers(mapped) : Counted(mapped, a) /\ Unmapped(a) /\ excuse' = (excuse \/ ~CarriedOut(a))
    BY <1>5, Zenon DEF AcceptUnwind
  <2>2. /\ rec = "unwind" /\ own = "wait" /\ st = "whole" /\ rec' = "tell" /\ gather' = << >>
        /\ UNCHANGED <<mode, view, st, got, ownVars, notifVars, notifs>>
    BY <1>5 DEF AcceptUnwind, FragmentRelease
  <2>3. faults' \in Nat
    BY <2>1, AnswerFacts
  <2>4. \/ CarriedOut(a) /\ ~mapped' /\ sent' = 0
        \/ ~CarriedOut(a) /\ UNCHANGED <<mapped, sent>>
    BY <2>1, Zenon DEF Unmapped
  <2>5. mapped' => excuse'
    BY <2>1, <2>4, Zenon
  <2>6. gather' \in Seq(Seq(Nat))
    BY <2>2, NoEntries, Zenon
  <2>7. Others' /\ OwnerStage'
    <3>1. sent' \in Nat
      BY <2>4
    <3>2. Others'
      BY <2>2, <2>3, <2>6, <3>1
    <3>3. OwnerStage'
      BY <2>2, <2>4
    <3> QED
      BY <3>2, <3>3
  <2>8. OneTurn' /\ RecipientStage'
    BY <2>2, <2>5
  <2> QED
    BY <2>7, <2>8
<1>6. CASE Release
  <2>1. PICK a \in Answers(mapped) :
       /\ Counted(mapped, a) /\ Unmapped(a)
       /\ \E ret \in Returns(a) :
            /\ IF ret = "0" THEN rec' = "tell" /\ view' = << >> ELSE UNCHANGED <<rec, view>>
            /\ excuse' = (excuse \/ (ret = "0" /\ ~CarriedOut(a)))
    BY <1>6, Zenon DEF Release
  <2>2. PICK ret \in Returns(a) :
            /\ IF ret = "0" THEN rec' = "tell" /\ view' = << >> ELSE UNCHANGED <<rec, view>>
            /\ excuse' = (excuse \/ (ret = "0" /\ ~CarriedOut(a)))
    BY <2>1, Zenon
  <2>3. /\ rec = "holding" /\ own = "wait" /\ st = "whole" /\ mapped /\ gather = << >>
        /\ UNCHANGED <<mode, gather, st, got, ownVars, notifVars, notifs>>
    BY <1>6 DEF Release
  <2>4. faults' \in Nat /\ (CarriedOut(a) => ret = "0")
    BY <2>1, <2>2, AnswerFacts
  <2>5. \/ CarriedOut(a) /\ ~mapped' /\ sent' = 0
        \/ ~CarriedOut(a) /\ UNCHANGED <<mapped, sent>>
    BY <2>1, Zenon DEF Unmapped
  <2>6. \/ rec' = "tell" /\ view' = << >> /\ (mapped' => excuse')
        \/ UNCHANGED <<rec, view, mapped, sent>>
    BY <2>2, <2>4, <2>5, Zenon
  <2>7. view' \in Seq(Nat)
    BY <2>6, NoEntries, Zenon
  <2>8. Others' /\ OwnerStage'
    <3>1. sent' \in Nat /\ rec' \in RecSteps
      BY <2>5, <2>6
    <3>2. Others'
      BY <2>3, <2>4, <2>7, <3>1
    <3>3. OwnerStage'
      BY <2>3, <2>5
    <3> QED
      BY <3>2, <3>3
  <2>9. OneTurn' /\ RecipientStage'
    BY <2>3, <2>6
  <2> QED
    BY <2>8, <2>9
<1>7. CASE NotifyReleased
  <2>1. PICK a \in Answers(TRUE) :
       /\ Counted(TRUE, a)
       /\ notifs' = IF CarriedOut(a) THEN notifs \cup {OwnerReleased} ELSE notifs
    BY <1>7, Zenon DEF NotifyReleased
  <2>2. /\ rec = "tell" /\ rec' = "idle" /\ UNCHANGED <<mode, gather, view, rmVars, ownVars, notifVars, excuse>>
    BY <1>7 DEF NotifyReleased
  <2>3. faults' \in Nat
    BY <2>1, AnswerFacts
  <2> QED
    BY <2>1, <2>2, <2>3 DEF OwnerReleased
<1> QED
  BY <1>1, <1>2, <1>3, <1>4, <1>5, <1>6, <1>7 DEF RecipientNext

LEMMA NotifierRest ==
  ASSUME IInv, Bools', NEW s \in Sides, NotifierNext(s) \/ Register(s) \/ Unregister(s)
  PROVE  Rest'
<1> USE DEF IInv, Shape, Rest, Others, OwnerStage, OneTurn, RecipientStage, OwnSteps, RecSteps, Modes, Sides,
        rmVars, ownVars, recVars, notifVars
<1>1. CASE NotifierRead(s)
  <2>1. /\ s \in notifs /\ notifs = {s} /\ notifs' = {} /\ \A t \in Sides : ~inCall[t]
        /\ UNCHANGED <<handler, unregs, rmVars, ownVars, recVars, faults, excuse>>
    BY <1>1 DEF NotifierRead
  <2>2. \A t \in Sides : inCall'[t] => t = s
    BY <1>1, <2>1 DEF NotifierRead
  <2> QED
    BY <2>1, <2>2
<1>2. CASE NotifierCall(s)
  <2>1. /\ inCall[s] /\ own = "wait" /\ rec = "idle" /\ notifs = {}
        /\ UNCHANGED <<handler, unregs, n, idx, transfers, mode, gather, view, rmVars, notifs, faults, excuse>>
    BY <1>2 DEF NotifierCall
  <2>2. \A t \in Sides : ~inCall'[t]
    BY <1>2, <2>1 DEF NotifierCall
  <2>3. \/ s = "owner" /\ own' = "reclaim" /\ rec' = "idle"
        \/ s = "recipient" /\ own' = "wait" /\ rec' = "prepare"
    BY <1>2, <2>1 DEF NotifierCall
  <2> QED
    BY <2>1, <2>2, <2>3
<1>3. CASE Register(s) \/ Unregister(s)
  <2>1. UNCHANGED <<inCall, rmVars, ownVars, recVars, notifs, faults, excuse>> /\ unregs' \in Nat
    BY <1>3 DEF Register, Unregister
  <2>2. Others' /\ OwnerStage'
    BY <2>1
  <2>3. OneTurn' /\ RecipientStage'
    BY <2>1
  <2> QED
    BY <2>2, <2>3
<1> QED
  BY <1>1, <1>2, <1>3 DEF NotifierNext

LEMMA IInvInvariant == Spec => []IInv
<1>1. Init => IInv
  <2> SUFFICES ASSUME Init PROVE IInv
    OBVIOUS
  <2>1. mapped \in BOOLEAN /\ excuse \in BOOLEAN /\ handler \in [Sides -> BOOLEAN] /\ inCall \in [Sides -> BOOLEAN]
    BY Zenon DEF Init
  <2>2. ~mapped /\ \A s \in Sides : ~inCall[s]
    BY Zenon DEF Init
  <2>3. Shape
    BY <2>1, Sizes, NoEntries DEF Init, Shape, OwnSteps, RecSteps, Modes
  <2> QED
    BY <2>2, <2>3 DEF Init, IInv, OwnerStage, OneTurn, RecipientStage
<1>2. IInv /\ [Next]_vars => IInv'
  <2> SUFFICES ASSUME IInv, [Next]_vars PROVE IInv'
    OBVIOUS
  <2>1. CASE UNCHANGED vars
    BY <2>1 DEF vars, rmVars, ownVars, recVars, notifVars, IInv, Shape, OwnerStage, OneTurn, RecipientStage
  <2>2. CASE Next
    <3>1. Bools'
      BY <2>2, BoolStep DEF IInv, Shape, Bools
    <3>2. Rest'
      BY <2>2, <3>1, OwnerRest, RecipientRest, NotifierRest DEF Next
    <3> QED
      BY <3>1, <3>2 DEF IInv, Shape, Bools, Rest, Others
  <2> QED
    BY <2>1, <2>2
<1> QED
  BY <1>1, <1>2, PTL DEF Spec

\* The recipient's list has the entries of the region and no others.
LEMMA ViewIsRegion == ASSUME IInv, rec = "holding" PROVE ToSet(view) = 1..n
<1>1. Unbroken(view, n, n) /\ view \in Seq(Nat)
  BY DEF IInv, Shape, RecipientStage
<1>2. DOMAIN view = 1..n
  BY <1>1 DEF Unbroken
<1> QED
  BY <1>1, <1>2 DEF Unbroken, ToSet

\* However many ACCEPT replies it takes, the list gh_rm_mem_accept returns has every
\* entry of the region, each once, with the Resource Manager's fragments unbroken, for
\* regions and fragments of any size and whatever failed before:
\* gh_sgl_fragment_combine drops and doubles none of them.
THEOREM AcceptedRegionIsWhole == Spec => []AcceptedIsWhole
<1>1. IInv => AcceptedIsWhole
  BY ViewIsRegion DEF IInv, RecipientStage, Unbroken, AcceptedIsWhole
<1> QED
  BY <1>1, IInvInvariant, PTL
-----------------------------------------------------------------------------
(* The refinement                                                          *)

Accepting == rec \in {"accept", "done", "combine", "unwind", "holding"}

Region == IF Where \in {"offered", "held"} THEN 1..n ELSE {}
Seen   == IF Where = "held" THEN ToSet(view) ELSE {}

\* What the invariant makes of Where, and of the list the recipient was given.
Places ==
  /\ st = "none" \/ own \in {"append", "undo"} => Where = "owner"
  /\ st # "none" /\ own = "idle" => Where = "lost"
  /\ own \in {"notify", "wait", "reclaim"} =>
       /\ mapped /\ ~Accepting => Where = "lost"
       /\ rec = "holding" => Where = "held"
       /\ ~(mapped /\ ~Accepting) /\ rec # "holding" => Where = "offered"
  /\ Region = IF Where \in {"offered", "held"} THEN 1..n ELSE {}
  /\ Seen = IF Where = "held" THEN 1..n ELSE {}

LEMMA InvPlaces == IInv => Places
<1> SUFFICES ASSUME IInv PROVE Places
  OBVIOUS
<1>1. own \in OwnSteps /\ (own \in {"notify", "wait", "reclaim"} => st = "whole")
  BY DEF IInv, Shape, OwnerStage
<1>2. st = "none" \/ own \in {"append", "undo"} => Where = "owner"
  BY DEF Where
<1>3. st # "none" /\ own = "idle" => Where = "lost"
  BY DEF Where
<1>4. own \in {"notify", "wait", "reclaim"} =>
       /\ mapped /\ ~Accepting => Where = "lost"
       /\ rec = "holding" => Where = "held"
       /\ ~(mapped /\ ~Accepting) /\ rec # "holding" => Where = "offered"
  BY <1>1 DEF Where, Accepting
<1>5. Where = "held" => rec = "holding"
  BY <1>1, <1>2, <1>3, <1>4 DEF OwnSteps
<1>6. rec = "holding" => ToSet(view) = 1..n
  BY ViewIsRegion
<1> QED
  BY <1>2, <1>3, <1>4, <1>5, <1>6 DEF Places, Region, Seen

LEMMA InvPlacesNext == IInv' => Places'
BY InvPlaces, PTL

\* What a step may do to the region.
Moves ==
  \/ Where' = Where /\ (Where \in {"offered", "held"} => n' = n) /\ (excuse' = excuse \/ excuse')
  \/ Where = "owner" /\ Where' = "offered" /\ n' \in 1..MaxEntries /\ excuse' = excuse
  \/ Where = "offered" /\ Where' = "held" /\ n' = n /\ excuse' = excuse
  \/ Where = "held" /\ Where' = "offered" /\ n' = n /\ excuse' = excuse
  \/ Where = "offered" /\ Where' = "owner" /\ excuse' = excuse
  \/ Where' = "lost" /\ excuse'

LEMMA MovesRefine == ASSUME IInv, IInv', Moves PROVE [Transfer!TNext]_(Transfer!tvars)
<1>0. /\ Seen = IF Where = "held" THEN 1..n ELSE {}
      /\ Seen' = IF Where' = "held" THEN 1..n' ELSE {}
  BY InvPlaces, InvPlacesNext DEF Places
<1>1. /\ Region = IF Where \in {"offered", "held"} THEN 1..n ELSE {}
      /\ Region' = IF Where' \in {"offered", "held"} THEN 1..n' ELSE {}
  BY DEF Region
<1>2. excuse' => excuse' = TRUE
  BY Zenon DEF IInv, Shape
<1>3. CASE Where' = Where /\ (Where \in {"offered", "held"} => n' = n) /\ (excuse' = excuse \/ excuse')
  <2>1. Region' = Region /\ Seen' = Seen
    BY <1>0, <1>1, <1>3
  <2>2. CASE excuse' = excuse
    BY <1>3, <2>1, <2>2 DEF Transfer!tvars, Region, Seen
  <2>3. CASE excuse'
    BY <1>2, <1>3, <2>1, <2>3 DEF Transfer!TNext, Transfer!Fail, Region, Seen
  <2> QED
    BY <1>3, <2>2, <2>3
<1>4. CASE Where = "owner" /\ Where' = "offered" /\ n' \in 1..MaxEntries /\ excuse' = excuse
  <2>1. Region' \in (SUBSET (1..MaxEntries)) \ {{}} /\ Seen' = {}
    <3>1. 1 \in 1..n' /\ 1..n' \subseteq 1..MaxEntries
      BY <1>4, Sizes
    <3>2. Region' = 1..n' /\ Seen' = {}
      BY <1>0, <1>1, <1>4
    <3>3. 1..n' # {}
      BY <3>1
    <3>4. 1..n' \in (SUBSET (1..MaxEntries)) \ {{}}
      BY <3>1, <3>3
    <3> QED
      BY <3>2, <3>4
  <2> QED
    BY <1>4, <2>1 DEF Transfer!TNext, Transfer!Offer, Region, Seen
<1>5. CASE Where = "offered" /\ Where' = "held" /\ n' = n /\ excuse' = excuse
  BY <1>0, <1>1, <1>5 DEF Transfer!TNext, Transfer!Take, Region, Seen
<1>6. CASE Where = "held" /\ Where' = "offered" /\ n' = n /\ excuse' = excuse
  BY <1>0, <1>1, <1>6 DEF Transfer!TNext, Transfer!Leave, Region, Seen
<1>7. CASE Where = "offered" /\ Where' = "owner" /\ excuse' = excuse
  BY <1>0, <1>1, <1>7 DEF Transfer!TNext, Transfer!Return, Region, Seen
<1>8. CASE Where' = "lost" /\ excuse'
  BY <1>0, <1>1, <1>8 DEF Transfer!TNext, Transfer!Lose, Region, Seen
<1> QED
  BY <1>3, <1>4, <1>5, <1>6, <1>7, <1>8 DEF Moves

LEMMA OwnerMoves == ASSUME IInv, IInv', Share \/ OwnerNext PROVE Moves
<1> USE DEF rmVars, ownVars, recVars, notifVars
<1>0. Places /\ Places'
  BY InvPlaces, InvPlacesNext
<1>1. CASE Share
  <2>1. PICK count \in 1..MaxEntries, a \in Answers(TRUE) :
          /\ IF CarriedOut(a)
               THEN st' = IF count > MaxSgl THEN "partial" ELSE "whole"
               ELSE st' = st
          /\ n' = IF a = "ok" THEN count ELSE 0
          /\ own' = IF a # "ok" THEN "idle" ELSE IF Lesser(count, MaxSgl) < count THEN "append" ELSE "notify"
          /\ excuse' = (excuse \/ (CarriedOut(a) /\ a # "ok"))
    BY <1>1, Zenon DEF Share
  <2>2. own = "idle" /\ st = "none" /\ UNCHANGED <<mapped, rec>> /\ rec = "idle" /\ ~mapped
    BY <1>1 DEF Share, IInv, OneTurn, OwnerStage
  <2>3. Where = "owner"
    BY <1>0, <2>2 DEF Places
  <2>4. CASE ~CarriedOut(a)
    <3>1. st' = "none" /\ a # "ok"
      BY <2>1, <2>2, <2>4 DEF CarriedOut
    <3>2. Where' = "owner"
      BY <1>0, <3>1 DEF Places
    <3>3. excuse' = excuse
      BY <2>1, <2>4, Zenon DEF IInv, Shape
    <3> QED
      BY <2>3, <3>2, <3>3 DEF Moves
  <2>5. CASE CarriedOut(a) /\ a # "ok"
    <3>1. st' # "none" /\ own' = "idle"
      BY <2>1, <2>5
    <3>2. excuse'
      BY <2>1, <2>5, Zenon
    <3>3. Where' = "lost"
      BY <1>0, <3>1 DEF Places
    <3> QED
      BY <3>2, <3>3 DEF Moves
  <2>6. CASE a = "ok"
    <3>1. excuse' = excuse
      BY <2>1, <2>6, Zenon DEF IInv, Shape
    <3>2. n' \in 1..MaxEntries /\ own' \in {"append", "notify"}
      BY <2>1, <2>6
    <3>3. Where' = IF own' = "append" THEN "owner" ELSE "offered"
      BY <1>0, <2>2, <3>2 DEF Places
    <3> QED
      BY <2>3, <3>1, <3>2, <3>3 DEF Moves
  <2> QED
    BY <2>4, <2>5, <2>6
<1>2. CASE Append1
  <2>1. own' \in {"undo", "append", "notify"}
    <3>1. PICK a \in Answers(st = "partial") :
            own' = IF a # "ok" THEN "undo" ELSE IF NextIdx < n THEN "append" ELSE "notify"
      BY <1>2, Zenon DEF Append1
    <3> QED
      BY <3>1
  <2>2. own = "append" /\ UNCHANGED <<n, mapped, rec, excuse>> /\ rec = "idle" /\ ~mapped /\ n \in 1..MaxEntries
    BY <1>2, Sizes DEF Append1, IInv, Shape, OneTurn, OwnerStage
  <2>3. Where = "owner" /\ Where' = IF own' = "notify" THEN "offered" ELSE "owner"
    BY <1>0, <2>1, <2>2 DEF Places
  <2> QED
    BY <2>1, <2>2, <2>3 DEF Moves
<1>3. CASE Undo
  <2>1. PICK a \in Answers(~mapped) : Reclaimed(a) /\ excuse' = (excuse \/ ~CarriedOut(a))
    BY <1>3, Zenon DEF Undo, UndoReclaims
  <2>2. own = "undo" /\ own' = "idle" /\ st # "none" /\ Where = "owner"
    BY <1>0, <1>3 DEF Undo, OwnerDone, IInv, OwnerStage, Places
  <2>3. CASE CarriedOut(a)
    <3>1. st' = "none"
      BY <2>1, <2>3 DEF Reclaimed
    <3>2. excuse' = excuse
      BY <2>1, <2>3, Zenon DEF IInv, Shape
    <3> QED
      BY <1>0, <2>2, <3>1, <3>2 DEF Places, Moves
  <2>4. CASE ~CarriedOut(a)
    <3>1. st' # "none"
      BY <2>1, <2>2, <2>4 DEF Reclaimed
    <3>2. excuse'
      BY <2>1, <2>4, Zenon
    <3> QED
      BY <1>0, <2>2, <3>1, <3>2 DEF Places, Moves
  <2> QED
    BY <2>3, <2>4
<1>4. CASE NotifyShared
  <2>1. own' \in {"wait", "reclaim"}
    BY <1>4 DEF NotifyShared
  <2>2. own = "notify" /\ UNCHANGED <<n, mapped, rec, excuse>> /\ rec = "idle" /\ ~mapped
    BY <1>4 DEF NotifyShared, IInv, OneTurn
  <2>3. Where = "offered" /\ Where' = "offered"
    BY <1>0, <2>1, <2>2 DEF Places
  <2> QED
    BY <2>2, <2>3 DEF Moves
<1>5. CASE Reclaim
  <2>1. PICK a \in Answers(~mapped) :
          /\ Reclaimed(a)
          /\ \E ret \in Returns(a) :
               /\ IF ret = "0" THEN OwnerDone ELSE own' = "wait" /\ UNCHANGED <<n, idx>>
               /\ excuse' = (excuse \/ (ret = "0" /\ ~CarriedOut(a)))
    BY <1>5, Zenon DEF Reclaim
  <2>2. PICK ret \in Returns(a) :
          /\ IF ret = "0" THEN OwnerDone ELSE own' = "wait" /\ UNCHANGED <<n, idx>>
          /\ excuse' = (excuse \/ (ret = "0" /\ ~CarriedOut(a)))
    BY <2>1, Zenon
  <2>3. own = "reclaim" /\ st = "whole" /\ UNCHANGED <<mapped, rec>> /\ rec = "idle"
    BY <1>5 DEF Reclaim, IInv, OneTurn, OwnerStage
  <2>4. CarriedOut(a) => ~mapped /\ ret = "0"
    <3>1. (~mapped) \in BOOLEAN
      BY Zenon
    <3> QED
      BY <2>2, <3>1, AnswerFacts DEF IInv
  <2>5. CASE CarriedOut(a)
    <3>1. st' = "none" /\ ~mapped
      BY <2>1, <2>4, <2>5 DEF Reclaimed
    <3>2. excuse' = excuse
      BY <2>2, <2>5, Zenon DEF IInv, Shape
    <3>3. Where = "offered" /\ Where' = "owner"
      BY <1>0, <2>3, <3>1 DEF Places
    <3> QED
      BY <3>2, <3>3 DEF Moves
  <2>6. CASE ~CarriedOut(a) /\ ret = "0"
    <3>1. st' # "none" /\ own' = "idle"
      BY <2>1, <2>2, <2>3, <2>6 DEF Reclaimed, OwnerDone
    <3>2. excuse'
      BY <2>2, <2>6, Zenon
    <3> QED
      BY <1>0, <3>1, <3>2 DEF Places, Moves
  <2>7. CASE ~CarriedOut(a) /\ ret # "0"
    <3>1. own' = "wait" /\ n' = n
      BY <2>2, <2>7
    <3>2. excuse' = excuse
      BY <2>2, <2>7, Zenon DEF IInv, Shape
    <3>3. Where' = Where
      BY <1>0, <2>3, <3>1 DEF Places, Accepting
    <3> QED
      BY <3>1, <3>2, <3>3 DEF Moves
  <2> QED
    BY <2>5, <2>6, <2>7
<1> QED
  BY <1>1, <1>2, <1>3, <1>4, <1>5 DEF OwnerNext

\* While the recipient's client is between its first ACCEPT call and the last, and
\* when it has not called yet, the region is on offer.
LEMMA RecipientMoves == ASSUME IInv, IInv', RecipientNext PROVE Moves
<1> USE DEF rmVars, ownVars, recVars, notifVars
<1>0. Places /\ Places'
  BY InvPlaces, InvPlacesNext
<1>1. own = "wait" /\ own' = "wait" /\ n' = n
  BY DEF RecipientNext, AcceptPrepare, AcceptCall, AcceptDone, AcceptCombine, AcceptUnwind, Release,
         NotifyReleased, IInv, OneTurn
<1>2. /\ rec = "holding" => Where = "held"
      /\ rec # "holding" /\ (Accepting \/ ~mapped) => Where = "offered"
      /\ mapped /\ ~Accepting => Where = "lost"
      /\ rec' = "holding" => Where' = "held"
      /\ rec' # "holding" /\ (Accepting' \/ ~mapped') => Where' = "offered"
      /\ mapped' /\ ~Accepting' => Where' = "lost"
  BY <1>0, <1>1 DEF Places
<1>3. CASE AcceptPrepare
  <2>1. rec = "prepare" /\ ~mapped /\ rec' \in {"accept", "tell"} /\ UNCHANGED <<mapped, excuse>>
    BY <1>3 DEF AcceptPrepare, IInv, RecipientStage
  <2> QED
    BY <1>1, <1>2, <2>1 DEF Moves
<1>4. CASE AcceptCall
  <2>1. PICK a \in Answers(st = "whole"), noMem \in BOOLEAN :
       /\ noMem => a = "ok" /\ faults < MaxFaults
       /\ IF CarriedOut(a) THEN mapped' = TRUE ELSE mapped' = mapped
       /\ IF a # "ok" \/ noMem
            THEN rec' = AcceptFails(a)
            ELSE IF mode = "given"
            THEN rec' = "holding"
            ELSE rec' = IF FragEnd < Len(got) THEN "accept"
                        ELSE IF mode = "anyDone" THEN "done" ELSE "combine"
       /\ excuse' = (excuse \/ (CarriedOut(a) /\ ~InProgress(a)))
    BY <1>4, Zenon DEF AcceptCall
  <2>2. rec = "accept" /\ Where = "offered"
    BY <1>2, <1>4 DEF AcceptCall, Accepting
  <2>3. CASE a = "ok" \/ InProgress(a) \/ ~CarriedOut(a)
    <3>1. a = "ok" => InProgress(a)
      BY DEF InProgress
    <3>2. excuse' = excuse
      BY <2>1, <2>3, <3>1, Zenon DEF IInv, Shape
    <3>3. \/ rec' \in {"holding", "accept", "done", "combine", "unwind"}
          \/ rec' = "tell" /\ ~InProgress(a)
      BY <2>1 DEF AcceptFails
    <3>4. ~InProgress(a) => ~mapped'
      <4> SUFFICES ASSUME ~InProgress(a) PROVE ~mapped'
        OBVIOUS
      <4>1. gather = << >> /\ ~CarriedOut(a)
        BY <2>3, <3>1 DEF InProgress
      <4>2. ~mapped
        BY <2>2, <4>1 DEF IInv, RecipientStage
      <4> QED
        BY <2>1, <4>1, <4>2, Zenon
    <3>5. Where' \in {"offered", "held"}
      BY <1>2, <3>3, <3>4 DEF Accepting
    <3> QED
      BY <1>1, <2>2, <3>2, <3>5 DEF Moves
  <2>4. CASE a # "ok" /\ ~InProgress(a) /\ CarriedOut(a)
    <3>1. rec' = "tell"
      BY <2>1, <2>4 DEF AcceptFails
    <3>2. mapped' /\ excuse'
      BY <2>1, <2>4, Zenon
    <3> QED
      BY <1>2, <3>1, <3>2 DEF Accepting, Moves
  <2> QED
    BY <2>3, <2>4
<1>5. CASE AcceptDone \/ AcceptCombine
  <2>1. /\ rec \in {"done", "combine"} /\ UNCHANGED excuse
        /\ rec' \in {"combine", "unwind", "holding"}
    BY <1>5 DEF AcceptDone, AcceptCombine
  <2>2. Where = "offered" /\ Where' \in {"offered", "held"}
    BY <1>2, <2>1 DEF Accepting
  <2> QED
    BY <1>1, <2>1, <2>2 DEF Moves
<1>6. CASE AcceptUnwind
  <2>1. PICK a \in Answers(mapped) : Unmapped(a) /\ excuse' = (excuse \/ ~CarriedOut(a))
    BY <1>6, Zenon DEF AcceptUnwind
  <2>2. rec = "unwind" /\ rec' = "tell" /\ Where = "offered" /\ mapped
    BY <1>2, <1>6 DEF AcceptUnwind, Accepting, IInv, RecipientStage
  <2>3. CASE CarriedOut(a)
    <3>1. ~mapped' /\ excuse' = excuse
      BY <2>1, <2>3, Zenon DEF Unmapped, IInv, Shape
    <3> QED
      BY <1>1, <1>2, <2>2, <3>1 DEF Moves
  <2>4. CASE ~CarriedOut(a)
    <3>1. mapped' /\ excuse'
      BY <2>1, <2>2, <2>4, Zenon DEF Unmapped
    <3> QED
      BY <1>2, <2>2, <3>1 DEF Accepting, Moves
  <2> QED
    BY <2>3, <2>4
<1>7. CASE Release
  <2>1. PICK a \in Answers(mapped) :
       /\ Unmapped(a)
       /\ \E ret \in Returns(a) :
            /\ IF ret = "0" THEN rec' = "tell" ELSE rec' = rec
            /\ excuse' = (excuse \/ (ret = "0" /\ ~CarriedOut(a)))
    BY <1>7, Zenon DEF Release
  <2>2. PICK ret \in Returns(a) :
            /\ IF ret = "0" THEN rec' = "tell" ELSE rec' = rec
            /\ excuse' = (excuse \/ (ret = "0" /\ ~CarriedOut(a)))
    BY <2>1, Zenon
  <2>3. rec = "holding" /\ Where = "held" /\ mapped
    BY <1>2, <1>7 DEF Release, IInv, RecipientStage
  <2>4. CarriedOut(a) => ret = "0"
    BY <2>2, AnswerFacts DEF IInv, Shape
  <2>5. CASE CarriedOut(a)
    <3>1. ~mapped' /\ excuse' = excuse
      BY <2>1, <2>2, <2>5, Zenon DEF Unmapped, IInv, Shape
    <3>2. Where' = "offered"
      BY <1>2, <2>2, <2>4, <2>5, <3>1
    <3> QED
      BY <1>1, <2>3, <3>1, <3>2 DEF Moves
  <2>6. CASE ~CarriedOut(a) /\ ret = "0"
    <3>1. mapped' /\ excuse'
      BY <2>1, <2>2, <2>3, <2>6, Zenon DEF Unmapped
    <3> QED
      BY <1>2, <2>2, <2>6, <3>1 DEF Accepting, Moves
  <2>7. CASE ~CarriedOut(a) /\ ret # "0"
    <3>1. excuse' = excuse
      BY <2>2, <2>7, Zenon DEF IInv, Shape
    <3> QED
      BY <1>1, <1>2, <2>2, <2>3, <2>7, <3>1 DEF Moves
  <2> QED
    BY <2>5, <2>6, <2>7
<1>8. CASE NotifyReleased
  <2>1. rec = "tell" /\ rec' = "idle" /\ UNCHANGED <<mapped, excuse>>
    BY <1>8 DEF NotifyReleased
  <2>2. Where' = Where
    BY <1>2, <2>1 DEF Accepting
  <2> QED
    BY <1>1, <2>1, <2>2 DEF Moves
<1> QED
  BY <1>3, <1>4, <1>5, <1>6, <1>7, <1>8 DEF RecipientNext

\* A notification moves nothing.
LEMMA NotifierMoves ==
  ASSUME IInv, IInv', NEW s \in Sides, NotifierNext(s) \/ Register(s) \/ Unregister(s)
  PROVE  Moves
<1> USE DEF rmVars, ownVars, recVars, notifVars
<1>1. CASE NotifierRead(s) \/ Register(s) \/ Unregister(s)
  <2>1. UNCHANGED <<st, own, mapped, rec, n, excuse>>
    BY <1>1 DEF NotifierRead, Register, Unregister
  <2>2. Where' = Where
    BY <2>1 DEF Where
  <2> QED
    BY <2>1, <2>2 DEF Moves
<1>2. CASE NotifierCall(s)
  <2>1. /\ own = "wait" /\ rec = "idle" /\ own' \in {"wait", "reclaim"} /\ rec' \in {"idle", "prepare"}
        /\ UNCHANGED <<st, mapped, n, excuse>>
    BY <1>2 DEF NotifierCall, IInv, OneTurn, Sides
  <2>2. Where' = Where
    BY <2>1 DEF Where
  <2> QED
    BY <2>1, <2>2 DEF Moves
<1> QED
  BY <1>1, <1>2 DEF NotifierNext

\* The memory calls of gh_rm_iface.c implement GhMemTransfer.  However many APPEND
\* and ACCEPT calls a region takes and whichever of them fails, the recipient gets
\* the region whole or not at all, it never goes back to the owner while it is
\* held, and neither VM loses it unless the answer to some call could not be used
\* or a call that takes memory back failed.
THEOREM MemoryTransferRefined == Spec => RefinesTransfer
<1>1. Init => Transfer!TInit
  <2> SUFFICES ASSUME Init PROVE Transfer!TInit
    OBVIOUS
  <2>1. Where = "owner"
    BY DEF Init, Where
  <2>2. excuse = FALSE
    BY Zenon DEF Init
  <2> QED
    BY <2>1, <2>2 DEF Transfer!TInit
<1>2. IInv /\ IInv' /\ [Next]_vars => [Transfer!TNext]_(Transfer!tvars)
  <2> SUFFICES ASSUME IInv, IInv', [Next]_vars PROVE [Transfer!TNext]_(Transfer!tvars)
    OBVIOUS
  <2>1. CASE Next
    <3>1. Moves
      BY <2>1, OwnerMoves, RecipientMoves, NotifierMoves DEF Next
    <3> QED
      BY <3>1, MovesRefine
  <2>2. CASE UNCHANGED vars
    <3>1. UNCHANGED <<st, own, mapped, rec, n, view, excuse>>
      BY <2>2 DEF vars, rmVars, ownVars, recVars
    <3> QED
      BY <3>1 DEF Transfer!tvars, Where
  <2> QED
    BY <2>1, <2>2
<1> QED
  BY <1>1, <1>2, IInvInvariant, PTL DEF Spec, RefinesTransfer, Transfer!TSpec
=============================================================================
