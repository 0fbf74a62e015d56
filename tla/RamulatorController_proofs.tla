--------------------- MODULE RamulatorController_proofs ---------------------
(***************************************************************************)
(* Proofs about the controller of a Ramulator channel, for every number of *)
(* banks, addresses, requests and refreshes, every size of the queues and  *)
(* every setting of the watermarks and of the scheduler's cap.             *)
(***************************************************************************)
EXTENDS RamulatorController, SequenceTheorems, FiniteSetTheorems, TLAPS

\* What the proofs assume of the constants.
ControllerParameters ==
    /\ BankNumber \in Nat \ {0}
    /\ ColumnNumber \in Nat \ {0}
    /\ AddressNumber \in Nat
    /\ QueueMax \in Nat
    /\ Cap \in Nat
    /\ RequestNumber \in Nat
    /\ RefreshNumber \in Nat
-----------------------------------------------------------------------------
(* Sequences and naturals *)

LEMMA LeastNatural ==
    ASSUME NEW T \in SUBSET Nat, T # {}
    PROVE  \E m \in T : \A k \in T : m <= k
<1>. DEFINE R == OpToRel(<, Nat)
<1>1. IsWellFoundedOn(R, Nat)
  BY NatLessThanWellFounded
<1>2. PICK m \in T : \A k \in T : ~(<<k, m>> \in R)
  BY <1>1, WFMin
<1>3. \A k \in Nat : k < m => <<k, m>> \in R
  BY DEF OpToRel
<1>. HIDE DEF R
<1>4. \A k \in T : ~(k < m)
  BY <1>2, <1>3
<1>5. \A k \in T : k \in Nat /\ m \in Nat
  OBVIOUS
<1>6. \A k \in T : m <= k
  BY <1>4, <1>5
<1>. QED BY <1>6

LEMMA RemoveAtProperties ==
    ASSUME NEW S, NEW s \in Seq(S), NEW i \in 1 .. Len(s)
    PROVE  /\ RemoveAt(s, i) \in Seq(S)
           /\ Len(RemoveAt(s, i)) = Len(s) - 1
           /\ \A j \in 1 .. Len(s) - 1 :
                 RemoveAt(s, i)[j] = IF j < i THEN s[j] ELSE s[j + 1]
<1>. DEFINE a == SubSeq(s, 1, i - 1)
            b == SubSeq(s, i + 1, Len(s))
<1>0. Len(s) \in Nat /\ i \in Nat /\ \A j \in 1 .. Len(s) : s[j] \in S
  BY ElementOfSeq, LenProperties
<1>1. /\ a \in Seq(S)
      /\ Len(a) = i - 1
      /\ \A j \in 1 .. i - 1 : a[j] = s[j]
  BY <1>0, SubSeqProperties
<1>2. /\ b \in Seq(S)
      /\ Len(b) = Len(s) - i
      /\ \A j \in 1 .. Len(s) - i : b[j] = s[i + j]
  BY <1>0, SubSeqProperties
<1>. HIDE DEF a, b
<1>3. /\ a \o b \in Seq(S)
      /\ Len(a \o b) = Len(s) - 1
      /\ \A j \in 1 .. Len(s) - 1 : (a \o b)[j] = IF j < i THEN s[j] ELSE s[j + 1]
  <2>1. /\ a \o b \in Seq(S)
        /\ Len(a \o b) = Len(a) + Len(b)
        /\ \A j \in 1 .. Len(a) + Len(b) :
              (a \o b)[j] = IF j <= Len(a) THEN a[j] ELSE b[j - Len(a)]
    BY <1>1, <1>2, ConcatProperties
  <2>2. Len(a) + Len(b) = Len(s) - 1
    BY <1>0, <1>1, <1>2
  <2>3. ASSUME NEW j \in 1 .. Len(s) - 1
        PROVE  (a \o b)[j] = IF j < i THEN s[j] ELSE s[j + 1]
    <3>1. (a \o b)[j] = IF j <= i - 1 THEN a[j] ELSE b[j - (i - 1)]
      BY <1>1, <2>1, <2>2
    <3>2. CASE j < i
      BY <1>0, <1>1, <3>1, <3>2
    <3>3. CASE ~(j < i)
      <4>1. /\ j - (i - 1) \in 1 .. Len(s) - i /\ i + (j - (i - 1)) = j + 1
            /\ ~(j <= i - 1)
        BY <1>0, <3>3
      <4>2. b[j - (i - 1)] = s[j + 1]
        BY <1>2, <4>1
      <4>. QED BY <3>1, <3>3, <4>1, <4>2
    <3>. QED BY <3>2, <3>3
  <2>. QED BY <2>1, <2>2, <2>3
<1>4. RemoveAt(s, i) = a \o b
  BY DEF RemoveAt, a, b
<1>. QED BY <1>3, <1>4

\* The front is removed from a sequence by Tail.
LEMMA TailRemoves ==
    ASSUME NEW S, NEW s \in Seq(S), s # <<>>
    PROVE  Tail(s) = RemoveAt(s, 1) /\ 1 \in 1 .. Len(s) /\ Head(s) = s[1]
<1>0. Len(s) \in Nat \ {0}
  BY EmptySeq
<1>1. RemoveAt(s, 1) \in Seq(S)
  BY <1>0, RemoveAtProperties
<1>2. Len(RemoveAt(s, 1)) = Len(s) - 1
  BY <1>0, RemoveAtProperties
<1>3. \A j \in 1 .. Len(s) - 1 : RemoveAt(s, 1)[j] = s[j + 1]
  <2>1. \A j \in 1 .. Len(s) - 1 : RemoveAt(s, 1)[j] = IF j < 1 THEN s[j] ELSE s[j + 1]
    <3>1. 1 \in 1 .. Len(s)
      BY <1>0
    <3>. QED BY <3>1, RemoveAtProperties, Zenon
  <2>. QED BY <1>0, <2>1
<1>4. /\ Tail(s) \in Seq(S) /\ Len(Tail(s)) = Len(s) - 1
      /\ \A j \in 1 .. Len(s) - 1 : Tail(s)[j] = s[j + 1]
  BY HeadTailProperties
<1>. QED BY <1>0, <1>1, <1>2, <1>3, <1>4, SeqEqual
-----------------------------------------------------------------------------
(* Sequences of requests that have different numbers *)

NumbersDiffer(s) == \A i, j \in DOMAIN s : s[i].id = s[j].id => i = j

LEMMA RemoveKeepsNumbers ==
    ASSUME NEW s \in Seq(Request), NumbersDiffer(s), NEW i \in DOMAIN s
    PROVE  /\ NumbersDiffer(RemoveAt(s, i))
           /\ ToSet(RemoveAt(s, i)) = ToSet(s) \ {s[i]}
           /\ \A r \in ToSet(RemoveAt(s, i)) : r.id # s[i].id
<1>. DEFINE t == RemoveAt(s, i)
<1>0. DOMAIN s = 1 .. Len(s) /\ Len(s) \in Nat /\ i \in Nat
  BY LenProperties
<1>1. /\ t \in Seq(Request) /\ Len(t) = Len(s) - 1
      /\ \A j \in 1 .. Len(s) - 1 : t[j] = IF j < i THEN s[j] ELSE s[j + 1]
  BY <1>0, RemoveAtProperties
<1>. HIDE DEF t
<1>2. DOMAIN t = 1 .. Len(s) - 1
  BY <1>0, <1>1, LenProperties
<1>3. NumbersDiffer(t)
  <2>. SUFFICES ASSUME NEW j \in DOMAIN t, NEW k \in DOMAIN t, t[j].id = t[k].id
                PROVE  j = k
    BY DEF NumbersDiffer
  <2>. DEFINE p(x) == IF x < i THEN x ELSE x + 1
  <2>1. p(j) \in DOMAIN s /\ p(k) \in DOMAIN s /\ t[j] = s[p(j)] /\ t[k] = s[p(k)]
    BY <1>0, <1>1, <1>2
  <2>2. p(j) = p(k)
    BY <2>1 DEF NumbersDiffer
  <2>. QED BY <1>0, <1>2, <2>2
<1>4. ASSUME NEW r \in ToSet(t) PROVE r \in ToSet(s) /\ r.id # s[i].id
  <2>1. PICK j \in DOMAIN t : r = t[j]
    BY DEF ToSet
  <2>. DEFINE k == IF j < i THEN j ELSE j + 1
  <2>2. k \in DOMAIN s /\ k # i /\ r = s[k]
    BY <1>0, <1>1, <1>2, <2>1
  <2>. QED BY <2>2 DEF ToSet, NumbersDiffer
<1>5. ASSUME NEW r \in ToSet(s), r # s[i] PROVE r \in ToSet(t)
  <2>1. PICK k \in DOMAIN s : r = s[k]
    BY DEF ToSet
  <2>. DEFINE j == IF k < i THEN k ELSE k - 1
  <2>2. k # i
    BY <1>5, <2>1
  <2>3. j \in DOMAIN t /\ t[j] = s[k]
    BY <1>0, <1>1, <1>2, <2>2
  <2>. QED BY <2>1, <2>3 DEF ToSet
<1>. QED BY <1>3, <1>4, <1>5 DEF t

LEMMA AppendKeepsNumbers ==
    ASSUME NEW s \in Seq(Request), NumbersDiffer(s), NEW r \in Request,
           \A x \in ToSet(s) : x.id # r.id
    PROVE  /\ Append(s, r) \in Seq(Request)
           /\ Len(Append(s, r)) = Len(s) + 1
           /\ NumbersDiffer(Append(s, r))
           /\ ToSet(Append(s, r)) = ToSet(s) \cup {r}
<1>. DEFINE t == Append(s, r)
<1>0. DOMAIN s = 1 .. Len(s) /\ Len(s) \in Nat
  BY LenProperties
<1>1. /\ t \in Seq(Request) /\ Len(t) = Len(s) + 1
      /\ \A j \in 1 .. Len(s) : t[j] = s[j]
      /\ t[Len(s) + 1] = r
  BY AppendProperties
<1>. HIDE DEF t
<1>2. DOMAIN t = 1 .. Len(s) + 1
  BY <1>1, LenProperties
<1>3. \A j \in DOMAIN s : s[j].id # r.id
  BY DEF ToSet
<1>4. NumbersDiffer(t)
  BY <1>0, <1>1, <1>2, <1>3 DEF NumbersDiffer
<1>5. ToSet(t) = ToSet(s) \cup {r}
  BY <1>0, <1>1, <1>2 DEF ToSet
<1>. QED BY <1>1, <1>4, <1>5 DEF t

LEMMA PutKeepsNumbers ==
    ASSUME NEW s \in Seq(Request), NumbersDiffer(s), NEW i \in DOMAIN s, NEW r \in Request,
           r.id = s[i].id
    PROVE  LET t == [s EXCEPT ![i] = r] IN
           /\ t \in Seq(Request)
           /\ Len(t) = Len(s)
           /\ \A j \in DOMAIN s : t[j] = IF j = i THEN r ELSE s[j]
           /\ NumbersDiffer(t)
           /\ ToSet(t) = (ToSet(s) \ {s[i]}) \cup {r}
<1>. DEFINE t == [s EXCEPT ![i] = r]
<1>0. DOMAIN s = 1 .. Len(s) /\ Len(s) \in Nat
  BY LenProperties
<1>1. /\ t \in Seq(Request) /\ Len(t) = Len(s)
      /\ \A j \in DOMAIN s : t[j] = IF j = i THEN r ELSE s[j]
  BY <1>0, ExceptSeq
<1>. HIDE DEF t
<1>2. DOMAIN t = DOMAIN s
  BY <1>0, <1>1, LenProperties
<1>3. NumbersDiffer(t)
  BY <1>1, <1>2 DEF NumbersDiffer
<1>4. ToSet(t) = (ToSet(s) \ {s[i]}) \cup {r}
  BY <1>1, <1>2 DEF ToSet, NumbersDiffer
<1>. QED BY <1>1, <1>3, <1>4 DEF t

\* A sequence of requests with different numbers is as long as its set is big.
LEMMA NumbersCount ==
    ASSUME NEW s \in Seq(Request), NumbersDiffer(s)
    PROVE  IsFiniteSet(ToSet(s)) /\ Cardinality(ToSet(s)) = Len(s)
<1>0. DOMAIN s = 1 .. Len(s) /\ Len(s) \in Nat
  BY LenProperties
<1>1. s \in Bijection(1 .. Len(s), ToSet(s))
  <2>1. s \in [1 .. Len(s) -> ToSet(s)]
    BY <1>0, LenProperties DEF ToSet
  <2>2. \A i, j \in 1 .. Len(s) : s[i] = s[j] => i = j
    BY <1>0 DEF NumbersDiffer
  <2>3. \A r \in ToSet(s) : \E i \in 1 .. Len(s) : s[i] = r
    BY <1>0 DEF ToSet
  <2>. QED BY <2>1, <2>2, <2>3 DEF Bijection, Injection, Surjection, IsInjective
<1>2. IsFiniteSet(1 .. Len(s)) /\ Cardinality(1 .. Len(s)) = Len(s)
  BY <1>0, FS_Interval
<1>. QED BY <1>1, <1>2, FS_Bijection DEF ExistsBijection
-----------------------------------------------------------------------------
(* The invariant *)

\* The queues and the pending reads, as one function from places to sequences.
QueueName == {"readq", "writeq", "actq"}
Place == QueueName \cup {"pending"}
Holding == [Place -> Seq(Request)]
Held == [n \in Place |-> IF n = "pending" THEN pending ELSE queues[n]]

At(h, n) == ToSet(h[n])
AllOf(h) == UNION {At(h, n) : n \in Place}
Numbers(h) == {r.id : r \in AllOf(h)}

\* The numbers of the requests that have had a command.
Begun(h) == {r.id : r \in {s \in AllOf(h) : ~s.is_first_command}}

\* No two requests have the same number, wherever they are.
Apart(h) ==
    /\ \A n \in Place : NumbersDiffer(h[n])
    /\ \A n, m \in Place : n # m => \A r \in At(h, n), s \in At(h, m) : r.id # s.id

\* What is held where.
KindsKept(h) ==
    /\ \A r \in At(h, "readq") : r.type = "READ" /\ ~r.forwarded
    /\ \A r \in At(h, "writeq") : r.type = "WRITE" /\ ~r.forwarded
    /\ \A r \in At(h, "actq") : ~r.is_first_command /\ ~r.forwarded
    /\ \A r \in At(h, "pending") : r.type = "READ" /\ (r.forwarded <=> r.is_first_command)

\* The write queue keeps the order of arrival.
WritesInOrder(h) ==
    LET q == h["writeq"] IN
    \A i, j \in DOMAIN q : i < j => q[i].id < q[j].id /\ q[i].arrive <= q[j].arrive

\* A write that is still in the write queue is younger than the requests of its
\* address in the other queues.
OlderWritesActivated(h) ==
    \A w \in At(h, "writeq"), r \in At(h, "readq") \cup At(h, "actq") :
        w.addr = r.addr => r.id < w.id

\* What is held, with the count of requests in service, the finished ones and
\* the number of requests accepted so far.
HoldInv(h, serving, done, admitted) ==
    /\ h \in Holding
    /\ Apart(h)
    /\ KindsKept(h)
    /\ WritesInOrder(h)
    /\ OlderWritesActivated(h)
    /\ done \subseteq 1 .. admitted
    /\ Numbers(h) = (1 .. admitted) \ done
    /\ serving = Cardinality(Begun(h))

\* The limits and types of the rest of the controller's state.
RestInv ==
    /\ queues \in [QueueName -> Seq(Request)]
    /\ Len(queues["readq"]) <= QueueMax
    /\ Len(queues["writeq"]) <= QueueMax
    /\ injected \in 0 .. RefreshNumber
    /\ otherq \in 0 .. injected
    /\ write_mode \in BOOLEAN
    /\ row_state \in [Bank -> Row \cup {Closed}]
    /\ hits \in [Bank -> 0 .. Cap + 1]
    /\ accepted \in 0 .. RequestNumber
    /\ admitting \in BOOLEAN
    /\ clk \in Nat
    /\ clk + (IF admitting THEN 1 ELSE 0) <= accepted
    /\ \A r \in AllOf(Held) : r.arrive <= clk

\* ActqOnePerBank of a holding and open rows.
BanksApart(h, rows) ==
    /\ \A r, s \in At(h, "actq") : BankOf(r.addr) = BankOf(s.addr) => r = s
    /\ \A r \in At(h, "actq") : rows[BankOf(r.addr)] \in {Closed, RowOf(r.addr)}

\* The inductive invariant. The limits of actq and of cur_serving_requests are
\* kept only because requests with a number of their own are moved, never copied.
CtrlInv ==
    /\ HoldInv(Held, cur_serving_requests, finished, accepted)
    /\ RestInv
    /\ BanksApart(Held, row_state)
-----------------------------------------------------------------------------
(* Taking a request out, putting one in, changing one in its place *)

Dropped(h, n, i) == [h EXCEPT ![n] = RemoveAt(@, i)]
Added(h, n, r) == [h EXCEPT ![n] = Append(@, r)]
Changed(h, n, i, r) == [h EXCEPT ![n][i] = r]

LEMMA NumbersAreOf ==
    ASSUME NEW h \in Holding, Apart(h)
    PROVE  /\ \A n \in Place : At(h, n) \subseteq Request
           /\ AllOf(h) \subseteq Request
           /\ \A r, s \in AllOf(h) : r.id = s.id => r = s
           /\ \A n, m \in Place : \A r \in At(h, n), s \in At(h, m) : r.id = s.id => n = m /\ r = s
<1>1. ASSUME NEW n \in Place PROVE At(h, n) \subseteq Request
  <2>1. h[n] \in Seq(Request)
    BY DEF Holding
  <2>. QED BY <2>1, LenProperties, ElementOfSeq DEF At, ToSet
<1>2. ASSUME NEW n \in Place, NEW m \in Place, NEW r \in At(h, n), NEW s \in At(h, m), r.id = s.id
      PROVE  n = m /\ r = s
  <2>1. n = m
    BY <1>2 DEF Apart
  <2>. QED BY <1>2, <2>1 DEF Apart, NumbersDiffer, At, ToSet
<1>. QED BY <1>1, <1>2 DEF AllOf

LEMMA DropEffect ==
    ASSUME NEW h \in Holding, Apart(h), NEW n \in Place, NEW i \in DOMAIN h[n]
    PROVE  /\ h[n][i] \in At(h, n) /\ h[n][i] \in AllOf(h) /\ h[n][i] \in Request
           /\ Dropped(h, n, i) \in Holding /\ Apart(Dropped(h, n, i))
           /\ \A m \in Place : At(Dropped(h, n, i), m) = At(h, m) \ {h[n][i]}
           /\ \A m \in Place : m # n => Dropped(h, n, i)[m] = h[m]
           /\ \A x \in AllOf(Dropped(h, n, i)) : x.id # h[n][i].id
           /\ AllOf(Dropped(h, n, i)) = AllOf(h) \ {h[n][i]}
           /\ Numbers(Dropped(h, n, i)) = Numbers(h) \ {h[n][i].id}
           /\ Begun(Dropped(h, n, i)) = Begun(h) \ {h[n][i].id}
<1>. DEFINE g == Dropped(h, n, i)
            r == h[n][i]
<1>0. h[n] \in Seq(Request) /\ DOMAIN h[n] = 1 .. Len(h[n]) /\ NumbersDiffer(h[n])
  BY LenProperties DEF Holding, Apart
<1>1. r \in At(h, n) /\ r \in AllOf(h) /\ r \in Request
  BY <1>0, NumbersAreOf DEF At, AllOf, ToSet
<1>2. /\ RemoveAt(h[n], i) \in Seq(Request)
      /\ NumbersDiffer(RemoveAt(h[n], i))
      /\ ToSet(RemoveAt(h[n], i)) = ToSet(h[n]) \ {r}
  BY <1>0, RemoveAtProperties, RemoveKeepsNumbers
<1>3. /\ g \in Holding
      /\ g[n] = RemoveAt(h[n], i)
      /\ \A m \in Place : m # n => g[m] = h[m]
  BY <1>2 DEF Holding, Dropped
<1>. HIDE DEF g, r
<1>4. \A m \in Place : m # n => r \notin At(h, m)
  BY <1>1, NumbersAreOf
<1>5. \A m \in Place : At(g, m) = At(h, m) \ {r}
  BY <1>2, <1>3, <1>4 DEF At
<1>6. Apart(g)
  BY <1>2, <1>3, <1>5 DEF Apart
<1>7. AllOf(g) = AllOf(h) \ {r}
  BY <1>5 DEF AllOf
<1>8. \A x \in AllOf(g) : x.id # r.id
  BY <1>1, <1>7, NumbersAreOf
<1>9. Numbers(g) = Numbers(h) \ {r.id}
  BY <1>7, <1>8 DEF Numbers
<1>10. Begun(g) = Begun(h) \ {r.id}
  BY <1>1, <1>7, <1>8 DEF Begun
<1>. QED BY <1>1, <1>3, <1>5, <1>6, <1>7, <1>8, <1>9, <1>10 DEF g, r

LEMMA AddEffect ==
    ASSUME NEW h \in Holding, Apart(h), NEW n \in Place, NEW r \in Request,
           \A x \in AllOf(h) : x.id # r.id
    PROVE  /\ Added(h, n, r) \in Holding /\ Apart(Added(h, n, r))
           /\ At(Added(h, n, r), n) = At(h, n) \cup {r}
           /\ \A m \in Place : m # n => /\ Added(h, n, r)[m] = h[m]
                                       /\ At(Added(h, n, r), m) = At(h, m)
           /\ AllOf(Added(h, n, r)) = AllOf(h) \cup {r}
           /\ Numbers(Added(h, n, r)) = Numbers(h) \cup {r.id}
           /\ Begun(Added(h, n, r)) =
                 Begun(h) \cup (IF r.is_first_command THEN {} ELSE {r.id})
<1>. DEFINE g == Added(h, n, r)
<1>0. h[n] \in Seq(Request) /\ NumbersDiffer(h[n]) /\ \A x \in ToSet(h[n]) : x.id # r.id
  BY DEF Holding, Apart, AllOf, At
<1>1. /\ Append(h[n], r) \in Seq(Request)
      /\ NumbersDiffer(Append(h[n], r))
      /\ ToSet(Append(h[n], r)) = ToSet(h[n]) \cup {r}
  BY <1>0, AppendKeepsNumbers
<1>2. /\ g \in Holding
      /\ g[n] = Append(h[n], r)
      /\ \A m \in Place : m # n => g[m] = h[m]
  BY <1>1 DEF Holding, Added
<1>. HIDE DEF g
<1>3. /\ At(g, n) = At(h, n) \cup {r}
      /\ \A m \in Place : m # n => At(g, m) = At(h, m)
  BY <1>1, <1>2 DEF At
<1>4. Apart(g)
  <2>1. \A m \in Place : NumbersDiffer(g[m])
    BY <1>1, <1>2 DEF Apart
  <2>2. ASSUME NEW m \in Place, NEW k \in Place, m # k, NEW x \in At(g, m), NEW y \in At(g, k)
        PROVE  x.id # y.id
    <3>1. \A z \in At(h, m) : z.id # r.id
      BY DEF AllOf
    <3>2. \A z \in At(h, k) : z.id # r.id
      BY DEF AllOf
    <3>. QED BY <1>3, <2>2, <3>1, <3>2 DEF Apart
  <2>. QED BY <2>1, <2>2 DEF Apart
<1>5. AllOf(g) = AllOf(h) \cup {r}
  BY <1>3 DEF AllOf
<1>6. Numbers(g) = Numbers(h) \cup {r.id}
  BY <1>5 DEF Numbers
<1>7. Begun(g) = Begun(h) \cup (IF r.is_first_command THEN {} ELSE {r.id})
  BY <1>5 DEF Begun
<1>. QED BY <1>2, <1>3, <1>4, <1>5, <1>6, <1>7 DEF g

LEMMA PutEffect ==
    ASSUME NEW h \in Holding, Apart(h), NEW n \in Place, NEW i \in DOMAIN h[n], NEW r \in Request,
           r.id = h[n][i].id
    PROVE  /\ Changed(h, n, i, r) \in Holding /\ Apart(Changed(h, n, i, r))
           /\ At(Changed(h, n, i, r), n) = (At(h, n) \ {h[n][i]}) \cup {r}
           /\ \A m \in Place : m # n => /\ Changed(h, n, i, r)[m] = h[m]
                                       /\ At(Changed(h, n, i, r), m) = At(h, m)
           /\ Len(Changed(h, n, i, r)[n]) = Len(h[n])
           /\ \A j \in DOMAIN h[n] : Changed(h, n, i, r)[n][j] = IF j = i THEN r ELSE h[n][j]
           /\ AllOf(Changed(h, n, i, r)) = (AllOf(h) \ {h[n][i]}) \cup {r}
           /\ Numbers(Changed(h, n, i, r)) = Numbers(h)
           /\ Begun(Changed(h, n, i, r)) =
                 (Begun(h) \ {r.id}) \cup (IF r.is_first_command THEN {} ELSE {r.id})
<1>. DEFINE g == Changed(h, n, i, r)
            o == h[n][i]
<1>0. h[n] \in Seq(Request) /\ NumbersDiffer(h[n])
  BY DEF Holding, Apart
<1>1. /\ [h[n] EXCEPT ![i] = r] \in Seq(Request)
      /\ Len([h[n] EXCEPT ![i] = r]) = Len(h[n])
      /\ \A j \in DOMAIN h[n] : [h[n] EXCEPT ![i] = r][j] = IF j = i THEN r ELSE h[n][j]
      /\ NumbersDiffer([h[n] EXCEPT ![i] = r])
      /\ ToSet([h[n] EXCEPT ![i] = r]) = (ToSet(h[n]) \ {o}) \cup {r}
  BY <1>0, PutKeepsNumbers
<1>2. /\ g \in Holding
      /\ g[n] = [h[n] EXCEPT ![i] = r]
      /\ \A m \in Place : m # n => g[m] = h[m]
  BY <1>1 DEF Holding, Changed
<1>3. o \in At(h, n) /\ o \in AllOf(h) /\ o.id = r.id
  BY DEF At, AllOf, ToSet
<1>. HIDE DEF g, o
<1>4. /\ At(g, n) = (At(h, n) \ {o}) \cup {r}
      /\ \A m \in Place : m # n => At(g, m) = At(h, m) /\ o \notin At(h, m)
  BY <1>1, <1>2, <1>3, NumbersAreOf DEF At
<1>5. Apart(g)
  <2>1. \A m \in Place : NumbersDiffer(g[m])
    BY <1>1, <1>2 DEF Apart
  <2>2. ASSUME NEW m \in Place, NEW k \in Place, m # k, NEW x \in At(g, m), NEW y \in At(g, k)
        PROVE  x.id # y.id
    <3>1. \E z \in At(h, m) : z.id = x.id
      BY <1>3, <1>4
    <3>2. \E z \in At(h, k) : z.id = y.id
      BY <1>3, <1>4
    <3>. QED BY <2>2, <3>1, <3>2 DEF Apart
  <2>. QED BY <2>1, <2>2 DEF Apart
<1>6. AllOf(g) = (AllOf(h) \ {o}) \cup {r}
  BY <1>4 DEF AllOf
<1>7. Numbers(g) = Numbers(h)
  BY <1>3, <1>6 DEF Numbers
<1>8. \A x \in AllOf(h) \ {o} : x.id # r.id
  BY <1>3, NumbersAreOf
<1>9. Begun(g) = (Begun(h) \ {r.id}) \cup (IF r.is_first_command THEN {} ELSE {r.id})
  BY <1>3, <1>6, <1>8 DEF Begun
<1>. QED BY <1>1, <1>2, <1>4, <1>5, <1>6, <1>7, <1>9 DEF g, o

\* Taking any request out keeps the order of the writes.
LEMMA DropKeepsOrder ==
    ASSUME NEW h \in Holding, Apart(h), NEW n \in Place, NEW i \in DOMAIN h[n], WritesInOrder(h)
    PROVE  WritesInOrder(Dropped(h, n, i))
<1>. DEFINE g == Dropped(h, n, i)
            q == h["writeq"]
            t == g["writeq"]
<1>1. CASE n # "writeq"
  BY <1>1 DEF WritesInOrder, Place, QueueName, Holding, Dropped
<1>2. CASE n = "writeq"
  <2>1. q \in Seq(Request) /\ DOMAIN q = 1 .. Len(q) /\ i \in 1 .. Len(q) /\ Len(q) \in Nat
    BY <1>2, LenProperties DEF Holding
  <2>2. t = RemoveAt(q, i)
    BY <1>2 DEF Holding, Dropped
  <2>3. /\ t \in Seq(Request) /\ Len(t) = Len(q) - 1
        /\ \A j \in 1 .. Len(q) - 1 : t[j] = IF j < i THEN q[j] ELSE q[j + 1]
    BY <2>1, <2>2, RemoveAtProperties
  <2>4. DOMAIN t = 1 .. Len(q) - 1
    BY <2>3, LenProperties
  <2>. HIDE DEF g, q, t
  <2>. SUFFICES ASSUME NEW j \in DOMAIN t, NEW k \in DOMAIN t, j < k
                PROVE  t[j].id < t[k].id /\ t[j].arrive <= t[k].arrive
    BY DEF WritesInOrder, g, t
  <2>. DEFINE p(x) == IF x < i THEN x ELSE x + 1
  <2>5. p(j) \in DOMAIN q /\ p(k) \in DOMAIN q /\ p(j) < p(k) /\ t[j] = q[p(j)] /\ t[k] = q[p(k)]
    BY <2>1, <2>3, <2>4
  <2>. QED BY <2>5 DEF WritesInOrder, q
<1>. QED BY <1>1, <1>2

LEMMA BegunFinite ==
    ASSUME NEW h, NEW serving, NEW done, NEW admitted \in Nat, HoldInv(h, serving, done, admitted)
    PROVE  IsFiniteSet(Begun(h)) /\ Cardinality(Begun(h)) \in Nat /\ Cardinality(Begun(h)) <= admitted
<1>1. Begun(h) \in SUBSET (1 .. admitted)
  BY DEF HoldInv, Begun, Numbers
<1>2. IsFiniteSet(1 .. admitted) /\ Cardinality(1 .. admitted) = admitted
  BY FS_Interval
<1>. QED BY <1>1, <1>2, FS_Subset, FS_CardinalityType

\* A request that is finished: the front of pending, or a write.
LEMMA FinishHolds ==
    ASSUME NEW h, NEW serving, NEW done, NEW admitted \in Nat, HoldInv(h, serving, done, admitted),
           NEW n \in Place, NEW i \in DOMAIN h[n]
    PROVE  HoldInv(Dropped(h, n, i),
                   IF h[n][i].is_first_command THEN serving ELSE serving - 1,
                   done \cup {h[n][i].id}, admitted)
<1>. DEFINE g == Dropped(h, n, i)
            r == h[n][i]
<1>0. h \in Holding /\ Apart(h)
  BY DEF HoldInv
<1>1. /\ r \in AllOf(h) /\ r \in Request
      /\ g \in Holding /\ Apart(g)
      /\ \A m \in Place : At(g, m) = At(h, m) \ {r}
      /\ Numbers(g) = Numbers(h) \ {r.id}
      /\ Begun(g) = Begun(h) \ {r.id}
  BY <1>0, DropEffect
<1>2. WritesInOrder(g)
  BY <1>0, DropKeepsOrder DEF HoldInv
<1>. HIDE DEF g, r
<1>3. KindsKept(g) /\ OlderWritesActivated(g)
  BY <1>1 DEF HoldInv, KindsKept, OlderWritesActivated, Place, QueueName
<1>4. r.id \in Numbers(h) /\ (r.id \in Begun(h) <=> ~r.is_first_command)
  BY <1>0, <1>1, NumbersAreOf DEF Numbers, Begun
<1>5. done \cup {r.id} \subseteq 1 .. admitted /\ Numbers(g) = (1 .. admitted) \ (done \cup {r.id})
  BY <1>1, <1>4 DEF HoldInv
<1>6. Cardinality(Begun(g)) = IF r.is_first_command THEN serving ELSE serving - 1
  <2>1. IsFiniteSet(Begun(h)) /\ serving = Cardinality(Begun(h))
    BY BegunFinite DEF HoldInv
  <2>2. Cardinality(Begun(h) \ {r.id}) =
           IF r.id \in Begun(h) THEN Cardinality(Begun(h)) - 1 ELSE Cardinality(Begun(h))
    BY <2>1, FS_RemoveElement
  <2>. QED BY <1>1, <1>4, <2>1, <2>2
<1>. QED BY <1>1, <1>2, <1>3, <1>5, <1>6 DEF HoldInv, g, r

LEMMA StartedIs ==
    ASSUME NEW r \in Request
    PROVE  /\ Started(r) \in Request /\ ~Started(r).is_first_command
           /\ Started(r).id = r.id /\ Started(r).type = r.type /\ Started(r).addr = r.addr
           /\ Started(r).arrive = r.arrive /\ Started(r).forwarded = r.forwarded
BY DEF Started, Request

\* A request that had a command and waits elsewhere now: in actq or in pending.
LEMMA MoveHolds ==
    ASSUME NEW h, NEW serving, NEW done, NEW admitted \in Nat, HoldInv(h, serving, done, admitted),
           NEW n \in QueueName, NEW i \in DOMAIN h[n], NEW m \in {"actq", "pending"},
           m = "pending" => h[n][i].type = "READ",
           m = "actq" => \A w \in At(h, "writeq") :
                            w # h[n][i] /\ w.addr = h[n][i].addr => h[n][i].id < w.id
    PROVE  LET f == Added(Dropped(h, n, i), m, Started(h[n][i])) IN
           /\ HoldInv(f, ServingWith(h[n][i], serving), done, admitted)
           /\ AllOf(f) = (AllOf(h) \ {h[n][i]}) \cup {Started(h[n][i])}
<1>. DEFINE g == Dropped(h, n, i)
            r == h[n][i]
            x == Started(r)
            f == Added(g, m, x)
<1>0. h \in Holding /\ Apart(h) /\ n \in Place /\ m \in Place
  BY DEF HoldInv, Place, QueueName
<1>1. /\ r \in At(h, n) /\ r \in AllOf(h) /\ r \in Request
      /\ g \in Holding /\ Apart(g)
      /\ \A k \in Place : At(g, k) = At(h, k) \ {r}
      /\ \A k \in Place : k # n => g[k] = h[k]
      /\ \A y \in AllOf(g) : y.id # r.id
      /\ AllOf(g) = AllOf(h) \ {r}
      /\ Numbers(g) = Numbers(h) \ {r.id}
      /\ Begun(g) = Begun(h) \ {r.id}
  BY <1>0, DropEffect
<1>2. WritesInOrder(g)
  BY <1>0, DropKeepsOrder DEF HoldInv
<1>. HIDE DEF g, r, x
<1>3. /\ x \in Request /\ ~x.is_first_command
      /\ x.id = r.id /\ x.type = r.type /\ x.addr = r.addr /\ x.forwarded = r.forwarded
  BY <1>1, StartedIs DEF x
<1>4. /\ f \in Holding /\ Apart(f)
      /\ At(f, m) = At(g, m) \cup {x}
      /\ \A k \in Place : k # m => f[k] = g[k] /\ At(f, k) = At(g, k)
      /\ AllOf(f) = AllOf(g) \cup {x}
      /\ Numbers(f) = Numbers(g) \cup {x.id}
      /\ Begun(f) = Begun(g) \cup {x.id}
  BY <1>0, <1>1, <1>3, AddEffect
<1>. HIDE DEF f
<1>5. WritesInOrder(f)
  <2>1. f["writeq"] = g["writeq"]
    BY <1>4 DEF Place, QueueName
  <2>. QED BY <1>2, <2>1 DEF WritesInOrder
<1>6. ~r.forwarded
  BY <1>1 DEF HoldInv, KindsKept, QueueName
<1>7. KindsKept(f)
  <2>1. CASE m = "actq"
    BY <1>1, <1>3, <1>4, <1>6, <2>1 DEF HoldInv, KindsKept, Place, QueueName
  <2>2. CASE m = "pending"
    BY <1>1, <1>3, <1>4, <1>6, <2>2 DEF HoldInv, KindsKept, Place, QueueName, r
  <2>. QED BY <2>1, <2>2
<1>8. OlderWritesActivated(f)
  <2>. SUFFICES ASSUME NEW w \in At(f, "writeq"), NEW y \in At(f, "readq") \cup At(f, "actq"),
                       w.addr = y.addr
                PROVE  y.id < w.id
    BY DEF OlderWritesActivated
  <2>1. w \in At(h, "writeq") /\ w # r
    BY <1>1, <1>4 DEF Place, QueueName
  <2>2. CASE m = "actq" /\ y = x
    BY <1>3, <2>1, <2>2 DEF r
  <2>3. CASE y \in At(h, "readq") \cup At(h, "actq")
    BY <2>1, <2>3 DEF HoldInv, OlderWritesActivated
  <2>4. (m = "actq" /\ y = x) \/ y \in At(h, "readq") \cup At(h, "actq")
    BY <1>1, <1>4 DEF Place, QueueName
  <2>. QED BY <2>2, <2>3, <2>4
<1>9. r.id \in Numbers(h) /\ (r.id \in Begun(h) <=> ~r.is_first_command)
  BY <1>0, <1>1, NumbersAreOf DEF Numbers, Begun
<1>10. Numbers(f) = (1 .. admitted) \ done
  BY <1>1, <1>3, <1>4, <1>9 DEF HoldInv
<1>11. Cardinality(Begun(f)) = ServingWith(r, serving)
  <2>1. Begun(f) = Begun(h) \cup {r.id}
    BY <1>1, <1>3, <1>4
  <2>. QED BY <2>1, <1>9, BegunFinite, FS_AddElement DEF HoldInv, ServingWith
<1>. QED BY <1>1, <1>4, <1>5, <1>7, <1>8, <1>10, <1>11 DEF HoldInv, f, g, r, x

\* A request that had a command and stays where it is.
LEMMA StartHolds ==
    ASSUME NEW h, NEW serving, NEW done, NEW admitted \in Nat, HoldInv(h, serving, done, admitted),
           NEW n \in QueueName, NEW i \in DOMAIN h[n]
    PROVE  LET f == Changed(h, n, i, Started(h[n][i])) IN
           /\ HoldInv(f, ServingWith(h[n][i], serving), done, admitted)
           /\ AllOf(f) = (AllOf(h) \ {h[n][i]}) \cup {Started(h[n][i])}
<1>. DEFINE r == h[n][i]
            x == Started(r)
            f == Changed(h, n, i, x)
<1>0. h \in Holding /\ Apart(h) /\ n \in Place
  BY DEF HoldInv, Place, QueueName
<1>1. r \in At(h, n) /\ r \in AllOf(h) /\ r \in Request
  BY <1>0, DropEffect
<1>2. /\ x \in Request /\ ~x.is_first_command
      /\ x.id = r.id /\ x.type = r.type /\ x.addr = r.addr /\ x.forwarded = r.forwarded
      /\ x.arrive = r.arrive
  BY <1>1, StartedIs
<1>. HIDE DEF x
<1>3. /\ f \in Holding /\ Apart(f)
      /\ At(f, n) = (At(h, n) \ {r}) \cup {x}
      /\ \A k \in Place : k # n => f[k] = h[k] /\ At(f, k) = At(h, k)
      /\ Len(f[n]) = Len(h[n])
      /\ \A j \in DOMAIN h[n] : f[n][j] = IF j = i THEN x ELSE h[n][j]
      /\ AllOf(f) = (AllOf(h) \ {r}) \cup {x}
      /\ Numbers(f) = Numbers(h)
      /\ Begun(f) = (Begun(h) \ {x.id}) \cup {x.id}
  BY <1>0, <1>1, <1>2, PutEffect
<1>4. DOMAIN f["writeq"] = DOMAIN h["writeq"]
  <2>1. h["writeq"] \in Seq(Request) /\ f["writeq"] \in Seq(Request) /\ Len(f["writeq"]) = Len(h["writeq"])
    BY <1>0, <1>3 DEF Holding, Place, QueueName
  <2>. QED BY <2>1, LenProperties
<1>5. WritesInOrder(f)
  <2>. DEFINE q == h["writeq"]
              t == f["writeq"]
  <2>1. \A j \in DOMAIN q : t[j].id = q[j].id /\ t[j].arrive = q[j].arrive
    BY <1>2, <1>3 DEF Place, QueueName
  <2>. QED BY <1>4, <2>1 DEF HoldInv, WritesInOrder
<1>. HIDE DEF f, r
<1>6. ~r.forwarded
  BY <1>1 DEF HoldInv, KindsKept, QueueName
<1>7. KindsKept(f)
  BY <1>1, <1>2, <1>3, <1>6 DEF HoldInv, KindsKept, Place, QueueName
<1>8. OlderWritesActivated(f)
  <2>1. \A m \in Place : \A y \in At(f, m) : \E z \in At(h, m) : z.id = y.id /\ z.addr = y.addr
    BY <1>1, <1>2, <1>3
  <2>2. \A w \in At(f, "writeq") : \E z \in At(h, "writeq") : z.id = w.id /\ z.addr = w.addr
    BY <2>1 DEF Place, QueueName
  <2>3. \A y \in At(f, "readq") \cup At(f, "actq") :
           \E z \in At(h, "readq") \cup At(h, "actq") : z.id = y.id /\ z.addr = y.addr
    BY <2>1 DEF Place, QueueName
  <2>. QED BY <2>2, <2>3 DEF HoldInv, OlderWritesActivated
<1>9. r.id \in Numbers(h) /\ (r.id \in Begun(h) <=> ~r.is_first_command)
  BY <1>0, <1>1, NumbersAreOf DEF Numbers, Begun
<1>10. Cardinality(Begun(f)) = ServingWith(r, serving)
  <2>1. Begun(f) = Begun(h) \cup {r.id}
    BY <1>2, <1>3
  <2>. QED BY <2>1, <1>9, BegunFinite, FS_AddElement DEF HoldInv, ServingWith
<1>11. Numbers(f) = (1 .. admitted) \ done
  BY <1>3 DEF HoldInv
<1>. QED BY <1>3, <1>5, <1>7, <1>8, <1>10, <1>11 DEF HoldInv, f, r, x
-----------------------------------------------------------------------------
(* The scheduler *)

LEMMA AddressParts ==
    ASSUME ControllerParameters, NEW a \in Address
    PROVE  BankOf(a) \in Bank /\ RowOf(a) \in Row /\ RowOf(a) # Closed
<1>0. a \in Nat /\ BankNumber \in Nat \ {0} /\ ColumnNumber \in Nat \ {0}
  BY DEF ControllerParameters, Address
<1>1. a \div ColumnNumber \in Nat
  BY <1>0
<1>2. BankOf(a) \in Bank
  BY <1>0, <1>1 DEF BankOf, Bank
<1>3. RowOf(a) \in Row
  BY DEF Row
<1>4. ColumnNumber * BankNumber \in Nat \ {0}
  BY <1>0
<1>5. a \div (ColumnNumber * BankNumber) \in Nat
  BY <1>0, <1>4
<1>. QED BY <1>2, <1>3, <1>5 DEF RowOf, Closed

LEMMA DecodeCases ==
    ASSUME ControllerParameters, NEW r \in Request
    PROVE  /\ row_state[BankOf(r.addr)] = Closed => Decode(r) = "ACT"
           /\ row_state[BankOf(r.addr)] = RowOf(r.addr) => Decode(r) = r.type
           /\ row_state[BankOf(r.addr)] \notin {Closed, RowOf(r.addr)} => Decode(r) = "PRE"
           /\ r.type \in {"READ", "WRITE"}
<1>. DEFINE open == row_state[BankOf(r.addr)]
<1>0. RowOf(r.addr) # Closed /\ r.type \in {"READ", "WRITE"}
  BY AddressParts DEF Request
<1>1. Decode(r) = CASE open = Closed -> "ACT" [] open = RowOf(r.addr) -> r.type [] OTHER -> "PRE"
  BY DEF Decode
<1>. HIDE DEF open
<1>2. open = Closed => Decode(r) = "ACT"
  BY <1>0, <1>1
<1>3. open = RowOf(r.addr) => Decode(r) = r.type
  BY <1>0, <1>1
<1>4. open # Closed /\ open # RowOf(r.addr) => Decode(r) = "PRE"
  BY <1>0, <1>1
<1>. QED BY <1>0, <1>2, <1>3, <1>4 DEF open

\* The requests get_head() chooses from.
Choosable(q, ready) ==
    IF \E i \in DOMAIN q : IsPreferred(q[i], ready)
    THEN {i \in DOMAIN q : IsPreferred(q[i], ready)} ELSE DOMAIN q

LEMMA HeadFound ==
    ASSUME NEW q \in Seq(Request), q # <<>>, NEW ready
    PROVE  /\ GetHead(q, ready) \in Choosable(q, ready)
           /\ \A j \in Choosable(q, ready) : IsOlder(q, GetHead(q, ready), j)
<1>. DEFINE C == Choosable(q, ready)
<1>0. DOMAIN q = 1 .. Len(q) /\ Len(q) \in Nat \ {0} /\ \A i \in DOMAIN q : q[i].arrive \in Nat
  <2>1. DOMAIN q = 1 .. Len(q) /\ Len(q) \in Nat
    BY LenProperties
  <2>2. Len(q) # 0
    BY EmptySeq
  <2>3. \A i \in DOMAIN q : q[i] \in Request
    BY <2>1, ElementOfSeq
  <2>4. \A r \in Request : r.arrive \in Nat
    BY DEF Request
  <2>. QED BY <2>1, <2>2, <2>3, <2>4
<1>1. C # {} /\ C \subseteq DOMAIN q
  BY <1>0 DEF Choosable
<1>. HIDE DEF C
<1>2. PICK a \in {q[i].arrive : i \in C} : \A b \in {q[i].arrive : i \in C} : a <= b
  <2>1. {q[i].arrive : i \in C} \in SUBSET Nat /\ {q[i].arrive : i \in C} # {}
    BY <1>0, <1>1
  <2>. QED BY <2>1, LeastNatural
<1>3. PICK i \in {k \in C : q[k].arrive = a} : \A j \in {k \in C : q[k].arrive = a} : i <= j
  <2>1. {k \in C : q[k].arrive = a} \in SUBSET Nat /\ {k \in C : q[k].arrive = a} # {}
    BY <1>0, <1>1, <1>2
  <2>. QED BY <2>1, LeastNatural
<1>4. i \in C /\ \A j \in C : IsOlder(q, i, j)
  <2>. SUFFICES ASSUME NEW j \in C PROVE IsOlder(q, i, j)
    BY <1>3
  <2>1. q[i].arrive = a /\ a <= q[j].arrive /\ a \in Nat /\ q[j].arrive \in Nat
    BY <1>0, <1>1, <1>2, <1>3
  <2>2. q[j].arrive = a => i <= j
    BY <1>3
  <2>. QED BY <2>1, <2>2 DEF IsOlder
<1>5. GetHead(q, ready) = CHOOSE k \in C : \A j \in C : IsOlder(q, k, j)
  BY DEF GetHead, C, Choosable
<1>. QED BY <1>4, <1>5 DEF C

\* A request that is preferred makes its queue's head ready.
LEMMA PreferredMakesReady ==
    ASSUME NEW q \in Seq(Request), NEW ready, NEW i \in DOMAIN q, IsPreferred(q[i], ready)
    PROVE  HeadIsReady(q, ready)
<1>1. q # <<>>
  BY LenProperties
<1>2. IsPreferred(q[GetHead(q, ready)], ready)
  BY <1>1, HeadFound DEF Choosable
<1>. QED BY <1>1, <1>2 DEF HeadIsReady, ReadyHead, IsPreferred

\* The head of a queue is older than every request of the queue that wants the
\* same command of the same row.
LEMMA HeadIsOldest ==
    ASSUME NEW q \in Seq(Request), NEW ready, NEW i \in ReadyHead(q, ready), NEW j \in DOMAIN q,
           q[j].addr = q[i].addr, q[j].type = q[i].type
    PROVE  IsOlder(q, i, j)
<1>1. q # <<>> /\ i = GetHead(q, ready)
  BY DEF ReadyHead
<1>2. IsPreferred(q[i], ready) <=> IsPreferred(q[j], ready)
  BY DEF IsPreferred, CommandOf, Decode
<1>3. i \in Choosable(q, ready) => j \in Choosable(q, ready)
  BY <1>2 DEF Choosable
<1>. QED BY <1>1, <1>3, HeadFound

LEMMA ReadyHeadIn ==
    ASSUME NEW q \in Seq(Request), NEW ready, NEW i \in ReadyHead(q, ready)
    PROVE  i \in DOMAIN q /\ CommandOf(q[i]) \in ready
<1>1. q # <<>> /\ i = GetHead(q, ready)
  BY DEF ReadyHead
<1>. QED BY <1>1, HeadFound DEF Choosable, ReadyHead
-----------------------------------------------------------------------------
(* A cycle: the front of the pending reads is served *)

WaitingAfter(served) == IF served THEN Tail(pending) ELSE pending
ServingAfter(served) ==
    IF served /\ ~Head(pending).forwarded THEN cur_serving_requests - 1 ELSE cur_serving_requests
DoneAfter(served) == IF served THEN finished \cup {Head(pending).id} ELSE finished

\* What is held once the front is served, before a command is issued.
HeldAfter(served) ==
    [n \in Place |-> IF n = "pending" THEN WaitingAfter(served) ELSE queues[n]]

LEMMA HeldParts ==
    ASSUME CtrlInv
    PROVE  /\ Held \in Holding /\ Apart(Held)
           /\ Held["pending"] = pending /\ pending \in Seq(Request)
           /\ \A n \in QueueName : Held[n] = queues[n] /\ queues[n] \in Seq(Request)
           /\ accepted \in Nat
<1>1. Held \in Holding /\ Apart(Held) /\ accepted \in Nat
  BY DEF CtrlInv, HoldInv, RestInv
<1>2. Held["pending"] = pending /\ \A n \in QueueName : Held[n] = queues[n]
  BY DEF Held, Place, QueueName
<1>3. \A n \in Place : Held[n] \in Seq(Request)
  BY <1>1 DEF Holding
<1>. QED BY <1>1, <1>2, <1>3 DEF Place

LEMMA ServeHolds ==
    ASSUME CtrlInv, NEW served \in ServedChoices
    PROVE  /\ HoldInv(HeldAfter(served), ServingAfter(served), DoneAfter(served), accepted)
           /\ AllOf(HeldAfter(served)) \subseteq AllOf(Held)
<1>1. CASE ~served
  <2>1. HeldAfter(served) = Held
    BY <1>1 DEF HeldAfter, Held, WaitingAfter
  <2>. QED BY <1>1, <2>1 DEF CtrlInv, ServingAfter, DoneAfter
<1>2. CASE served
  <2>1. pending # <<>> /\ pending \in Seq(Request)
    <3>1. pending = <<>> => ServedChoices = {FALSE}
      BY DEF ServedChoices
    <3>. QED BY <1>2, <3>1, HeldParts
  <2>2. Tail(pending) = RemoveAt(pending, 1) /\ 1 \in DOMAIN pending /\ Head(pending) = pending[1]
    BY <2>1, TailRemoves, LenProperties
  <2>3. HeldAfter(served) = Dropped(Held, "pending", 1)
    BY <1>2, <2>2 DEF HeldAfter, Held, WaitingAfter, Dropped, Place, QueueName
  <2>4. /\ "pending" \in Place
        /\ 1 \in DOMAIN Held["pending"]
        /\ Held["pending"][1] = Head(pending)
    BY <2>2, HeldParts DEF Place
  <2>5. Head(pending) \in At(Held, "pending")
    BY <2>4 DEF At, ToSet
  <2>6. Head(pending).forwarded <=> Head(pending).is_first_command
    BY <2>5 DEF CtrlInv, HoldInv, KindsKept
  <2>7. HoldInv(HeldAfter(served),
                IF Head(pending).is_first_command THEN cur_serving_requests ELSE cur_serving_requests - 1,
                finished \cup {Head(pending).id}, accepted)
    <3>1. HoldInv(Held, cur_serving_requests, finished, accepted) /\ accepted \in Nat
      BY HeldParts DEF CtrlInv
    <3>2. HoldInv(Dropped(Held, "pending", 1),
                  IF Held["pending"][1].is_first_command
                  THEN cur_serving_requests ELSE cur_serving_requests - 1,
                  finished \cup {Held["pending"][1].id}, accepted)
      BY <2>4, <3>1, FinishHolds
    <3>. QED BY <2>3, <2>4, <3>2
  <2>8. ServingAfter(served) =
           IF Head(pending).is_first_command THEN cur_serving_requests ELSE cur_serving_requests - 1
    BY <1>2, <2>6 DEF ServingAfter
  <2>9. AllOf(HeldAfter(served)) \subseteq AllOf(Held)
    BY <2>3, <2>4, HeldParts, DropEffect
  <2>. QED BY <1>2, <2>7, <2>8, <2>9 DEF DoneAfter
<1>. QED BY <1>1, <1>2
-----------------------------------------------------------------------------
(* A cycle: a command is issued *)

\* A selected request that is activated finds no request of its bank in actq:
\* that one would be as ready as it is, and actq comes first.
LEMMA ActivatedAlone ==
    ASSUME ControllerParameters, CtrlInv, NEW ready, NEW refreshes,
           NEW n \in QueueName, n = SelectedQueue(ready, refreshes),
           NEW i \in ReadyHead(queues[n], ready), Decode(queues[n][i]) = "ACT",
           NEW s \in At(Held, "actq"), BankOf(s.addr) = BankOf(queues[n][i].addr)
    PROVE  n = "actq" /\ s = queues[n][i]
<1>. DEFINE r == queues[n][i]
            q == queues["actq"]
<1>0. queues[n] \in Seq(Request) /\ q \in Seq(Request) /\ Held["actq"] = q /\ Held[n] = queues[n]
  BY HeldParts DEF QueueName
<1>1. i \in DOMAIN queues[n] /\ CommandOf(r) \in ready
  BY <1>0, ReadyHeadIn
<1>2. r \in Request
  BY <1>0, <1>1, LenProperties, ElementOfSeq
<1>3. PICK j \in DOMAIN q : s = q[j]
  BY <1>0 DEF At, ToSet
<1>4. s \in Request
  BY <1>0, <1>3, LenProperties, ElementOfSeq
<1>5. row_state[BankOf(r.addr)] = Closed
  BY <1>2, DecodeCases
<1>6. IsPreferred(q[j], ready)
  <2>1. CommandOf(s) = CommandOf(r)
    BY <1>4, <1>5, DecodeCases DEF CommandOf
  <2>2. RowOf(s.addr) # Closed
    BY <1>4, AddressParts DEF Request
  <2>. QED BY <1>1, <1>3, <1>5, <2>1, <2>2 DEF IsPreferred
<1>7. n = "actq"
  BY <1>0, <1>6, PreferredMakesReady DEF SelectedQueue
<1>8. r \in At(Held, "actq")
  BY <1>0, <1>1, <1>7 DEF At, ToSet
<1>. QED BY <1>7, <1>8 DEF CtrlInv, BanksApart

\* The head of a queue is older than the writes of its address in the write queue.
LEMMA HeadBeforeWrites ==
    ASSUME CtrlInv, NEW ready, NEW n \in QueueName, NEW i \in ReadyHead(queues[n], ready),
           NEW w \in At(Held, "writeq"), w # queues[n][i], w.addr = queues[n][i].addr
    PROVE  queues[n][i].id < w.id
<1>. DEFINE r == queues[n][i]
            q == queues["writeq"]
<1>0. queues[n] \in Seq(Request) /\ q \in Seq(Request) /\ Held["writeq"] = q /\ Held[n] = queues[n]
  BY HeldParts DEF QueueName
<1>1. i \in DOMAIN queues[n]
  BY <1>0, ReadyHeadIn
<1>2. r \in At(Held, n)
  BY <1>0, <1>1 DEF At, ToSet
<1>3. CASE n # "writeq"
  BY <1>2, <1>3 DEF CtrlInv, HoldInv, OlderWritesActivated, QueueName
<1>4. CASE n = "writeq"
  <2>1. PICK j \in DOMAIN q : w = q[j]
    BY <1>0 DEF At, ToSet
  <2>2. q[i].type = q[j].type
    BY <1>2, <1>4, <2>1 DEF CtrlInv, HoldInv, KindsKept
  <2>3. IsOlder(q, i, j)
    BY <1>0, <1>4, <2>1, <2>2, HeadIsOldest
  <2>4. /\ i < j => q[i].id < q[j].id
        /\ j < i => q[j].arrive <= q[i].arrive
    BY <1>0, <1>1, <1>4, <2>1 DEF CtrlInv, HoldInv, WritesInOrder
  <2>5. i # j /\ i \in Nat /\ j \in Nat
    BY <1>0, <1>1, <1>4, <2>1, LenProperties
  <2>6. q[i].arrive \in Nat /\ q[j].arrive \in Nat
    <3>1. q[i] \in Request /\ q[j] \in Request
      BY <1>0, <1>1, <1>4, <2>1, LenProperties, ElementOfSeq
    <3>. QED BY <3>1 DEF Request
  <2>7. i < j
    BY <2>3, <2>4, <2>5, <2>6 DEF IsOlder
  <2>. QED BY <1>4, <2>1, <2>4, <2>7
<1>. QED BY <1>3, <1>4

\* What a cycle keeps, done being the requests that it finished.
StepKept(done) ==
    /\ HoldInv(Held', cur_serving_requests', done, accepted)
    /\ BanksApart(Held', row_state')
    /\ queues' \in [QueueName -> Seq(Request)]
    /\ Len(queues'["readq"]) <= QueueMax
    /\ Len(queues'["writeq"]) <= QueueMax
    /\ row_state' \in [Bank -> Row \cup {Closed}]
    /\ hits' \in [Bank -> 0 .. Cap + 1]
    /\ \A x \in AllOf(Held') : x.arrive <= clk

LEMMA ServedParts ==
    ASSUME CtrlInv, NEW served \in ServedChoices
    PROVE  /\ HeldAfter(served) \in Holding /\ Apart(HeldAfter(served))
           /\ HeldAfter(served)["pending"] = WaitingAfter(served)
           /\ \A k \in QueueName : /\ HeldAfter(served)[k] = queues[k]
                                   /\ At(HeldAfter(served), k) = At(Held, k)
BY ServeHolds, HeldParts DEF HoldInv, HeldAfter, At, Place, QueueName

LEMMA ActivateKeeps ==
    ASSUME ControllerParameters, CtrlInv, NEW served \in ServedChoices, NEW ready, NEW refreshes,
           NEW n \in QueueName, n = SelectedQueue(ready, refreshes),
           NEW i \in ReadyHead(queues[n], ready),
           Activate(n, i, WaitingAfter(served), ServingWith(queues[n][i], ServingAfter(served)))
    PROVE  StepKept(DoneAfter(served)) /\ Decode(queues[n][i]) = "ACT"
<1>. DEFINE g == HeldAfter(served)
            r == queues[n][i]
            x == Started(r)
            f == Added(Dropped(g, n, i), "actq", x)
<1>0. /\ queues \in [QueueName -> Seq(Request)]
      /\ Decode(r) = "ACT"
      /\ row_state' = [row_state EXCEPT ![BankOf(r.addr)] = RowOf(r.addr)]
      /\ hits' = [hits EXCEPT ![BankOf(r.addr)] = 0]
      /\ queues' = QueuesAfterActivate(n, i)
      /\ pending' = WaitingAfter(served)
      /\ cur_serving_requests' = ServingWith(r, ServingAfter(served))
  BY DEF Activate, CtrlInv, RestInv
<1>1. queues[n] \in Seq(Request) /\ i \in DOMAIN queues[n] /\ CommandOf(r) \in ready
  BY <1>0, ReadyHeadIn
<1>2. /\ r \in At(g, n) /\ r \in Request /\ x \in Request
      /\ g[n] = queues[n] /\ g \in Holding /\ Apart(g) /\ n \in Place
      /\ x.addr = r.addr /\ x.arrive = r.arrive
  <2>1. g[n] = queues[n] /\ g \in Holding /\ Apart(g) /\ n \in Place
    BY ServedParts DEF Place
  <2>2. r \in At(g, n) /\ r \in Request
    BY <1>1, <2>1, DropEffect
  <2>. QED BY <2>1, <2>2, StartedIs
<1>3. /\ RemoveAt(queues[n], i) \in Seq(Request)
      /\ Len(RemoveAt(queues[n], i)) = Len(queues[n]) - 1
      /\ Len(queues[n]) \in Nat
  BY <1>1, LenProperties, RemoveAtProperties
<1>4. /\ queues' \in [QueueName -> Seq(Request)]
      /\ \A k \in {"readq", "writeq"} :
            queues'[k] = IF k = n THEN RemoveAt(queues[n], i) ELSE queues[k]
  <2>. DEFINE without == [queues EXCEPT ![n] = RemoveAt(@, i)]
  <2>1. without \in [QueueName -> Seq(Request)]
    BY <1>0, <1>3
  <2>2. Append(without["actq"], x) \in Seq(Request)
    BY <1>2, <2>1, AppendProperties DEF QueueName
  <2>3. queues' = [without EXCEPT !["actq"] = Append(@, x)]
    BY <1>0 DEF QueuesAfterActivate
  <2>. QED BY <1>0, <2>1, <2>2, <2>3 DEF QueueName
<1>5. Held' = f
  <2>1. Held' = [k \in Place |-> IF k = "pending" THEN WaitingAfter(served) ELSE QueuesAfterActivate(n, i)[k]]
    BY <1>0 DEF Held
  <2>. QED BY <1>0, <2>1 DEF HeldAfter, Added, Dropped, QueuesAfterActivate, Place, QueueName
<1>6. /\ HoldInv(f, ServingWith(r, ServingAfter(served)), DoneAfter(served), accepted)
      /\ AllOf(f) = (AllOf(g) \ {r}) \cup {x}
  <2>1. \A w \in At(g, "writeq") : w # g[n][i] /\ w.addr = g[n][i].addr => g[n][i].id < w.id
    BY <1>2, ServedParts, HeadBeforeWrites DEF QueueName
  <2>2. HoldInv(g, ServingAfter(served), DoneAfter(served), accepted) /\ accepted \in Nat
    BY ServeHolds, HeldParts
  <2>3. /\ HoldInv(Added(Dropped(g, n, i), "actq", Started(g[n][i])),
                   ServingWith(g[n][i], ServingAfter(served)), DoneAfter(served), accepted)
        /\ AllOf(Added(Dropped(g, n, i), "actq", Started(g[n][i])))
              = (AllOf(g) \ {g[n][i]}) \cup {Started(g[n][i])}
    <3>. HIDE DEF g
    <3>. QED BY <1>1, <1>2, <2>1, <2>2, MoveHolds
  <2>. QED BY <1>2, <2>3
<1>7. At(f, "actq") \subseteq {s \in At(Held, "actq") : s # r} \cup {x}
  <2>1. /\ Dropped(g, n, i) \in Holding /\ Apart(Dropped(g, n, i))
        /\ At(Dropped(g, n, i), "actq") = At(g, "actq") \ {r}
        /\ \A y \in AllOf(Dropped(g, n, i)) : y.id # r.id
    BY <1>1, <1>2, DropEffect DEF Place, QueueName
  <2>2. At(f, "actq") = At(Dropped(g, n, i), "actq") \cup {x}
    BY <1>2, <2>1, AddEffect, StartedIs DEF Place, QueueName
  <2>. QED BY <2>1, <2>2, ServedParts DEF QueueName
<1>8. \A s \in At(Held, "actq") : BankOf(s.addr) = BankOf(r.addr) => s = r
  BY <1>0, ActivatedAlone
<1>9. /\ BankOf(r.addr) \in Bank /\ RowOf(r.addr) \in Row
      /\ \A s \in At(Held, "actq") : BankOf(s.addr) \in Bank
  <2>1. At(Held, "actq") \subseteq Request
    BY HeldParts, NumbersAreOf DEF Place, QueueName
  <2>. QED BY <1>2, <2>1, AddressParts DEF Request
<1>10. row_state \in [Bank -> Row \cup {Closed}] /\ hits \in [Bank -> 0 .. Cap + 1] /\ Cap \in Nat
  BY DEF CtrlInv, RestInv, ControllerParameters
<1>. HIDE DEF f, g, x, r
<1>11. BanksApart(f, row_state')
  <2>1. \A s \in At(f, "actq") : s = x \/ (s \in At(Held, "actq") /\ BankOf(s.addr) # BankOf(r.addr))
    BY <1>7, <1>8
  <2>2. \A s \in At(f, "actq"), t \in At(f, "actq") : BankOf(s.addr) = BankOf(t.addr) => s = t
    BY <1>2, <2>1 DEF CtrlInv, BanksApart
  <2>3. ASSUME NEW s \in At(f, "actq") PROVE row_state'[BankOf(s.addr)] \in {Closed, RowOf(s.addr)}
    <3>1. CASE s = x
      BY <1>0, <1>2, <1>9, <1>10, <3>1
    <3>2. CASE s \in At(Held, "actq") /\ BankOf(s.addr) # BankOf(r.addr)
      <4>1. row_state'[BankOf(s.addr)] = row_state[BankOf(s.addr)]
        BY <1>0, <1>9, <1>10, <3>2
      <4>. QED BY <3>2, <4>1 DEF CtrlInv, BanksApart
    <3>. QED BY <2>1, <3>1, <3>2
  <2>. QED BY <2>2, <2>3 DEF BanksApart
<1>12. \A y \in AllOf(f) : y.arrive <= clk
  <2>1. \A y \in AllOf(g) : y.arrive <= clk
    BY ServeHolds DEF CtrlInv, RestInv, g
  <2>2. r \in AllOf(g)
    BY <1>2 DEF AllOf
  <2>. QED BY <1>2, <1>6, <2>1, <2>2
<1>13. Len(queues'["readq"]) <= QueueMax /\ Len(queues'["writeq"]) <= QueueMax
  <2>1. Len(queues["readq"]) <= QueueMax /\ Len(queues["writeq"]) <= QueueMax /\ QueueMax \in Nat
    BY DEF CtrlInv, RestInv, ControllerParameters
  <2>. QED BY <1>3, <1>4, <2>1
<1>14. row_state' \in [Bank -> Row \cup {Closed}] /\ hits' \in [Bank -> 0 .. Cap + 1]
  BY <1>0, <1>9, <1>10
<1>. QED BY <1>0, <1>4, <1>5, <1>6, <1>11, <1>12, <1>13, <1>14 DEF StepKept, r

LEMMA PrechargeKeeps ==
    ASSUME ControllerParameters, CtrlInv, NEW served \in ServedChoices, NEW ready,
           NEW n \in QueueName, NEW i \in ReadyHead(queues[n], ready),
           Precharge(n, i, WaitingAfter(served), ServingWith(queues[n][i], ServingAfter(served)))
    PROVE  StepKept(DoneAfter(served)) /\ Decode(queues[n][i]) = "PRE"
<1>. DEFINE g == HeldAfter(served)
            r == queues[n][i]
            x == Started(r)
            f == Changed(g, n, i, x)
<1>0. /\ queues \in [QueueName -> Seq(Request)]
      /\ Decode(r) = "PRE"
      /\ row_state' = [row_state EXCEPT ![BankOf(r.addr)] = Closed]
      /\ hits' = [hits EXCEPT ![BankOf(r.addr)] = 0]
      /\ queues' = [queues EXCEPT ![n][i] = x]
      /\ pending' = WaitingAfter(served)
      /\ cur_serving_requests' = ServingWith(r, ServingAfter(served))
  BY DEF Precharge, CtrlInv, RestInv
<1>1. queues[n] \in Seq(Request) /\ i \in DOMAIN queues[n]
  BY <1>0, ReadyHeadIn
<1>2. /\ r \in At(g, n) /\ r \in Request /\ x \in Request
      /\ g[n] = queues[n] /\ g \in Holding /\ Apart(g) /\ n \in Place
      /\ x.addr = r.addr /\ x.arrive = r.arrive /\ x.id = r.id
  <2>1. g[n] = queues[n] /\ g \in Holding /\ Apart(g) /\ n \in Place
    BY ServedParts DEF Place
  <2>2. r \in At(g, n) /\ r \in Request
    BY <1>1, <2>1, DropEffect
  <2>. QED BY <2>1, <2>2, StartedIs
<1>3. [queues[n] EXCEPT ![i] = x] \in Seq(Request) /\ Len([queues[n] EXCEPT ![i] = x]) = Len(queues[n])
  BY <1>1, <1>2, ExceptSeq
<1>4. /\ queues' \in [QueueName -> Seq(Request)]
      /\ \A k \in QueueName : Len(queues'[k]) = Len(queues[k])
  BY <1>0, <1>3
<1>5. Held' = f
  <2>1. Held' = [k \in Place |-> IF k = "pending" THEN WaitingAfter(served) ELSE [queues EXCEPT ![n][i] = x][k]]
    BY <1>0 DEF Held
  <2>. QED BY <1>0, <2>1 DEF HeldAfter, Changed, Place, QueueName
<1>6. /\ HoldInv(f, ServingWith(r, ServingAfter(served)), DoneAfter(served), accepted)
      /\ AllOf(f) = (AllOf(g) \ {r}) \cup {x}
  <2>2. HoldInv(g, ServingAfter(served), DoneAfter(served), accepted) /\ accepted \in Nat
    BY ServeHolds, HeldParts
  <2>3. /\ HoldInv(Changed(g, n, i, Started(g[n][i])),
                   ServingWith(g[n][i], ServingAfter(served)), DoneAfter(served), accepted)
        /\ AllOf(Changed(g, n, i, Started(g[n][i])))
              = (AllOf(g) \ {g[n][i]}) \cup {Started(g[n][i])}
    <3>1. i \in DOMAIN g[n]
      BY <1>1, <1>2
    <3>. HIDE DEF g
    <3>. QED BY <2>2, <3>1, StartHolds
  <2>. QED BY <1>2, <2>3
<1>7. \/ At(f, "actq") = At(Held, "actq")
      \/ r \in At(Held, "actq") /\ At(f, "actq") = (At(Held, "actq") \ {r}) \cup {x}
  <2>1. /\ At(f, n) = (At(g, n) \ {r}) \cup {x}
        /\ \A m \in Place : m # n => At(f, m) = At(g, m)
    BY <1>1, <1>2, PutEffect
  <2>. QED BY <1>2, <2>1, ServedParts DEF Place, QueueName
<1>9. BankOf(r.addr) \in Bank /\ \A s \in At(Held, "actq") : BankOf(s.addr) \in Bank
  <2>1. At(Held, "actq") \subseteq Request
    BY HeldParts, NumbersAreOf DEF Place, QueueName
  <2>. QED BY <1>2, <2>1, AddressParts DEF Request
<1>10. row_state \in [Bank -> Row \cup {Closed}] /\ hits \in [Bank -> 0 .. Cap + 1] /\ Cap \in Nat
  BY DEF CtrlInv, RestInv, ControllerParameters
<1>. HIDE DEF f, g, x, r
<1>11. BanksApart(f, row_state')
  <2>1. \A s \in At(f, "actq") : \E t \in At(Held, "actq") :
           t.addr = s.addr /\ (s = t \/ (s = x /\ t = r))
    BY <1>2, <1>7
  <2>2. \A s \in At(f, "actq"), t \in At(f, "actq") : BankOf(s.addr) = BankOf(t.addr) => s = t
    BY <1>2, <1>7 DEF CtrlInv, BanksApart
  <2>3. \A b \in Bank : row_state'[b] \in {Closed, row_state[b]}
    BY <1>0, <1>9, <1>10
  <2>4. ASSUME NEW s \in At(f, "actq") PROVE row_state'[BankOf(s.addr)] \in {Closed, RowOf(s.addr)}
    <3>1. PICK t \in At(Held, "actq") : t.addr = s.addr
      BY <2>1
    <3>2. row_state[BankOf(t.addr)] \in {Closed, RowOf(t.addr)} /\ BankOf(t.addr) \in Bank
      BY <1>9 DEF CtrlInv, BanksApart
    <3>. QED BY <2>3, <3>1, <3>2
  <2>. QED BY <2>2, <2>4 DEF BanksApart
<1>12. \A y \in AllOf(f) : y.arrive <= clk
  <2>1. \A y \in AllOf(g) : y.arrive <= clk
    BY ServeHolds DEF CtrlInv, RestInv, g
  <2>2. r \in AllOf(g)
    BY <1>2 DEF AllOf
  <2>. QED BY <1>2, <1>6, <2>1, <2>2
<1>13. Len(queues'["readq"]) <= QueueMax /\ Len(queues'["writeq"]) <= QueueMax
  BY <1>4 DEF CtrlInv, RestInv, QueueName
<1>14. row_state' \in [Bank -> Row \cup {Closed}] /\ hits' \in [Bank -> 0 .. Cap + 1]
  BY <1>0, <1>9, <1>10
<1>. QED BY <1>0, <1>4, <1>5, <1>6, <1>11, <1>12, <1>13, <1>14 DEF StepKept, r

LEMMA AccessKeeps ==
    ASSUME ControllerParameters, CtrlInv, NEW served \in ServedChoices, NEW ready,
           NEW n \in QueueName, NEW i \in ReadyHead(queues[n], ready),
           Access(n, i, WaitingAfter(served), ServingWith(queues[n][i], ServingAfter(served)))
    PROVE  StepKept(DoneAfter(served) \cup WritesOf(n, i)) /\ Decode(queues[n][i]) = queues[n][i].type
<1>. DEFINE g == HeldAfter(served)
            r == queues[n][i]
            x == Started(r)
            done == DoneAfter(served) \cup WritesOf(n, i)
<1>0. /\ queues \in [QueueName -> Seq(Request)]
      /\ Decode(r) = r.type
      /\ row_state' = row_state
      /\ hits' = [hits EXCEPT ![BankOf(r.addr)] = IF @ > Cap THEN @ ELSE @ + 1]
      /\ queues' = [queues EXCEPT ![n] = RemoveAt(@, i)]
      /\ r.type = "READ" =>
            /\ pending' = Append(WaitingAfter(served), x)
            /\ cur_serving_requests' = ServingWith(r, ServingAfter(served))
      /\ r.type # "READ" =>
            /\ pending' = WaitingAfter(served)
            /\ cur_serving_requests' = ServingWith(r, ServingAfter(served)) - 1
  BY DEF Access, CtrlInv, RestInv
<1>1. queues[n] \in Seq(Request) /\ i \in DOMAIN queues[n]
  BY <1>0, ReadyHeadIn
<1>2. /\ r \in At(g, n) /\ r \in Request /\ x \in Request /\ r.type \in {"READ", "WRITE"}
      /\ g[n] = queues[n] /\ g \in Holding /\ Apart(g) /\ n \in Place
      /\ x.addr = r.addr /\ x.arrive = r.arrive /\ x.id = r.id
  <2>1. g[n] = queues[n] /\ g \in Holding /\ Apart(g) /\ n \in Place
    BY ServedParts DEF Place
  <2>2. r \in At(g, n) /\ r \in Request
    BY <1>1, <2>1, DropEffect
  <2>3. r.type \in {"READ", "WRITE"}
    BY <2>2 DEF Request
  <2>. QED BY <2>1, <2>2, <2>3, StartedIs
<1>3. /\ RemoveAt(queues[n], i) \in Seq(Request)
      /\ Len(RemoveAt(queues[n], i)) = Len(queues[n]) - 1
      /\ Len(queues[n]) \in Nat
  BY <1>1, LenProperties, RemoveAtProperties
<1>4. /\ queues' \in [QueueName -> Seq(Request)]
      /\ \A k \in QueueName : queues'[k] = IF k = n THEN RemoveAt(queues[n], i) ELSE queues[k]
  BY <1>0, <1>3
<1>5. /\ HoldInv(g, ServingAfter(served), DoneAfter(served), accepted)
      /\ accepted \in Nat /\ ServingAfter(served) \in Nat
      /\ \A y \in AllOf(g) : y.arrive <= clk
  <2>1. HoldInv(g, ServingAfter(served), DoneAfter(served), accepted) /\ accepted \in Nat
    BY ServeHolds, HeldParts
  <2>2. ServingAfter(served) \in Nat
    BY <2>1, BegunFinite DEF HoldInv
  <2>3. \A y \in AllOf(g) : y.arrive <= clk
    BY ServeHolds DEF CtrlInv, RestInv
  <2>. QED BY <2>1, <2>2, <2>3
<1>6. /\ Dropped(g, n, i) \in Holding /\ Apart(Dropped(g, n, i))
      /\ At(Dropped(g, n, i), "actq") \subseteq At(Held, "actq")
      /\ AllOf(Dropped(g, n, i)) = AllOf(g) \ {r}
      /\ \A y \in AllOf(Dropped(g, n, i)) : y.id # r.id
      /\ r \in AllOf(g)
  BY <1>1, <1>2, DropEffect, ServedParts DEF Place, QueueName
<1>7. /\ HoldInv(Held', cur_serving_requests', done, accepted)
      /\ At(Held', "actq") \subseteq At(Held, "actq")
      /\ \A y \in AllOf(Held') : y = x \/ y \in AllOf(g)
  <2>1. CASE r.type = "READ"
    <3>. DEFINE f == Added(Dropped(g, n, i), "pending", x)
    <3>1. Held' = [k \in Place |-> IF k = "pending" THEN Append(WaitingAfter(served), x)
                                   ELSE [queues EXCEPT ![n] = RemoveAt(@, i)][k]]
      <4>1. /\ pending' = Append(WaitingAfter(served), x)
            /\ queues' = [queues EXCEPT ![n] = RemoveAt(@, i)]
        BY <1>0, <2>1
      <4>. HIDE DEF x
      <4>. QED BY <4>1 DEF Held
    <3>2. Held' = f
      BY <1>0, <3>1 DEF HeldAfter, Added, Dropped, Place, QueueName
    <3>3. /\ HoldInv(Added(Dropped(g, n, i), "pending", Started(g[n][i])),
                     ServingWith(g[n][i], ServingAfter(served)), DoneAfter(served), accepted)
          /\ AllOf(Added(Dropped(g, n, i), "pending", Started(g[n][i])))
                = (AllOf(g) \ {g[n][i]}) \cup {Started(g[n][i])}
      <4>1. g[n][i].type = "READ" /\ i \in DOMAIN g[n]
        BY <1>1, <1>2, <2>1
      <4>. HIDE DEF g
      <4>. QED BY <1>1, <1>2, <1>5, <2>1, <4>1, MoveHolds
    <3>4. At(f, "actq") = At(Dropped(g, n, i), "actq")
      BY <1>2, <1>6, AddEffect DEF Place, QueueName
    <3>5. done = DoneAfter(served)
      BY <1>0, <2>1 DEF WritesOf
    <3>. QED BY <1>0, <1>2, <1>6, <2>1, <3>2, <3>3, <3>4, <3>5
  <2>2. CASE r.type = "WRITE"
    <3>. DEFINE f == Dropped(g, n, i)
    <3>1. Held' = [k \in Place |-> IF k = "pending" THEN WaitingAfter(served)
                                   ELSE [queues EXCEPT ![n] = RemoveAt(@, i)][k]]
      BY <1>0, <2>2 DEF Held
    <3>2. Held' = f
      BY <1>0, <3>1 DEF HeldAfter, Dropped, Place, QueueName
    <3>3. HoldInv(Dropped(g, n, i),
                  IF g[n][i].is_first_command THEN ServingAfter(served) ELSE ServingAfter(served) - 1,
                  DoneAfter(served) \cup {g[n][i].id}, accepted)
      <4>1. i \in DOMAIN g[n]
        BY <1>1, <1>2
      <4>. HIDE DEF g
      <4>. QED BY <1>2, <1>5, <4>1, FinishHolds
    <3>4. done = DoneAfter(served) \cup {r.id}
      BY <1>0, <2>2 DEF WritesOf
    <3>5. cur_serving_requests' =
             IF r.is_first_command THEN ServingAfter(served) ELSE ServingAfter(served) - 1
      BY <1>0, <1>5, <2>2 DEF ServingWith
    <3>. QED BY <1>2, <1>6, <3>2, <3>3, <3>4, <3>5
  <2>. QED BY <1>2, <2>1, <2>2
<1>8. BankOf(r.addr) \in Bank
  BY <1>2, AddressParts DEF Request
<1>9. row_state \in [Bank -> Row \cup {Closed}] /\ hits \in [Bank -> 0 .. Cap + 1] /\ Cap \in Nat
  BY DEF CtrlInv, RestInv, ControllerParameters
<1>. HIDE DEF g, x, r, done
<1>10. BanksApart(Held', row_state')
  BY <1>0, <1>7 DEF CtrlInv, BanksApart
<1>11. \A y \in AllOf(Held') : y.arrive <= clk
  BY <1>2, <1>5, <1>6, <1>7
<1>12. Len(queues'["readq"]) <= QueueMax /\ Len(queues'["writeq"]) <= QueueMax
  <2>1. Len(queues["readq"]) <= QueueMax /\ Len(queues["writeq"]) <= QueueMax /\ QueueMax \in Nat
    BY DEF CtrlInv, RestInv, ControllerParameters
  <2>. QED BY <1>3, <1>4, <2>1 DEF QueueName
<1>13. hits' \in [Bank -> 0 .. Cap + 1]
  BY <1>0, <1>8, <1>9
<1>. QED BY <1>0, <1>4, <1>7, <1>9, <1>10, <1>11, <1>12, <1>13 DEF StepKept, r, done
-----------------------------------------------------------------------------
(* Every step keeps the invariant *)

LEMMA StepDone ==
    ASSUME CtrlInv, StepKept(finished'),
           accepted' = accepted, injected' \in 0 .. RefreshNumber, otherq' \in 0 .. injected',
           write_mode' \in BOOLEAN, clk' = IF admitting THEN clk + 1 ELSE clk, admitting' = FALSE
    PROVE  CtrlInv'
<1>1. HoldInv(Held, cur_serving_requests, finished, accepted)'
  BY DEF StepKept
<1>2. BanksApart(Held, row_state)'
  BY DEF StepKept
<1>3. /\ clk \in Nat /\ accepted \in 0 .. RequestNumber /\ admitting \in BOOLEAN
      /\ clk + (IF admitting THEN 1 ELSE 0) <= accepted
  BY DEF CtrlInv, RestInv
<1>4. clk' \in Nat /\ clk <= clk' /\ clk' + (IF admitting' THEN 1 ELSE 0) <= accepted'
  BY <1>3
<1>5. \A x \in AllOf(Held') : x.arrive <= clk'
  <2>1. AllOf(Held') \subseteq Request
    BY <1>1, NumbersAreOf DEF HoldInv
  <2>2. \A x \in Request : x.arrive \in Nat
    BY DEF Request
  <2>. QED BY <1>3, <1>4, <2>1, <2>2 DEF StepKept
<1>6. RestInv'
  BY <1>3, <1>4, <1>5 DEF StepKept, RestInv
<1>. QED BY <1>1, <1>2, <1>6 DEF CtrlInv

\* The queue that a command is taken from.
LEMMA SelectedIs ==
    ASSUME NEW ready, NEW refreshes
    PROVE  /\ SelectedQueue(ready, refreshes) \in QueueName \cup {"otherq"}
           /\ SelectedQueue(ready, refreshes) = "otherq" => refreshes > 0
           /\ WriteModeAfter \in BOOLEAN
BY DEF SelectedQueue, QueueName, WriteModeAfter

LEMMA IssueKeeps ==
    ASSUME ControllerParameters, CtrlInv, NEW served \in ServedChoices, NEW ready, NEW refreshes,
           NEW n \in QueueName, n = SelectedQueue(ready, refreshes),
           NEW i \in ReadyHead(queues[n], ready),
           IssueFor(n, i, WaitingAfter(served), ServingAfter(served)),
           finished' = DoneAfter(served) \cup WritesOf(n, i)
    PROVE  StepKept(finished')
<1>1. CASE Activate(n, i, WaitingAfter(served), ServingWith(queues[n][i], ServingAfter(served)))
  <2>1. StepKept(DoneAfter(served)) /\ Decode(queues[n][i]) = "ACT"
    BY <1>1, ActivateKeeps
  <2>2. finished' = DoneAfter(served)
    BY <2>1 DEF WritesOf
  <2>. QED BY <2>1, <2>2
<1>2. CASE Precharge(n, i, WaitingAfter(served), ServingWith(queues[n][i], ServingAfter(served)))
  <2>1. StepKept(DoneAfter(served)) /\ Decode(queues[n][i]) = "PRE"
    BY <1>2, PrechargeKeeps
  <2>2. finished' = DoneAfter(served)
    BY <2>1 DEF WritesOf
  <2>. QED BY <2>1, <2>2
<1>3. CASE Access(n, i, WaitingAfter(served), ServingWith(queues[n][i], ServingAfter(served)))
  BY <1>3, AccessKeeps
<1>. QED BY <1>1, <1>2, <1>3 DEF IssueFor

\* No request has a command: the banks may be closed for a refresh.
LEMMA OtherKeeps ==
    ASSUME ControllerParameters, CtrlInv, NEW served \in ServedChoices,
           UNCHANGED queues, pending' = WaitingAfter(served),
           cur_serving_requests' = ServingAfter(served),
           \/ UNCHANGED <<row_state, hits>>
           \/ row_state' = [b \in Bank |-> Closed] /\ hits' = [b \in Bank |-> 0]
    PROVE  StepKept(DoneAfter(served))
<1>1. Held' = HeldAfter(served)
  BY DEF Held, HeldAfter
<1>2. HoldInv(Held', cur_serving_requests', DoneAfter(served), accepted)
  BY <1>1, ServeHolds
<1>3. row_state \in [Bank -> Row \cup {Closed}] /\ hits \in [Bank -> 0 .. Cap + 1] /\ Cap \in Nat
  BY DEF CtrlInv, RestInv, ControllerParameters
<1>4. row_state' \in [Bank -> Row \cup {Closed}] /\ hits' \in [Bank -> 0 .. Cap + 1]
  BY <1>3
<1>5. \A b \in Bank : row_state'[b] \in {Closed, row_state[b]}
  BY <1>3
<1>6. At(Held', "actq") = At(Held, "actq")
  BY <1>1, ServedParts DEF QueueName
<1>7. \A s \in At(Held, "actq") : BankOf(s.addr) \in Bank
  <2>1. At(Held, "actq") \subseteq Request
    BY HeldParts, NumbersAreOf DEF Place, QueueName
  <2>. QED BY <2>1, AddressParts DEF Request
<1>8. BanksApart(Held', row_state')
  BY <1>5, <1>6, <1>7 DEF CtrlInv, BanksApart
<1>9. \A x \in AllOf(Held') : x.arrive <= clk
  BY <1>1, ServeHolds DEF CtrlInv, RestInv
<1>. QED BY <1>2, <1>4, <1>8, <1>9 DEF StepKept, CtrlInv, RestInv

LEMMA TickHolds ==
    ASSUME ControllerParameters, CtrlInv, NEW served \in ServedChoices, NEW due \in DueChoices,
           NEW ready, Tick(served, due, ready)
    PROVE  CtrlInv'
<1>. DEFINE refreshes == RefreshesWaiting(due)
            n == SelectedQueue(ready, refreshes)
            heads == IF n = "otherq" THEN {} ELSE ReadyHead(queues[n], ready)
            refresh == n = "otherq" /\ <<RefreshCommand, Rank>> \in ready
            Command == \E i \in heads :
                           /\ IssueFor(n, i, WaitingAfter(served), ServingAfter(served))
                           /\ finished' = DoneAfter(served) \cup WritesOf(n, i)
            Idle == /\ finished' = DoneAfter(served)
                    /\ pending' = WaitingAfter(served)
                    /\ cur_serving_requests' = ServingAfter(served)
<1>1. /\ injected' = IF due THEN injected + 1 ELSE injected
      /\ write_mode' = WriteModeAfter
      /\ clk' = IF admitting THEN clk + 1 ELSE clk
      /\ admitting' = FALSE
      /\ accepted' = accepted
      /\ \/ Command /\ otherq' = refreshes
         \/ refresh /\ IssueRefresh(refreshes) /\ Idle /\ UNCHANGED queues
         \/ heads = {} /\ Idle /\ otherq' = refreshes /\ UNCHANGED <<queues, row_state, hits>>
  BY DEF Tick, WaitingAfter, ServingAfter, DoneAfter
<1>2. /\ n \in QueueName \cup {"otherq"} /\ (n = "otherq" => refreshes > 0)
      /\ WriteModeAfter \in BOOLEAN
  BY SelectedIs
<1>3. injected' \in 0 .. RefreshNumber /\ refreshes \in 0 .. injected'
  <2>1. injected \in 0 .. RefreshNumber /\ otherq \in 0 .. injected /\ RefreshNumber \in Nat
    BY DEF CtrlInv, RestInv, ControllerParameters
  <2>2. due \in BOOLEAN /\ (due => injected < RefreshNumber)
    BY DEF DueChoices
  <2>. QED BY <1>1, <2>1, <2>2 DEF RefreshesWaiting
<1>. HIDE DEF refreshes, n
<1>4. StepKept(finished') /\ otherq' \in 0 .. injected'
  <2>1. CASE Command /\ otherq' = refreshes
    <3>1. n # "otherq"
      BY <2>1
    <3>2. PICK i \in ReadyHead(queues[n], ready) :
              /\ IssueFor(n, i, WaitingAfter(served), ServingAfter(served))
              /\ finished' = DoneAfter(served) \cup WritesOf(n, i)
      BY <2>1, <3>1
    <3>. QED BY <1>2, <1>3, <2>1, <3>1, <3>2, IssueKeeps DEF n
  <2>2. CASE refresh /\ IssueRefresh(refreshes) /\ Idle /\ UNCHANGED queues
    <3>1. otherq' \in 0 .. injected'
      BY <1>2, <1>3, <2>2 DEF IssueRefresh
    <3>. QED BY <2>2, <3>1, OtherKeeps DEF IssueRefresh
  <2>3. CASE heads = {} /\ Idle /\ otherq' = refreshes /\ UNCHANGED <<queues, row_state, hits>>
    BY <1>3, <2>3, OtherKeeps
  <2>. QED BY <1>1, <2>1, <2>2, <2>3
<1>. QED BY <1>1, <1>2, <1>3, <1>4, StepDone

\* A new request is put at the end of a place. A write is younger than all the
\* others; a read goes to readq only if no write of its address is in writeq.
LEMMA AdmitHolds ==
    ASSUME ControllerParameters, CtrlInv, NEW n \in {"readq", "writeq", "pending"}, NEW r \in Request,
           r.id = accepted + 1, r.arrive = clk, r.is_first_command,
           n = "readq" => r.type = "READ" /\ ~r.forwarded /\ ~IsForwarded(r.addr),
           n = "writeq" => r.type = "WRITE" /\ ~r.forwarded,
           n = "pending" => r.type = "READ" /\ r.forwarded
    PROVE  /\ HoldInv(Added(Held, n, r), cur_serving_requests, finished, accepted + 1)
           /\ BanksApart(Added(Held, n, r), row_state)
           /\ AllOf(Added(Held, n, r)) = AllOf(Held) \cup {r}
<1>. DEFINE f == Added(Held, n, r)
<1>0. /\ Held \in Holding /\ Apart(Held) /\ accepted \in Nat /\ n \in Place
      /\ Numbers(Held) = (1 .. accepted) \ finished /\ finished \subseteq 1 .. accepted
      /\ AllOf(Held) \subseteq Request
  BY HeldParts, NumbersAreOf DEF CtrlInv, HoldInv, Place, QueueName
<1>1. \A y \in AllOf(Held) : y.id \in 1 .. accepted
  BY <1>0 DEF Numbers
<1>2. /\ f \in Holding /\ Apart(f)
      /\ At(f, n) = At(Held, n) \cup {r}
      /\ \A m \in Place : m # n => f[m] = Held[m] /\ At(f, m) = At(Held, m)
      /\ AllOf(f) = AllOf(Held) \cup {r}
      /\ Numbers(f) = Numbers(Held) \cup {r.id}
      /\ Begun(f) = Begun(Held)
  <2>1. \A y \in AllOf(Held) : y.id # r.id
    BY <1>0, <1>1
  <2>2. Begun(f) = Begun(Held) \cup (IF r.is_first_command THEN {} ELSE {r.id})
    BY <1>0, <2>1, AddEffect
  <2>3. Begun(f) = Begun(Held)
    BY <2>2
  <2>. QED BY <1>0, <2>1, <2>3, AddEffect
<1>. HIDE DEF f
<1>3. KindsKept(f)
  BY <1>2 DEF CtrlInv, HoldInv, KindsKept, Place, QueueName
<1>4. WritesInOrder(f)
  <2>1. CASE n # "writeq"
    BY <1>2, <2>1 DEF CtrlInv, HoldInv, WritesInOrder, Place, QueueName
  <2>2. CASE n = "writeq"
    <3>. DEFINE q == Held["writeq"]
    <3>1. q \in Seq(Request) /\ Len(q) \in Nat /\ DOMAIN q = 1 .. Len(q)
      BY HeldParts, LenProperties DEF Place, QueueName
    <3>2. f["writeq"] = Append(q, r)
      BY <1>0, <2>2 DEF f, Added, Holding
    <3>3. /\ DOMAIN Append(q, r) = 1 .. Len(q) + 1
          /\ \A j \in 1 .. Len(q) : Append(q, r)[j] = q[j]
          /\ Append(q, r)[Len(q) + 1] = r
      BY <3>1, AppendProperties, LenProperties
    <3>4. \A j \in 1 .. Len(q) : q[j].id < r.id /\ q[j].arrive <= r.arrive
      <4>1. \A j \in 1 .. Len(q) : q[j] \in AllOf(Held)
        BY <3>1 DEF AllOf, At, ToSet, Place, QueueName
      <4>. QED BY <1>0, <1>1, <4>1 DEF CtrlInv, RestInv
    <3>5. \A i, j \in 1 .. Len(q) : i < j => q[i].id < q[j].id /\ q[i].arrive <= q[j].arrive
      BY <3>1 DEF CtrlInv, HoldInv, WritesInOrder
    <3>. HIDE DEF q
    <3>6. ASSUME NEW i \in 1 .. Len(q) + 1, NEW j \in 1 .. Len(q) + 1, i < j
          PROVE  Append(q, r)[i].id < Append(q, r)[j].id /\ Append(q, r)[i].arrive <= Append(q, r)[j].arrive
      <4>1. i \in 1 .. Len(q)
        BY <3>1, <3>6
      <4>2. CASE j = Len(q) + 1
        BY <3>3, <3>4, <4>1, <4>2
      <4>3. CASE j \in 1 .. Len(q)
        BY <3>3, <3>5, <3>6, <4>1, <4>3
      <4>. QED BY <3>1, <4>2, <4>3
    <3>. QED BY <3>2, <3>3, <3>6 DEF WritesInOrder
  <2>. QED BY <2>1, <2>2
<1>5. OlderWritesActivated(f)
  <2>1. OlderWritesActivated(Held)
    BY DEF CtrlInv, HoldInv
  <2>2. CASE n = "writeq"
    <3>1. \A y \in At(Held, "readq") \cup At(Held, "actq") : y.id < r.id
      BY <1>0, <1>1 DEF AllOf, Place, QueueName
    <3>. QED BY <1>2, <2>1, <2>2, <3>1 DEF OlderWritesActivated, Place, QueueName
  <2>3. CASE n = "readq"
    <3>1. \A w \in At(Held, "writeq") : w.addr # r.addr
      BY <2>3, HeldParts DEF IsForwarded, At, QueueName
    <3>. QED BY <1>2, <2>1, <2>3, <3>1 DEF OlderWritesActivated, Place, QueueName
  <2>4. CASE n = "pending"
    BY <1>2, <2>1, <2>4 DEF OlderWritesActivated, Place, QueueName
  <2>. QED BY <2>2, <2>3, <2>4
<1>6. Numbers(f) = (1 .. accepted + 1) \ finished /\ finished \subseteq 1 .. accepted + 1
  BY <1>0, <1>2
<1>7. cur_serving_requests = Cardinality(Begun(f))
  BY <1>2 DEF CtrlInv, HoldInv
<1>8. BanksApart(f, row_state)
  BY <1>2 DEF CtrlInv, BanksApart, Place, QueueName
<1>. QED BY <1>2, <1>3, <1>4, <1>5, <1>6, <1>7, <1>8 DEF HoldInv, f

LEMMA NewRequestIs ==
    ASSUME ControllerParameters, CtrlInv, accepted < RequestNumber,
           NEW type \in {"READ", "WRITE"}, NEW a \in Address
    PROVE  /\ NewRequest(type, a) \in Request
           /\ [NewRequest(type, a) EXCEPT !.forwarded = TRUE] \in Request
<1>1. accepted + 1 \in 1 .. RequestNumber /\ clk \in 0 .. RequestNumber
  BY DEF CtrlInv, RestInv, ControllerParameters
<1>. QED BY <1>1 DEF NewRequest, Request

LEMMA EnqueueHolds ==
    ASSUME ControllerParameters, CtrlInv, NEW a \in Address, EnqueueRead(a) \/ EnqueueWrite(a)
    PROVE  CtrlInv'
<1>0. /\ accepted < RequestNumber /\ accepted' = accepted + 1 /\ admitting' = TRUE
      /\ UNCHANGED <<otherq, write_mode, row_state, hits, cur_serving_requests, clk, injected, finished>>
  BY DEF EnqueueRead, EnqueueWrite, Admit
<1>1. NewRequest("READ", a) \in Request /\ NewRequest("WRITE", a) \in Request
      /\ [NewRequest("READ", a) EXCEPT !.forwarded = TRUE] \in Request
  BY <1>0, NewRequestIs
<1>2. ASSUME NEW n \in {"readq", "writeq", "pending"}, NEW r \in Request,
             r.id = accepted + 1, r.arrive = clk, r.is_first_command,
             n = "readq" => r.type = "READ" /\ ~r.forwarded /\ ~IsForwarded(r.addr),
             n = "writeq" => r.type = "WRITE" /\ ~r.forwarded,
             n = "pending" => r.type = "READ" /\ r.forwarded,
             n # "pending" => /\ queues' = [queues EXCEPT ![n] = Append(@, r)] /\ UNCHANGED pending
                              /\ HasRoom(n),
             n = "pending" => pending' = Append(pending, r) /\ UNCHANGED queues
      PROVE  CtrlInv'
  <2>1. Held' = Added(Held, n, r)
    <3>1. CASE n = "pending"
      BY <1>2, <3>1 DEF Held, Added, Place, QueueName
    <3>2. CASE n # "pending"
      <4>1. queues \in [QueueName -> Seq(Request)]
        BY DEF CtrlInv, RestInv
      <4>. QED BY <1>2, <3>2, <4>1 DEF Held, Added, Place, QueueName
    <3>. QED BY <3>1, <3>2
  <2>2. /\ HoldInv(Held', cur_serving_requests, finished, accepted + 1)
        /\ BanksApart(Held', row_state)
        /\ AllOf(Held') = AllOf(Held) \cup {r}
    BY <1>2, <2>1, AdmitHolds
  <2>3. /\ queues' \in [QueueName -> Seq(Request)]
        /\ Len(queues'["readq"]) <= QueueMax /\ Len(queues'["writeq"]) <= QueueMax
    <3>1. /\ queues \in [QueueName -> Seq(Request)]
          /\ Len(queues["readq"]) <= QueueMax /\ Len(queues["writeq"]) <= QueueMax
      BY DEF CtrlInv, RestInv
    <3>2. CASE n # "pending"
      <4>1. n \in QueueName /\ queues[n] \in Seq(Request) /\ Len(queues[n]) <= QueueMax
        BY <3>1, <3>2 DEF QueueName
      <4>2. /\ Append(queues[n], r) \in Seq(Request) /\ Len(Append(queues[n], r)) = Len(queues[n]) + 1
            /\ Len(queues[n]) \in Nat
        BY <4>1, AppendProperties, LenProperties
      <4>3. Len(Append(queues[n], r)) <= QueueMax
        BY <1>2, <3>2, <4>1, <4>2 DEF HasRoom, ControllerParameters
      <4>4. \A k \in QueueName : queues'[k] = IF k = n THEN Append(queues[n], r) ELSE queues[k]
        BY <1>2, <3>1, <3>2
      <4>. QED BY <1>2, <3>1, <3>2, <4>2, <4>3, <4>4 DEF QueueName
    <3>. QED BY <1>2, <3>1, <3>2
  <2>4. /\ clk' \in Nat /\ clk' + (IF admitting' THEN 1 ELSE 0) <= accepted'
        /\ accepted' \in 0 .. RequestNumber
        /\ clk' = clk
    BY <1>0 DEF CtrlInv, RestInv, ControllerParameters
  <2>5. \A x \in AllOf(Held') : x.arrive <= clk'
    <3>1. clk <= clk
      BY DEF CtrlInv, RestInv
    <3>. QED BY <1>2, <2>2, <2>4, <3>1 DEF CtrlInv, RestInv
  <2>6. RestInv'
    BY <1>0, <2>3, <2>4, <2>5 DEF CtrlInv, RestInv
  <2>. QED BY <1>0, <2>2, <2>6 DEF CtrlInv
<1>3. CASE EnqueueWrite(a)
  <2>1. /\ NewRequest("WRITE", a).id = accepted + 1 /\ NewRequest("WRITE", a).arrive = clk
        /\ NewRequest("WRITE", a).is_first_command /\ NewRequest("WRITE", a).type = "WRITE"
        /\ ~NewRequest("WRITE", a).forwarded
    BY DEF NewRequest
  <2>2. /\ queues' = [queues EXCEPT !["writeq"] = Append(@, NewRequest("WRITE", a))]
        /\ UNCHANGED pending /\ HasRoom("writeq")
    BY <1>3 DEF EnqueueWrite, Admit
  <2>. QED BY <1>1, <1>2, <2>1, <2>2
<1>4. CASE EnqueueRead(a) /\ IsForwarded(a)
  <2>. DEFINE r == [NewRequest("READ", a) EXCEPT !.forwarded = TRUE]
  <2>1. /\ r.id = accepted + 1 /\ r.arrive = clk /\ r.is_first_command /\ r.type = "READ" /\ r.forwarded
    BY DEF NewRequest
  <2>2. pending' = Append(pending, r) /\ UNCHANGED queues
    BY <1>4 DEF EnqueueRead
  <2>. HIDE DEF r
  <2>. QED BY <1>1, <1>2, <2>1, <2>2 DEF r
<1>5. CASE EnqueueRead(a) /\ ~IsForwarded(a)
  <2>1. /\ NewRequest("READ", a).id = accepted + 1 /\ NewRequest("READ", a).arrive = clk
        /\ NewRequest("READ", a).is_first_command /\ NewRequest("READ", a).type = "READ"
        /\ ~NewRequest("READ", a).forwarded /\ NewRequest("READ", a).addr = a
    BY DEF NewRequest
  <2>2. /\ queues' = [queues EXCEPT !["readq"] = Append(@, NewRequest("READ", a))]
        /\ UNCHANGED pending /\ HasRoom("readq")
    BY <1>5 DEF EnqueueRead, Admit
  <2>. QED BY <1>1, <1>2, <1>5, <2>1, <2>2
<1>. QED BY <1>3, <1>4, <1>5

LEMMA InitHolds == ASSUME ControllerParameters, Init PROVE CtrlInv
<1>1. Held = [n \in Place |-> <<>>]
  BY DEF Init, Held, Place, QueueName
<1>2. /\ Held \in Holding
      /\ \A n \in Place : At(Held, n) = {} /\ NumbersDiffer(Held[n]) /\ Held[n] = <<>>
  BY <1>1, EmptySeq DEF Holding, At, ToSet, NumbersDiffer
<1>3. AllOf(Held) = {} /\ Numbers(Held) = {} /\ Begun(Held) = {}
  BY <1>2 DEF AllOf, Numbers, Begun
<1>4. Apart(Held) /\ KindsKept(Held) /\ OlderWritesActivated(Held) /\ BanksApart(Held, row_state)
  BY <1>2 DEF Apart, KindsKept, OlderWritesActivated, BanksApart, Place, QueueName
<1>5. WritesInOrder(Held)
  BY <1>2 DEF WritesInOrder, Place, QueueName
<1>6. HoldInv(Held, cur_serving_requests, finished, accepted)
  BY <1>2, <1>3, <1>4, <1>5, FS_EmptySet DEF HoldInv, Init
<1>7. RestInv
  <2>1. queues \in [QueueName -> Seq(Request)] /\ \A n \in QueueName : Len(queues[n]) = 0
    BY EmptySeq DEF Init, QueueName
  <2>2. row_state \in [Bank -> Row \cup {Closed}] /\ hits \in [Bank -> 0 .. Cap + 1]
    BY DEF Init, ControllerParameters
  <2>3. /\ injected = 0 /\ otherq = 0 /\ accepted = 0 /\ clk = 0
        /\ write_mode = FALSE /\ admitting = FALSE
    BY DEF Init
  <2>4. Len(queues["readq"]) <= QueueMax /\ Len(queues["writeq"]) <= QueueMax
    BY <2>1 DEF ControllerParameters, QueueName
  <2>5. /\ injected \in 0 .. RefreshNumber /\ otherq \in 0 .. injected
        /\ accepted \in 0 .. RequestNumber
        /\ clk + (IF admitting THEN 1 ELSE 0) <= accepted
    BY <2>3 DEF ControllerParameters
  <2>. QED BY <1>3, <2>1, <2>2, <2>3, <2>4, <2>5 DEF RestInv
<1>. QED BY <1>4, <1>6, <1>7 DEF CtrlInv

LEMMA NextHolds == ASSUME ControllerParameters, CtrlInv, [Next]_vars PROVE CtrlInv'
<1>1. ASSUME NEW a \in Address, EnqueueRead(a) \/ EnqueueWrite(a) PROVE CtrlInv'
  BY <1>1, EnqueueHolds
<1>2. CASE AnyTick
  BY <1>2, TickHolds DEF AnyTick
<1>3. CASE UNCHANGED vars
  <2>1. Held' = Held
    BY <1>3 DEF vars, Held
  <2>2. HoldInv(Held, cur_serving_requests, finished, accepted)' /\ BanksApart(Held, row_state)'
    BY <1>3, <2>1 DEF vars, CtrlInv
  <2>3. RestInv'
    BY <1>3, <2>1 DEF vars, CtrlInv, RestInv
  <2>. QED BY <2>2, <2>3 DEF CtrlInv
<1>. QED BY <1>1, <1>2, <1>3 DEF Next
-----------------------------------------------------------------------------
(* What the invariant implies *)

QueuedOf(h) == At(h, "readq") \cup At(h, "writeq") \cup At(h, "actq")

LEMMA WaitingIs == CtrlInv => Queued = QueuedOf(Held) /\ Waiting = AllOf(Held)
<1>. SUFFICES ASSUME CtrlInv PROVE Queued = QueuedOf(Held) /\ Waiting = AllOf(Held)
  OBVIOUS
<1>1. DOMAIN queues = QueueName
  BY DEF CtrlInv, RestInv
<1>2. /\ At(Held, "pending") = ToSet(pending)
      /\ \A n \in QueueName : At(Held, n) = ToSet(queues[n])
  BY HeldParts DEF At
<1>3. Queued = QueuedOf(Held)
  BY <1>1, <1>2 DEF Queued, QueuedOf, QueueName
<1>4. AllOf(Held) = QueuedOf(Held) \cup At(Held, "pending")
  BY DEF AllOf, QueuedOf, Place, QueueName
<1>. QED BY <1>2, <1>3, <1>4 DEF Waiting

LEMMA InvTypes == ASSUME ControllerParameters PROVE CtrlInv => TypeOK
<1>. SUFFICES ASSUME CtrlInv PROVE TypeOK
  OBVIOUS
<1>1. cur_serving_requests \in 0 .. RequestNumber
  <2>1. /\ HoldInv(Held, cur_serving_requests, finished, accepted)
        /\ accepted \in Nat /\ accepted <= RequestNumber /\ RequestNumber \in Nat
    BY DEF CtrlInv, RestInv, ControllerParameters
  <2>2. Cardinality(Begun(Held)) \in Nat /\ Cardinality(Begun(Held)) <= accepted
    BY <2>1, BegunFinite
  <2>. QED BY <2>1, <2>2 DEF HoldInv
<1>2. finished \subseteq 1 .. RequestNumber
  BY DEF CtrlInv, HoldInv, RestInv, ControllerParameters
<1>3. clk \in 0 .. RequestNumber /\ otherq \in 0 .. RefreshNumber
  BY DEF CtrlInv, RestInv, ControllerParameters
<1>4. pending \in Seq(Request)
  BY HeldParts
<1>. QED BY <1>1, <1>2, <1>3, <1>4 DEF CtrlInv, RestInv, TypeOK, QueueName

LEMMA InvBanks == CtrlInv => ActqOnePerBank
<1>. SUFFICES ASSUME CtrlInv PROVE ActqOnePerBank
  OBVIOUS
<1>. DEFINE q == queues["actq"]
<1>1. NumbersDiffer(q) /\ At(Held, "actq") = ToSet(q)
  BY HeldParts DEF CtrlInv, HoldInv, Apart, At, Place, QueueName
<1>2. \A i \in DOMAIN q : q[i] \in At(Held, "actq")
  BY <1>1 DEF ToSet
<1>3. \A i, j \in DOMAIN q : BankOf(q[i].addr) = BankOf(q[j].addr) => i = j
  BY <1>1, <1>2 DEF CtrlInv, BanksApart, NumbersDiffer
<1>4. \A i \in DOMAIN q : row_state[BankOf(q[i].addr)] \in {Closed, RowOf(q[i].addr)}
  BY <1>2 DEF CtrlInv, BanksApart
<1>. QED BY <1>3, <1>4 DEF ActqOnePerBank

LEMMA DisjointCount ==
    ASSUME NEW S, NEW T, IsFiniteSet(S), IsFiniteSet(T), S \cap T = {}
    PROVE  IsFiniteSet(S \cup T) /\ Cardinality(S \cup T) = Cardinality(S) + Cardinality(T)
<1>1. /\ IsFiniteSet(S \cup T)
      /\ Cardinality(S \cup T) = Cardinality(S) + Cardinality(T) - Cardinality(S \cap T)
  BY FS_Union
<1>2. Cardinality(S \cap T) = 0
  BY FS_EmptySet
<1>3. Cardinality(S) \in Nat /\ Cardinality(T) \in Nat
  BY FS_CardinalityType
<1>. QED BY <1>1, <1>2, <1>3

LEMMA InvOnce == CtrlInv => RequestsOnce
<1>. SUFFICES ASSUME CtrlInv PROVE RequestsOnce
  OBVIOUS
<1>1. Waiting = AllOf(Held) /\ Held \in Holding /\ Apart(Held)
  BY WaitingIs, HeldParts
<1>2. Numbers(Held) = (1 .. accepted) \ finished
  BY DEF CtrlInv, HoldInv
<1>3. \A i \in 1 .. accepted :
         \/ i \in finished /\ \A r \in Waiting : r.id # i
         \/ i \notin finished /\ \E r \in Waiting : r.id = i
  BY <1>1, <1>2 DEF Numbers
<1>4. \A r, s \in Waiting : r.id = s.id => r = s
  BY <1>1, NumbersAreOf
<1>5. ASSUME NEW n \in Place
      PROVE  IsFiniteSet(At(Held, n)) /\ Cardinality(At(Held, n)) = Len(Held[n]) /\ Len(Held[n]) \in Nat
  <2>1. Held[n] \in Seq(Request) /\ NumbersDiffer(Held[n])
    BY <1>1 DEF Holding, Apart
  <2>. QED BY <2>1, NumbersCount, LenProperties DEF At
<1>6. \A n, m \in Place : n # m => At(Held, n) \cap At(Held, m) = {}
  BY <1>1 DEF Apart
<1>. DEFINE R == At(Held, "readq")
            W == At(Held, "writeq")
            A == At(Held, "actq")
            P == At(Held, "pending")
<1>7. /\ IsFiniteSet(R) /\ IsFiniteSet(W) /\ IsFiniteSet(A) /\ IsFiniteSet(P)
      /\ R \cap W = {} /\ (R \cup W) \cap A = {} /\ ((R \cup W) \cup A) \cap P = {}
  BY <1>5, <1>6 DEF Place, QueueName
<1>8. /\ Cardinality(R) = Len(queues["readq"]) /\ Cardinality(W) = Len(queues["writeq"])
      /\ Cardinality(A) = Len(queues["actq"]) /\ Cardinality(P) = Len(pending)
      /\ Cardinality(R) \in Nat /\ Cardinality(W) \in Nat
      /\ Cardinality(A) \in Nat /\ Cardinality(P) \in Nat
  BY <1>5, HeldParts DEF Place, QueueName
<1>9. AllOf(Held) = ((R \cup W) \cup A) \cup P
  BY DEF AllOf, Place, QueueName
<1>. HIDE DEF R, W, A, P
<1>10. IsFiniteSet(R \cup W) /\ Cardinality(R \cup W) = Cardinality(R) + Cardinality(W)
  BY <1>7, <1>8, DisjointCount
<1>11. /\ IsFiniteSet((R \cup W) \cup A)
       /\ Cardinality((R \cup W) \cup A) = Cardinality(R) + Cardinality(W) + Cardinality(A)
  BY <1>7, <1>8, <1>10, DisjointCount
<1>12. Cardinality(((R \cup W) \cup A) \cup P)
          = Cardinality(R) + Cardinality(W) + Cardinality(A) + Cardinality(P)
  BY <1>7, <1>8, <1>11, DisjointCount, ZenonT(60)
<1>. QED BY <1>1, <1>3, <1>4, <1>8, <1>9, <1>12 DEF RequestsOnce

LEMMA InvServing == CtrlInv => ServingCounted
<1>. SUFFICES ASSUME CtrlInv PROVE ServingCounted
  OBVIOUS
<1>. DEFINE B == {r \in Waiting : ~r.is_first_command}
            f == [i \in Begun(Held) |-> CHOOSE r \in B : r.id = i]
<1>1. Waiting = AllOf(Held) /\ Held \in Holding /\ Apart(Held)
  BY WaitingIs, HeldParts
<1>2. \A r, s \in B : r.id = s.id => r = s
  BY <1>1, NumbersAreOf
<1>3. Begun(Held) = {r.id : r \in B}
  BY <1>1 DEF Begun
<1>. HIDE DEF B
<1>4. \A i \in Begun(Held) : f[i] \in B /\ f[i].id = i
  BY <1>3
<1>5. f \in Bijection(Begun(Held), B)
  <2>1. f \in [Begun(Held) -> B]
    BY <1>4
  <2>2. \A i, j \in Begun(Held) : f[i] = f[j] => i = j
    BY <1>4
  <2>3. \A r \in B : \E i \in Begun(Held) : f[i] = r
    BY <1>2, <1>3, <1>4
  <2>. QED BY <2>1, <2>2, <2>3 DEF Bijection, Injection, Surjection, IsInjective
<1>6. IsFiniteSet(Begun(Held))
  <2>1. HoldInv(Held, cur_serving_requests, finished, accepted) /\ accepted \in Nat
    BY HeldParts DEF CtrlInv
  <2>. QED BY <2>1, BegunFinite
<1>7. Cardinality(B) = Cardinality(Begun(Held))
  BY <1>5, <1>6, FS_Bijection DEF ExistsBijection
<1>. QED BY <1>7 DEF CtrlInv, HoldInv, ServingCounted, B
-----------------------------------------------------------------------------
(* Requests that leave the queues *)

\* In a cycle every queued request stays queued but the one, numbered o, whose
\* last command is issued.
LEMMA StaysQueued ==
    ASSUME CtrlInv, CtrlInv', NEW served \in ServedChoices, NEW o,
           accepted' = accepted,
           finished' \subseteq DoneAfter(served) \cup {o},
           \A s \in ToSet(pending') : s \in ToSet(WaitingAfter(served)) \/ s.id = o,
           NEW r \in Queued, r.id # o
    PROVE  \E s \in Queued' : s.id = r.id
<1>. DEFINE g == HeldAfter(served)
<1>1. /\ Queued = QueuedOf(Held) /\ Queued' = QueuedOf(Held') /\ Waiting' = AllOf(Held')
      /\ HoldInv(Held', cur_serving_requests', finished', accepted')
  <2>1. CtrlInv' => (Queued = QueuedOf(Held) /\ Waiting = AllOf(Held))'
    BY WaitingIs, PTL
  <2>2. HoldInv(Held, cur_serving_requests, finished, accepted)'
    BY DEF CtrlInv
  <2>. QED BY <2>1, <2>2, WaitingIs
<1>2. /\ HoldInv(g, ServingAfter(served), DoneAfter(served), accepted)
      /\ g \in Holding /\ Apart(g)
      /\ At(g, "pending") = ToSet(WaitingAfter(served))
      /\ \A k \in QueueName : At(g, k) = At(Held, k)
  BY ServeHolds, ServedParts DEF At
<1>. HIDE DEF g
<1>3. PICK k \in QueueName : r \in At(g, k)
  BY <1>1, <1>2 DEF QueuedOf, QueueName
<1>4. r.id \in (1 .. accepted) \ DoneAfter(served)
  <2>1. r.id \in Numbers(g)
    BY <1>3 DEF Numbers, AllOf, Place
  <2>. QED BY <1>2, <2>1 DEF HoldInv
<1>5. r.id \in Numbers(Held')
  BY <1>1, <1>4 DEF HoldInv
<1>6. PICK s \in AllOf(Held') : s.id = r.id
  BY <1>5 DEF Numbers
<1>7. AllOf(Held') = QueuedOf(Held') \cup ToSet(pending')
  <2>1. AllOf(Held') = QueuedOf(Held') \cup At(Held', "pending")
    BY DEF AllOf, QueuedOf, Place, QueueName
  <2>2. At(Held', "pending") = ToSet(pending')
    BY DEF At, Held, Place
  <2>. QED BY <2>1, <2>2
<1>8. s \notin ToSet(WaitingAfter(served))
  <2>1. "pending" \in Place /\ k \in Place /\ k # "pending"
    BY DEF Place, QueueName
  <2>. QED BY <1>2, <1>3, <1>6, <2>1 DEF Apart
<1>9. s \in QueuedOf(Held')
  BY <1>6, <1>7, <1>8
<1>. QED BY <1>1, <1>6, <1>9

\* A request that leaves the queues had its own command issued.
LEMMA LeavesByAccess ==
    ASSUME ControllerParameters, CtrlInv, NEW served \in ServedChoices, NEW due \in DueChoices,
           NEW ready, Tick(served, due, ready),
           NEW r \in Queued, r.id \notin {s.id : s \in Queued'}
    PROVE  \E n \in QueueName : \E i \in ReadyHead(queues[n], ready) :
              /\ n = SelectedQueue(ready, RefreshesWaiting(due))
              /\ r = queues[n][i]
              /\ Decode(r) = r.type
<1>. DEFINE refreshes == RefreshesWaiting(due)
            n == SelectedQueue(ready, refreshes)
            heads == IF n = "otherq" THEN {} ELSE ReadyHead(queues[n], ready)
<1>1. /\ accepted' = accepted
      /\ \/ \E i \in heads :
               /\ IssueFor(n, i, WaitingAfter(served), ServingAfter(served))
               /\ finished' = DoneAfter(served) \cup WritesOf(n, i)
         \/ finished' = DoneAfter(served) /\ pending' = WaitingAfter(served)
  BY DEF Tick, WaitingAfter, ServingAfter, DoneAfter
<1>2. CtrlInv'
  BY TickHolds
<1>3. r \in AllOf(Held) /\ \A x, y \in AllOf(Held) : x.id = y.id => x = y
  BY WaitingIs, HeldParts, NumbersAreOf DEF Waiting
<1>4. r.id \in 1 .. accepted
  BY <1>3 DEF CtrlInv, HoldInv, Numbers
<1>5. ~(finished' = DoneAfter(served) /\ pending' = WaitingAfter(served))
  <2>. SUFFICES ASSUME finished' = DoneAfter(served), pending' = WaitingAfter(served) PROVE FALSE
    OBVIOUS
  <2>1. r.id # 0
    BY <1>4
  <2>. QED BY <1>1, <1>2, <2>1, StaysQueued
<1>6. PICK i \in heads :
          /\ IssueFor(n, i, WaitingAfter(served), ServingAfter(served))
          /\ finished' = DoneAfter(served) \cup WritesOf(n, i)
  BY <1>1, <1>5
<1>7. n \in QueueName /\ i \in ReadyHead(queues[n], ready)
  BY <1>6, SelectedIs
<1>. DEFINE o == queues[n][i]
<1>8. /\ o \in AllOf(Held) /\ o \in Request
      /\ WaitingAfter(served) \in Seq(Request)
  <2>1. queues[n] \in Seq(Request) /\ Held[n] = queues[n]
    BY <1>7, HeldParts
  <2>2. i \in DOMAIN Held[n]
    BY <1>7, <2>1, ReadyHeadIn
  <2>3. o \in AllOf(Held) /\ o \in Request
    BY <1>7, <2>1, <2>2, HeldParts, DropEffect DEF Place
  <2>4. HeldAfter(served)["pending"] \in Seq(Request)
    BY ServedParts DEF Holding, Place
  <2>. QED BY <2>3, <2>4, ServedParts
<1>. HIDE DEF refreshes, n, heads
<1>9. Access(n, i, WaitingAfter(served), ServingWith(o, ServingAfter(served)))
  <2>1. \/ Activate(n, i, WaitingAfter(served), ServingWith(o, ServingAfter(served)))
        \/ Precharge(n, i, WaitingAfter(served), ServingWith(o, ServingAfter(served)))
        \/ Access(n, i, WaitingAfter(served), ServingWith(o, ServingAfter(served)))
    BY <1>6 DEF IssueFor
  <2>2. ASSUME Decode(o) \in {"ACT", "PRE"} PROVE finished' = DoneAfter(served)
    BY <1>6, <2>2 DEF WritesOf
  <2>. QED BY <1>5, <2>1, <2>2 DEF Activate, Precharge
<1>10. Decode(o) = o.type /\ o.type \in {"READ", "WRITE"}
  BY <1>8, <1>9 DEF Access, Request
<1>11. /\ finished' \subseteq DoneAfter(served) \cup {o.id}
       /\ \A s \in ToSet(pending') : s \in ToSet(WaitingAfter(served)) \/ s.id = o.id
  <2>1. finished' \subseteq DoneAfter(served) \cup {o.id}
    BY <1>6 DEF WritesOf
  <2>2. pending' = WaitingAfter(served) \/ pending' = Append(WaitingAfter(served), Started(o))
    BY <1>9 DEF Access
  <2>3. ToSet(Append(WaitingAfter(served), Started(o))) = ToSet(WaitingAfter(served)) \cup {Started(o)}
    <3>1. Started(o) \in Request
      BY <1>8, StartedIs
    <3>2. NumbersDiffer(WaitingAfter(served))
      BY ServedParts DEF Apart, Place
    <3>3. /\ DOMAIN WaitingAfter(served) = 1 .. Len(WaitingAfter(served))
          /\ DOMAIN Append(WaitingAfter(served), Started(o)) = 1 .. Len(WaitingAfter(served)) + 1
          /\ Len(WaitingAfter(served)) \in Nat
          /\ \A j \in 1 .. Len(WaitingAfter(served)) :
                Append(WaitingAfter(served), Started(o))[j] = WaitingAfter(served)[j]
          /\ Append(WaitingAfter(served), Started(o))[Len(WaitingAfter(served)) + 1] = Started(o)
      BY <1>8, <3>1, AppendProperties, LenProperties
    <3>. QED BY <3>3 DEF ToSet
  <2>4. Started(o).id = o.id
    BY <1>8, StartedIs
  <2>. QED BY <2>1, <2>2, <2>3, <2>4
<1>12. r.id = o.id
  <2>. SUFFICES ASSUME r.id # o.id PROVE FALSE
    OBVIOUS
  <2>. DEFINE z == o.id
  <2>0. /\ finished' \subseteq DoneAfter(served) \cup {z} /\ accepted' = accepted /\ r.id # z
        /\ \A s \in ToSet(pending') : s \in ToSet(WaitingAfter(served)) \/ s.id = z
    BY <1>1, <1>11
  <2>. HIDE DEF z
  <2>1. \E s \in Queued' : s.id = r.id
    BY <1>2, <2>0, StaysQueued
  <2>. QED BY <2>1
<1>13. r = o
  BY <1>3, <1>8, <1>12
<1>. QED BY <1>7, <1>10, <1>13 DEF n, refreshes

LEMMA OvertakeStep ==
    ASSUME ControllerParameters, CtrlInv, [Next]_vars,
           NEW w \in Queued \cap Queued', NEW r \in Queued \ Queued',
           w.type = "WRITE", w.addr = r.addr, w.id < r.id, r.id \notin {s.id : s \in Queued'}
    PROVE  /\ w \in ToSet(queues["actq"])
           /\ r.type = "WRITE" => hits[BankOf(w.addr)] > Cap
<1>1. ASSUME NEW a \in Address, EnqueueRead(a) \/ EnqueueWrite(a) PROVE FALSE
  <2>1. /\ queues \in [QueueName -> Seq(Request)] /\ accepted < RequestNumber
        /\ NewRequest("READ", a) \in Request /\ NewRequest("WRITE", a) \in Request
    BY <1>1, NewRequestIs DEF CtrlInv, RestInv, EnqueueRead, EnqueueWrite, Admit
  <2>2. PICK k \in QueueName : r \in ToSet(queues[k])
    BY <2>1 DEF Queued
  <2>3. ASSUME NEW m \in {"readq", "writeq"}, NEW x \in Request,
               queues' = [queues EXCEPT ![m] = Append(@, x)]
        PROVE  r \in Queued'
    <3>1. DOMAIN queues' = QueueName
      BY <2>1, <2>3
    <3>2. CASE k # m
      <4>1. queues'[k] = queues[k]
        BY <2>1, <2>3, <3>2
      <4>. QED BY <2>2, <3>1, <4>1 DEF Queued
    <3>3. CASE k = m
      <4>1. queues'[k] = Append(queues[k], x) /\ queues[k] \in Seq(Request)
        BY <2>1, <2>3, <3>3
      <4>2. PICK j \in 1 .. Len(queues[k]) : r = queues[k][j]
        BY <2>2, <4>1, LenProperties DEF ToSet
      <4>3. /\ j \in DOMAIN queues'[k] /\ queues'[k][j] = r
        <5>1. /\ DOMAIN Append(queues[k], x) = 1 .. Len(queues[k]) + 1
              /\ Len(queues[k]) \in Nat
              /\ Append(queues[k], x)[j] = queues[k][j]
          BY <4>1, <4>2, AppendProperties, LenProperties
        <5>. QED BY <4>1, <4>2, <5>1
      <4>. QED BY <3>1, <4>3 DEF Queued, ToSet
    <3>. QED BY <3>2, <3>3
  <2>4. queues' = queues => Queued' = Queued
    BY DEF Queued
  <2>. QED BY <1>1, <2>1, <2>3, <2>4 DEF EnqueueRead, EnqueueWrite
<1>2. ~UNCHANGED vars
  BY DEF vars, Queued
<1>3. AnyTick
  BY <1>1, <1>2 DEF Next
<1>14. PICK served \in ServedChoices, due \in DueChoices :
           \E ready \in SUBSET Candidates(RefreshesWaiting(due)) : Tick(served, due, ready)
  BY <1>3 DEF AnyTick
<1>4. PICK ready \in SUBSET Candidates(RefreshesWaiting(due)) : Tick(served, due, ready)
  BY <1>14
<1>. DEFINE refreshes == RefreshesWaiting(due)
<1>5. PICK n \in QueueName : \E i \in ReadyHead(queues[n], ready) :
          n = SelectedQueue(ready, refreshes) /\ r = queues[n][i] /\ Decode(r) = r.type
  BY <1>4, LeavesByAccess
<1>6. PICK i \in ReadyHead(queues[n], ready) :
          n = SelectedQueue(ready, refreshes) /\ r = queues[n][i] /\ Decode(r) = r.type
  BY <1>5
<1>. HIDE DEF refreshes
<1>7. /\ queues[n] \in Seq(Request) /\ Held[n] = queues[n]
      /\ queues["actq"] \in Seq(Request) /\ Held["actq"] = queues["actq"]
      /\ QueueName = {"readq", "writeq", "actq"}
  BY HeldParts DEF QueueName
<1>8. r \in At(Held, n) /\ r \in Request /\ CommandOf(r) \in ready
  <2>1. i \in DOMAIN queues[n] /\ CommandOf(r) \in ready
    BY <1>6, <1>7, ReadyHeadIn
  <2>. QED BY <1>6, <1>7, <2>1, LenProperties, ElementOfSeq DEF At, ToSet
<1>9. w \in QueuedOf(Held) /\ w.id \in Nat /\ r.id \in Nat /\ w \in Request
  <2>1. w \in QueuedOf(Held) /\ w \in AllOf(Held)
    BY WaitingIs DEF Waiting
  <2>2. w \in Request
    BY <2>1, HeldParts, NumbersAreOf
  <2>. QED BY <1>8, <2>1, <2>2 DEF Request
<1>10. w # r /\ ~(r.id < w.id)
  BY <1>9
<1>11. w \notin At(Held, "writeq")
  BY <1>6, <1>10, HeadBeforeWrites
<1>12. w \in At(Held, "actq")
  <2>1. w \notin At(Held, "readq")
    BY DEF CtrlInv, HoldInv, KindsKept
  <2>. QED BY <1>9, <1>11, <2>1 DEF QueuedOf
<1>13. ASSUME r.type = "WRITE" PROVE hits[BankOf(w.addr)] > Cap
  <2>1. n # "readq"
    BY <1>8, <1>13 DEF CtrlInv, HoldInv, KindsKept
  <2>2. n # "actq"
    BY <1>8, <1>10, <1>12 DEF CtrlInv, BanksApart
  <2>3. PICK j \in DOMAIN queues["actq"] : w = queues["actq"][j]
    BY <1>7, <1>12 DEF At, ToSet
  <2>4. CommandOf(w) \in ready
    <3>1. CommandOf(w) = CommandOf(r)
      BY <1>13 DEF CommandOf, Decode
    <3>. QED BY <1>8, <3>1
  <2>5. ~IsPreferred(w, ready)
    <3>. SUFFICES ASSUME IsPreferred(queues["actq"][j], ready) PROVE FALSE
      BY <2>3
    <3>1. HeadIsReady(queues["actq"], ready)
      BY <1>7, PreferredMakesReady
    <3>. QED BY <1>6, <2>2, <3>1 DEF SelectedQueue
  <2>6. ~(hits[BankOf(w.addr)] <= Cap)
    BY <2>4, <2>5 DEF IsPreferred
  <2>7. hits[BankOf(w.addr)] \in Int /\ Cap \in Nat
    <3>1. BankOf(w.addr) \in Bank
      BY <1>9, AddressParts DEF Request
    <3>. QED BY <3>1 DEF CtrlInv, RestInv, ControllerParameters
  <2>. QED BY <2>6, <2>7
<1>. QED BY <1>7, <1>12, <1>13 DEF At
-----------------------------------------------------------------------------
(* The theorems of the specification *)

\* The invariant holds whatever order requests, commands, refreshes and answers
\* come in (enqueue() and tick()).
THEOREM ControllerInvariant == ASSUME ControllerParameters PROVE Spec => []CtrlInv
<1>1. Init => CtrlInv
  BY InitHolds
<1>2. CtrlInv /\ [Next]_vars => CtrlInv'
  BY NextHolds
<1>. QED BY <1>1, <1>2, PTL DEF Spec

\* Types and limits: the queues, the pending reads, the clock of arrival and
\* cur_serving_requests, which is never negative (update_serving_requests()).
THEOREM ControllerTypes == ASSUME ControllerParameters PROVE Spec => []TypeOK
BY ControllerInvariant, InvTypes, PTL

\* At most one request of a bank waits in actq, and its row is open or the bank
\* closed (tick() moves requests to actq without looking at its size).
THEOREM ControllerBanks == ASSUME ControllerParameters PROVE Spec => []ActqOnePerBank
BY ControllerInvariant, InvBanks, PTL

\* Every accepted request is in exactly one place until it is finished
\* (enqueue(), and tick() that moves requests between the queues and pending).
THEOREM ControllerOnce == ASSUME ControllerParameters PROVE Spec => []RequestsOnce
BY ControllerInvariant, InvOnce, PTL

\* cur_serving_requests counts the requests that had a command and are not
\* finished (tick(), where one branch adds what another takes off).
THEOREM ControllerServing == ASSUME ControllerParameters PROVE Spec => []ServingCounted
BY ControllerInvariant, InvServing, PTL

\* A request overtakes an older write of its address only when that write waits
\* in actq, and a write only when the row's hits are over the cap (get_head()).
THEOREM ControllerOvertakes == ASSUME ControllerParameters PROVE Spec => OvertakesOnlyActivated
<1>. DEFINE A == \A w \in Queued \cap Queued', r \in Queued \ Queued' :
                    w.type = "WRITE" /\ w.addr = r.addr /\ w.id < r.id /\ r.id \notin {s.id : s \in Queued'} =>
                        /\ w \in ToSet(queues["actq"])
                        /\ r.type = "WRITE" => hits[BankOf(w.addr)] > Cap
<1>1. CtrlInv /\ [Next]_vars => A
  BY OvertakeStep
<1>2. OvertakesOnlyActivated <=> [][A]_vars
  BY DEF OvertakesOnlyActivated
<1>. HIDE DEF A
<1>. QED BY <1>1, <1>2, ControllerInvariant, PTL DEF Spec
=============================================================================
