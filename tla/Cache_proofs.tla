---------------------------- MODULE Cache_proofs ----------------------------
(***************************************************************************)
(* The caches, for any number of upper levels, lines and ways, all sizes   *)
(* of queues and every replacement policy: that what is ready stays in     *)
(* front, that every miss and every read is owed one answer, and that no   *)
(* write-back is forgotten.                                                *)
(***************************************************************************)
EXTENDS Cache, SequenceTheorems, FiniteSetTheorems, TLAPS

\* A miss register is one of its line's, and an answer is owed for the
\* registers without data.
Registers ==
    /\ \A i, j \in DOMAIN mshr : mshr[i].line = mshr[j].line => i = j
    /\ \A l \in Lines :
          asked[l] = IF \E i \in DOMAIN mshr : mshr[i].line = l /\ ~mshr[i].done THEN 1 ELSE 0

\* Only write queues hold writes; a miss register holds none where writes are
\* write-backs; the own prefetches of the cache carry nothing; a way that was
\* never filled has no line.
Kinds ==
    /\ \A u \in Uppers : \A i \in DOMAIN wq[u] : wq[u][i].type = "WRITE"
    /\ ~cache.offset => \A i \in DOMAIN mshr : mshr[i].type # "WRITE"
    /\ \A i \in DOMAIN internalPQ : internalPQ[i].local
    /\ \A e \in Range(internalPQ) \cup Range(tagCheck) \cup Range(stash) : e.local => e.deps = {}
    /\ \A w \in Ways : block[w].line \in Lines => block[w].valid

\* How many of s wait for, or carry, request r: one or none.
Found(s, r) == IF \E i \in DOMAIN s : r \in s[i].deps THEN 1 ELSE 0
Sole(s, r)  == \A i, j \in DOMAIN s : r \in s[i].deps /\ r \in s[j].deps => i = j

\* The same of the positions S of s.
FoundAt(s, S, r) == IF \E j \in S : r \in s[j].deps THEN 1 ELSE 0

\* The same of the answers on their way up.
FoundAnswer(s, r) == IF \E i \in DOMAIN s : r \in s[i] THEN 1 ELSE 0
SoleAnswer(s, r)  == \A i, j \in DOMAIN s : r \in s[i] /\ r \in s[j] => i = j

\* What s has of request r it will answer to level u ...
CarriesFor(s, r, u) == Sole(s, r) /\ \A i \in DOMAIN s : r \in s[i].deps => u \in s[i].ret

\* ... or, when s is a queue of u, asks for an answer.
AsksFor(s, r) == Sole(s, r) /\ \A i \in DOMAIN s : r \in s[i].deps => s[i].resp

\* Read r of level u is in no other queue than those of u ...
NotElsewhere(r, u) ==
    \A v \in Uppers : /\ Found(wq[v], r) = 0
                      /\ v # u => Found(rq[v], r) = 0 /\ Found(pq[v], r) = 0

\* ... and there, in a lookup, in a miss or in an answer once.
OwedOnce(r, u) ==
    /\ NotElsewhere(r, u)
    /\ AsksFor(rq[u], r) /\ AsksFor(pq[u], r) /\ SoleAnswer(returned[u], r)
    /\ CarriesFor(tagCheck, r, u) /\ CarriesFor(stash, r, u)
    /\ CarriesFor(mshr, r, u) /\ CarriesFor(inflightWrites, r, u)
    /\ Found(rq[u], r) + Found(pq[u], r) + FoundAnswer(returned[u], r)
          + Found(tagCheck, r) + Found(stash, r) + Found(mshr, r) + Found(inflightWrites, r) = 1

Owed == \A u \in Uppers, r \in 1 .. issued : <<r, u>> \in waiting => OwedOnce(r, u)

CacheInv == TypeOK /\ ReadyFirst /\ Registers /\ Kinds /\ Owed /\ WriteBacksKept
-----------------------------------------------------------------------------
(* Naturals and sequences *)

LEMMA LeastNatural ==
    ASSUME NEW T \in SUBSET Nat, T # {}
    PROVE  \E m \in T : \A k \in T : m <= k
<1>. DEFINE R == OpToRel(<, Nat)
<1>1. IsWellFoundedOn(R, Nat)
  BY NatLessThanWellFounded
<1>2. PICK m \in T : \A k \in T : ~(<<k, m>> \in R)
  BY <1>1, WFMin
<1>3. \A k \in Nat : k < m => <<k, m>> \in R
  BY DEF OpToRel
<1>. HIDE DEF R
<1>4. \A k \in T : ~(k < m)
  BY <1>2, <1>3
<1>5. \A k \in T : k \in Nat /\ m \in Nat
  OBVIOUS
<1>6. \A k \in T : m <= k
  BY <1>4, <1>5
<1>. QED BY <1>6

LEMMA RemoveAtProperties ==
    ASSUME NEW S, NEW s \in Seq(S), NEW i \in 1 .. Len(s)
    PROVE  /\ RemoveAt(s, i) \in Seq(S)
           /\ Len(RemoveAt(s, i)) = Len(s) - 1
           /\ \A j \in 1 .. Len(s) - 1 :
                 RemoveAt(s, i)[j] = IF j < i THEN s[j] ELSE s[j + 1]
<1>. DEFINE a == SubSeq(s, 1, i - 1)
            b == SubSeq(s, i + 1, Len(s))
<1>0. Len(s) \in Nat /\ i \in Nat /\ \A j \in 1 .. Len(s) : s[j] \in S
  BY ElementOfSeq, LenProperties
<1>1. /\ a \in Seq(S)
      /\ Len(a) = i - 1
      /\ \A j \in 1 .. i - 1 : a[j] = s[j]
  BY <1>0, SubSeqProperties
<1>2. /\ b \in Seq(S)
      /\ Len(b) = Len(s) - i
      /\ \A j \in 1 .. Len(s) - i : b[j] = s[i + j]
  BY <1>0, SubSeqProperties
<1>. HIDE DEF a, b
<1>3. /\ a \o b \in Seq(S)
      /\ Len(a \o b) = Len(s) - 1
      /\ \A j \in 1 .. Len(s) - 1 : (a \o b)[j] = IF j < i THEN s[j] ELSE s[j + 1]
  <2>1. /\ a \o b \in Seq(S)
        /\ Len(a \o b) = Len(a) + Len(b)
        /\ \A j \in 1 .. Len(a) + Len(b) :
              (a \o b)[j] = IF j <= Len(a) THEN a[j] ELSE b[j - Len(a)]
    BY <1>1, <1>2, ConcatProperties
  <2>2. Len(a) + Len(b) = Len(s) - 1
    BY <1>0, <1>1, <1>2
  <2>3. ASSUME NEW j \in 1 .. Len(s) - 1
        PROVE  (a \o b)[j] = IF j < i THEN s[j] ELSE s[j + 1]
    <3>1. (a \o b)[j] = IF j <= i - 1 THEN a[j] ELSE b[j - (i - 1)]
      BY <1>1, <2>1, <2>2
    <3>2. CASE j < i
      BY <1>0, <1>1, <3>1, <3>2
    <3>3. CASE ~(j < i)
      <4>1. /\ j - (i - 1) \in 1 .. Len(s) - i /\ i + (j - (i - 1)) = j + 1
            /\ ~(j <= i - 1)
        BY <1>0, <3>3
      <4>2. b[j - (i - 1)] = s[j + 1]
        BY <1>2, <4>1
      <4>. QED BY <3>1, <3>3, <4>1, <4>2
    <3>. QED BY <3>2, <3>3
  <2>. QED BY <2>1, <2>2, <2>3
<1>4. RemoveAt(s, i) = a \o b
  BY DEF RemoveAt, a, b
<1>. QED BY <1>3, <1>4

\* The front is removed from a sequence by Tail.
LEMMA TailRemoves ==
    ASSUME NEW S, NEW s \in Seq(S), s # <<>>
    PROVE  Tail(s) = RemoveAt(s, 1) /\ 1 \in 1 .. Len(s) /\ Head(s) = s[1]
<1>0. Len(s) \in Nat \ {0}
  BY EmptySeq
<1>1. RemoveAt(s, 1) \in Seq(S)
  BY <1>0, RemoveAtProperties
<1>2. Len(RemoveAt(s, 1)) = Len(s) - 1
  BY <1>0, RemoveAtProperties
<1>3. \A j \in 1 .. Len(s) - 1 : RemoveAt(s, 1)[j] = s[j + 1]
  <2>1. \A j \in 1 .. Len(s) - 1 : RemoveAt(s, 1)[j] = IF j < 1 THEN s[j] ELSE s[j + 1]
    <3>1. 1 \in 1 .. Len(s)
      BY <1>0
    <3>. QED BY <3>1, RemoveAtProperties, Zenon
  <2>. QED BY <1>0, <2>1
<1>4. /\ Tail(s) \in Seq(S) /\ Len(Tail(s)) = Len(s) - 1
      /\ \A j \in 1 .. Len(s) - 1 : Tail(s)[j] = s[j + 1]
  BY HeadTailProperties
<1>. QED BY <1>0, <1>1, <1>2, <1>3, <1>4, SeqEqual

LEMMA FirstIs ==
    ASSUME NEW S \in SUBSET Nat, S # {}
    PROVE  First(S) \in S /\ \A j \in S : First(S) <= j
BY LeastNatural DEF First

\* The positions picked are those of the set, each once, in their order.
LEMMA NthIs ==
    ASSUME NEW S \in SUBSET Nat, IsFiniteSet(S)
    PROVE  /\ Cardinality(S) \in Nat
           /\ \A n \in 1 .. Cardinality(S) : Nth(S, n) \in S
           /\ \A n, m \in 1 .. Cardinality(S) : n < m => Nth(S, n) < Nth(S, m)
           /\ \A i \in S : \E n \in 1 .. Cardinality(S) : Nth(S, n) = i
<1>. DEFINE upTo(i) == {j \in S : j <= i}
            rank == [i \in S |-> Cardinality(upTo(i))]
<1>1. Cardinality(S) \in Nat
  BY FS_CardinalityType
<1>2. ASSUME NEW i \in S
      PROVE  IsFiniteSet(upTo(i)) /\ Cardinality(upTo(i)) \in 1 .. Cardinality(S)
  <2>1. upTo(i) \in SUBSET S /\ i \in upTo(i)
    OBVIOUS
  <2>2. IsFiniteSet(upTo(i)) /\ Cardinality(upTo(i)) <= Cardinality(S)
    BY <2>1, FS_Subset
  <2>3. Cardinality(upTo(i)) \in Nat /\ Cardinality(upTo(i)) # 0
    BY <2>1, <2>2, FS_CardinalityType, FS_EmptySet
  <2>. QED BY <1>1, <2>2, <2>3
<1>3. ASSUME NEW i \in S, NEW k \in S, i < k
      PROVE  Cardinality(upTo(i)) < Cardinality(upTo(k))
  <2>1. upTo(i) \in SUBSET upTo(k) /\ k \in upTo(k) /\ k \notin upTo(i)
    <3>1. i \in Nat /\ k \in Nat /\ \A j \in S : j \in Nat
      OBVIOUS
    <3>2. \A j \in S : j <= i => j <= k
      BY <1>3, <3>1
    <3>3. upTo(i) \subseteq upTo(k)
      BY <3>2
    <3>4. k <= k /\ ~(k <= i)
      BY <1>3, <3>1
    <3>. QED BY <3>3, <3>4
  <2>2. /\ Cardinality(upTo(i)) <= Cardinality(upTo(k))
        /\ Cardinality(upTo(i)) # Cardinality(upTo(k))
    <3>. HIDE DEF upTo
    <3>. QED BY <1>2, <2>1, FS_Subset, Zenon
  <2>. QED BY <1>2, <2>2
<1>. HIDE DEF upTo
<1>4. rank \in Injection(S, 1 .. Cardinality(S))
  <2>1. rank \in [S -> 1 .. Cardinality(S)]
    BY <1>2
  <2>2. ASSUME NEW i \in S, NEW k \in S, rank[i] = rank[k] PROVE i = k
    <3>1. Cardinality(upTo(i)) = Cardinality(upTo(k))
      BY <2>2
    <3>2. ~(i < k) /\ ~(k < i)
      BY <1>2, <1>3, <3>1
    <3>3. i \in Nat /\ k \in Nat
      OBVIOUS
    <3>. QED BY <3>2, <3>3
  <2>. QED BY <2>1, <2>2 DEF Injection, IsInjective
<1>5. rank \in Surjection(S, 1 .. Cardinality(S))
  <2>1. /\ IsFiniteSet(1 .. Cardinality(S))
        /\ Cardinality(1 .. Cardinality(S)) = IF 1 > Cardinality(S) THEN 0 ELSE Cardinality(S) - 1 + 1
    BY <1>1, FS_Interval
  <2>2. Cardinality(1 .. Cardinality(S)) = Cardinality(S)
    BY <1>1, <2>1
  <2>. QED BY <1>4, <2>1, <2>2, FS_Injection
<1>6. \A n \in 1 .. Cardinality(S) : \E i \in S : rank[i] = n
  BY <1>5 DEF Surjection
<1>7. \A i \in S : rank[i] = Cardinality({j \in S : j <= i})
  BY DEF upTo
<1>. HIDE DEF rank
<1>8. ASSUME NEW n \in 1 .. Cardinality(S)
      PROVE  Nth(S, n) \in S /\ rank[Nth(S, n)] = n
  <2>1. \E i \in S : Cardinality({j \in S : j <= i}) = n
    BY <1>6, <1>7
  <2>2. Nth(S, n) \in S /\ Cardinality({j \in S : j <= Nth(S, n)}) = n
    BY <2>1 DEF Nth
  <2>. QED BY <1>7, <2>2
<1>9. ASSUME NEW i \in S PROVE rank[i] \in 1 .. Cardinality(S) /\ Nth(S, rank[i]) = i
  <2>1. rank[i] \in 1 .. Cardinality(S)
    BY <1>4 DEF Injection
  <2>2. Nth(S, rank[i]) \in S /\ rank[Nth(S, rank[i])] = rank[i]
    BY <1>8, <2>1
  <2>. QED BY <1>4, <2>1, <2>2 DEF Injection, IsInjective
<1>10. ASSUME NEW n \in 1 .. Cardinality(S), NEW m \in 1 .. Cardinality(S), n < m
       PROVE  Nth(S, n) < Nth(S, m)
  <2>1. /\ Nth(S, n) \in S /\ rank[Nth(S, n)] = n /\ Cardinality(upTo(Nth(S, n))) = n
        /\ Nth(S, m) \in S /\ rank[Nth(S, m)] = m /\ Cardinality(upTo(Nth(S, m))) = m
    BY <1>7, <1>8 DEF upTo
  <2>2. Nth(S, m) < Nth(S, n) => m < n
    BY <1>3, <2>1
  <2>3. Nth(S, n) # Nth(S, m) /\ ~(m < n)
    BY <1>10, <2>1
  <2>4. Nth(S, n) \in Nat /\ Nth(S, m) \in Nat
    BY <2>1
  <2>. HIDE DEF Nth
  <2>. QED BY <2>2, <2>3, <2>4
<1>. QED BY <1>1, <1>8, <1>9, <1>10

LEMMA PickedIs ==
    ASSUME NEW T, NEW S \in SUBSET Nat, IsFiniteSet(S), NEW s, \A i \in S : s[i] \in T
    PROVE  /\ Picked(s, S) \in Seq(T)
           /\ Len(Picked(s, S)) = Cardinality(S)
           /\ DOMAIN Picked(s, S) = 1 .. Cardinality(S)
           /\ \A n \in 1 .. Cardinality(S) : Picked(s, S)[n] = s[Nth(S, n)]
<1>1. /\ Cardinality(S) \in Nat
      /\ \A n \in 1 .. Cardinality(S) : Nth(S, n) \in S
  BY NthIs
<1>2. Picked(s, S) \in [1 .. Cardinality(S) -> T]
  BY <1>1 DEF Picked
<1>3. Picked(s, S) \in Seq(T)
  BY <1>1, <1>2, SeqDef
<1>. QED BY <1>1, <1>2, <1>3, LenProperties DEF Picked
-----------------------------------------------------------------------------
(* Where a request is found *)

Bit(b) == IF b THEN 1 ELSE 0

LEMMA FoundAppend ==
    ASSUME NEW S, NEW s \in Seq(S), NEW e \in S, NEW r,
           Sole(s, r), r \in e.deps => Found(s, r) = 0
    PROVE  /\ Sole(Append(s, e), r)
           /\ Found(Append(s, e), r) = Found(s, r) + Bit(r \in e.deps)
<1>. DEFINE t == Append(s, e)
<1>1. /\ Len(s) \in Nat /\ DOMAIN s = 1 .. Len(s) /\ DOMAIN t = 1 .. Len(s) + 1
      /\ \A i \in 1 .. Len(s) : t[i] = s[i]
      /\ t[Len(s) + 1] = e
  BY AppendProperties, LenProperties
<1>. HIDE DEF t
<1>2. \A i \in 1 .. Len(s) + 1 : i \in 1 .. Len(s) \/ i = Len(s) + 1
  BY <1>1
<1>3. CASE r \in e.deps
  <2>1. \A i \in 1 .. Len(s) : r \notin t[i].deps
    BY <1>1, <1>3 DEF Found
  <2>2. Len(s) + 1 \in 1 .. Len(s) + 1
    BY <1>1
  <2>. QED BY <1>1, <1>2, <1>3, <2>1, <2>2 DEF Found, Sole, Bit
<1>4. CASE r \notin e.deps
  <2>1. \A i \in DOMAIN t : r \in t[i].deps => i \in 1 .. Len(s) /\ r \in s[i].deps
    BY <1>1, <1>2, <1>4
  <2>2. \A i \in 1 .. Len(s) : i \in DOMAIN t
    BY <1>1
  <2>3. Sole(t, r)
    BY <1>1, <2>1 DEF Sole
  <2>4. Found(t, r) = Found(s, r)
    BY <1>1, <2>1, <2>2 DEF Found
  <2>5. Found(s, r) \in {0, 1} /\ Bit(r \in e.deps) = 0
    BY <1>4 DEF Bit, Found
  <2>. QED BY <2>3, <2>4, <2>5 DEF t
<1>. QED BY <1>3, <1>4 DEF t

LEMMA FoundRemoved ==
    ASSUME NEW S, NEW s \in Seq(S), NEW i \in 1 .. Len(s), NEW r, Sole(s, r)
    PROVE  /\ Sole(RemoveAt(s, i), r)
           /\ Found(s, r) = Found(RemoveAt(s, i), r) + Bit(r \in s[i].deps)
<1>. DEFINE t == RemoveAt(s, i)
<1>1. /\ Len(s) \in Nat /\ i \in Nat /\ DOMAIN s = 1 .. Len(s)
      /\ t \in Seq(S) /\ Len(t) = Len(s) - 1
      /\ \A j \in 1 .. Len(s) - 1 : t[j] = IF j < i THEN s[j] ELSE s[j + 1]
  <2>1. /\ t \in Seq(S) /\ Len(t) = Len(s) - 1
        /\ \A j \in 1 .. Len(s) - 1 : t[j] = IF j < i THEN s[j] ELSE s[j + 1]
    BY RemoveAtProperties, Zenon
  <2>2. Len(s) \in Nat /\ DOMAIN s = 1 .. Len(s)
    BY LenProperties
  <2>. HIDE DEF t
  <2>. QED BY <2>1, <2>2
<1>. HIDE DEF t
<1>2. DOMAIN t = 1 .. Len(s) - 1
  BY <1>1, LenProperties
<1>3. ASSUME NEW j \in DOMAIN t, NEW k \in DOMAIN t, r \in t[j].deps, r \in t[k].deps
      PROVE  j = k
  <2>. DEFINE old(n) == IF n < i THEN n ELSE n + 1
  <2>1. \A n \in DOMAIN t : old(n) \in DOMAIN s /\ t[n] = s[old(n)] /\ n \in Nat
    BY <1>1, <1>2
  <2>2. old(j) = old(k)
    BY <1>3, <2>1 DEF Sole
  <2>. QED BY <1>1, <2>1, <2>2
<1>4. CASE r \in s[i].deps
  <2>1. ASSUME NEW j \in DOMAIN t PROVE r \notin t[j].deps
    <3>1. CASE j < i
      <4>1. j \in DOMAIN s /\ j # i /\ t[j] = s[j]
        BY <1>1, <1>2, <3>1
      <4>. QED BY <1>1, <1>4, <4>1 DEF Sole
    <3>2. CASE ~(j < i)
      <4>1. j + 1 \in DOMAIN s /\ j + 1 # i /\ t[j] = s[j + 1]
        BY <1>1, <1>2, <3>2
      <4>. QED BY <1>1, <1>4, <4>1 DEF Sole
    <3>. QED BY <3>1, <3>2
  <2>. QED BY <1>1, <1>3, <1>4, <2>1 DEF Found, Sole, Bit, t
<1>5. CASE r \notin s[i].deps
  <2>1. ASSUME NEW k \in DOMAIN s, r \in s[k].deps PROVE \E j \in DOMAIN t : r \in t[j].deps
    <3>1. CASE k < i
      <4>1. k \in DOMAIN t /\ t[k] = s[k]
        BY <1>1, <1>2, <3>1
      <4>. QED BY <2>1, <4>1
    <3>2. CASE ~(k < i)
      <4>1. k # i /\ k \in Nat
        BY <1>1, <1>5, <2>1
      <4>2. k - 1 \in DOMAIN t /\ ~(k - 1 < i) /\ (k - 1) + 1 = k
        BY <1>1, <1>2, <3>2, <4>1
      <4>3. t[k - 1] = s[k]
        BY <1>1, <1>2, <4>2
      <4>. QED BY <2>1, <4>2, <4>3
    <3>. QED BY <3>1, <3>2
  <2>2. ASSUME NEW j \in DOMAIN t, r \in t[j].deps PROVE \E k \in DOMAIN s : r \in s[k].deps
    <3>1. (IF j < i THEN j ELSE j + 1) \in DOMAIN s /\ t[j] = s[IF j < i THEN j ELSE j + 1]
      BY <1>1, <1>2
    <3>. QED BY <2>2, <3>1
  <2>3. Found(s, r) = Found(t, r)
    BY <2>1, <2>2 DEF Found
  <2>. QED BY <1>3, <1>5, <2>3 DEF Found, Sole, Bit, t
<1>. QED BY <1>4, <1>5

LEMMA FoundTail ==
    ASSUME NEW S, NEW s \in Seq(S), s # <<>>, NEW r, Sole(s, r)
    PROVE  /\ Sole(Tail(s), r)
           /\ Found(s, r) = Found(Tail(s), r) + Bit(r \in Head(s).deps)
<1>1. Tail(s) = RemoveAt(s, 1) /\ 1 \in 1 .. Len(s) /\ Head(s) = s[1]
  BY TailRemoves
<1>. QED BY <1>1, FoundRemoved

\* Requests keep their number of places when places are exchanged or joined:
\* f is where the request of each place goes.
LEMMA FoundMoves ==
    ASSUME NEW s, NEW t, NEW f, NEW r, Sole(s, r),
           \A i \in DOMAIN s : r \in s[i].deps => f[i] \in DOMAIN t /\ r \in t[f[i]].deps,
           \A k \in DOMAIN t : r \in t[k].deps => \E i \in DOMAIN s : f[i] = k /\ r \in s[i].deps
    PROVE  Sole(t, r) /\ Found(t, r) = Found(s, r)
<1>1. Sole(t, r)
  BY DEF Sole
<1>2. Found(t, r) = Found(s, r)
  BY DEF Found
<1>. QED BY <1>1, <1>2

\* A place takes over what another one carried.
LEMMA FoundJoined ==
    ASSUME NEW s, NEW t, NEW k \in DOMAIN s, NEW d, NEW r, Sole(s, r),
           DOMAIN t = DOMAIN s, t[k].deps = s[k].deps \cup d,
           \A i \in DOMAIN s : i # k => t[i] = s[i],
           r \in d => Found(s, r) = 0
    PROVE  Sole(t, r) /\ Found(t, r) = Found(s, r) + Bit(r \in d)
<1>1. CASE r \in d
  <2>1. \A i \in DOMAIN s : r \notin s[i].deps
    BY <1>1 DEF Found
  <2>. QED BY <1>1, <2>1 DEF Found, Sole, Bit
<1>2. CASE r \notin d
  <2>1. \A i \in DOMAIN s : r \in t[i].deps <=> r \in s[i].deps
    BY <1>2
  <2>. QED BY <1>2, <2>1 DEF Found, Sole, Bit
<1>. QED BY <1>1, <1>2

-----------------------------------------------------------------------------
(* Answers *)

LEMMA FoundAnswerConcat ==
    ASSUME NEW S, NEW s \in Seq(S), NEW t \in Seq(S), NEW r, SoleAnswer(s, r), SoleAnswer(t, r),
           FoundAnswer(s, r) + FoundAnswer(t, r) <= 1
    PROVE  /\ SoleAnswer(s \o t, r)
           /\ FoundAnswer(s \o t, r) = FoundAnswer(s, r) + FoundAnswer(t, r)
<1>. DEFINE c == s \o t
<1>1. /\ Len(s) \in Nat /\ Len(t) \in Nat /\ DOMAIN s = 1 .. Len(s) /\ DOMAIN t = 1 .. Len(t)
  BY LenProperties
<1>2. /\ c \in Seq(S) /\ Len(c) = Len(s) + Len(t)
      /\ \A i \in 1 .. Len(s) + Len(t) : c[i] = IF i <= Len(s) THEN s[i] ELSE t[i - Len(s)]
  BY ConcatProperties
<1>3. DOMAIN c = 1 .. Len(s) + Len(t)
  BY <1>2, LenProperties
<1>. HIDE DEF c
<1>4. \A i \in DOMAIN s : i \in DOMAIN c /\ c[i] = s[i]
  BY <1>1, <1>2, <1>3
<1>5. ASSUME NEW i \in DOMAIN t
      PROVE  Len(s) + i \in DOMAIN c /\ c[Len(s) + i] = t[i]
  <2>1. Len(s) + i \in 1 .. Len(s) + Len(t) /\ ~(Len(s) + i <= Len(s)) /\ (Len(s) + i) - Len(s) = i
    BY <1>1
  <2>. QED BY <1>2, <1>3, <2>1
<1>6. ASSUME NEW i \in DOMAIN c
      PROVE  \/ i \in DOMAIN s /\ c[i] = s[i]
             \/ i - Len(s) \in DOMAIN t /\ c[i] = t[i - Len(s)] /\ i \in Nat
  BY <1>1, <1>2, <1>3
<1>7. CASE FoundAnswer(t, r) = 0
  <2>1. \A i \in DOMAIN t : r \notin t[i]
    BY <1>7 DEF FoundAnswer
  <2>2. \A i \in DOMAIN c : r \in c[i] => i \in DOMAIN s /\ r \in s[i]
    BY <1>6, <2>1
  <2>3. SoleAnswer(c, r)
    BY <2>2 DEF SoleAnswer
  <2>4. FoundAnswer(c, r) = FoundAnswer(s, r) /\ FoundAnswer(s, r) \in {0, 1}
    BY <1>4, <2>2 DEF FoundAnswer
  <2>. QED BY <1>7, <2>3, <2>4 DEF c
<1>8. CASE FoundAnswer(t, r) # 0
  <2>1. FoundAnswer(s, r) = 0 /\ FoundAnswer(t, r) = 1
    BY <1>8 DEF FoundAnswer
  <2>2. \A i \in DOMAIN s : r \notin s[i]
    BY <2>1 DEF FoundAnswer
  <2>3. \A i \in DOMAIN c : r \in c[i] => i - Len(s) \in DOMAIN t /\ r \in t[i - Len(s)] /\ i \in Nat
    BY <1>6, <2>2
  <2>4. SoleAnswer(c, r)
    <3>1. SUFFICES ASSUME NEW i \in DOMAIN c, NEW j \in DOMAIN c, r \in c[i], r \in c[j] PROVE i = j
      BY DEF SoleAnswer
    <3>2. i - Len(s) = j - Len(s) /\ i \in Nat /\ j \in Nat
      BY <2>3, <3>1 DEF SoleAnswer
    <3>. QED BY <1>1, <3>2
  <2>5. \E i \in DOMAIN c : r \in c[i]
    <3>1. PICK i \in DOMAIN t : r \in t[i]
      BY <1>8 DEF FoundAnswer
    <3>. QED BY <1>5, <3>1
  <2>6. FoundAnswer(c, r) = 1
    BY <2>5 DEF FoundAnswer
  <2>. QED BY <2>1, <2>4, <2>6 DEF c
<1>. QED BY <1>7, <1>8

LEMMA FoundAnswerAppend ==
    ASSUME NEW S, NEW s \in Seq(S), NEW d \in S, NEW r, SoleAnswer(s, r),
           r \in d => FoundAnswer(s, r) = 0
    PROVE  /\ SoleAnswer(Append(s, d), r)
           /\ FoundAnswer(Append(s, d), r) = FoundAnswer(s, r) + Bit(r \in d)
<1>1. Append(s, d) = s \o <<d>> /\ <<d>> \in Seq(S)
  BY AppendIsConcat
<1>2. DOMAIN <<d>> = {1} /\ <<d>>[1] = d
  OBVIOUS
<1>3. SoleAnswer(<<d>>, r) /\ FoundAnswer(<<d>>, r) = Bit(r \in d)
  BY <1>2 DEF SoleAnswer, FoundAnswer, Bit
<1>4. FoundAnswer(s, r) + FoundAnswer(<<d>>, r) <= 1
  BY <1>3 DEF FoundAnswer, Bit
<1>5. /\ SoleAnswer(s \o <<d>>, r)
      /\ FoundAnswer(s \o <<d>>, r) = FoundAnswer(s, r) + FoundAnswer(<<d>>, r)
  BY <1>1, <1>3, <1>4, FoundAnswerConcat
<1>. QED BY <1>1, <1>3, <1>5
-----------------------------------------------------------------------------
(* channel::check_collision(): f is where each request goes *)

LEMMA CollideRelates ==
    ASSUME NEW o \in BOOLEAN
    PROVE  /\ \A p : Collide(p, p, o)
           /\ \A p, x, y : Collide(p, x, o) /\ Collide(x, y, o) => Collide(p, y, o)
BY DEF Collide, SameWord, SameLine

LEMMA JoinedIs ==
    ASSUME NEW q, NEW S \in SUBSET Nat, NEW o \in BOOLEAN, NEW j \in S
    PROVE  /\ JoinedAt(q, S, o, j) \in S
           /\ JoinedAt(q, S, o, JoinedAt(q, S, o, j)) = JoinedAt(q, S, o, j)
<1>. DEFINE before(x) == {i \in S : i <= x /\ Collide(q[x], q[i], o)}
<1>1. ASSUME NEW x \in S
      PROVE  /\ before(x) \in SUBSET Nat /\ x \in before(x)
             /\ First(before(x)) \in before(x) /\ \A i \in before(x) : First(before(x)) <= i
  <2>1. before(x) \in SUBSET Nat /\ x \in before(x)
    <3>1. x \in Nat /\ x <= x
      OBVIOUS
    <3>2. Collide(q[x], q[x], o)
      BY CollideRelates
    <3>. QED BY <3>1, <3>2
  <2>. HIDE DEF before
  <2>. QED BY <2>1, FirstIs
<1>2. CASE q[j].fwd
  BY <1>2 DEF JoinedAt
<1>3. CASE ~q[j].fwd
  <2>. DEFINE k == First(before(j))
  <2>1. JoinedAt(q, S, o, j) = k
    BY <1>3 DEF JoinedAt
  <2>2. k \in S /\ k <= j /\ Collide(q[j], q[k], o)
    BY <1>1
  <2>3. CASE q[k].fwd
    BY <2>1, <2>2, <2>3 DEF JoinedAt
  <2>4. CASE ~q[k].fwd
    <3>. DEFINE m == First(before(k))
    <3>1. JoinedAt(q, S, o, k) = m
      BY <2>4 DEF JoinedAt
    <3>2. m \in S /\ m <= k /\ Collide(q[k], q[m], o)
      BY <1>1, <2>2
    <3>. HIDE DEF k, m
    <3>3. m \in before(j)
      <4>1. m <= j
        BY <2>2, <3>2
      <4>. QED BY <2>2, <3>2, <4>1, CollideRelates
    <3>4. k <= m
      BY <1>1, <3>3 DEF k
    <3>5. k = m
      BY <2>2, <3>2, <3>4
    <3>. QED BY <2>1, <2>2, <3>1, <3>5
  <2>. QED BY <2>3, <2>4
<1>. QED BY <1>2, <1>3

\* Each request of positions S goes to a place f of t that carries it, and what
\* a place of t carries came from one of them.
Collects(q, S, t, f) ==
    /\ \A j \in S : /\ f[j] \in DOMAIN t
                    /\ q[j].deps \subseteq t[f[j]].deps
                    /\ q[j].resp => t[f[j]].resp
    /\ \A n \in DOMAIN t :
          /\ \A r \in t[n].deps : \E j \in S : f[j] = n /\ r \in q[j].deps
          /\ \E j \in S : t[n].type = q[j].type

LEMMA CheckedIs ==
    ASSUME NEW q \in Seq(Requests), NEW S \in SUBSET (1 .. Len(q)), NEW o \in BOOLEAN
    PROVE  /\ Checked(q, S, o) \in Seq(Requests)
           /\ Len(Checked(q, S, o)) <= Len(q)
           /\ \E f : Collects(q, S, Checked(q, S, o), f)
<1>. DEFINE at(j) == JoinedAt(q, S, o, j)
            joining(i) == {q[j] : j \in {k \in S : at(k) = i}}
            kept == {i \in S : at(i) = i}
            after(i) == [q[i] EXCEPT !.fwd = TRUE, !.resp = \E p \in joining(i) : p.resp,
                                     !.deps = UNION {p.deps : p \in joining(i)}]
            joined == [i \in kept |-> after(i)]
            t == Picked(joined, kept)
<1>1. Checked(q, S, o) = t
  BY DEF Checked
<1>2. /\ Len(q) \in Nat /\ S \in SUBSET Nat
      /\ \A i \in 1 .. Len(q) : q[i] \in Requests
  BY LenProperties, ElementOfSeq
<1>3. \A j \in S : at(j) \in S /\ at(at(j)) = at(j)
  BY <1>2, JoinedIs
<1>4. IsFiniteSet(1 .. Len(q)) /\ Cardinality(1 .. Len(q)) = Len(q)
  <2>1. /\ IsFiniteSet(1 .. Len(q))
        /\ Cardinality(1 .. Len(q)) = IF 1 > Len(q) THEN 0 ELSE Len(q) - 1 + 1
    BY <1>2, FS_Interval, SMTT(60)
  <2>. QED BY <1>2, <2>1
<1>. HIDE DEF at
<1>5. kept \in SUBSET (1 .. Len(q)) /\ kept \in SUBSET Nat
  BY <1>2
<1>6. IsFiniteSet(kept) /\ Cardinality(kept) <= Len(q)
  BY <1>4, <1>5, FS_Subset
<1>7. ASSUME NEW i \in kept
      PROVE  /\ after(i) \in Requests
             /\ after(i).type = q[i].type
             /\ after(i).resp = (\E p \in joining(i) : p.resp)
             /\ after(i).deps = UNION {p.deps : p \in joining(i)}
  <2>1. q[i] \in Requests
    BY <1>2, <1>5
  <2>2. joining(i) \subseteq Requests
    BY <1>2
  <2>3. UNION {p.deps : p \in joining(i)} \in SUBSET (1 .. issued)
    BY <2>2 DEF Requests
  <2>4. (\E p \in joining(i) : p.resp) \in BOOLEAN
    OBVIOUS
  <2>. DEFINE resp == \E p \in joining(i) : p.resp
              deps == UNION {p.deps : p \in joining(i)}
  <2>. HIDE DEF resp, deps
  <2>5. after(i) = [q[i] EXCEPT !.fwd = TRUE, !.resp = resp, !.deps = deps]
    BY DEF resp, deps
  <2>6. /\ resp \in BOOLEAN /\ deps \in SUBSET (1 .. issued)
    BY <2>3, <2>4 DEF resp, deps
  <2>. HIDE DEF after
  <2>7. /\ after(i) \in Requests /\ after(i).type = q[i].type
        /\ after(i).resp = resp /\ after(i).deps = deps
    BY <2>1, <2>5, <2>6 DEF Requests
  <2>. QED BY <2>7 DEF resp, deps
<1>. HIDE DEF after
<1>8. \A i \in kept : joined[i] \in Requests /\ joined[i] = after(i)
  BY <1>7
<1>. HIDE DEF joined
<1>9. /\ t \in Seq(Requests) /\ Len(t) = Cardinality(kept) /\ DOMAIN t = 1 .. Cardinality(kept)
      /\ \A n \in 1 .. Cardinality(kept) : t[n] = joined[Nth(kept, n)]
  <2>. HIDE DEF kept
  <2>. QED BY <1>5, <1>6, <1>8, PickedIs
<1>10. /\ \A n \in 1 .. Cardinality(kept) : Nth(kept, n) \in kept
       /\ \A n, m \in 1 .. Cardinality(kept) : n < m => Nth(kept, n) < Nth(kept, m)
       /\ \A i \in kept : \E n \in 1 .. Cardinality(kept) : Nth(kept, n) = i
       /\ Cardinality(kept) \in Nat
  <2>. HIDE DEF kept
  <2>. QED BY <1>5, <1>6, NthIs
<1>11. \A n \in DOMAIN t : Nth(kept, n) \in kept /\ t[n] = after(Nth(kept, n))
  BY <1>8, <1>9, <1>10
<1>12. ASSUME NEW n \in DOMAIN t, NEW m \in DOMAIN t, Nth(kept, n) = Nth(kept, m)
       PROVE  n = m
  <2>1. n \in Nat /\ m \in Nat /\ Nth(kept, n) \in Nat
    BY <1>5, <1>9, <1>11
  <2>2. ~(n < m) /\ ~(m < n)
    BY <1>9, <1>10, <1>12, <2>1
  <2>. QED BY <2>1, <2>2
<1>. HIDE DEF t
<1>13. PICK f : f = [j \in S |-> CHOOSE n \in DOMAIN t : Nth(kept, n) = at(j)]
  OBVIOUS
<1>14. ASSUME NEW j \in S
       PROVE  f[j] \in DOMAIN t /\ Nth(kept, f[j]) = at(j)
  <2>1. at(j) \in kept
    BY <1>3
  <2>2. \E n \in DOMAIN t : Nth(kept, n) = at(j)
    BY <1>9, <1>10, <2>1
  <2>. QED BY <1>13, <2>2
<1>15. ASSUME NEW j \in S
       PROVE  /\ f[j] \in DOMAIN t
              /\ q[j].deps \subseteq t[f[j]].deps
              /\ q[j].resp => t[f[j]].resp
  <2>1. at(j) \in kept /\ q[j] \in joining(at(j))
    BY <1>3
  <2>2. t[f[j]] = after(at(j))
    BY <1>11, <1>14
  <2>. QED BY <1>7, <1>14, <2>1, <2>2
<1>16. ASSUME NEW n \in DOMAIN t
       PROVE  /\ \A r \in t[n].deps : \E j \in S : f[j] = n /\ r \in q[j].deps
              /\ \E j \in S : t[n].type = q[j].type
  <2>1. Nth(kept, n) \in kept /\ t[n] = after(Nth(kept, n))
    BY <1>11
  <2>2. ASSUME NEW r \in t[n].deps PROVE \E j \in S : f[j] = n /\ r \in q[j].deps
    <3>1. PICK j \in S : at(j) = Nth(kept, n) /\ r \in q[j].deps
      <4>1. t[n].deps = UNION {p.deps : p \in joining(Nth(kept, n))}
        BY <1>7, <2>1
      <4>2. PICK p \in joining(Nth(kept, n)) : r \in p.deps
        BY <2>2, <4>1
      <4>. QED BY <4>2
    <3>2. f[j] = n
      BY <1>12, <1>14, <3>1
    <3>. QED BY <3>1, <3>2
  <2>. QED BY <1>7, <2>1, <2>2
<1>17. Collects(q, S, t, f)
  BY <1>15, <1>16 DEF Collects
<1>. QED BY <1>1, <1>6, <1>9, <1>17

LEMMA FoundChecked ==
    ASSUME NEW q \in Seq(Requests), NEW S \in SUBSET (1 .. Len(q)), NEW t, NEW f,
           Collects(q, S, t, f), NEW r, Sole(q, r)
    PROVE  Sole(t, r) /\ Found(t, r) = FoundAt(q, S, r)
<1>1. /\ DOMAIN q = 1 .. Len(q)
      /\ \A n \in DOMAIN t : \A x \in t[n].deps : \E j \in S : f[j] = n /\ x \in q[j].deps
  BY LenProperties DEF Collects
<1>2. \A i, j \in S : r \in q[i].deps /\ r \in q[j].deps => i = j
  BY <1>1 DEF Sole
<1>3. Sole(t, r)
  <2>1. SUFFICES ASSUME NEW n \in DOMAIN t, NEW m \in DOMAIN t, r \in t[n].deps, r \in t[m].deps
                 PROVE  n = m
    BY DEF Sole
  <2>2. PICK i \in S : f[i] = n /\ r \in q[i].deps
    BY <1>1, <2>1
  <2>3. PICK j \in S : f[j] = m /\ r \in q[j].deps
    BY <1>1, <2>1
  <2>. QED BY <1>2, <2>2, <2>3
<1>4. (\E n \in DOMAIN t : r \in t[n].deps) <=> \E j \in S : r \in q[j].deps
  BY DEF Collects
<1>5. Found(t, r) = FoundAt(q, S, r)
  BY <1>4 DEF Found, FoundAt
<1>. QED BY <1>3, <1>5

\* What a write queue answers, and what it leaves.
Left(w, q, o) == {i \in 1 .. Len(q) : ~Forwarded(w, q[i], o)}

LEMMA ForwardedIs ==
    ASSUME NEW w, NEW q \in Seq(Requests), NEW o \in BOOLEAN, NEW r, Sole(q, r),
           \A i \in DOMAIN q : r \in q[i].deps => q[i].resp
    PROVE  /\ ForwardedAnswers(w, q, o) \in Seq(SUBSET (1 .. issued))
           /\ SoleAnswer(ForwardedAnswers(w, q, o), r)
           /\ FoundAnswer(ForwardedAnswers(w, q, o), r)
                 + FoundAt(q, Left(w, q, o), r)
                 = Found(q, r)
<1>. DEFINE hit == {i \in 1 .. Len(q) : Forwarded(w, q[i], o) /\ q[i].resp}
            left == Left(w, q, o)
            given == [i \in hit |-> q[i].deps]
            t == Picked(given, hit)
<1>1. DOMAIN q = 1 .. Len(q) /\ Len(q) \in Nat /\ \A i \in 1 .. Len(q) : q[i] \in Requests
  BY LenProperties, ElementOfSeq
<1>2. /\ hit \in SUBSET Nat /\ IsFiniteSet(hit)
      /\ \A i \in hit : given[i] \in SUBSET (1 .. issued) /\ given[i] = q[i].deps
  <2>1. hit \in SUBSET (1 .. Len(q)) /\ IsFiniteSet(1 .. Len(q)) /\ hit \in SUBSET Nat
    BY <1>1, FS_Interval, SMTT(60)
  <2>2. IsFiniteSet(hit)
    BY <2>1, FS_Subset
  <2>. QED BY <1>1, <2>1, <2>2 DEF Requests
<1>3. ForwardedAnswers(w, q, o) = t
  BY DEF ForwardedAnswers
<1>. HIDE DEF given
<1>4. /\ t \in Seq(SUBSET (1 .. issued)) /\ DOMAIN t = 1 .. Cardinality(hit)
      /\ \A n \in 1 .. Cardinality(hit) : t[n] = given[Nth(hit, n)]
  <2>. DEFINE T == SUBSET (1 .. issued)
  <2>1. \A i \in hit : given[i] \in T
    BY <1>2
  <2>. HIDE DEF hit, T
  <2>2. t \in Seq(T) /\ DOMAIN t = 1 .. Cardinality(hit)
        /\ \A n \in 1 .. Cardinality(hit) : t[n] = given[Nth(hit, n)]
    BY <1>2, <2>1, PickedIs
  <2>. QED BY <2>2 DEF T
<1>5. /\ \A n \in 1 .. Cardinality(hit) : Nth(hit, n) \in hit
      /\ \A n, m \in 1 .. Cardinality(hit) : n < m => Nth(hit, n) < Nth(hit, m)
      /\ \A i \in hit : \E n \in 1 .. Cardinality(hit) : Nth(hit, n) = i
      /\ Cardinality(hit) \in Nat
  <2>. HIDE DEF hit
  <2>. QED BY <1>2, NthIs
<1>. HIDE DEF t
<1>6. \A n \in DOMAIN t : Nth(hit, n) \in hit /\ t[n] = q[Nth(hit, n)].deps
  BY <1>2, <1>4, <1>5
<1>7. SoleAnswer(t, r)
  <2>1. SUFFICES ASSUME NEW n \in DOMAIN t, NEW m \in DOMAIN t, r \in t[n], r \in t[m] PROVE n = m
    BY DEF SoleAnswer
  <2>2. Nth(hit, n) = Nth(hit, m) /\ Nth(hit, n) \in Nat
    BY <1>1, <1>2, <1>6, <2>1 DEF Sole
  <2>3. n \in Nat /\ m \in Nat
    BY <1>4, <2>1
  <2>4. ~(n < m) /\ ~(m < n)
    BY <1>4, <1>5, <2>2
  <2>. QED BY <2>3, <2>4
<1>8. (\E n \in DOMAIN t : r \in t[n]) <=> \E i \in hit : r \in q[i].deps
  BY <1>4, <1>5, <1>6, ZenonT(60)
<1>9. ~((\E i \in hit : r \in q[i].deps) /\ (\E j \in left : r \in q[j].deps))
  BY <1>1 DEF Sole, Left
<1>10. (\E i \in DOMAIN q : r \in q[i].deps)
          <=> (\E i \in hit : r \in q[i].deps) \/ (\E j \in left : r \in q[j].deps)
  BY <1>1 DEF Left
<1>. HIDE DEF hit, left
<1>11. FoundAnswer(t, r) + FoundAt(q, left, r) = Found(q, r)
  BY <1>8, <1>9, <1>10 DEF FoundAnswer, Found, FoundAt
<1>. QED BY <1>3, <1>4, <1>7, <1>11 DEF left
-----------------------------------------------------------------------------
(* finish_translation(): stable_partition of the stash *)

\* t is the elements of s at the positions S; g is where each of them goes.
PicksTo(t, s, S, g) ==
    /\ \A i \in S : g[i] \in 1 .. Len(t) /\ t[g[i]] = s[i]
    /\ \A n \in 1 .. Len(t) : \E i \in S : g[i] = n /\ t[n] = s[i]

LEMMA PickedTo ==
    ASSUME NEW T, NEW S \in SUBSET Nat, IsFiniteSet(S), NEW s, \A i \in S : s[i] \in T
    PROVE  /\ Picked(s, S) \in Seq(T)
           /\ \E g : PicksTo(Picked(s, S), s, S, g)
<1>. DEFINE c == Cardinality(S)
            t == Picked(s, S)
<1>1. /\ c \in Nat
      /\ \A n \in 1 .. c : Nth(S, n) \in S
      /\ \A n, m \in 1 .. c : n < m => Nth(S, n) < Nth(S, m)
      /\ \A i \in S : \E n \in 1 .. c : Nth(S, n) = i
  BY NthIs
<1>2. t \in Seq(T) /\ Len(t) = c
  BY PickedIs
<1>3. \A n \in 1 .. c : t[n] = s[Nth(S, n)]
  BY DEF Picked
<1>. HIDE DEF c, t
<1>4. PICK g : g = [i \in S |-> CHOOSE n \in 1 .. c : Nth(S, n) = i]
  OBVIOUS
<1>5. \A i \in S : g[i] \in 1 .. c /\ Nth(S, g[i]) = i
  BY <1>1, <1>4
<1>6. ASSUME NEW n \in 1 .. c PROVE g[Nth(S, n)] = n
  <2>1. Nth(S, n) \in S
    BY <1>1
  <2>. DEFINE m == g[Nth(S, n)]
  <2>2. m \in 1 .. c /\ Nth(S, m) = Nth(S, n)
    BY <1>5, <2>1
  <2>. HIDE DEF m
  <2>3. Nth(S, n) \in Nat /\ n \in Nat /\ m \in Nat
    <3>1. c \in Nat
      BY <1>1
    <3>2. n \in Nat /\ m \in Nat
      BY <2>2, <3>1
    <3>. QED BY <2>1, <3>2
  <2>4. ~(m < n) /\ ~(n < m)
    BY <1>1, <2>2, <2>3
  <2>. QED BY <2>3, <2>4 DEF m
<1>7. PicksTo(t, s, S, g)
  BY <1>1, <1>2, <1>3, <1>5, <1>6 DEF PicksTo
<1>. QED BY <1>2, <1>7 DEF t

LEMMA RestartedIs ==
    ASSUME stash \in Seq(Lookups), NEW l
    PROVE  /\ Restarted(l) \in Seq(Lookups)
           /\ \A i, j \in DOMAIN Restarted(l) :
                 i < j /\ Restarted(l)[j].trans => Restarted(l)[i].trans
           /\ \E f : /\ \A i \in DOMAIN stash :
                          /\ f[i] \in DOMAIN Restarted(l)
                          /\ Restarted(l)[f[i]] = MarkTranslated(stash[i], l)
                    /\ \A n \in DOMAIN Restarted(l) : \E i \in DOMAIN stash :
                          f[i] = n /\ Restarted(l)[n] = MarkTranslated(stash[i], l)
<1>. DEFINE X == {k \in DOMAIN stash : stash[k].trans}
            Y == {k \in DOMAIN stash : ~stash[k].trans /\ stash[k].line = l}
            Z == {k \in DOMAIN stash : ~stash[k].trans /\ stash[k].line # l}
            marked == [k \in DOMAIN stash |-> MarkTranslated(stash[k], l)]
            A == Picked(marked, X)
            B == Picked(marked, Y)
            C == Picked(marked, Z)
            a == Len(A)
            b == Len(B)
            c == Len(C)
            t == (A \o B) \o C
<1>1. Restarted(l) = t
  BY DEF Restarted
<1>2. /\ Len(stash) \in Nat /\ DOMAIN stash = 1 .. Len(stash)
      /\ \A k \in DOMAIN stash : stash[k] \in Lookups
  BY LenProperties, ElementOfSeq
<1>3. ASSUME NEW k \in DOMAIN stash
      PROVE  /\ marked[k] = MarkTranslated(stash[k], l)
             /\ marked[k] \in Lookups
             /\ k \in X \/ k \in Y => marked[k].trans
             /\ k \in Z => ~marked[k].trans
  BY <1>2, ZenonT(60) DEF MarkTranslated, Lookups
<1>4. IsFiniteSet(DOMAIN stash) /\ X \in SUBSET (DOMAIN stash) /\ Y \in SUBSET (DOMAIN stash)
      /\ Z \in SUBSET (DOMAIN stash)
  BY <1>2, FS_Interval
<1>5. /\ IsFiniteSet(X) /\ IsFiniteSet(Y) /\ IsFiniteSet(Z)
      /\ X \in SUBSET Nat /\ Y \in SUBSET Nat /\ Z \in SUBSET Nat
  BY <1>2, <1>4, FS_Subset
<1>6. \A k \in DOMAIN stash : k \in X \/ k \in Y \/ k \in Z
  OBVIOUS
<1>7. X \cap Y = {} /\ X \cap Z = {} /\ Y \cap Z = {}
  OBVIOUS
<1>. HIDE DEF X, Y, Z, marked
<1>8. A \in Seq(Lookups) /\ \E g : PicksTo(A, marked, X, g)
  BY <1>3, <1>4, <1>5, PickedTo, Zenon
<1>9. B \in Seq(Lookups) /\ \E g : PicksTo(B, marked, Y, g)
  BY <1>3, <1>4, <1>5, PickedTo, Zenon
<1>10. C \in Seq(Lookups) /\ \E g : PicksTo(C, marked, Z, g)
  BY <1>3, <1>4, <1>5, PickedTo, Zenon
<1>. HIDE DEF A, B, C
<1>0. a \in Nat /\ b \in Nat /\ c \in Nat
  BY <1>8, <1>9, <1>10, LenProperties
<1>11. /\ A \o B \in Seq(Lookups) /\ Len(A \o B) = a + b
       /\ \A n \in 1 .. a + b : (A \o B)[n] = IF n <= a THEN A[n] ELSE B[n - a]
  BY <1>8, <1>9, ConcatProperties
<1>12. /\ t \in Seq(Lookups) /\ Len(t) = (a + b) + c
       /\ \A n \in 1 .. (a + b) + c : t[n] = IF n <= a + b THEN (A \o B)[n] ELSE C[n - (a + b)]
  <2>1. /\ t \in Seq(Lookups) /\ Len(t) = Len(A \o B) + c
        /\ \A n \in 1 .. Len(A \o B) + c :
              t[n] = IF n <= Len(A \o B) THEN (A \o B)[n] ELSE C[n - Len(A \o B)]
    BY <1>10, <1>11, ConcatProperties
  <2>. QED BY <1>11, <2>1
<1>. HIDE DEF a, b, c
<1>13. DOMAIN t = 1 .. (a + b) + c
  BY <1>12, LenProperties
<1>. HIDE DEF t
<1>14. /\ \A n \in 1 .. a : n \in DOMAIN t /\ t[n] = A[n]
       /\ \A n \in 1 .. b : a + n \in DOMAIN t /\ t[a + n] = B[n]
       /\ \A n \in 1 .. c : a + b + n \in DOMAIN t /\ t[a + b + n] = C[n]
  <2>1. ASSUME NEW n \in 1 .. a PROVE n \in DOMAIN t /\ t[n] = A[n]
    <3>1. n \in 1 .. a + b /\ n \in 1 .. (a + b) + c /\ n <= a /\ n <= a + b
      BY <1>0
    <3>. QED BY <1>11, <1>12, <1>13, <3>1
  <2>2. ASSUME NEW n \in 1 .. b PROVE a + n \in DOMAIN t /\ t[a + n] = B[n]
    <3>1. /\ a + n \in 1 .. a + b /\ a + n \in 1 .. (a + b) + c
          /\ ~(a + n <= a) /\ a + n <= a + b /\ (a + n) - a = n
      BY <1>0
    <3>. QED BY <1>11, <1>12, <1>13, <3>1
  <2>3. ASSUME NEW n \in 1 .. c PROVE a + b + n \in DOMAIN t /\ t[a + b + n] = C[n]
    <3>1. /\ a + b + n \in 1 .. (a + b) + c
          /\ ~(a + b + n <= a + b) /\ (a + b + n) - (a + b) = n
      BY <1>0
    <3>. QED BY <1>12, <1>13, <3>1
  <2>. QED BY <2>1, <2>2, <2>3
<1>15. ASSUME NEW n \in DOMAIN t
       PROVE  \/ n \in 1 .. a
              \/ n - a \in 1 .. b /\ n = a + (n - a)
              \/ n - (a + b) \in 1 .. c /\ n = a + b + (n - (a + b))
  BY <1>0, <1>13
<1>16. PICK gx : /\ \A i \in X : gx[i] \in 1 .. a /\ A[gx[i]] = marked[i]
                 /\ \A n \in 1 .. a : \E i \in X : gx[i] = n /\ A[n] = marked[i]
  BY <1>8 DEF PicksTo, a
<1>17. PICK gy : /\ \A i \in Y : gy[i] \in 1 .. b /\ B[gy[i]] = marked[i]
                 /\ \A n \in 1 .. b : \E i \in Y : gy[i] = n /\ B[n] = marked[i]
  BY <1>9 DEF PicksTo, b
<1>18. PICK gz : /\ \A i \in Z : gz[i] \in 1 .. c /\ C[gz[i]] = marked[i]
                 /\ \A n \in 1 .. c : \E i \in Z : gz[i] = n /\ C[n] = marked[i]
  BY <1>10 DEF PicksTo, c
<1>19. PICK f : f = [i \in DOMAIN stash |-> IF i \in X THEN gx[i]
                                            ELSE IF i \in Y THEN a + gy[i] ELSE a + b + gz[i]]
  OBVIOUS
<1>20. /\ \A i \in X : f[i] = gx[i]
       /\ \A i \in Y : f[i] = a + gy[i]
       /\ \A i \in Z : f[i] = a + b + gz[i]
  BY <1>4, <1>7, <1>19
<1>21. ASSUME NEW i \in DOMAIN stash
       PROVE  f[i] \in DOMAIN t /\ t[f[i]] = marked[i]
  <2>1. CASE i \in X
    BY <1>14, <1>16, <1>20, <2>1
  <2>2. CASE i \in Y
    BY <1>14, <1>17, <1>20, <2>2
  <2>3. CASE i \in Z
    BY <1>14, <1>18, <1>20, <2>3
  <2>. QED BY <1>6, <2>1, <2>2, <2>3
<1>22. ASSUME NEW n \in DOMAIN t
       PROVE  \E i \in DOMAIN stash : f[i] = n /\ t[n] = marked[i]
  <2>1. CASE n \in 1 .. a
    <3>1. PICK i \in X : gx[i] = n /\ A[n] = marked[i]
      BY <1>16, <2>1
    <3>. QED BY <1>4, <1>14, <1>20, <2>1, <3>1
  <2>2. CASE n - a \in 1 .. b /\ n = a + (n - a)
    <3>1. PICK i \in Y : gy[i] = n - a /\ B[n - a] = marked[i]
      BY <1>17, <2>2
    <3>. QED BY <1>4, <1>14, <1>20, <2>2, <3>1
  <2>3. CASE n - (a + b) \in 1 .. c /\ n = a + b + (n - (a + b))
    <3>1. PICK i \in Z : gz[i] = n - (a + b) /\ C[n - (a + b)] = marked[i]
      BY <1>18, <2>3
    <3>. QED BY <1>4, <1>14, <1>20, <2>3, <3>1
  <2>. QED BY <1>15, <2>1, <2>2, <2>3
<1>23. /\ \A n \in 1 .. a : A[n].trans
       /\ \A n \in 1 .. b : B[n].trans
       /\ \A n \in 1 .. c : ~C[n].trans
  BY <1>3, <1>4, <1>16, <1>17, <1>18
<1>24. ASSUME NEW n \in DOMAIN t
       PROVE  t[n].trans <=> n <= a + b
  <2>1. CASE n \in 1 .. a
    BY <1>0, <1>14, <1>23, <2>1
  <2>2. CASE n - a \in 1 .. b /\ n = a + (n - a)
    <3>1. n <= a + b /\ t[n] = B[n - a]
      BY <1>0, <1>13, <1>14, <2>2
    <3>. QED BY <1>23, <2>2, <3>1
  <2>3. CASE n - (a + b) \in 1 .. c /\ n = a + b + (n - (a + b))
    <3>1. ~(n <= a + b) /\ t[n] = C[n - (a + b)]
      BY <1>0, <1>13, <1>14, <2>3
    <3>. QED BY <1>23, <2>3, <3>1
  <2>. QED BY <1>15, <2>1, <2>2, <2>3
<1>25. ASSUME NEW i \in DOMAIN t, NEW j \in DOMAIN t, i < j, t[j].trans
       PROVE  t[i].trans
  BY <1>0, <1>13, <1>24, <1>25
<1>26. \A i \in DOMAIN stash : marked[i] = MarkTranslated(stash[i], l)
  BY <1>3
<1>27. /\ \A i \in DOMAIN stash : f[i] \in DOMAIN t /\ t[f[i]] = MarkTranslated(stash[i], l)
       /\ \A n \in DOMAIN t : \E i \in DOMAIN stash :
             f[i] = n /\ t[n] = MarkTranslated(stash[i], l)
  BY <1>21, <1>22, <1>26
<1>. QED BY <1>1, <1>12, <1>25, <1>27
-----------------------------------------------------------------------------
(* Types *)

LEMMA CacheIs ==
    ASSUME cache \in Caches
    PROVE  /\ cache.offset \in BOOLEAN /\ cache.virtual \in BOOLEAN /\ 0 \in cache.words
           /\ cache.mshrs \in Nat /\ cache.requests \in 0 .. MaxRequests /\ MaxRequests \in Nat
           /\ cache.requests \in Nat
BY CacheAssumption

LEMMA SizesAre ==
    /\ RQ_SIZE \in Nat /\ WQ_SIZE \in Nat /\ PQ_SIZE \in Nat /\ IPQ_SIZE \in Nat /\ TAG_SIZE \in Nat
    /\ Uppers \subseteq Nat /\ Ways \subseteq Nat /\ NoLine \notin Lines
BY CacheAssumption

LEMMA RangeIs ==
    ASSUME NEW S, NEW s \in Seq(S)
    PROVE  /\ Range(s) \subseteq S
           /\ \A e \in S : Range(Append(s, e)) = Range(s) \cup {e}
           /\ s # <<>> => Head(s) \in Range(s) /\ Range(Tail(s)) \subseteq Range(s)
           /\ s # <<>> => Range(s) = Range(Tail(s)) \cup {Head(s)}
           /\ \A i \in 1 .. Len(s) : s[i] \in Range(s) /\ Range(RemoveAt(s, i)) \subseteq Range(s)
           /\ \A i \in 1 .. Len(s) : Range(s) = Range(RemoveAt(s, i)) \cup {s[i]}
<1>1. Len(s) \in Nat /\ DOMAIN s = 1 .. Len(s) /\ \A i \in DOMAIN s : s[i] \in S
  BY LenProperties, ElementOfSeq
<1>2. Range(s) \subseteq S
  BY <1>1 DEF Range
<1>3. ASSUME NEW e \in S PROVE Range(Append(s, e)) = Range(s) \cup {e}
  <2>. DEFINE t == Append(s, e)
  <2>1. /\ DOMAIN t = 1 .. Len(s) + 1 /\ t[Len(s) + 1] = e
        /\ \A i \in 1 .. Len(s) : t[i] = s[i]
    BY AppendProperties, LenProperties
  <2>. HIDE DEF t
  <2>2. /\ Len(s) + 1 \in DOMAIN t
        /\ \A i \in DOMAIN t : i \in DOMAIN s \/ i = Len(s) + 1
        /\ \A i \in DOMAIN s : i \in DOMAIN t
    BY <1>1, <2>1
  <2>. QED BY <1>1, <2>1, <2>2 DEF Range, t
<1>4. ASSUME NEW i \in 1 .. Len(s)
      PROVE  /\ s[i] \in Range(s) /\ Range(RemoveAt(s, i)) \subseteq Range(s)
             /\ Range(s) = Range(RemoveAt(s, i)) \cup {s[i]}
  <2>. DEFINE t == RemoveAt(s, i)
  <2>1. /\ t \in Seq(S) /\ Len(t) = Len(s) - 1
        /\ \A j \in 1 .. Len(s) - 1 : t[j] = IF j < i THEN s[j] ELSE s[j + 1]
    BY RemoveAtProperties, Zenon
  <2>2. DOMAIN t = 1 .. Len(s) - 1
    BY <2>1, LenProperties
  <2>. HIDE DEF t
  <2>3. \A j \in DOMAIN t : \E k \in DOMAIN s : t[j] = s[k]
    <3>1. \A j \in DOMAIN t : j \in DOMAIN s /\ j + 1 \in DOMAIN s
      BY <1>1, <2>2
    <3>. QED BY <2>1, <2>2, <3>1
  <2>4. ASSUME NEW k \in DOMAIN s, k # i PROVE \E j \in DOMAIN t : t[j] = s[k]
    <3>1. CASE k < i
      <4>1. k \in DOMAIN t
        BY <1>1, <2>2, <3>1
      <4>. QED BY <2>1, <2>2, <3>1, <4>1
    <3>2. CASE ~(k < i)
      <4>1. k - 1 \in DOMAIN t /\ ~(k - 1 < i) /\ (k - 1) + 1 = k
        BY <1>1, <2>2, <2>4, <3>2
      <4>. QED BY <2>1, <2>2, <4>1
    <3>. QED BY <3>1, <3>2
  <2>5. Range(t) \subseteq Range(s) /\ s[i] \in Range(s)
    BY <1>1, <2>3 DEF Range
  <2>6. Range(s) \subseteq Range(t) \cup {s[i]}
    BY <2>4 DEF Range
  <2>. QED BY <2>5, <2>6 DEF t
<1>5. s # <<>> => /\ Head(s) \in Range(s) /\ Range(Tail(s)) \subseteq Range(s)
                  /\ Range(s) = Range(Tail(s)) \cup {Head(s)}
  BY <1>4, TailRemoves
<1>. QED BY <1>2, <1>3, <1>4, <1>5

LEMMA HeadIn ==
    ASSUME NEW S, NEW s \in Seq(S), s # <<>>
    PROVE  /\ Head(s) \in S /\ Tail(s) \in Seq(S) /\ Len(s) \in Nat /\ Len(Tail(s)) = Len(s) - 1
           /\ 1 \in 1 .. Len(s) /\ Head(s) = s[1] /\ DOMAIN s = 1 .. Len(s)
BY HeadTailProperties, TailRemoves, LenProperties

\* A new request makes the types larger.
LEMMA TypesGrow ==
    ASSUME issued \in Nat, issued' = issued + 1, UNCHANGED cache
    PROVE  /\ Requests \subseteq Requests' /\ Lookups \subseteq Lookups'
           /\ Misses \subseteq Misses' /\ Blocks \subseteq Blocks'
           /\ SUBSET (1 .. issued) \subseteq SUBSET (1 .. issued')
           /\ 1 .. issued \subseteq 1 .. issued' /\ 0 .. issued \subseteq 0 .. issued'
<1>1. 1 .. issued \subseteq 1 .. issued' /\ 0 .. issued \subseteq 0 .. issued'
  OBVIOUS
<1>. QED BY <1>1 DEF Requests, Lookups, Misses, Blocks

LEMMA TypesSame ==
    ASSUME UNCHANGED <<cache, issued>>
    PROVE  /\ Requests' = Requests /\ Lookups' = Lookups
           /\ Misses' = Misses /\ Blocks' = Blocks
BY DEF Requests, Lookups, Misses, Blocks

LEMMA TypeGrows ==
    ASSUME TypeOK, issued' = issued + 1, issued < cache.requests, UNCHANGED cache
    PROVE  /\ issued \in Nat /\ issued' \in 0 .. cache.requests /\ issued' \in 1 .. issued'
           /\ {wq, rq, pq} \subseteq [Uppers -> Seq(Requests')]
           /\ returned \in [Uppers -> Seq(SUBSET (1 .. issued'))]
           /\ internalPQ \in Seq(Lookups') /\ tagCheck \in Seq(Lookups') /\ stash \in Seq(Lookups')
           /\ mshr \in Seq(Misses') /\ inflightWrites \in Seq(Misses')
           /\ block \in [Ways -> Blocks'] /\ walkRead \in [Lines -> 0 .. issued']
           /\ waiting \subseteq (1 .. issued') \X Uppers /\ unwritten \subseteq 1 .. issued'
<1>1. /\ issued \in Nat /\ issued' \in 0 .. cache.requests /\ issued' \in 1 .. issued'
  BY CacheIs DEF TypeOK
<1>2. /\ Requests \subseteq Requests' /\ Lookups \subseteq Lookups'
      /\ Misses \subseteq Misses' /\ Blocks \subseteq Blocks'
      /\ SUBSET (1 .. issued) \subseteq SUBSET (1 .. issued')
      /\ 1 .. issued \subseteq 1 .. issued' /\ 0 .. issued \subseteq 0 .. issued'
  BY <1>1, TypesGrow
<1>3. /\ Seq(Requests) \subseteq Seq(Requests') /\ Seq(Lookups) \subseteq Seq(Lookups')
      /\ Seq(Misses) \subseteq Seq(Misses')
      /\ Seq(SUBSET (1 .. issued)) \subseteq Seq(SUBSET (1 .. issued'))
  BY <1>2, SeqMonotonic, Zenon
<1>4. {wq, rq, pq} \subseteq [Uppers -> Seq(Requests')]
  BY <1>3 DEF TypeOK
<1>5. returned \in [Uppers -> Seq(SUBSET (1 .. issued'))]
  BY <1>3 DEF TypeOK
<1>6. /\ internalPQ \in Seq(Lookups') /\ tagCheck \in Seq(Lookups') /\ stash \in Seq(Lookups')
      /\ mshr \in Seq(Misses') /\ inflightWrites \in Seq(Misses')
  BY <1>3 DEF TypeOK
<1>7. block \in [Ways -> Blocks'] /\ walkRead \in [Lines -> 0 .. issued']
  BY <1>2 DEF TypeOK
<1>8. waiting \subseteq (1 .. issued') \X Uppers /\ unwritten \subseteq 1 .. issued'
  BY <1>2 DEF TypeOK
<1>. QED BY <1>1, <1>4, <1>5, <1>6, <1>7, <1>8

\* A request enters the queue of its level.
LEMMA QueueGrows ==
    ASSUME NEW R, NEW q \in [Uppers -> Seq(R)], NEW u \in Uppers, NEW p \in R, NEW n \in Nat,
           \A v \in Uppers : Len(q[v]) <= n, Len(q[u]) < n
    PROVE  /\ [q EXCEPT ![u] = Append(@, p)] \in [Uppers -> Seq(R)]
           /\ \A v \in Uppers : Len([q EXCEPT ![u] = Append(@, p)][v]) <= n
<1>1. Append(q[u], p) \in Seq(R) /\ Len(Append(q[u], p)) = Len(q[u]) + 1 /\ Len(q[u]) \in Nat
  BY AppendProperties, LenProperties
<1>. QED BY <1>1

LEMMA QueueShrinks ==
    ASSUME NEW R, NEW q \in [Uppers -> Seq(R)], NEW u \in Uppers, NEW n \in Nat,
           \A v \in Uppers : Len(q[v]) <= n, q[u] # <<>>
    PROVE  /\ Take(q, u) \in [Uppers -> Seq(R)]
           /\ \A v \in Uppers : Len(Take(q, u)[v]) <= n
           /\ Head(q[u]) \in R
<1>1. /\ Head(q[u]) \in R /\ Tail(q[u]) \in Seq(R)
      /\ Len(Tail(q[u])) = Len(q[u]) - 1 /\ Len(q[u]) \in Nat
  BY HeadIn
<1>. QED BY <1>1 DEF Take

\* The new requests, and what they become.
LEMMA EntryTypes ==
    ASSUME NEW p \in Requests, NEW ret \in SUBSET Uppers, NEW local \in BOOLEAN,
           NEW skip \in BOOLEAN
    PROVE  TagEntry(p, ret, local, skip) \in Lookups
BY DEF TagEntry, Lookups, Requests

LEMMA MissTypes ==
    ASSUME NEW e \in Lookups
    PROVE  /\ MshrEntry(e) \in Misses /\ [MshrEntry(e) EXCEPT !.done = TRUE] \in Misses
           /\ \A m \in Misses : Merged(m, MshrEntry(e)) \in Misses
<1>1. MshrEntry(e) \in Misses
  BY DEF MshrEntry, Lookups, Misses
<1>2. [MshrEntry(e) EXCEPT !.done = TRUE] \in Misses
  BY <1>1 DEF Misses
<1>3. ASSUME NEW m \in Misses, NEW n \in Misses PROVE Merged(m, n) \in Misses
  BY DEF Merged, Misses
<1>. QED BY <1>1, <1>2, <1>3

LEMMA AnswerTypes ==
    ASSUME TypeOK, NEW e, e.deps \in SUBSET (1 .. issued)
    PROVE  Answer(e) \in [Uppers -> Seq(SUBSET (1 .. issued))]
<1>1. \A u \in Uppers : returned[u] \in Seq(SUBSET (1 .. issued))
  BY DEF TypeOK
<1>2. \A u \in Uppers : Append(returned[u], e.deps) \in Seq(SUBSET (1 .. issued))
  BY <1>1, AppendProperties
<1>. QED BY <1>1, <1>2 DEF Answer
-----------------------------------------------------------------------------
(* finish_packet(): the register with the data moves to the first place   *)
(* that waits                                                              *)

\* The register of line l, at k, comes to f, and the one that was there to k.
MovesTo(l, k, f) ==
    /\ mshr[k].line = l /\ ~mshr[k].done /\ ~mshr[f].done
    /\ \A j \in DOMAIN mshr : mshr[j].done <=> j < f
    /\ Settled(l) = [j \in DOMAIN mshr |->
                        IF j = f THEN [mshr[k] EXCEPT !.done = TRUE]
                                 ELSE IF j = k THEN mshr[f] ELSE mshr[j]]

LEMMA SettledIs ==
    ASSUME TypeOK, ReadyFirst, Registers, NEW l \in Lines, asked[l] > 0
    PROVE  \E k, f \in DOMAIN mshr : MovesTo(l, k, f)
<1>1. mshr \in Seq(Misses) /\ Len(mshr) \in Nat /\ DOMAIN mshr = 1 .. Len(mshr)
  BY LenProperties DEF TypeOK
<1>2. PICK i \in DOMAIN mshr : mshr[i].line = l /\ ~mshr[i].done
  BY DEF Registers
<1>. DEFINE K == {j \in 1 .. Len(mshr) : mshr[j].line = l}
            F == {j \in 1 .. Len(mshr) : ~mshr[j].done}
            k == MshrOf(l)
            f == FirstUnanswered
<1>3. k = i
  <2>1. K \in SUBSET Nat /\ K # {} /\ i \in K
    BY <1>1, <1>2
  <2>2. First(K) \in K
    <3>. HIDE DEF K
    <3>. QED BY <2>1, FirstIs
  <2>3. k \in K
    BY <2>2 DEF MshrOf
  <2>. QED BY <1>1, <1>2, <2>3 DEF Registers
<1>4. f \in F /\ \A j \in F : f <= j
  <2>1. F \in SUBSET Nat /\ F # {}
    BY <1>1, <1>2
  <2>2. First(F) \in F /\ \A j \in F : First(F) <= j
    <3>. HIDE DEF F
    <3>. QED BY <2>1, FirstIs
  <2>. QED BY <2>2 DEF FirstUnanswered
<1>5. k \in DOMAIN mshr /\ mshr[k].line = l /\ ~mshr[k].done
  BY <1>2, <1>3
<1>6. f \in DOMAIN mshr /\ ~mshr[f].done
  BY <1>1, <1>4
<1>. HIDE DEF k, f
<1>7. ASSUME NEW j \in DOMAIN mshr PROVE mshr[j].done <=> j < f
  <2>1. CASE j < f
    BY <1>1, <1>4, <1>6, <2>1
  <2>2. CASE ~(j < f)
    BY <1>1, <1>6, <2>2 DEF ReadyFirst
  <2>. QED BY <2>1, <2>2
<1>8. Settled(l) = Swap([mshr EXCEPT ![k].done = TRUE], k, f)
  BY DEF Settled, k, f
<1>9. Settled(l) = [j \in DOMAIN mshr |->
                       IF j = f THEN [mshr[k] EXCEPT !.done = TRUE]
                                ELSE IF j = k THEN mshr[f] ELSE mshr[j]]
  <2>. DEFINE m == [mshr EXCEPT ![k].done = TRUE]
  <2>1. /\ DOMAIN m = DOMAIN mshr
        /\ m[k] = [mshr[k] EXCEPT !.done = TRUE]
        /\ \A j \in DOMAIN mshr : j # k => m[j] = mshr[j]
    BY <1>5
  <2>2. m = [j \in DOMAIN m |-> m[j]]
    OBVIOUS
  <2>. HIDE DEF m
  <2>3. Swap(m, k, f) = [j \in DOMAIN mshr |-> IF j = f THEN m[k]
                                               ELSE IF j = k THEN m[f] ELSE m[j]]
    BY <1>5, <1>6, <2>1, <2>2 DEF Swap
  <2>. QED BY <1>5, <1>6, <1>8, <2>1, <2>3 DEF m
<1>. QED BY <1>5, <1>6, <1>7, <1>9 DEF MovesTo
-----------------------------------------------------------------------------
(* Every action keeps the types *)

LEMMA SendReadTypes ==
    ASSUME TypeOK, NEW u \in Uppers, NEW l \in Lines, NEW w \in cache.words,
           SendRead(u, l, w), UNCHANGED cache, issued' = issued + 1, issued < cache.requests
    PROVE  /\ rq' \in [Uppers -> Seq(Requests')] /\ \A v \in Uppers : Len(rq'[v]) <= RQ_SIZE
           /\ waiting' \subseteq (1 .. issued') \X Uppers
<1>. DEFINE p == RequestOf(l, w, "LOAD", TRUE, u \in cache.physical, {issued + 1})
<1>1. p \in Requests'
  <2>1. issued + 1 \in 1 .. issued' /\ (u \in cache.physical) \in BOOLEAN
    BY TypeGrows
  <2>. QED BY <2>1 DEF Requests, RequestOf, Types
<1>2. rq \in [Uppers -> Seq(Requests')] /\ RQ_SIZE \in Nat
  BY TypeGrows, SizesAre
<1>3. \A v \in Uppers : Len(rq[v]) <= RQ_SIZE
  BY DEF TypeOK
<1>4. rq' = [rq EXCEPT ![u] = Append(@, p)] /\ Len(rq[u]) < RQ_SIZE
  BY DEF SendRead
<1>. HIDE DEF p
<1>5. rq' \in [Uppers -> Seq(Requests')] /\ \A v \in Uppers : Len(rq'[v]) <= RQ_SIZE
  BY <1>1, <1>2, <1>3, <1>4, QueueGrows
<1>6. waiting' \subseteq (1 .. issued') \X Uppers
  BY TypeGrows DEF SendRead
<1>. QED BY <1>5, <1>6

LEMMA EnvironmentTypes ==
    ASSUME TypeOK, Environment
    PROVE  TypeOK'
<1>1. ASSUME NEW u \in Uppers, NEW l \in Lines, NEW w \in cache.words, AddRead(u, l, w)
      PROVE  TypeOK'
  <2>1. UNCHANGED cache /\ issued' = issued + 1 /\ issued < cache.requests /\ SendRead(u, l, w)
    BY <1>1 DEF AddRead, Arrive
  <2>. QED BY <1>1, <2>1, TypeGrows, SendReadTypes DEF AddRead, Arrive, TypeOK, lookups, misses
<1>2. ASSUME NEW u \in Uppers, NEW l \in Lines, NEW p \in Lines, WalkRead(u, l, p)
      PROVE  TypeOK'
  <2>1. UNCHANGED cache /\ issued' = issued + 1 /\ issued < cache.requests /\ SendRead(u, p, 0)
    BY <1>2 DEF WalkRead, Arrive
  <2>2. 0 \in cache.words
    BY CacheIs DEF TypeOK
  <2>3. walkRead' \in [Lines -> 0 .. issued']
    BY <1>2, <2>1, TypeGrows DEF WalkRead
  <2>. QED BY <1>2, <2>1, <2>2, <2>3, TypeGrows, SendReadTypes DEF WalkRead, Arrive, TypeOK, misses
<1>3. ASSUME NEW u \in Uppers, NEW l \in Lines, NEW w \in cache.words, AddWrite(u, l, w)
      PROVE  TypeOK'
  <2>. DEFINE p == RequestOf(l, w, "WRITE", FALSE, u \in cache.physical, {issued + 1})
  <2>1. UNCHANGED cache /\ issued' = issued + 1 /\ issued < cache.requests
    BY <1>3 DEF AddWrite, Arrive
  <2>2. p \in Requests'
    <3>1. issued + 1 \in 1 .. issued' /\ (u \in cache.physical) \in BOOLEAN
      BY <2>1, TypeGrows
    <3>. QED BY <2>1, <3>1 DEF Requests, RequestOf, Types
  <2>3. /\ wq \in [Uppers -> Seq(Requests')] /\ WQ_SIZE \in Nat
        /\ \A v \in Uppers : Len(wq[v]) <= WQ_SIZE
    BY <2>1, TypeGrows, SizesAre DEF TypeOK
  <2>4. wq' = [wq EXCEPT ![u] = Append(@, p)] /\ Len(wq[u]) < WQ_SIZE
    BY <1>3 DEF AddWrite
  <2>. HIDE DEF p
  <2>5. wq' \in [Uppers -> Seq(Requests')] /\ \A v \in Uppers : Len(wq'[v]) <= WQ_SIZE
    BY <2>2, <2>3, <2>4, QueueGrows
  <2>6. unwritten' \subseteq 1 .. issued'
    BY <1>3, <2>1, TypeGrows DEF AddWrite
  <2>. QED BY <1>3, <2>1, <2>5, <2>6, TypeGrows DEF AddWrite, Arrive, TypeOK, lookups, misses
<1>4. ASSUME NEW u \in Uppers, NEW l \in Lines, NEW w \in cache.words, NEW resp \in BOOLEAN,
             AddPrefetch(u, l, w, resp)
      PROVE  TypeOK'
  <2>. DEFINE who == IF resp THEN {issued + 1} ELSE {}
              p == RequestOf(l, w, "PREFETCH", resp, u \in cache.physical, who)
  <2>1. UNCHANGED cache /\ issued' = issued + 1 /\ issued < cache.requests
    BY <1>4 DEF AddPrefetch, Arrive
  <2>2. p \in Requests' /\ who \in SUBSET (1 .. issued')
    <3>1. who \in SUBSET (1 .. issued') /\ (u \in cache.physical) \in BOOLEAN
      BY <2>1, TypeGrows
    <3>. QED BY <2>1, <3>1 DEF Requests, RequestOf, Types
  <2>3. /\ pq \in [Uppers -> Seq(Requests')] /\ PQ_SIZE \in Nat
        /\ \A v \in Uppers : Len(pq[v]) <= PQ_SIZE
    BY <2>1, TypeGrows, SizesAre DEF TypeOK
  <2>4. /\ pq' = [pq EXCEPT ![u] = Append(@, p)] /\ Len(pq[u]) < PQ_SIZE
        /\ waiting' = waiting \cup (who \X {u})
    BY <1>4 DEF AddPrefetch
  <2>. HIDE DEF p, who
  <2>5. pq' \in [Uppers -> Seq(Requests')] /\ \A v \in Uppers : Len(pq'[v]) <= PQ_SIZE
    BY <2>2, <2>3, <2>4, QueueGrows
  <2>6. waiting' \subseteq (1 .. issued') \X Uppers
    BY <2>1, <2>2, <2>4, TypeGrows
  <2>. QED BY <1>4, <2>1, <2>5, <2>6, TypeGrows DEF AddPrefetch, Arrive, TypeOK, lookups, misses
<1>5. ASSUME NEW l \in Lines, NEW fillThis \in BOOLEAN, PrefetchLine(l, fillThis)
      PROVE  TypeOK'
  <2>. DEFINE p == RequestOf(l, 0, "PREFETCH", FALSE, ~cache.virtual, {})
              e == TagEntry(p, {}, TRUE, ~fillThis)
  <2>1. UNCHANGED cache /\ issued' = issued + 1 /\ issued < cache.requests
    BY <1>5 DEF PrefetchLine
  <2>2. e \in Lookups'
    BY <2>1 DEF RequestOf, TagEntry, Lookups, Types
  <2>3. /\ internalPQ \in Seq(Lookups') /\ Len(internalPQ) < IPQ_SIZE /\ IPQ_SIZE \in Nat
        /\ internalPQ' = Append(internalPQ, e)
    BY <1>5, <2>1, TypeGrows, SizesAre DEF PrefetchLine
  <2>. HIDE DEF e
  <2>4. internalPQ' \in Seq(Lookups') /\ Len(internalPQ') <= IPQ_SIZE
    BY <2>2, <2>3, AppendProperties, LenProperties
  <2>. QED BY <1>5, <2>1, <2>4, TypeGrows DEF PrefetchLine, TypeOK, lookups, misses
<1>. QED BY <1>1, <1>2, <1>3, <1>4, <1>5 DEF Environment

LEMMA DeliverTypes ==
    ASSUME TypeOK, ReadyFirst, Registers, Deliver
    PROVE  TypeOK'
<1>1. ASSUME NEW u \in Uppers, TakeAnswers(u) PROVE TypeOK'
  <2>1. returned' \in [Uppers -> Seq(SUBSET (1 .. issued))]
    BY <1>1 DEF TakeAnswers, TypeOK
  <2>2. waiting' \subseteq waiting
    BY <1>1 DEF TakeAnswers
  <2>. QED BY <1>1, <2>1, <2>2, TypesSame DEF TakeAnswers, TypeOK, queues, lookups, misses
<1>2. ASSUME NEW l \in Lines, FinishPacket(l) PROVE TypeOK'
  <2>1. asked[l] > 0 /\ mshr' = Settled(l)
    BY <1>2 DEF FinishPacket
  <2>2. asked' \in [Lines -> Nat]
    BY <1>2 DEF FinishPacket, TypeOK
  <2>3. mshr' \in Seq(Misses) /\ Len(mshr') = Len(mshr)
    <3>1. PICK k, f \in DOMAIN mshr : MovesTo(l, k, f)
      BY <2>1, SettledIs
    <3>2. /\ Len(mshr) \in Nat /\ DOMAIN mshr = 1 .. Len(mshr)
          /\ \A j \in DOMAIN mshr : mshr[j] \in Misses
      BY LenProperties, ElementOfSeq DEF TypeOK
    <3>3. [mshr[k] EXCEPT !.done = TRUE] \in Misses
      BY <3>2 DEF Misses
    <3>4. mshr' \in [1 .. Len(mshr) -> Misses]
      BY <2>1, <3>1, <3>2, <3>3 DEF MovesTo
    <3>. QED BY <3>2, <3>4, SeqDef, LenProperties
  <2>. QED BY <1>2, <2>2, <2>3, TypesSame DEF FinishPacket, TypeOK, queues, lookups, history
<1>3. ASSUME NEW l \in Lines, FinishTranslation(l) PROVE TypeOK'
  <2>1. walks' \subseteq Lines /\ walkRead' \in [Lines -> 0 .. issued]
    BY <1>3 DEF FinishTranslation, TypeOK
  <2>2. stash' \in Seq(Lookups)
    BY <1>3, RestartedIs DEF FinishTranslation, TypeOK
  <2>3. tagCheck' \in Seq(Lookups) /\ Len(tagCheck') = Len(tagCheck)
    <3>1. /\ Len(tagCheck) \in Nat /\ DOMAIN tagCheck = 1 .. Len(tagCheck)
          /\ \A k \in DOMAIN tagCheck : tagCheck[k] \in Lookups
      BY LenProperties, ElementOfSeq DEF TypeOK
    <3>2. \A e \in Lookups : MarkTranslated(e, l) \in Lookups
      BY DEF MarkTranslated, Lookups
    <3>3. tagCheck' \in [1 .. Len(tagCheck) -> Lookups]
      BY <1>3, <3>1, <3>2 DEF FinishTranslation, MarkedLookups
    <3>. QED BY <3>1, <3>3, SeqDef, LenProperties
  <2>. QED BY <1>3, <2>1, <2>2, <2>3, TypesSame
       DEF FinishTranslation, TypeOK, queues, misses, history
<1>. QED BY <1>1, <1>2, <1>3 DEF Deliver

\* Nothing carries a request that nobody sent.
LEMMA FreshIs ==
    ASSUME NEW s, NEW r, \A i \in DOMAIN s : r \notin s[i].deps
    PROVE  Sole(s, r) /\ Found(s, r) = 0
BY DEF Sole, Found

LEMMA UnsentIs ==
    ASSUME TypeOK, NEW s \in Seq(Requests), NEW r, r \notin 1 .. issued
    PROVE  \A i \in DOMAIN s : r \notin s[i].deps
<1>1. \A i \in DOMAIN s : s[i] \in Requests
  BY LenProperties, ElementOfSeq
<1>. QED BY <1>1 DEF Requests

LEMMA AnswersTypes ==
    ASSUME TypeOK, NEW w, NEW q \in Seq(Requests), NEW o \in BOOLEAN
    PROVE  ForwardedAnswers(w, q, o) \in Seq(SUBSET (1 .. issued))
<1>1. issued + 1 \notin 1 .. issued
  BY CacheIs DEF TypeOK
<1>. DEFINE r == issued + 1
<1>. HIDE DEF r
<1>2. \A i \in DOMAIN q : r \notin q[i].deps
  BY <1>1, UnsentIs DEF r
<1>3. Sole(q, r)
  BY <1>2, FreshIs
<1>. QED BY <1>2, <1>3, ForwardedIs

LEMMA CollisionTypes ==
    ASSUME TypeOK, CheckCollisions
    PROVE  TypeOK'
<1>. DEFINE o == cache.offset
            answers(u) == ForwardedAnswers(wq'[u], rq[u], o)
            more(u) == ForwardedAnswers(wq'[u], pq[u], o)
            T == SUBSET (1 .. issued)
<1>1. o \in BOOLEAN
  BY CacheIs DEF TypeOK
<1>2. ASSUME NEW u \in Uppers
      PROVE  /\ wq[u] \in Seq(Requests) /\ rq[u] \in Seq(Requests) /\ pq[u] \in Seq(Requests)
             /\ Len(wq[u]) <= WQ_SIZE /\ Len(rq[u]) <= RQ_SIZE /\ Len(pq[u]) <= PQ_SIZE
             /\ returned[u] \in Seq(T)
  BY DEF TypeOK
<1>3. ASSUME NEW q \in Seq(Requests), NEW S \in SUBSET (1 .. Len(q)), NEW b \in BOOLEAN,
             NEW n \in Nat, Len(q) <= n
      PROVE  Checked(q, S, b) \in Seq(Requests) /\ Len(Checked(q, S, b)) <= n
  <2>1. Checked(q, S, b) \in Seq(Requests) /\ Len(Checked(q, S, b)) <= Len(q)
    BY CheckedIs
  <2>. QED BY <1>3, <2>1, LenProperties
<1>4. ASSUME NEW u \in Uppers
      PROVE  /\ wq'[u] \in Seq(Requests) /\ rq'[u] \in Seq(Requests) /\ pq'[u] \in Seq(Requests)
             /\ Len(wq'[u]) <= WQ_SIZE /\ Len(rq'[u]) <= RQ_SIZE /\ Len(pq'[u]) <= PQ_SIZE
  <2>1. /\ wq'[u] = CheckedWrites(wq[u], o) /\ rq'[u] = CheckedReads(wq'[u], rq[u], o)
        /\ pq'[u] = CheckedReads(wq'[u], pq[u], o)
    BY DEF CheckCollisions
  <2>. QED BY <1>1, <1>2, <1>3, <2>1, SizesAre DEF CheckedWrites, CheckedReads
<1>5. ASSUME NEW u \in Uppers PROVE returned'[u] \in Seq(T)
  <2>1. returned'[u] = (returned[u] \o answers(u)) \o more(u)
    BY DEF CheckCollisions
  <2>2. answers(u) \in Seq(T) /\ more(u) \in Seq(T)
    BY <1>1, <1>2, AnswersTypes
  <2>. HIDE DEF answers, more, T
  <2>3. returned[u] \o answers(u) \in Seq(T)
    BY <1>2, <2>2, ConcatProperties
  <2>. QED BY <2>1, <2>2, <2>3, ConcatProperties
<1>6. /\ wq' \in [Uppers -> Seq(Requests)] /\ rq' \in [Uppers -> Seq(Requests)]
      /\ pq' \in [Uppers -> Seq(Requests)] /\ returned' \in [Uppers -> Seq(T)]
  <2>1. /\ wq' = [u \in Uppers |-> wq'[u]] /\ rq' = [u \in Uppers |-> rq'[u]]
        /\ pq' = [u \in Uppers |-> pq'[u]] /\ returned' = [u \in Uppers |-> returned'[u]]
    BY DEF CheckCollisions
  <2>. HIDE DEF T
  <2>. QED BY <1>4, <1>5, <2>1
<1>. QED BY <1>4, <1>6, TypesSame DEF CheckCollisions, TypeOK, lookups, misses, history

LEMMA FillTypes ==
    ASSUME TypeOK, NEW e \in Misses, HandleFill(e)
    PROVE  /\ block' \in [Ways -> Blocks] /\ unwritten' \subseteq 1 .. issued
           /\ returned' \in [Uppers -> Seq(SUBSET (1 .. issued))]
<1>1. e.deps \in SUBSET (1 .. issued) /\ BlockOf(e) \in Blocks
  BY DEF Misses, BlockOf, Blocks
<1>2. Answer(e) \in [Uppers -> Seq(SUBSET (1 .. issued))]
  BY <1>1, AnswerTypes
<1>3. CASE BypassFill(e)
  BY <1>2, <1>3 DEF BypassFill, TypeOK
<1>4. ASSUME NEW w \in Ways, FillWay(e, w) 
      PROVE  /\ block' \in [Ways -> Blocks] /\ unwritten' \subseteq 1 .. issued
             /\ returned' \in [Uppers -> Seq(SUBSET (1 .. issued))]
  BY <1>1, <1>2, <1>4 DEF FillWay, TypeOK
<1>. QED BY <1>3, <1>4 DEF HandleFill

LEMMA StartTypes ==
    ASSUME TypeOK, NEW e \in Lookups, tagCheck' = Append(tagCheck, e), Len(tagCheck) < TAG_SIZE
    PROVE  tagCheck' \in Seq(Lookups) /\ Len(tagCheck') <= TAG_SIZE
BY AppendProperties, LenProperties, SizesAre DEF TypeOK

LEMMA HitTypes ==
    ASSUME TypeOK, NEW e \in Lookups, Hit(e)
    PROVE  /\ block' \in [Ways -> Blocks]
           /\ returned' \in [Uppers -> Seq(SUBSET (1 .. issued))]
<1>1. e.deps \in SUBSET (1 .. issued)
  BY DEF Lookups
<1>2. returned' \in [Uppers -> Seq(SUBSET (1 .. issued))]
  BY <1>1, AnswerTypes DEF Hit
<1>. DEFINE w == First(WaysWith(e.line))
<1>3. w \in Ways
  <2>1. WaysWith(e.line) \in SUBSET Nat /\ WaysWith(e.line) # {} /\ WaysWith(e.line) \subseteq Ways
    BY SizesAre DEF Hit, WaysWith
  <2>. QED BY <2>1, FirstIs
<1>4. \/ block' = block
      \/ block' = [block EXCEPT ![w].dirty = TRUE, ![w].held = @ \cup e.deps]
  BY DEF Hit
<1>. HIDE DEF w
<1>5. block' \in [Ways -> Blocks]
  <2>1. block \in [Ways -> Blocks]
    BY DEF TypeOK
  <2>. DEFINE b == [block[w] EXCEPT !.dirty = TRUE, !.held = block[w].held \cup e.deps]
  <2>2. b \in Blocks
    <3>1. block[w] \in Blocks
      BY <1>3, <2>1
    <3>. QED BY <1>1, <3>1 DEF Blocks
  <2>3. CASE block' = [block EXCEPT ![w].dirty = TRUE, ![w].held = @ \cup e.deps]
    <3>1. block' = [block EXCEPT ![w] = b]
      BY <1>3, <2>1, <2>3
    <3>. HIDE DEF b
    <3>. QED BY <1>3, <2>1, <2>2, <3>1
  <2>. QED BY <1>4, <2>1, <2>3
<1>. QED BY <1>2, <1>5

LEMMA CheckTagTypes ==
    ASSUME TypeOK, CheckTag
    PROVE  TypeOK'
<1>. DEFINE e == Head(tagCheck)
<1>1. /\ e \in Lookups /\ tagCheck' \in Seq(Lookups) /\ Len(tagCheck') <= TAG_SIZE
      /\ e.line \in Lines /\ tagCheck # <<>>
  <2>1. tagCheck \in Seq(Lookups) /\ tagCheck # <<>> /\ Len(tagCheck) <= TAG_SIZE
    BY DEF CheckTag, TypeOK
  <2>2. /\ e \in Lookups /\ Tail(tagCheck) \in Seq(Lookups)
        /\ Len(Tail(tagCheck)) = Len(tagCheck) - 1 /\ Len(tagCheck) \in Nat
    BY <2>1, HeadIn
  <2>3. e.line \in Lines
    BY <2>2 DEF Lookups
  <2>. QED BY <2>1, <2>2, <2>3, SizesAre DEF CheckTag
<1>2. CASE Hit(e)
  <2>1. block' \in [Ways -> Blocks] /\ returned' \in [Uppers -> Seq(SUBSET (1 .. issued))]
    BY <1>1, <1>2, HitTypes
  <2>. QED BY <1>1, <1>2, <2>1, TypesSame DEF Hit, CheckTag, TypeOK, queues, misses, history
<1>. HIDE DEF e
<1>3. MshrEntry(e) \in Misses /\ [MshrEntry(e) EXCEPT !.done = TRUE] \in Misses
  BY <1>1, MissTypes
<1>4. UNCHANGED <<cache, queues, stash, walks, walkRead>>
  BY DEF CheckTag
<1>5. CASE WriteMiss(e)
  <2>1. inflightWrites' \in Seq(Misses)
    BY <1>3, <1>5, AppendProperties DEF WriteMiss, TypeOK
  <2>. QED BY <1>1, <1>4, <1>5, <2>1, TypesSame DEF WriteMiss, TypeOK, queues, history
<1>6. CASE MergeMiss(e)
  <2>. DEFINE k == First(MshrWith(e.line))
  <2>1. mshr \in Seq(Misses) /\ Len(mshr) \in Nat
    BY LenProperties DEF TypeOK
  <2>2. k \in 1 .. Len(mshr)
    <3>1. MshrWith(e.line) \in SUBSET Nat /\ MshrWith(e.line) # {}
      BY <1>6, <2>1 DEF MergeMiss, MshrWith
    <3>2. First(MshrWith(e.line)) \in MshrWith(e.line)
      BY <3>1, FirstIs
    <3>. QED BY <3>2 DEF MshrWith
  <2>3. mshr[k] \in Misses /\ Merged(mshr[k], MshrEntry(e)) \in Misses
    <3>1. mshr[k] \in Misses
      BY <2>1, <2>2, ElementOfSeq
    <3>. QED BY <1>1, <3>1, MissTypes
  <2>4. mshr' = [mshr EXCEPT ![k] = Merged(mshr[k], MshrEntry(e))]
    BY <1>6 DEF MergeMiss
  <2>. HIDE DEF k
  <2>5. mshr' \in Seq(Misses) /\ Len(mshr') = Len(mshr)
    BY <2>1, <2>2, <2>3, <2>4, ExceptSeq
  <2>. QED BY <1>1, <1>4, <1>6, <2>5, TypesSame DEF MergeMiss, TypeOK, queues, history
<1>7. CASE AllocateMiss(e)
  <2>1. /\ mshr \in Seq(Misses) /\ Len(mshr) \in Nat /\ Len(mshr) < cache.mshrs
        /\ cache.mshrs \in Nat /\ asked \in [Lines -> Nat]
    BY <1>7, LenProperties, CacheIs DEF TypeOK, AllocateMiss, HasRegister
  <2>2. /\ Append(mshr, MshrEntry(e)) \in Seq(Misses)
        /\ Len(Append(mshr, MshrEntry(e))) = Len(mshr) + 1
    BY <1>3, <2>1, AppendProperties
  <2>3. mshr' \in Seq(Misses) /\ Len(mshr') <= cache.mshrs
    <3>1. mshr' = mshr \/ mshr' = Append(mshr, MshrEntry(e))
      BY <1>7 DEF AllocateMiss
    <3>2. Len(mshr) <= cache.mshrs /\ Len(mshr) + 1 <= cache.mshrs
      BY <2>1
    <3>. QED BY <2>1, <2>2, <3>1, <3>2
  <2>4. asked' \in [Lines -> Nat]
    BY <1>1, <1>7, <2>1 DEF AllocateMiss
  <2>. QED BY <1>1, <1>4, <1>7, <2>3, <2>4, TypesSame DEF AllocateMiss, TypeOK, queues, history
<1>8. Hit(e) \/ WriteMiss(e) \/ MergeMiss(e) \/ AllocateMiss(e)
  BY DEF CheckTag, e
<1>. QED BY <1>2, <1>5, <1>6, <1>7, <1>8

LEMMA StartQueuedTypes ==
    ASSUME TypeOK, NEW u \in Uppers, StartQueued(u)
    PROVE  TypeOK'
<1>1. /\ UNCHANGED <<cache, internalPQ, returned, stash, walks, walkRead, misses, block, history>>
      /\ Len(tagCheck) < TAG_SIZE
  BY DEF StartQueued
<1>2. /\ wq \in [Uppers -> Seq(Requests)] /\ \A v \in Uppers : Len(wq[v]) <= WQ_SIZE
      /\ rq \in [Uppers -> Seq(Requests)] /\ \A v \in Uppers : Len(rq[v]) <= RQ_SIZE
      /\ pq \in [Uppers -> Seq(Requests)] /\ \A v \in Uppers : Len(pq[v]) <= PQ_SIZE
  BY DEF TypeOK
<1>3. ASSUME NEW p \in Requests, tagCheck' = StartEntry(p, u)
      PROVE  tagCheck' \in Seq(Lookups) /\ Len(tagCheck') <= TAG_SIZE
  <2>. DEFINE ret == IF p.resp THEN {u} ELSE {}
  <2>1. ret \in SUBSET Uppers
    OBVIOUS
  <2>2. TagEntry(p, ret, FALSE, FALSE) \in Lookups
    <3>. HIDE DEF ret
    <3>. QED BY <2>1, EntryTypes
  <2>. QED BY <1>1, <1>3, <2>2, StartTypes DEF StartEntry
<1>4. CASE CanStart(wq[u]) /\ tagCheck' = StartEntry(Head(wq[u]), u) /\ wq' = Take(wq, u)
           /\ UNCHANGED <<rq, pq>>
  <2>1. Head(wq[u]) \in Requests /\ wq' \in [Uppers -> Seq(Requests)]
        /\ \A v \in Uppers : Len(wq'[v]) <= WQ_SIZE
    BY <1>2, <1>4, SizesAre, QueueShrinks DEF CanStart
  <2>. QED BY <1>1, <1>3, <1>4, <2>1, TypesSame DEF TypeOK, misses, history
<1>5. CASE CanStart(rq[u]) /\ tagCheck' = StartEntry(Head(rq[u]), u) /\ rq' = Take(rq, u)
           /\ UNCHANGED <<wq, pq>>
  <2>1. Head(rq[u]) \in Requests /\ rq' \in [Uppers -> Seq(Requests)]
        /\ \A v \in Uppers : Len(rq'[v]) <= RQ_SIZE
    BY <1>2, <1>5, SizesAre, QueueShrinks DEF CanStart
  <2>. QED BY <1>1, <1>3, <1>5, <2>1, TypesSame DEF TypeOK, misses, history
<1>6. CASE CanStart(pq[u]) /\ tagCheck' = StartEntry(Head(pq[u]), u) /\ pq' = Take(pq, u)
           /\ UNCHANGED <<wq, rq>>
  <2>1. Head(pq[u]) \in Requests /\ pq' \in [Uppers -> Seq(Requests)]
        /\ \A v \in Uppers : Len(pq'[v]) <= PQ_SIZE
    BY <1>2, <1>6, SizesAre, QueueShrinks DEF CanStart
  <2>. QED BY <1>1, <1>3, <1>6, <2>1, TypesSame DEF TypeOK, misses, history
<1>. QED BY <1>4, <1>5, <1>6 DEF StartQueued

\* The positions of the lookups that are not translated.
LEMMA UnsentAt ==
    ASSUME NEW s \in Seq(Lookups)
    PROVE  /\ Unsent(s) # {} => First(Unsent(s)) \in Unsent(s) /\ First(Unsent(s)) \in 1 .. Len(s)
           /\ \A i \in 1 .. Len(s) : /\ s[i] \in Lookups /\ s[i].line \in Lines
                                     /\ [s EXCEPT ![i].sent = TRUE] \in Seq(Lookups)
                                     /\ Len([s EXCEPT ![i].sent = TRUE]) = Len(s)
<1>1. Len(s) \in Nat /\ Unsent(s) \in SUBSET Nat /\ Unsent(s) \subseteq 1 .. Len(s)
  BY LenProperties DEF Unsent
<1>2. Unsent(s) # {} => First(Unsent(s)) \in Unsent(s)
  BY <1>1, FirstIs
<1>3. ASSUME NEW i \in 1 .. Len(s)
      PROVE  /\ s[i] \in Lookups /\ s[i].line \in Lines
             /\ [s EXCEPT ![i].sent = TRUE] \in Seq(Lookups)
             /\ Len([s EXCEPT ![i].sent = TRUE]) = Len(s)
  <2>. DEFINE e == [s[i] EXCEPT !.sent = TRUE]
  <2>1. s[i] \in Lookups
    BY ElementOfSeq
  <2>2. e \in Lookups /\ s[i].line \in Lines
    BY <2>1 DEF Lookups
  <2>3. [s EXCEPT ![i].sent = TRUE] = [s EXCEPT ![i] = e]
    OBVIOUS
  <2>. HIDE DEF e
  <2>4. [s EXCEPT ![i] = e] \in Seq(Lookups) /\ Len([s EXCEPT ![i] = e]) = Len(s)
    BY <1>1, <2>2, ExceptSeq, LenProperties
  <2>. QED BY <2>1, <2>2, <2>3, <2>4
<1>. QED BY <1>1, <1>2, <1>3

LEMMA OperateTypes ==
    ASSUME TypeOK, Operate
    PROVE  TypeOK'
<1>1. CASE FillFromMshr
  <2>1. mshr \in Seq(Misses) /\ mshr # <<>>
    BY <1>1 DEF FillFromMshr, TypeOK
  <2>2. /\ Head(mshr) \in Misses /\ Tail(mshr) \in Seq(Misses)
        /\ Len(Tail(mshr)) = Len(mshr) - 1 /\ Len(mshr) \in Nat
    BY <2>1, HeadIn
  <2>3. /\ block' \in [Ways -> Blocks] /\ unwritten' \subseteq 1 .. issued
        /\ returned' \in [Uppers -> Seq(SUBSET (1 .. issued))]
    BY <1>1, <2>2, FillTypes DEF FillFromMshr
  <2>4. Len(Tail(mshr)) <= cache.mshrs
    BY <2>2, CacheIs DEF TypeOK
  <2>. QED BY <1>1, <2>2, <2>3, <2>4, TypesSame DEF FillFromMshr, TypeOK, queues, lookups
<1>2. CASE FillFromWrites
  <2>1. inflightWrites \in Seq(Misses) /\ inflightWrites # <<>>
    BY <1>2 DEF FillFromWrites, TypeOK
  <2>2. Head(inflightWrites) \in Misses /\ Tail(inflightWrites) \in Seq(Misses)
    BY <2>1, HeadIn
  <2>3. /\ block' \in [Ways -> Blocks] /\ unwritten' \subseteq 1 .. issued
        /\ returned' \in [Uppers -> Seq(SUBSET (1 .. issued))]
    BY <1>2, <2>2, FillTypes DEF FillFromWrites
  <2>. QED BY <1>2, <2>2, <2>3, TypesSame DEF FillFromWrites, TypeOK, queues, lookups
<1>3. CASE StartStashed
  <2>1. stash \in Seq(Lookups) /\ stash # <<>>
    BY <1>3 DEF StartStashed, StashReady, TypeOK
  <2>2. Head(stash) \in Lookups /\ Tail(stash) \in Seq(Lookups)
    BY <2>1, HeadIn
  <2>3. tagCheck' \in Seq(Lookups) /\ Len(tagCheck') <= TAG_SIZE
    BY <1>3, <2>2, StartTypes DEF StartStashed
  <2>. QED BY <1>3, <2>2, <2>3, TypesSame DEF StartStashed, TypeOK, queues, misses, history
<1>4. CASE StartPrefetch
  <2>1. internalPQ \in Seq(Lookups) /\ internalPQ # <<>> /\ Len(internalPQ) <= IPQ_SIZE
    BY <1>4 DEF StartPrefetch, CanStart, TypeOK
  <2>2. /\ Head(internalPQ) \in Lookups /\ Tail(internalPQ) \in Seq(Lookups)
        /\ Len(Tail(internalPQ)) = Len(internalPQ) - 1 /\ Len(internalPQ) \in Nat
    BY <2>1, HeadIn
  <2>3. tagCheck' \in Seq(Lookups) /\ Len(tagCheck') <= TAG_SIZE
    BY <1>4, <2>2, StartTypes DEF StartPrefetch
  <2>4. Len(Tail(internalPQ)) <= IPQ_SIZE
    BY <2>1, <2>2, SizesAre
  <2>. QED BY <1>4, <2>2, <2>3, <2>4, TypesSame DEF StartPrefetch, TypeOK, misses, history
<1>5. CASE IssueTranslation
  <2>1. tagCheck \in Seq(Lookups) /\ stash \in Seq(Lookups)
    BY DEF TypeOK
  <2>2. /\ tagCheck' \in Seq(Lookups) /\ Len(tagCheck') = Len(tagCheck)
        /\ stash' \in Seq(Lookups) /\ walks' \subseteq Lines
        /\ UNCHANGED <<cache, queues, returned, walkRead, misses, block, history>>
    <3>1. ASSUME NEW i, Unsent(tagCheck) # {}, i = First(Unsent(tagCheck)),
                 tagCheck' = [tagCheck EXCEPT ![i].sent = TRUE], UNCHANGED stash,
                 walks' = walks \cup {tagCheck[i].line}
          PROVE  /\ tagCheck' \in Seq(Lookups) /\ Len(tagCheck') = Len(tagCheck)
                 /\ stash' \in Seq(Lookups) /\ walks' \subseteq Lines
      <4>1. i \in 1 .. Len(tagCheck)
        BY <2>1, <3>1, UnsentAt
      <4>. QED BY <2>1, <3>1, <4>1, UnsentAt DEF TypeOK
    <3>2. ASSUME NEW i, Unsent(stash) # {}, i = First(Unsent(stash)),
                 stash' = [stash EXCEPT ![i].sent = TRUE], UNCHANGED tagCheck,
                 walks' = walks \cup {stash[i].line}
          PROVE  /\ tagCheck' \in Seq(Lookups) /\ Len(tagCheck') = Len(tagCheck)
                 /\ stash' \in Seq(Lookups) /\ walks' \subseteq Lines
      <4>1. i \in 1 .. Len(stash)
        BY <2>1, <3>2, UnsentAt
      <4>. QED BY <2>1, <3>2, <4>1, UnsentAt DEF TypeOK
    <3>. QED BY <1>5, <3>1, <3>2 DEF IssueTranslation
  <2>. QED BY <2>2, TypesSame DEF TypeOK, queues, misses, history
<1>6. CASE StashLate
  <2>. DEFINE late == {i \in 1 .. Len(tagCheck) : ~tagCheck[i].trans}
              i == First(late)
  <2>1. tagCheck \in Seq(Lookups) /\ stash \in Seq(Lookups) /\ Len(tagCheck) \in Nat
    BY LenProperties DEF TypeOK
  <2>2. i \in 1 .. Len(tagCheck)
    <3>1. late \in SUBSET Nat /\ late # {} /\ late \subseteq 1 .. Len(tagCheck)
      BY <1>6 DEF StashLate
    <3>. HIDE DEF late
    <3>. QED BY <3>1, FirstIs
  <2>3. stash' = Append(stash, tagCheck[i]) /\ tagCheck' = RemoveAt(tagCheck, i)
    BY <1>6 DEF StashLate
  <2>. HIDE DEF late, i
  <2>4. tagCheck[i] \in Lookups
    BY <2>1, <2>2, ElementOfSeq
  <2>5. stash' \in Seq(Lookups)
    BY <2>1, <2>3, <2>4, AppendProperties
  <2>6. tagCheck' \in Seq(Lookups) /\ Len(tagCheck') = Len(tagCheck) - 1
    BY <2>1, <2>2, <2>3, RemoveAtProperties
  <2>7. Len(tagCheck') <= TAG_SIZE
    BY <2>1, <2>6, SizesAre DEF TypeOK
  <2>. QED BY <1>6, <2>5, <2>6, <2>7, TypesSame DEF StashLate, TypeOK, queues, misses, history
<1>. QED BY <1>1, <1>2, <1>3, <1>4, <1>5, <1>6,
            CollisionTypes, CheckTagTypes, StartQueuedTypes DEF Operate

LEMMA TypesKept ==
    ASSUME TypeOK, ReadyFirst, Registers, [Next]_vars
    PROVE  TypeOK'
<1>1. CASE UNCHANGED vars
  <2>1. UNCHANGED <<cache, wq, rq, pq, internalPQ, returned, tagCheck, stash, walks, walkRead,
                    mshr, inflightWrites, asked, block, issued, waiting, unwritten>>
    BY <1>1 DEF vars, queues, lookups, misses, history
  <2>. QED BY <2>1, TypesSame DEF TypeOK
<1>. QED BY <1>1, EnvironmentTypes, DeliverTypes, OperateTypes DEF Next
-----------------------------------------------------------------------------
(* What is ready stays in front, and a register is one of its line's *)

LEMMA TailAt ==
    ASSUME NEW S, NEW s \in Seq(S), s # <<>>
    PROVE  \A i \in DOMAIN Tail(s) :
              i + 1 \in DOMAIN s /\ Tail(s)[i] = s[i + 1] /\ i \in Nat
<1>1. /\ Len(s) \in Nat /\ DOMAIN s = 1 .. Len(s)
      /\ Tail(s) \in Seq(S) /\ Len(Tail(s)) = Len(s) - 1
  BY HeadIn
<1>2. DOMAIN Tail(s) = 1 .. Len(s) - 1
  BY <1>1, LenProperties
<1>3. \A i \in 1 .. Len(s) - 1 : Tail(s)[i] = s[i + 1]
  BY HeadTailProperties
<1>4. \A i \in 1 .. Len(s) - 1 : i + 1 \in 1 .. Len(s) /\ i \in Nat
  BY <1>1
<1>. QED BY <1>1, <1>2, <1>3, <1>4

DoneFirst  == \A i, j \in DOMAIN mshr : i < j /\ mshr[j].done => mshr[i].done
TransFirst == \A i, j \in DOMAIN stash : i < j /\ stash[j].trans => stash[i].trans

LEMMA ReadyFirstIs ==
    ASSUME TypeOK
    PROVE  ReadyFirst <=> DoneFirst /\ TransFirst
<1>1. DOMAIN mshr = 1 .. Len(mshr) /\ DOMAIN stash = 1 .. Len(stash)
  BY LenProperties DEF TypeOK
<1>. QED BY <1>1 DEF ReadyFirst, DoneFirst, TransFirst

\* finish_packet: the register of the line goes behind those that have their data.
LEMMA PacketOrder ==
    ASSUME TypeOK, ReadyFirst, Registers, NEW l \in Lines, FinishPacket(l)
    PROVE  DoneFirst' /\ Registers'
<1>1. asked[l] > 0 /\ mshr' = Settled(l) /\ asked' = [asked EXCEPT ![l] = @ - 1]
  BY DEF FinishPacket
<1>2. PICK k, f \in DOMAIN mshr : MovesTo(l, k, f)
  BY <1>1, SettledIs
<1>3. /\ DOMAIN mshr = 1 .. Len(mshr) /\ Len(mshr) \in Nat
      /\ \A j \in DOMAIN mshr : mshr[j] \in Misses
      /\ asked \in [Lines -> Nat]
  BY LenProperties, ElementOfSeq DEF TypeOK
<1>. DEFINE d == [mshr[k] EXCEPT !.done = TRUE]
<1>4. d.line = l /\ d.done
  BY <1>2, <1>3 DEF MovesTo, Misses
<1>. HIDE DEF d
<1>5. mshr' = [j \in DOMAIN mshr |-> IF j = f THEN d ELSE IF j = k THEN mshr[f] ELSE mshr[j]]
  BY <1>1, <1>2 DEF MovesTo, d
<1>6. /\ DOMAIN mshr' = DOMAIN mshr
      /\ mshr'[f] = d
      /\ k # f => mshr'[k] = mshr[f]
      /\ \A j \in DOMAIN mshr : j # f /\ j # k => mshr'[j] = mshr[j]
  BY <1>5
<1>7. /\ mshr[k].line = l /\ ~mshr[k].done /\ ~mshr[f].done
      /\ \A j \in DOMAIN mshr : mshr[j].done <=> j < f
  BY <1>2 DEF MovesTo
<1>8. \A j \in DOMAIN mshr : mshr'[j].done <=> j < f \/ j = f
  BY <1>4, <1>6, <1>7
<1>9. DoneFirst'
  <2>1. SUFFICES ASSUME NEW i \in DOMAIN mshr, NEW j \in DOMAIN mshr, i < j, mshr'[j].done
                 PROVE  mshr'[i].done
    BY <1>6 DEF DoneFirst
  <2>2. i \in Nat /\ j \in Nat /\ f \in Nat
    BY <1>3
  <2>3. i < f \/ i = f
    BY <1>8, <2>1, <2>2
  <2>. QED BY <1>8, <2>3
<1>. DEFINE at(i) == IF i = f THEN k ELSE IF i = k THEN f ELSE i
<1>10. /\ \A i \in DOMAIN mshr : at(i) \in DOMAIN mshr /\ mshr'[i].line = mshr[at(i)].line
       /\ \A i, j \in DOMAIN mshr : at(i) = at(j) => i = j
  BY <1>4, <1>6, <1>7
<1>11. \A i, j \in DOMAIN mshr' : mshr'[i].line = mshr'[j].line => i = j
  <2>. HIDE DEF at
  <2>. QED BY <1>6, <1>10 DEF Registers
<1>12. ASSUME NEW x \in Lines
       PROVE  asked'[x] = IF \E i \in DOMAIN mshr' : mshr'[i].line = x /\ ~mshr'[i].done
                          THEN 1 ELSE 0
  <2>1. CASE x = l
    <3>1. asked[l] = 1
      BY <1>7 DEF Registers
    <3>2. asked'[l] = 0
      BY <1>1, <1>3, <3>1
    <3>3. \A i \in DOMAIN mshr' : mshr'[i].line = l => mshr'[i].done
      BY <1>4, <1>6, <1>11
    <3>. QED BY <2>1, <3>2, <3>3
  <2>2. CASE x # l
    <3>1. asked'[x] = asked[x]
      BY <1>1, <1>3, <2>2
    <3>2. ASSUME NEW i \in DOMAIN mshr, mshr[i].line = x, ~mshr[i].done
          PROVE  \E j \in DOMAIN mshr' : mshr'[j].line = x /\ ~mshr'[j].done
      <4>1. CASE i = f
        BY <1>6, <1>7, <2>2, <3>2, <4>1
      <4>2. CASE i # f
        BY <1>6, <1>7, <2>2, <3>2, <4>2
      <4>. QED BY <4>1, <4>2
    <3>3. ASSUME NEW i \in DOMAIN mshr, mshr'[i].line = x, ~mshr'[i].done
          PROVE  \E j \in DOMAIN mshr : mshr[j].line = x /\ ~mshr[j].done
      <4>1. i # f
        BY <1>4, <1>6, <3>3
      <4>2. CASE i = k
        BY <1>6, <1>7, <3>3, <4>1, <4>2
      <4>3. CASE i # k
        BY <1>6, <3>3, <4>1, <4>3
      <4>. QED BY <4>2, <4>3
    <3>. QED BY <1>6, <3>1, <3>2, <3>3 DEF Registers
  <2>. QED BY <2>1, <2>2
<1>. QED BY <1>9, <1>11, <1>12 DEF Registers

\* handle_fill: the register in front has its data.
LEMMA FillOrder ==
    ASSUME TypeOK, DoneFirst, Registers, FillFromMshr
    PROVE  DoneFirst' /\ Registers'
<1>1. /\ mshr \in Seq(Misses) /\ mshr # <<>> /\ Head(mshr).done /\ mshr' = Tail(mshr)
      /\ UNCHANGED asked
  BY DEF FillFromMshr, TypeOK
<1>2. /\ Len(mshr) \in Nat /\ DOMAIN mshr = 1 .. Len(mshr) /\ Head(mshr) = mshr[1]
      /\ Tail(mshr) \in Seq(Misses) /\ Len(Tail(mshr)) = Len(mshr) - 1
      /\ \A i \in 1 .. Len(mshr) - 1 : Tail(mshr)[i] = mshr[i + 1]
  BY <1>1, HeadIn, HeadTailProperties
<1>3. /\ DOMAIN mshr' = 1 .. Len(mshr) - 1
      /\ \A i \in DOMAIN mshr' : i + 1 \in DOMAIN mshr /\ mshr'[i] = mshr[i + 1] /\ i \in Nat
  BY <1>1, <1>2, LenProperties
<1>4. DoneFirst'
  <2>1. SUFFICES ASSUME NEW i \in DOMAIN mshr', NEW j \in DOMAIN mshr', i < j, mshr'[j].done
                 PROVE  mshr'[i].done
    BY DEF DoneFirst
  <2>2. i + 1 < j + 1
    BY <1>3, <2>1
  <2>. QED BY <1>3, <2>1, <2>2 DEF DoneFirst
<1>5. ASSUME NEW i \in DOMAIN mshr', NEW j \in DOMAIN mshr', mshr'[i].line = mshr'[j].line
      PROVE  i = j
  <2>1. i + 1 = j + 1
    BY <1>3, <1>5 DEF Registers
  <2>. QED BY <1>3, <2>1
<1>6. ASSUME NEW x
      PROVE  (\E i \in DOMAIN mshr' : mshr'[i].line = x /\ ~mshr'[i].done)
                <=> \E i \in DOMAIN mshr : mshr[i].line = x /\ ~mshr[i].done
  <2>1. ASSUME NEW i \in DOMAIN mshr, mshr[i].line = x, ~mshr[i].done
        PROVE  \E j \in DOMAIN mshr' : mshr'[j].line = x /\ ~mshr'[j].done
    <3>1. i # 1
      BY <1>1, <1>2, <2>1
    <3>2. i - 1 \in DOMAIN mshr' /\ (i - 1) + 1 = i
      BY <1>2, <1>3, <3>1
    <3>. QED BY <1>3, <2>1, <3>2
  <2>. QED BY <1>3, <2>1
<1>. QED BY <1>1, <1>4, <1>5, <1>6 DEF Registers

\* handle_miss: a line that is on its way gets no second register.
LEMMA MissOrder ==
    ASSUME TypeOK, DoneFirst, Registers, NEW e \in Lookups, MergeMiss(e) \/ AllocateMiss(e)
    PROVE  DoneFirst' /\ Registers'
<1>1. /\ mshr \in Seq(Misses) /\ Len(mshr) \in Nat /\ DOMAIN mshr = 1 .. Len(mshr)
      /\ e.line \in Lines /\ asked \in [Lines -> Nat]
  BY LenProperties DEF TypeOK, Lookups
<1>2. CASE MergeMiss(e)
  <2>. DEFINE k == First(MshrWith(e.line))
  <2>1. k \in DOMAIN mshr /\ mshr[k].line = e.line
    <3>1. MshrWith(e.line) \in SUBSET Nat /\ MshrWith(e.line) # {}
      BY <1>1, <1>2 DEF MergeMiss, MshrWith
    <3>2. First(MshrWith(e.line)) \in MshrWith(e.line)
      BY <3>1, FirstIs
    <3>. QED BY <1>1, <3>2 DEF MshrWith
  <2>2. mshr' = [mshr EXCEPT ![k] = Merged(mshr[k], MshrEntry(e))] /\ UNCHANGED asked
    BY <1>2 DEF MergeMiss
  <2>. HIDE DEF k
  <2>3. mshr[k] \in Misses
    BY <1>1, <2>1, ElementOfSeq
  <2>4. /\ Merged(mshr[k], MshrEntry(e)).line = e.line
        /\ Merged(mshr[k], MshrEntry(e)).done = mshr[k].done
    BY <2>1, <2>3 DEF Merged, MshrEntry, Misses
  <2>5. /\ DOMAIN mshr' = DOMAIN mshr
        /\ \A i \in DOMAIN mshr : mshr'[i].line = mshr[i].line /\ mshr'[i].done = mshr[i].done
    BY <2>1, <2>2, <2>4
  <2>. QED BY <2>2, <2>5 DEF DoneFirst, Registers
<1>3. CASE AllocateMiss(e) /\ e.local /\ e.skip
  <2>1. UNCHANGED <<mshr, asked>>
    BY <1>3 DEF AllocateMiss
  <2>. QED BY <2>1 DEF DoneFirst, Registers
<1>4. CASE AllocateMiss(e) /\ ~(e.local /\ e.skip)
  <2>. DEFINE m == MshrEntry(e)
              n == Len(mshr) + 1
  <2>1. /\ mshr' = Append(mshr, m) /\ asked' = [asked EXCEPT ![e.line] = @ + 1]
        /\ MshrWith(e.line) = {}
    BY <1>4 DEF AllocateMiss
  <2>2. m.line = e.line /\ ~m.done /\ m \in Misses
    BY MissTypes DEF MshrEntry
  <2>. HIDE DEF m
  <2>3. /\ DOMAIN mshr' = 1 .. n /\ mshr'[n] = m
        /\ \A i \in DOMAIN mshr : mshr'[i] = mshr[i]
    BY <1>1, <2>1, <2>2, AppendProperties, LenProperties
  <2>4. \A i \in DOMAIN mshr : mshr[i].line # e.line
    BY <1>1, <2>1 DEF MshrWith
  <2>5. /\ \A i \in DOMAIN mshr' : i \in DOMAIN mshr \/ i = n
        /\ \A i \in DOMAIN mshr : i \in DOMAIN mshr' /\ i < n /\ i \in Nat
        /\ n \in DOMAIN mshr' /\ n \in Nat /\ n \notin DOMAIN mshr
    BY <1>1, <2>3
  <2>. HIDE DEF n
  <2>6. DoneFirst'
    <3>1. SUFFICES ASSUME NEW i \in DOMAIN mshr', NEW j \in DOMAIN mshr', i < j, mshr'[j].done
                   PROVE  mshr'[i].done
      BY DEF DoneFirst
    <3>2. j # n
      BY <2>2, <2>3, <3>1
    <3>3. j \in DOMAIN mshr /\ i # n
      <4>1. j \in DOMAIN mshr
        BY <2>5, <3>2
      <4>2. j < n /\ j \in Nat /\ n \in Nat
        BY <2>5, <4>1
      <4>3. i # n
        BY <3>1, <4>2
      <4>. QED BY <4>1, <4>3
    <3>. QED BY <2>3, <2>5, <3>1, <3>3 DEF DoneFirst
  <2>7. \A i, j \in DOMAIN mshr' : mshr'[i].line = mshr'[j].line => i = j
    BY <2>2, <2>3, <2>4, <2>5 DEF Registers
  <2>8. ASSUME NEW x \in Lines
        PROVE  asked'[x] = IF \E i \in DOMAIN mshr' : mshr'[i].line = x /\ ~mshr'[i].done
                           THEN 1 ELSE 0
    <3>1. CASE x = e.line
      <4>1. asked[x] = 0
        BY <2>4, <3>1 DEF Registers
      <4>2. asked'[x] = 1
        BY <1>1, <2>1, <3>1, <4>1
      <4>. QED BY <2>2, <2>3, <2>5, <3>1, <4>2
    <3>2. CASE x # e.line
      <4>1. asked'[x] = asked[x]
        BY <1>1, <2>1, <3>2
      <4>2. \A i \in DOMAIN mshr' : mshr'[i].line = x => i \in DOMAIN mshr
        BY <2>2, <2>3, <2>5, <3>2
      <4>3. (\E i \in DOMAIN mshr' : mshr'[i].line = x /\ ~mshr'[i].done)
               <=> \E i \in DOMAIN mshr : mshr[i].line = x /\ ~mshr[i].done
        BY <2>3, <2>5, <4>2
      <4>. QED BY <4>1, <4>3 DEF Registers
    <3>. QED BY <3>1, <3>2
  <2>. QED BY <2>6, <2>7, <2>8 DEF Registers
<1>. QED BY <1>2, <1>3, <1>4

\* finish_translation moves the translated lookups to the front; a lookup that
\* joins the stash is not translated.
LEMMA StashOrder ==
    ASSUME TypeOK, TransFirst,
           \/ UNCHANGED stash
           \/ \E l \in Lines : FinishTranslation(l)
           \/ StartStashed \/ IssueTranslation \/ StashLate
    PROVE  TransFirst'
<1>1. stash \in Seq(Lookups) /\ Len(stash) \in Nat /\ DOMAIN stash = 1 .. Len(stash)
  BY LenProperties DEF TypeOK
<1>2. CASE UNCHANGED stash
  BY <1>2 DEF TransFirst
<1>3. ASSUME NEW l \in Lines, FinishTranslation(l) PROVE TransFirst'
  BY <1>1, <1>3, RestartedIs DEF FinishTranslation, TransFirst
<1>4. CASE StartStashed
  <2>1. stash # <<>> /\ stash' = Tail(stash)
    BY <1>4 DEF StartStashed, StashReady
  <2>3. \A i \in DOMAIN stash' : i + 1 \in DOMAIN stash /\ stash'[i] = stash[i + 1] /\ i \in Nat
    BY <1>1, <2>1, TailAt
  <2>4. SUFFICES ASSUME NEW i \in DOMAIN stash', NEW j \in DOMAIN stash', i < j, stash'[j].trans
                 PROVE  stash'[i].trans
    BY DEF TransFirst
  <2>5. i + 1 < j + 1
    BY <2>3, <2>4
  <2>. QED BY <2>3, <2>4, <2>5 DEF TransFirst
<1>5. CASE IssueTranslation
  <2>1. UNCHANGED stash \/ \E i : stash' = [stash EXCEPT ![i].sent = TRUE]
    BY <1>5 DEF IssueTranslation
  <2>2. ASSUME NEW i, stash' = [stash EXCEPT ![i].sent = TRUE] PROVE TransFirst'
    <3>1. \A j \in DOMAIN stash : stash[j] \in Lookups
      BY <1>1, ElementOfSeq
    <3>2. DOMAIN stash' = DOMAIN stash /\ \A j \in DOMAIN stash : stash'[j].trans = stash[j].trans
      BY <2>2, <3>1 DEF Lookups
    <3>. QED BY <3>2 DEF TransFirst
  <2>. QED BY <1>2, <2>1, <2>2
<1>6. CASE StashLate
  <2>. DEFINE late == {i \in 1 .. Len(tagCheck) : ~tagCheck[i].trans}
              e == tagCheck[First(late)]
              n == Len(stash) + 1
  <2>1. e \in Lookups /\ ~e.trans
    <3>1. Len(tagCheck) \in Nat /\ \A i \in 1 .. Len(tagCheck) : tagCheck[i] \in Lookups
      BY LenProperties, ElementOfSeq DEF TypeOK
    <3>2. late \in SUBSET Nat /\ late # {}
      BY <1>6, <3>1 DEF StashLate
    <3>3. First(late) \in late
      <4>. HIDE DEF late
      <4>. QED BY <3>2, FirstIs
    <3>. QED BY <3>1, <3>3
  <2>2. stash' = Append(stash, e)
    BY <1>6 DEF StashLate
  <2>. HIDE DEF e
  <2>3. /\ DOMAIN stash' = 1 .. n /\ stash'[n] = e
        /\ \A i \in DOMAIN stash : stash'[i] = stash[i]
    <3>1. Append(stash, e) \in Seq(Lookups) /\ Len(Append(stash, e)) = Len(stash) + 1
      BY <1>1, <2>1, AppendProperties
    <3>2. DOMAIN Append(stash, e) = 1 .. Len(stash) + 1
      BY <3>1, LenProperties
    <3>3. /\ Append(stash, e)[Len(stash) + 1] = e
          /\ \A i \in 1 .. Len(stash) : Append(stash, e)[i] = stash[i]
      BY <1>1, <2>1, AppendProperties
    <3>. QED BY <1>1, <2>2, <3>2, <3>3
  <2>4. SUFFICES ASSUME NEW i \in DOMAIN stash', NEW j \in DOMAIN stash', i < j, stash'[j].trans
                 PROVE  stash'[i].trans
    BY DEF TransFirst
  <2>5. j # n
    BY <2>1, <2>3, <2>4
  <2>6. j \in DOMAIN stash /\ i \in DOMAIN stash
    BY <1>1, <2>3, <2>4, <2>5
  <2>. QED BY <2>3, <2>4, <2>6 DEF TransFirst
<1>. QED BY <1>2, <1>3, <1>4, <1>5, <1>6

\* The actions that touch the miss registers ...
LEMMA MissActions ==
    ASSUME [Next]_vars
    PROVE  \/ UNCHANGED <<mshr, asked>>
           \/ \E l \in Lines : FinishPacket(l)
           \/ FillFromMshr
           \/ CheckTag /\ (MergeMiss(Head(tagCheck)) \/ AllocateMiss(Head(tagCheck)))
<1>1. CASE Environment
  BY <1>1, ZenonT(60) DEF Environment, AddRead, AddWrite, AddPrefetch, WalkRead, PrefetchLine, Arrive, misses
<1>2. CASE Deliver
  BY <1>2 DEF Deliver, TakeAnswers, FinishTranslation, misses
<1>3. CASE Operate
  BY <1>3 DEF Operate, CheckCollisions, FillFromWrites, StartStashed, StartPrefetch,
              StartQueued, IssueTranslation, StashLate, CheckTag, Hit, WriteMiss, misses
<1>. QED BY <1>1, <1>2, <1>3 DEF Next, vars, misses

\* ... and the stash.
LEMMA StashActions ==
    ASSUME [Next]_vars
    PROVE  \/ UNCHANGED stash
           \/ \E l \in Lines : FinishTranslation(l)
           \/ StartStashed \/ IssueTranslation \/ StashLate
<1>1. CASE Environment
  BY <1>1 DEF Environment, AddRead, AddWrite, AddPrefetch, WalkRead, PrefetchLine, Arrive, lookups
<1>2. CASE Deliver
  BY <1>2 DEF Deliver, TakeAnswers, FinishPacket, lookups
<1>3. CASE Operate
  BY <1>3 DEF Operate, CheckCollisions, FillFromMshr, FillFromWrites, StartPrefetch,
              StartQueued, CheckTag, lookups
<1>. QED BY <1>1, <1>2, <1>3 DEF Next, vars, lookups

LEMMA OrderKept ==
    ASSUME TypeOK, ReadyFirst, Registers, [Next]_vars
    PROVE  ReadyFirst' /\ Registers'
<1>1. DoneFirst /\ TransFirst
  BY ReadyFirstIs
<1>2. DoneFirst' /\ Registers'
  <2>1. CASE UNCHANGED <<mshr, asked>>
    BY <1>1, <2>1 DEF DoneFirst, Registers
  <2>2. ASSUME NEW l \in Lines, FinishPacket(l) PROVE DoneFirst' /\ Registers'
    BY <2>2, PacketOrder
  <2>3. CASE FillFromMshr
    BY <1>1, <2>3, FillOrder
  <2>4. CASE CheckTag /\ (MergeMiss(Head(tagCheck)) \/ AllocateMiss(Head(tagCheck)))
    <3>1. Head(tagCheck) \in Lookups
      BY <2>4, HeadIn DEF CheckTag, TypeOK
    <3>. QED BY <1>1, <2>4, <3>1, MissOrder
  <2>. QED BY <2>1, <2>2, <2>3, <2>4, MissActions
<1>3. TransFirst'
  BY <1>1, StashActions, StashOrder
<1>4. (ReadyFirst <=> DoneFirst /\ TransFirst)'
  BY TypesKept, ReadyFirstIs, PTL
<1>. QED BY <1>2, <1>3, <1>4
-----------------------------------------------------------------------------
(* How the lookups move *)

\* The same lookup, for those who wait for it.
SameEntry(x, e) == x.deps = e.deps /\ x.type = e.type /\ x.ret = e.ret /\ x.local = e.local

MovesStash(f) ==
    /\ \A i \in DOMAIN stash : f[i] \in DOMAIN stash' /\ SameEntry(stash'[f[i]], stash[i])
    /\ \A n \in DOMAIN stash' :
          \E i \in DOMAIN stash : f[i] = n /\ SameEntry(stash'[n], stash[i])

LEMMA TranslationMoves ==
    ASSUME TypeOK, IssueTranslation \/ \E l \in Lines : FinishTranslation(l)
    PROVE  /\ DOMAIN tagCheck' = DOMAIN tagCheck
           /\ \A i \in DOMAIN tagCheck : SameEntry(tagCheck'[i], tagCheck[i])
           /\ \E f : MovesStash(f)
<1>1. /\ stash \in Seq(Lookups)
      /\ \A i \in DOMAIN tagCheck : tagCheck[i] \in Lookups
      /\ \A i \in DOMAIN stash : stash[i] \in Lookups
  BY LenProperties, ElementOfSeq DEF TypeOK
<1>2. ASSUME NEW s, NEW i, \A j \in DOMAIN s : s[j] \in Lookups
      PROVE  /\ DOMAIN [s EXCEPT ![i].sent = TRUE] = DOMAIN s
             /\ \A j \in DOMAIN s : SameEntry([s EXCEPT ![i].sent = TRUE][j], s[j])
  <2>1. ASSUME NEW j \in DOMAIN s PROVE SameEntry([s EXCEPT ![i].sent = TRUE][j], s[j])
    <3>1. s[j] \in Lookups
      BY <1>2
    <3>2. [s EXCEPT ![i].sent = TRUE][j] = IF j = i THEN [s[i] EXCEPT !.sent = TRUE] ELSE s[j]
      OBVIOUS
    <3>. QED BY <3>1, <3>2 DEF SameEntry, Lookups
  <2>. QED BY <2>1
<1>3. \A e : SameEntry(e, e)
  BY DEF SameEntry
<1>4. ASSUME DOMAIN stash' = DOMAIN stash, \A i \in DOMAIN stash : SameEntry(stash'[i], stash[i])
      PROVE  \E f : MovesStash(f)
  <2>1. PICK f : f = [i \in DOMAIN stash |-> i]
    OBVIOUS
  <2>. QED BY <1>4, <2>1 DEF MovesStash
<1>5. CASE IssueTranslation
  <2>1. ASSUME NEW i, tagCheck' = [tagCheck EXCEPT ![i].sent = TRUE], UNCHANGED stash
        PROVE  /\ DOMAIN tagCheck' = DOMAIN tagCheck
               /\ \A j \in DOMAIN tagCheck : SameEntry(tagCheck'[j], tagCheck[j])
               /\ DOMAIN stash' = DOMAIN stash
               /\ \A j \in DOMAIN stash : SameEntry(stash'[j], stash[j])
    BY <1>1, <1>2, <1>3, <2>1
  <2>2. ASSUME NEW i, stash' = [stash EXCEPT ![i].sent = TRUE], UNCHANGED tagCheck
        PROVE  /\ DOMAIN tagCheck' = DOMAIN tagCheck
               /\ \A j \in DOMAIN tagCheck : SameEntry(tagCheck'[j], tagCheck[j])
               /\ DOMAIN stash' = DOMAIN stash
               /\ \A j \in DOMAIN stash : SameEntry(stash'[j], stash[j])
    BY <1>1, <1>2, <1>3, <2>2
  <2>3. \/ \E i : tagCheck' = [tagCheck EXCEPT ![i].sent = TRUE] /\ UNCHANGED stash
        \/ \E i : stash' = [stash EXCEPT ![i].sent = TRUE] /\ UNCHANGED tagCheck
    BY <1>5 DEF IssueTranslation
  <2>. QED BY <1>4, <2>1, <2>2, <2>3
<1>6. ASSUME NEW l \in Lines, FinishTranslation(l)
      PROVE  /\ DOMAIN tagCheck' = DOMAIN tagCheck
             /\ \A i \in DOMAIN tagCheck : SameEntry(tagCheck'[i], tagCheck[i])
             /\ \E f : MovesStash(f)
  <2>1. \A e \in Lookups : SameEntry(MarkTranslated(e, l), e)
    BY DEF MarkTranslated, Lookups, SameEntry
  <2>2. /\ DOMAIN tagCheck' = DOMAIN tagCheck
        /\ \A i \in DOMAIN tagCheck : SameEntry(tagCheck'[i], tagCheck[i])
    BY <1>1, <1>6, <2>1 DEF FinishTranslation, MarkedLookups
  <2>3. PICK f : /\ \A i \in DOMAIN stash : f[i] \in DOMAIN Restarted(l)
                                            /\ Restarted(l)[f[i]] = MarkTranslated(stash[i], l)
                 /\ \A n \in DOMAIN Restarted(l) : \E i \in DOMAIN stash :
                       f[i] = n /\ Restarted(l)[n] = MarkTranslated(stash[i], l)
    BY <1>1, RestartedIs
  <2>4. MovesStash(f)
    BY <1>1, <1>6, <2>1, <2>3 DEF FinishTranslation, MovesStash
  <2>. QED BY <2>2, <2>4
<1>. QED BY <1>5, <1>6

\* The first lookup that is not translated leaves for the stash.
LEMMA LateIs ==
    ASSUME TypeOK, StashLate
    PROVE  \E i \in 1 .. Len(tagCheck) :
              /\ stash' = Append(stash, tagCheck[i]) /\ tagCheck' = RemoveAt(tagCheck, i)
              /\ tagCheck[i] \in Lookups
<1>. DEFINE late == {i \in 1 .. Len(tagCheck) : ~tagCheck[i].trans}
<1>1. late \in SUBSET Nat /\ late # {} /\ late \subseteq 1 .. Len(tagCheck)
  BY DEF StashLate
<1>2. First(late) \in 1 .. Len(tagCheck)
  <2>. HIDE DEF late
  <2>. QED BY <1>1, FirstIs
<1>3. tagCheck[First(late)] \in Lookups
  <2>. HIDE DEF late
  <2>. QED BY <1>2, ElementOfSeq DEF TypeOK
<1>. QED BY <1>2, <1>3 DEF StashLate

\* Every lookup comes from where it says.
LookupsFrom(e) ==
    \/ e \in Range(internalPQ) \cup Range(tagCheck) \cup Range(stash)
    \/ \E x \in Range(tagCheck) \cup Range(stash) : SameEntry(e, x)
    \/ ~e.local

LEMMA LookupsFromOthers ==
    ASSUME TypeOK, Operate \/ (\E l \in Lines : FinishTranslation(l))
    PROVE  /\ \A e \in Range(tagCheck') \cup Range(stash') : LookupsFrom(e)
           /\ Range(internalPQ') \subseteq Range(internalPQ)
<1>0. /\ tagCheck \in Seq(Lookups) /\ stash \in Seq(Lookups) /\ internalPQ \in Seq(Lookups)
      /\ wq \in [Uppers -> Seq(Requests)] /\ rq \in [Uppers -> Seq(Requests)]
      /\ pq \in [Uppers -> Seq(Requests)]
  BY DEF TypeOK
<1>1. CASE UNCHANGED <<tagCheck, stash, internalPQ>>
  BY <1>1 DEF LookupsFrom
<1>2. CASE IssueTranslation \/ \E l \in Lines : FinishTranslation(l)
  <2>1. UNCHANGED internalPQ
    BY <1>2 DEF IssueTranslation, FinishTranslation, queues
  <2>2. \A e \in Range(tagCheck') : \E x \in Range(tagCheck) : SameEntry(e, x)
    BY <1>2, TranslationMoves DEF Range
  <2>3. \A e \in Range(stash') : \E x \in Range(stash) : SameEntry(e, x)
    BY <1>2, TranslationMoves DEF Range, MovesStash
  <2>. QED BY <2>1, <2>2, <2>3 DEF LookupsFrom
<1>3. CASE StartStashed
  <2>1. /\ stash # <<>> /\ tagCheck' = Append(tagCheck, Head(stash)) /\ stash' = Tail(stash)
        /\ UNCHANGED internalPQ
    BY <1>3 DEF StartStashed, StashReady, queues
  <2>2. /\ Range(tagCheck') = Range(tagCheck) \cup {Head(stash)}
        /\ Range(stash') \subseteq Range(stash) /\ Head(stash) \in Range(stash)
    BY <1>0, <2>1, RangeIs, HeadIn
  <2>. QED BY <2>1, <2>2 DEF LookupsFrom
<1>4. CASE StartPrefetch
  <2>1. /\ internalPQ # <<>> /\ tagCheck' = Append(tagCheck, Head(internalPQ))
        /\ internalPQ' = Tail(internalPQ) /\ UNCHANGED stash
    BY <1>4 DEF StartPrefetch, CanStart
  <2>2. /\ Range(tagCheck') = Range(tagCheck) \cup {Head(internalPQ)}
        /\ Range(internalPQ') \subseteq Range(internalPQ) /\ Head(internalPQ) \in Range(internalPQ)
    BY <1>0, <2>1, RangeIs, HeadIn
  <2>. QED BY <2>1, <2>2 DEF LookupsFrom
<1>5. ASSUME NEW u \in Uppers, StartQueued(u)
      PROVE  /\ \A e \in Range(tagCheck') \cup Range(stash') : LookupsFrom(e)
             /\ Range(internalPQ') \subseteq Range(internalPQ)
  <2>1. UNCHANGED <<stash, internalPQ>>
    BY <1>5 DEF StartQueued
  <2>2. PICK p \in Requests : tagCheck' = StartEntry(p, u)
    BY <1>0, <1>5, HeadIn DEF StartQueued, CanStart
  <2>. DEFINE ret == IF p.resp THEN {u} ELSE {}
              e == TagEntry(p, ret, FALSE, FALSE)
  <2>3. e \in Lookups /\ ~e.local
    <3>1. ret \in SUBSET Uppers
      OBVIOUS
    <3>. HIDE DEF ret
    <3>2. ~e.local
      BY DEF TagEntry
    <3>. QED BY <3>1, <3>2, EntryTypes
  <2>4. tagCheck' = Append(tagCheck, e)
    BY <2>2 DEF StartEntry
  <2>. HIDE DEF e
  <2>5. Range(tagCheck') = Range(tagCheck) \cup {e}
    BY <1>0, <2>3, <2>4, RangeIs
  <2>. QED BY <2>1, <2>3, <2>5 DEF LookupsFrom
<1>6. CASE StashLate
  <2>1. PICK i \in 1 .. Len(tagCheck) :
           /\ stash' = Append(stash, tagCheck[i]) /\ tagCheck' = RemoveAt(tagCheck, i)
           /\ tagCheck[i] \in Lookups
    BY <1>6, LateIs
  <2>2. /\ Range(stash') = Range(stash) \cup {tagCheck[i]} /\ tagCheck[i] \in Range(tagCheck)
        /\ Range(tagCheck') \subseteq Range(tagCheck)
    BY <1>0, <2>1, RangeIs
  <2>3. UNCHANGED internalPQ
    BY <1>6 DEF StashLate, queues
  <2>. QED BY <2>2, <2>3 DEF LookupsFrom
<1>7. CASE CheckTag
  <2>1. tagCheck # <<>> /\ tagCheck' = Tail(tagCheck) /\ UNCHANGED <<stash, internalPQ>>
    BY <1>7 DEF CheckTag, queues
  <2>2. Range(tagCheck') \subseteq Range(tagCheck)
    BY <1>0, <2>1, RangeIs
  <2>. QED BY <2>1, <2>2 DEF LookupsFrom
<1>8. CASE CheckCollisions \/ FillFromMshr \/ FillFromWrites
  <2>1. UNCHANGED <<tagCheck, stash, internalPQ>>
    BY <1>8 DEF CheckCollisions, FillFromMshr, FillFromWrites, queues, lookups
  <2>. QED BY <1>1, <2>1
<1>. QED BY <1>2, <1>3, <1>4, <1>5, <1>6, <1>7, <1>8 DEF Operate
-----------------------------------------------------------------------------
(* Kinds of requests *)

\* Only write queues hold writes.
LEMMA WriteQueues ==
    ASSUME TypeOK, Kinds, [Next]_vars
    PROVE  \A u \in Uppers : \A i \in DOMAIN wq'[u] : wq'[u][i].type = "WRITE"
<1>0. /\ wq \in [Uppers -> Seq(Requests)] /\ cache.offset \in BOOLEAN
      /\ \A u \in Uppers : \A i \in DOMAIN wq[u] : wq[u][i].type = "WRITE"
  BY CacheIs DEF TypeOK, Kinds
<1>1. CASE UNCHANGED wq
  BY <1>0, <1>1
<1>2. ASSUME NEW u \in Uppers, NEW l \in Lines, NEW w \in cache.words, AddWrite(u, l, w)
      PROVE  \A v \in Uppers : \A i \in DOMAIN wq'[v] : wq'[v][i].type = "WRITE"
  <2>. DEFINE p == RequestOf(l, w, "WRITE", FALSE, u \in cache.physical, {issued + 1})
  <2>1. wq' = [wq EXCEPT ![u] = Append(wq[u], p)]
    BY <1>2 DEF AddWrite
  <2>2. p.type = "WRITE"
    BY DEF RequestOf
  <2>. HIDE DEF p
  <2>3. \A i \in DOMAIN Append(wq[u], p) : \/ i \in DOMAIN wq[u] /\ Append(wq[u], p)[i] = wq[u][i]
                                           \/ Append(wq[u], p)[i] = p
    <3>1. wq[u] \in Seq(Requests \cup {p})
      <4>1. Seq(Requests) \subseteq Seq(Requests \cup {p})
        BY SeqMonotonic
      <4>. QED BY <1>0, <4>1
    <3>. QED BY <3>1, AppendProperties, LenProperties
  <2>. QED BY <1>0, <2>1, <2>2, <2>3
<1>3. CASE CheckCollisions
  <2>1. ASSUME NEW u \in Uppers, NEW i \in DOMAIN wq'[u] PROVE wq'[u][i].type = "WRITE"
    <3>1. wq'[u] = Checked(wq[u], 1 .. Len(wq[u]), cache.offset) /\ wq[u] \in Seq(Requests)
      BY <1>0, <1>3 DEF CheckCollisions, CheckedWrites
    <3>2. PICK f : Collects(wq[u], 1 .. Len(wq[u]), wq'[u], f)
      BY <1>0, <3>1, CheckedIs
    <3>3. \E j \in 1 .. Len(wq[u]) : wq'[u][i].type = wq[u][j].type
      BY <3>2 DEF Collects
    <3>. QED BY <1>0, <3>1, <3>3, LenProperties
  <2>. QED BY <2>1
<1>4. ASSUME NEW u \in Uppers, StartQueued(u)
      PROVE  \A v \in Uppers : \A i \in DOMAIN wq'[v] : wq'[v][i].type = "WRITE"
  <2>1. CASE CanStart(wq[u]) /\ wq' = Take(wq, u)
    <3>1. wq[u] \in Seq(Requests) /\ wq[u] # <<>>
      BY <1>0, <2>1 DEF CanStart
    <3>2. \A i \in DOMAIN Tail(wq[u]) : i + 1 \in DOMAIN wq[u] /\ Tail(wq[u])[i] = wq[u][i + 1]
      BY <3>1, TailAt
    <3>3. wq' = [wq EXCEPT ![u] = Tail(wq[u])]
      BY <2>1 DEF Take
    <3>. QED BY <1>0, <3>2, <3>3
  <2>. QED BY <1>1, <1>4, <2>1 DEF StartQueued
<1>5. \/ UNCHANGED wq \/ CheckCollisions
      \/ \E u \in Uppers, l \in Lines, w \in cache.words : AddWrite(u, l, w)
      \/ \E u \in Uppers : StartQueued(u)
  <2>1. CASE Environment
    BY <2>1 DEF Environment, AddRead, AddPrefetch, WalkRead, PrefetchLine
  <2>2. CASE Deliver
    BY <2>2 DEF Deliver, TakeAnswers, FinishTranslation, FinishPacket, queues
  <2>3. CASE Operate
    BY <2>3 DEF Operate, FillFromMshr, FillFromWrites, StartStashed, StartPrefetch,
                IssueTranslation, StashLate, CheckTag, queues
  <2>. QED BY <2>1, <2>2, <2>3 DEF Next, vars, queues
<1>. QED BY <1>1, <1>2, <1>3, <1>4, <1>5

\* Where writes are write-backs, none waits in a miss register.
LEMMA WriteMisses ==
    ASSUME TypeOK, ReadyFirst, Registers, Kinds, [Next]_vars, ~cache.offset
    PROVE  \A i \in DOMAIN mshr' : mshr'[i].type # "WRITE"
<1>0. /\ mshr \in Seq(Misses) /\ Len(mshr) \in Nat /\ DOMAIN mshr = 1 .. Len(mshr)
      /\ \A i \in DOMAIN mshr : mshr[i].type # "WRITE" /\ mshr[i] \in Misses
  BY LenProperties, ElementOfSeq DEF TypeOK, Kinds
<1>1. CASE UNCHANGED mshr
  BY <1>0, <1>1
<1>2. ASSUME NEW l \in Lines, FinishPacket(l) PROVE \A i \in DOMAIN mshr' : mshr'[i].type # "WRITE"
  <2>1. asked[l] > 0 /\ mshr' = Settled(l)
    BY <1>2 DEF FinishPacket
  <2>2. PICK k, f \in DOMAIN mshr : MovesTo(l, k, f)
    BY <2>1, SettledIs
  <2>3. [mshr[k] EXCEPT !.done = TRUE].type # "WRITE"
    BY <1>0 DEF Misses
  <2>. QED BY <1>0, <2>1, <2>2, <2>3 DEF MovesTo
<1>3. CASE FillFromMshr
  <2>1. mshr' = Tail(mshr) /\ mshr # <<>>
    BY <1>3 DEF FillFromMshr
  <2>. QED BY <1>0, <2>1, TailAt
<1>4. ASSUME NEW e \in Lookups, MergeMiss(e) \/ AllocateMiss(e)
      PROVE  \A i \in DOMAIN mshr' : mshr'[i].type # "WRITE"
  <2>1. MshrEntry(e) \in Misses /\ MshrEntry(e).type # "WRITE"
    BY <1>4, MissTypes DEF MergeMiss, AllocateMiss, IsReadMiss, MshrEntry
  <2>2. \A m \in Misses : m.type # "WRITE" => Merged(m, MshrEntry(e)).type # "WRITE"
    BY <2>1 DEF Merged, Misses
  <2>3. CASE MergeMiss(e)
    BY <1>0, <2>2, <2>3 DEF MergeMiss
  <2>4. CASE AllocateMiss(e)
    <3>1. \A i \in DOMAIN Append(mshr, MshrEntry(e)) :
             \/ i \in DOMAIN mshr /\ Append(mshr, MshrEntry(e))[i] = mshr[i]
             \/ Append(mshr, MshrEntry(e))[i] = MshrEntry(e)
      BY <1>0, <2>1, AppendProperties, LenProperties
    <3>2. mshr' = mshr \/ mshr' = Append(mshr, MshrEntry(e))
      BY <2>4 DEF AllocateMiss
    <3>. QED BY <1>0, <2>1, <3>1, <3>2
  <2>. QED BY <1>4, <2>3, <2>4
<1>. QED BY <1>1, <1>2, <1>3, <1>4, MissActions, HeadIn DEF CheckTag, TypeOK

\* The prefetches of the cache itself are local, and what is local carries nothing.
LEMMA LocalPrefetches ==
    ASSUME TypeOK, Kinds, [Next]_vars
    PROVE  /\ \A i \in DOMAIN internalPQ' : internalPQ'[i].local
           /\ \A e \in Range(internalPQ') \cup Range(tagCheck') \cup Range(stash') :
                 e.local => e.deps = {}
<1>0. /\ internalPQ \in Seq(Lookups)
      /\ \A e \in Range(internalPQ) : e.local
      /\ \A e \in Range(internalPQ) \cup Range(tagCheck) \cup Range(stash) : e.local => e.deps = {}
  BY DEF TypeOK, Kinds, Range
<1>. DEFINE G == /\ \A e \in Range(internalPQ') : e.local
                 /\ \A e \in Range(internalPQ') \cup Range(tagCheck') \cup Range(stash') :
                       e.local => e.deps = {}
<1>. SUFFICES G
  BY DEF Range
<1>1. CASE UNCHANGED <<internalPQ, tagCheck, stash>>
  BY <1>0, <1>1
<1>2. CASE Operate \/ \E l \in Lines : FinishTranslation(l)
  <2>1. \A e : LookupsFrom(e) /\ e.local => e.deps = {}
    BY <1>0 DEF LookupsFrom, SameEntry
  <2>. QED BY <1>0, <1>2, <2>1, LookupsFromOthers
<1>3. ASSUME NEW l \in Lines, NEW fillThis \in BOOLEAN, PrefetchLine(l, fillThis) PROVE G
  <2>. DEFINE p == RequestOf(l, 0, "PREFETCH", FALSE, ~cache.virtual, {})
              e == TagEntry(p, {}, TRUE, ~fillThis)
  <2>1. e \in Lookups /\ e.local /\ e.deps = {}
    BY DEF RequestOf, TagEntry, Lookups, Types
  <2>2. internalPQ' = Append(internalPQ, e) /\ UNCHANGED <<tagCheck, stash>>
    BY <1>3 DEF PrefetchLine, lookups
  <2>. HIDE DEF e
  <2>3. Range(internalPQ') = Range(internalPQ) \cup {e}
    BY <1>0, <2>1, <2>2, RangeIs
  <2>. QED BY <1>0, <2>1, <2>2, <2>3
<1>4. \/ UNCHANGED <<internalPQ, tagCheck, stash>> \/ Operate
      \/ \E l \in Lines : FinishTranslation(l)
      \/ \E l \in Lines, fillThis \in BOOLEAN : PrefetchLine(l, fillThis)
  <2>1. CASE Environment
    BY <2>1, ZenonT(60) DEF Environment, AddRead, AddWrite, AddPrefetch, WalkRead, Arrive, lookups
  <2>2. CASE Deliver
    BY <2>2 DEF Deliver, TakeAnswers, FinishPacket, queues, lookups
  <2>. QED BY <2>1, <2>2 DEF Next, vars, queues, lookups
<1>. QED BY <1>1, <1>2, <1>3, <1>4

\* A way with a line is valid.
LEMMA WaysFilled ==
    ASSUME TypeOK, Kinds, [Next]_vars
    PROVE  \A w \in Ways : block'[w].line \in Lines => block'[w].valid
<1>0. block \in [Ways -> Blocks] /\ \A w \in Ways : block[w].line \in Lines => block[w].valid
  BY DEF TypeOK, Kinds
<1>1. CASE UNCHANGED block
  BY <1>0, <1>1
<1>2. ASSUME NEW e, HandleFill(e)
      PROVE  \A w \in Ways : block'[w].line \in Lines => block'[w].valid
  <2>1. BlockOf(e).valid
    BY DEF BlockOf
  <2>2. block' = block \/ \E w \in Ways : block' = [block EXCEPT ![w] = BlockOf(e)]
    BY <1>2 DEF HandleFill, BypassFill, FillWay
  <2>. QED BY <1>0, <2>1, <2>2
<1>3. ASSUME NEW e, Hit(e)
      PROVE  \A w \in Ways : block'[w].line \in Lines => block'[w].valid
  <2>1. \/ block' = block
        \/ \E x, d : block' = [block EXCEPT ![x].dirty = TRUE, ![x].held = @ \cup d]
    BY <1>3 DEF Hit
  <2>2. ASSUME NEW x, NEW d, block' = [block EXCEPT ![x].dirty = TRUE, ![x].held = @ \cup d],
               NEW w \in Ways
        PROVE  block'[w].line = block[w].line /\ block'[w].valid = block[w].valid
    <3>1. block[w] \in Blocks
      BY <1>0
    <3>. QED BY <1>0, <2>2, <3>1 DEF Blocks
  <2>. QED BY <1>0, <2>1, <2>2
<1>4. UNCHANGED block \/ (\E e : HandleFill(e)) \/ \E e : Hit(e)
  <2>1. CASE Environment
    BY <2>1 DEF Environment, AddRead, AddWrite, AddPrefetch, WalkRead, PrefetchLine, Arrive
  <2>2. CASE Deliver
    BY <2>2 DEF Deliver, TakeAnswers, FinishPacket, FinishTranslation
  <2>3. CASE Operate
    BY <2>3 DEF Operate, CheckCollisions, FillFromMshr, FillFromWrites, StartStashed,
                StartPrefetch, StartQueued, IssueTranslation, StashLate, CheckTag,
                WriteMiss, MergeMiss, AllocateMiss
  <2>. QED BY <2>1, <2>2, <2>3 DEF Next, vars
<1>. QED BY <1>1, <1>2, <1>3, <1>4

LEMMA CacheStays ==
    ASSUME [Next]_vars
    PROVE  UNCHANGED cache
<1>1. CASE Environment
  BY <1>1 DEF Environment, AddRead, AddWrite, AddPrefetch, WalkRead, PrefetchLine, Arrive
<1>2. CASE Deliver
  BY <1>2 DEF Deliver, TakeAnswers, FinishPacket, FinishTranslation
<1>3. CASE Operate
  BY <1>3 DEF Operate, CheckCollisions, FillFromMshr, FillFromWrites, StartStashed,
              StartPrefetch, StartQueued, IssueTranslation, StashLate, CheckTag
<1>. QED BY <1>1, <1>2, <1>3 DEF Next, vars

LEMMA KindsKept ==
    ASSUME TypeOK, ReadyFirst, Registers, Kinds, [Next]_vars
    PROVE  Kinds'
BY CacheStays, WriteQueues, WriteMisses, LocalPrefetches, WaysFilled DEF Kinds
-----------------------------------------------------------------------------
(* Write-backs *)

InQueues(r)  == \E u \in Uppers : \E p \in Range(wq[u]) : p.type = "WRITE" /\ r \in p.deps
InLookups(r) == \E e \in Range(tagCheck) \cup Range(stash) : e.type = "WRITE" /\ r \in e.deps
InMisses(r)  == \E e \in Range(mshr) \cup Range(inflightWrites) : e.type = "WRITE" /\ r \in e.deps
InBlocks(r)  == \E w \in Ways : block[w].valid /\ block[w].dirty /\ r \in block[w].held

CarriedSomewhere ==
    \A r : r \in Carried <=> (InQueues(r) \/ InLookups(r) \/ InMisses(r) \/ InBlocks(r))

LEMMA CarriedIs ==
    ASSUME TypeOK
    PROVE  CarriedSomewhere
<1>. SUFFICES ASSUME NEW r
              PROVE  r \in Carried <=> (InQueues(r) \/ InLookups(r) \/ InMisses(r) \/ InBlocks(r))
  BY DEF CarriedSomewhere
<1>. DEFINE Q == UNION {p.deps : p \in {q \in UNION {Range(wq[u]) : u \in Uppers} : q.type = "WRITE"}}
            L == UNION {e.deps : e \in {x \in Range(tagCheck) \cup Range(stash) : x.type = "WRITE"}}
            M == UNION {e.deps : e \in {x \in Range(mshr) \cup Range(inflightWrites) : x.type = "WRITE"}}
            B == UNION {b.held : b \in {x \in Range(block) : x.valid /\ x.dirty}}
<1>1. r \in Q <=> InQueues(r)
  BY DEF InQueues
<1>2. r \in L <=> InLookups(r)
  BY DEF InLookups
<1>3. r \in M <=> InMisses(r)
  BY DEF InMisses
<1>4. r \in B <=> InBlocks(r)
  BY DEF InBlocks, Range, TypeOK
<1>5. r \in Carried <=> (r \in Q \/ r \in L \/ r \in M \/ r \in B)
  BY DEF Carried
<1>. HIDE DEF Q, L, M, B
<1>. QED BY <1>1, <1>2, <1>3, <1>4, <1>5

\* A request in a write queue goes to another place in it, or becomes a lookup.
LEMMA QueuesCarry ==
    ASSUME TypeOK, Kinds, NEW r, InQueues(r),
           \/ UNCHANGED wq
           \/ \E u \in Uppers, l \in Lines, w \in cache.words : AddWrite(u, l, w)
           \/ CheckCollisions
           \/ \E u \in Uppers : StartQueued(u)
    PROVE  InQueues(r)' \/ InLookups(r)'
<1>0. /\ wq \in [Uppers -> Seq(Requests)] /\ tagCheck \in Seq(Lookups) /\ cache.offset \in BOOLEAN
      /\ \A v \in Uppers : \A i \in DOMAIN wq[v] : wq[v][i].type = "WRITE"
  BY CacheIs DEF TypeOK, Kinds
<1>1. PICK x \in Uppers : \E p \in Range(wq[x]) : p.type = "WRITE" /\ r \in p.deps
  BY DEF InQueues
<1>2. PICK p \in Range(wq[x]) : p.type = "WRITE" /\ r \in p.deps
  BY <1>1
<1>3. CASE UNCHANGED wq
  BY <1>1, <1>3 DEF InQueues
<1>4. ASSUME NEW u \in Uppers, NEW l \in Lines, NEW w \in cache.words, AddWrite(u, l, w)
      PROVE  InQueues(r)'
  <2>. DEFINE new == RequestOf(l, w, "WRITE", FALSE, u \in cache.physical, {issued + 1})
  <2>1. wq' = [wq EXCEPT ![u] = Append(wq[u], new)]
    BY <1>4 DEF AddWrite
  <2>. HIDE DEF new
  <2>2. Range(wq[u]) \subseteq Range(Append(wq[u], new))
    <3>1. wq[u] \in Seq(Requests \cup {new})
      <4>1. Seq(Requests) \subseteq Seq(Requests \cup {new})
        BY SeqMonotonic
      <4>. QED BY <1>0, <4>1
    <3>. QED BY <3>1, RangeIs
  <2>3. Range(wq[x]) \subseteq Range(wq'[x])
    BY <1>0, <2>1, <2>2
  <2>. QED BY <1>2, <2>3 DEF InQueues
<1>5. CASE CheckCollisions
  <2>1. wq'[x] = Checked(wq[x], 1 .. Len(wq[x]), cache.offset) /\ wq[x] \in Seq(Requests)
    BY <1>0, <1>5 DEF CheckCollisions, CheckedWrites
  <2>2. PICK f : Collects(wq[x], 1 .. Len(wq[x]), wq'[x], f)
    BY <1>0, <2>1, CheckedIs
  <2>3. PICK j \in 1 .. Len(wq[x]) : p = wq[x][j]
    BY <2>1, LenProperties DEF Range
  <2>4. f[j] \in DOMAIN wq'[x] /\ r \in wq'[x][f[j]].deps
    BY <1>2, <2>2, <2>3 DEF Collects
  <2>5. wq'[x][f[j]].type = "WRITE"
    <3>1. \E i \in 1 .. Len(wq[x]) : wq'[x][f[j]].type = wq[x][i].type
      BY <2>2, <2>4 DEF Collects
    <3>. QED BY <1>0, <2>1, <3>1, LenProperties
  <2>. QED BY <2>4, <2>5 DEF InQueues, Range
<1>6. ASSUME NEW u \in Uppers, StartQueued(u) PROVE InQueues(r)' \/ InLookups(r)'
  <2>1. CASE CanStart(wq[u]) /\ wq' = Take(wq, u) /\ tagCheck' = StartEntry(Head(wq[u]), u)
    <3>. DEFINE h == Head(wq[u])
                ret == IF h.resp THEN {u} ELSE {}
                e == TagEntry(h, ret, FALSE, FALSE)
    <3>1. wq[u] # <<>> /\ wq[u] \in Seq(Requests) /\ wq' = [wq EXCEPT ![u] = Tail(wq[u])]
      BY <1>0, <2>1 DEF CanStart, Take
    <3>2. Range(wq[u]) = Range(Tail(wq[u])) \cup {h} /\ h \in Requests
      BY <3>1, RangeIs, HeadIn
    <3>3. CASE p \in Range(wq'[x])
      BY <1>2, <3>3 DEF InQueues
    <3>4. CASE p \notin Range(wq'[x])
      <4>1. x = u /\ p = h
        BY <1>0, <3>1, <3>2, <3>4
      <4>2. e \in Lookups /\ e.type = p.type /\ e.deps = p.deps
        <5>1. ret \in SUBSET Uppers
          OBVIOUS
        <5>. HIDE DEF ret, h
        <5>2. e \in Lookups
          BY <3>2, <5>1, EntryTypes
        <5>. QED BY <4>1, <5>2 DEF TagEntry
      <4>3. tagCheck' = Append(tagCheck, e)
        BY <2>1 DEF StartEntry
      <4>. HIDE DEF e
      <4>4. e \in Range(tagCheck')
        BY <1>0, <4>2, <4>3, RangeIs
      <4>. QED BY <1>2, <4>2, <4>4 DEF InLookups
    <3>. QED BY <3>3, <3>4
  <2>. QED BY <1>3, <1>6, <2>1 DEF StartQueued
<1>. QED BY <1>3, <1>4, <1>5, <1>6

\* A lookup stays one until CheckTag finishes it.
LEMMA LookupsStay ==
    ASSUME TypeOK, NEW e \in Range(tagCheck) \cup Range(stash),
           \/ UNCHANGED <<tagCheck, stash>>
           \/ IssueTranslation \/ \E l \in Lines : FinishTranslation(l)
           \/ StartStashed \/ StartPrefetch \/ StashLate \/ \E u \in Uppers : StartQueued(u)
    PROVE  \E x \in Range(tagCheck') \cup Range(stash') : SameEntry(x, e)
<1>0. /\ tagCheck \in Seq(Lookups) /\ stash \in Seq(Lookups) /\ internalPQ \in Seq(Lookups)
      /\ \A x : SameEntry(x, x)
  BY DEF TypeOK, SameEntry
<1>1. CASE IssueTranslation \/ \E l \in Lines : FinishTranslation(l)
  <2>1. CASE e \in Range(tagCheck)
    <3>1. PICK i \in DOMAIN tagCheck : e = tagCheck[i]
      BY <2>1 DEF Range
    <3>2. i \in DOMAIN tagCheck' /\ SameEntry(tagCheck'[i], e)
      BY <1>1, <3>1, TranslationMoves
    <3>. QED BY <3>2 DEF Range
  <2>2. CASE e \in Range(stash)
    <3>1. PICK i \in DOMAIN stash : e = stash[i]
      BY <2>2 DEF Range
    <3>2. PICK f : MovesStash(f)
      BY <1>1, TranslationMoves
    <3>3. f[i] \in DOMAIN stash' /\ SameEntry(stash'[f[i]], e)
      BY <3>1, <3>2 DEF MovesStash
    <3>. QED BY <3>3 DEF Range
  <2>. QED BY <2>1, <2>2
<1>2. ASSUME Range(tagCheck) \cup Range(stash) \subseteq Range(tagCheck') \cup Range(stash')
      PROVE  \E x \in Range(tagCheck') \cup Range(stash') : SameEntry(x, e)
  BY <1>0, <1>2
<1>3. ASSUME NEW x \in Lookups, tagCheck' = Append(tagCheck, x)
      PROVE  Range(tagCheck') = Range(tagCheck) \cup {x}
  BY <1>0, <1>3, RangeIs
<1>4. CASE StartStashed
  <2>1. /\ stash # <<>> /\ tagCheck' = Append(tagCheck, Head(stash)) /\ stash' = Tail(stash)
    BY <1>4 DEF StartStashed, StashReady
  <2>2. Range(stash) = Range(stash') \cup {Head(stash)} /\ Head(stash) \in Lookups
    BY <1>0, <2>1, RangeIs, HeadIn
  <2>. QED BY <1>2, <1>3, <2>1, <2>2
<1>5. CASE StartPrefetch
  <2>1. /\ internalPQ # <<>> /\ tagCheck' = Append(tagCheck, Head(internalPQ)) /\ UNCHANGED stash
    BY <1>5 DEF StartPrefetch, CanStart
  <2>2. Head(internalPQ) \in Lookups
    BY <1>0, <2>1, HeadIn
  <2>. QED BY <1>2, <1>3, <2>1, <2>2
<1>6. ASSUME NEW u \in Uppers, StartQueued(u)
      PROVE  \E x \in Range(tagCheck') \cup Range(stash') : SameEntry(x, e)
  <2>1. PICK p \in Requests : tagCheck' = StartEntry(p, u)
    BY <1>6, HeadIn DEF StartQueued, CanStart, TypeOK
  <2>. DEFINE ret == IF p.resp THEN {u} ELSE {}
  <2>2. TagEntry(p, ret, FALSE, FALSE) \in Lookups
    <3>1. ret \in SUBSET Uppers
      OBVIOUS
    <3>. HIDE DEF ret
    <3>. QED BY <3>1, EntryTypes
  <2>3. Range(tagCheck') = Range(tagCheck) \cup {TagEntry(p, ret, FALSE, FALSE)} /\ UNCHANGED stash
    BY <1>3, <1>6, <2>1, <2>2 DEF StartEntry, StartQueued
  <2>. HIDE DEF ret
  <2>. QED BY <1>2, <2>3
<1>7. CASE StashLate
  <2>1. PICK i \in 1 .. Len(tagCheck) :
           /\ stash' = Append(stash, tagCheck[i]) /\ tagCheck' = RemoveAt(tagCheck, i)
           /\ tagCheck[i] \in Lookups
    BY <1>7, LateIs
  <2>2. /\ Range(stash') = Range(stash) \cup {tagCheck[i]}
        /\ Range(tagCheck) = Range(tagCheck') \cup {tagCheck[i]}
    BY <1>0, <2>1, RangeIs
  <2>. QED BY <1>2, <2>2
<1>8. CASE UNCHANGED <<tagCheck, stash>>
  BY <1>2, <1>8
<1>. QED BY <1>1, <1>4, <1>5, <1>6, <1>7, <1>8

\* A hit leaves what its way holds, and adds what a write brings.
LEMMA HitHolds ==
    ASSUME TypeOK, Kinds, NEW e \in Lookups, Hit(e)
    PROVE  /\ \A r : InBlocks(r) => InBlocks(r)'
           /\ e.type = "WRITE" => \A r \in e.deps : InBlocks(r)'
<1>0. block \in [Ways -> Blocks] /\ \A w \in Ways : block[w] \in Blocks
  BY DEF TypeOK
<1>1. CASE e.type # "WRITE"
  <2>1. UNCHANGED block
    BY <1>1 DEF Hit
  <2>. QED BY <1>1, <2>1 DEF InBlocks
<1>2. CASE e.type = "WRITE"
  <2>. DEFINE x == First(WaysWith(e.line))
              b == [block[x] EXCEPT !.dirty = TRUE, !.held = block[x].held \cup e.deps]
  <2>1. block' = [block EXCEPT ![x].dirty = TRUE, ![x].held = @ \cup e.deps]
    BY <1>2 DEF Hit
  <2>2. x \in Ways /\ block[x].line = e.line
    <3>1. WaysWith(e.line) \in SUBSET Nat /\ WaysWith(e.line) # {}
      BY SizesAre DEF Hit, WaysWith
    <3>2. x \in WaysWith(e.line)
      BY <3>1, FirstIs
    <3>. QED BY <3>2 DEF WaysWith
  <2>. HIDE DEF x
  <2>3. block[x].valid
    BY <2>2 DEF Kinds, Lookups
  <2>4. block' = [block EXCEPT ![x] = b]
    BY <1>0, <2>1, <2>2
  <2>5. b.valid /\ b.dirty /\ b.held = block[x].held \cup e.deps
    <3>1. block[x] \in Blocks
      BY <1>0, <2>2
    <3>. QED BY <2>3, <3>1 DEF Blocks
  <2>. HIDE DEF b
  <2>6. block'[x] = b /\ \A w \in Ways : w # x => block'[w] = block[w]
    BY <1>0, <2>2, <2>4
  <2>7. ASSUME NEW r, InBlocks(r) PROVE InBlocks(r)'
    <3>1. PICK w \in Ways : block[w].valid /\ block[w].dirty /\ r \in block[w].held
      BY <2>7 DEF InBlocks
    <3>2. block'[w].valid /\ block'[w].dirty /\ r \in block'[w].held
      BY <2>5, <2>6, <3>1
    <3>. QED BY <3>2 DEF InBlocks
  <2>8. \A r \in e.deps : InBlocks(r)'
    BY <2>2, <2>5, <2>6 DEF InBlocks
  <2>. QED BY <2>7, <2>8
<1>. QED BY <1>1, <1>2

\* A fill sends what its way held below, and holds what a write brings.
LEMMA FillHolds ==
    ASSUME TypeOK, NEW e \in Misses, HandleFill(e)
    PROVE  /\ unwritten' \subseteq unwritten
           /\ \A r \in unwritten' : InBlocks(r) => InBlocks(r)'
           /\ e.type = "WRITE" => \A r \in e.deps : InBlocks(r)'
<1>0. block \in [Ways -> Blocks]
  BY DEF TypeOK
<1>1. CASE BypassFill(e)
  BY <1>1 DEF BypassFill, InBlocks
<1>2. ASSUME NEW x \in Ways, FillWay(e, x)
      PROVE  /\ unwritten' \subseteq unwritten
             /\ \A r \in unwritten' : InBlocks(r) => InBlocks(r)'
             /\ e.type = "WRITE" => \A r \in e.deps : InBlocks(r)'
  <2>1. /\ block' = [block EXCEPT ![x] = BlockOf(e)]
        /\ unwritten' = IF block[x].valid /\ block[x].dirty
                        THEN unwritten \ block[x].held ELSE unwritten
    BY <1>2 DEF FillWay
  <2>2. block'[x] = BlockOf(e) /\ \A w \in Ways : w # x => block'[w] = block[w]
    BY <1>0, <2>1
  <2>3. ASSUME NEW r \in unwritten', InBlocks(r) PROVE InBlocks(r)'
    <3>1. PICK w \in Ways : block[w].valid /\ block[w].dirty /\ r \in block[w].held
      BY <2>3 DEF InBlocks
    <3>2. w # x
      BY <2>1, <2>3, <3>1
    <3>. QED BY <2>2, <3>1, <3>2 DEF InBlocks
  <2>4. e.type = "WRITE" => BlockOf(e).valid /\ BlockOf(e).dirty /\ BlockOf(e).held = e.deps
    BY DEF BlockOf
  <2>5. e.type = "WRITE" => \A r \in e.deps : InBlocks(r)'
    BY <2>2, <2>4 DEF InBlocks
  <2>6. unwritten' \subseteq unwritten
    BY <2>1
  <2>. QED BY <2>3, <2>5, <2>6
<1>3. BypassFill(e) \/ \E w \in Ways : FillWay(e, w)
  BY SizesAre DEF HandleFill
<1>. QED BY <1>1, <1>2, <1>3

\* Request r has somewhere to be after the step.
StaysCarried(r) == InQueues(r)' \/ InLookups(r)' \/ InMisses(r)' \/ InBlocks(r)'

LEMMA WriteBacksStay ==
    ASSUME TypeOK, Kinds, WriteBacksKept, [Next]_vars, TypeOK'
    PROVE  WriteBacksKept'
<1>1. SUFFICES ASSUME ~cache.offset, NEW r \in unwritten' PROVE StaysCarried(r)
  <2>1. UNCHANGED cache
    BY CacheStays
  <2>2. CarriedSomewhere'
    BY CarriedIs, PTL
  <2>. QED BY <2>1, <2>2 DEF WriteBacksKept, StaysCarried, CarriedSomewhere
<1>. DEFINE InWrites == \E e \in Range(inflightWrites) : e.type = "WRITE" /\ r \in e.deps
<1>2. r \in unwritten => InQueues(r) \/ InLookups(r) \/ InBlocks(r) \/ InWrites
  <2>1. \A e \in Range(mshr) : e.type # "WRITE"
    BY <1>1 DEF Kinds, Range
  <2>2. r \in unwritten => InQueues(r) \/ InLookups(r) \/ InMisses(r) \/ InBlocks(r)
    BY <1>1, CarriedIs DEF WriteBacksKept, CarriedSomewhere
  <2>. QED BY <2>1, <2>2 DEF InMisses
<1>3. /\ InWrites' => StaysCarried(r)
      /\ InQueues(r)' \/ InLookups(r)' \/ InMisses(r)' \/ InBlocks(r)' => StaysCarried(r)
  BY DEF InMisses, StaysCarried
<1>4. UNCHANGED wq => (InQueues(r) => InQueues(r)')
  BY DEF InQueues
<1>5. UNCHANGED <<tagCheck, stash>> => (InLookups(r) => InLookups(r)')
  BY DEF InLookups
<1>6. UNCHANGED block => (InBlocks(r) => InBlocks(r)')
  BY DEF InBlocks
<1>7. UNCHANGED inflightWrites => (InWrites => InWrites')
  OBVIOUS
<1>. HIDE DEF InWrites
<1>8. ASSUME UNCHANGED <<wq, tagCheck, stash, inflightWrites, block, unwritten>>
      PROVE  StaysCarried(r)
  BY <1>1, <1>2, <1>3, <1>4, <1>5, <1>6, <1>7, <1>8
<1>9. ASSUME NEW u \in Uppers, NEW l \in Lines, NEW w \in cache.words, AddWrite(u, l, w)
      PROVE  StaysCarried(r)
  <2>1. UNCHANGED <<tagCheck, stash, inflightWrites, block>>
    BY <1>9 DEF AddWrite, Arrive, lookups, misses
  <2>2. CASE r \in unwritten
    BY <1>2, <1>3, <1>5, <1>6, <1>7, <1>9, <2>1, <2>2, QueuesCarry
  <2>3. CASE r \notin unwritten
    <3>. DEFINE new == RequestOf(l, w, "WRITE", FALSE, u \in cache.physical, {issued + 1})
    <3>1. r = issued + 1 /\ wq' = [wq EXCEPT ![u] = Append(wq[u], new)]
      BY <1>1, <1>9, <2>3 DEF AddWrite
    <3>2. new.type = "WRITE" /\ r \in new.deps
      BY <3>1 DEF RequestOf
    <3>. HIDE DEF new
    <3>3. new \in Range(wq'[u])
      <4>1. wq \in [Uppers -> Seq(Requests)]
        BY DEF TypeOK
      <4>2. wq[u] \in Seq(Requests \cup {new})
        <5>1. Seq(Requests) \subseteq Seq(Requests \cup {new})
          BY SeqMonotonic
        <5>. QED BY <4>1, <5>1
      <4>3. new \in Range(Append(wq[u], new))
        BY <4>2, RangeIs
      <4>. QED BY <3>1, <4>1, <4>3
    <3>4. InQueues(r)'
      BY <3>2, <3>3 DEF InQueues
    <3>. QED BY <1>3, <3>4
  <2>. QED BY <2>2, <2>3
<1>10. ASSUME \/ UNCHANGED <<tagCheck, stash>>
              \/ IssueTranslation \/ \E l \in Lines : FinishTranslation(l)
              \/ StartStashed \/ StartPrefetch \/ StashLate \/ \E u \in Uppers : StartQueued(u),
              InLookups(r)
       PROVE  InLookups(r)'
  <2>1. PICK e \in Range(tagCheck) \cup Range(stash) : e.type = "WRITE" /\ r \in e.deps
    BY <1>10 DEF InLookups
  <2>2. \E x \in Range(tagCheck') \cup Range(stash') : SameEntry(x, e)
    BY <1>10, LookupsStay
  <2>. QED BY <2>1, <2>2 DEF SameEntry, InLookups
<1>11. ASSUME IssueTranslation \/ (\E l \in Lines : FinishTranslation(l))
              \/ StartStashed \/ StartPrefetch \/ StashLate
       PROVE  StaysCarried(r)
  <2>1. UNCHANGED <<wq, inflightWrites, block, unwritten>>
    BY <1>11 DEF IssueTranslation, FinishTranslation, StartStashed, StartPrefetch, StashLate,
                 queues, misses, history
  <2>. QED BY <1>1, <1>2, <1>3, <1>4, <1>6, <1>7, <1>10, <1>11, <2>1
<1>12. ASSUME CheckCollisions \/ \E u \in Uppers : StartQueued(u)
       PROVE  StaysCarried(r)
  <2>1. UNCHANGED <<inflightWrites, block, unwritten>>
    BY <1>12 DEF CheckCollisions, StartQueued, misses, history
  <2>2. UNCHANGED <<tagCheck, stash>> \/ \E u \in Uppers : StartQueued(u)
    BY <1>12 DEF CheckCollisions, lookups
  <2>. QED BY <1>1, <1>2, <1>3, <1>6, <1>7, <1>10, <1>12, <2>1, <2>2, QueuesCarry
<1>13. ASSUME FillFromMshr PROVE StaysCarried(r)
  <2>1. UNCHANGED <<wq, tagCheck, stash, inflightWrites>>
    BY <1>13 DEF FillFromMshr, queues, lookups
  <2>2. Head(mshr) \in Misses /\ HandleFill(Head(mshr))
    BY <1>13, HeadIn DEF FillFromMshr, TypeOK
  <2>3. r \in unwritten /\ (InBlocks(r) => InBlocks(r)')
    BY <1>1, <2>2, FillHolds
  <2>. QED BY <1>2, <1>3, <1>4, <1>5, <1>7, <2>1, <2>3
<1>14. ASSUME FillFromWrites PROVE StaysCarried(r)
  <2>1. UNCHANGED <<wq, tagCheck, stash>>
    BY <1>14 DEF FillFromWrites, queues, lookups
  <2>2. /\ inflightWrites \in Seq(Misses) /\ inflightWrites # <<>>
        /\ Head(inflightWrites) \in Misses /\ HandleFill(Head(inflightWrites))
        /\ inflightWrites' = Tail(inflightWrites)
    BY <1>14, HeadIn DEF FillFromWrites, TypeOK
  <2>3. r \in unwritten /\ (InBlocks(r) => InBlocks(r)')
    BY <1>1, <2>2, FillHolds
  <2>4. Range(inflightWrites) = Range(inflightWrites') \cup {Head(inflightWrites)}
    BY <2>2, RangeIs
  <2>5. InWrites => InWrites' \/ InBlocks(r)'
    BY <2>2, <2>4, FillHolds DEF InWrites
  <2>. QED BY <1>2, <1>3, <1>4, <1>5, <2>1, <2>3, <2>5
<1>15. ASSUME CheckTag PROVE StaysCarried(r)
  <2>. DEFINE e == Head(tagCheck)
  <2>1. /\ tagCheck \in Seq(Lookups) /\ tagCheck # <<>> /\ tagCheck' = Tail(tagCheck)
        /\ UNCHANGED <<wq, stash>>
        /\ Hit(e) \/ WriteMiss(e) \/ MergeMiss(e) \/ AllocateMiss(e)
    BY <1>15 DEF CheckTag, TypeOK, queues
  <2>2. e \in Lookups /\ Range(tagCheck) = Range(tagCheck') \cup {e}
    BY <2>1, HeadIn, RangeIs
  <2>. HIDE DEF e
  <2>3. UNCHANGED unwritten
    BY <2>1 DEF Hit, WriteMiss, MergeMiss, AllocateMiss, history
  <2>4. InBlocks(r) => InBlocks(r)'
    <3>1. UNCHANGED block \/ Hit(e)
      BY <2>1 DEF WriteMiss, MergeMiss, AllocateMiss
    <3>. QED BY <1>6, <2>2, <3>1, HitHolds
  <2>5. InWrites => InWrites'
    <3>1. UNCHANGED inflightWrites \/ WriteMiss(e)
      BY <2>1 DEF Hit, MergeMiss, AllocateMiss, misses
    <3>2. ASSUME WriteMiss(e)
          PROVE  Range(inflightWrites) \subseteq Range(inflightWrites')
      <4>. DEFINE m == [MshrEntry(e) EXCEPT !.done = TRUE]
      <4>1. m \in Misses /\ inflightWrites' = Append(inflightWrites, m)
        BY <2>2, <3>2, MissTypes DEF WriteMiss
      <4>. HIDE DEF m
      <4>. QED BY <4>1, RangeIs DEF TypeOK
    <3>. QED BY <1>7, <3>1, <3>2 DEF InWrites
  <2>6. InLookups(r) => (InLookups(r)' \/ (e.type = "WRITE" /\ r \in e.deps))
    BY <2>1, <2>2 DEF InLookups
  <2>7. ASSUME e.type = "WRITE", r \in e.deps PROVE StaysCarried(r)
    <3>1. Hit(e) \/ WriteMiss(e)
      BY <1>1, <2>1, <2>7 DEF MergeMiss, AllocateMiss, IsReadMiss
    <3>2. CASE Hit(e)
      BY <1>3, <2>2, <2>7, <3>2, HitHolds
    <3>3. CASE WriteMiss(e)
      <4>. DEFINE m == [MshrEntry(e) EXCEPT !.done = TRUE]
      <4>1. m \in Misses /\ inflightWrites' = Append(inflightWrites, m)
        BY <2>2, <3>3, MissTypes DEF WriteMiss
      <4>2. m.type = "WRITE" /\ r \in m.deps
        BY <2>7 DEF MshrEntry
      <4>. HIDE DEF m
      <4>3. m \in Range(inflightWrites')
        BY <4>1, RangeIs DEF TypeOK
      <4>. QED BY <1>3, <4>2, <4>3 DEF InWrites
    <3>. QED BY <3>1, <3>2, <3>3
  <2>. QED BY <1>1, <1>2, <1>3, <1>4, <2>1, <2>3, <2>4, <2>5, <2>6, <2>7
<1>16. CASE Environment
  <2>1. \/ UNCHANGED <<wq, tagCheck, stash, inflightWrites, block, unwritten>>
        \/ \E u \in Uppers, l \in Lines, w \in cache.words : AddWrite(u, l, w)
    <3>. DEFINE Same == UNCHANGED <<wq, tagCheck, stash, inflightWrites, block, unwritten>>
    <3>1. ASSUME NEW u, NEW l, NEW w, AddRead(u, l, w) PROVE Same
      BY <3>1 DEF AddRead, Arrive, lookups, misses
    <3>2. ASSUME NEW u, NEW l, NEW w, NEW resp, AddPrefetch(u, l, w, resp) PROVE Same
      BY <3>2 DEF AddPrefetch, Arrive, lookups, misses
    <3>3. ASSUME NEW u, NEW l, NEW p, WalkRead(u, l, p) PROVE Same
      BY <3>3 DEF WalkRead, Arrive, misses
    <3>4. ASSUME NEW l, NEW fillThis, PrefetchLine(l, fillThis) PROVE Same
      BY <3>4 DEF PrefetchLine, lookups, misses
    <3>. QED BY <1>16, <3>1, <3>2, <3>3, <3>4 DEF Environment
  <2>. QED BY <1>8, <1>9, <2>1
<1>17. CASE Deliver
  <2>1. \/ UNCHANGED <<wq, tagCheck, stash, inflightWrites, block, unwritten>>
        \/ \E l \in Lines : FinishTranslation(l)
    BY <1>17 DEF Deliver, TakeAnswers, FinishPacket, queues, lookups, misses, history
  <2>. QED BY <1>8, <1>11, <2>1
<1>18. CASE UNCHANGED vars
  BY <1>8, <1>18 DEF vars, queues, lookups, misses, history
<1>. QED BY <1>11, <1>12, <1>13, <1>14, <1>15, <1>16, <1>17, <1>18 DEF Next, Operate
-----------------------------------------------------------------------------
(* What is owed to a read *)

LEMMA FoundIs ==
    \A s, r : Found(s, r) \in {0, 1} /\ FoundAnswer(s, r) \in {0, 1}
BY DEF Found, FoundAnswer

LEMMA FoundBit ==
    ASSUME NEW s, NEW r
    PROVE  /\ Found(s, r) \in {0, 1} /\ FoundAnswer(s, r) \in {0, 1}
           /\ Found(s, r) = 0 => /\ \A i \in DOMAIN s : r \notin s[i].deps
                                 /\ \A u : CarriesFor(s, r, u) /\ AsksFor(s, r)
           /\ (\A i \in DOMAIN s : r \notin s[i].deps) => Found(s, r) = 0
BY DEF Found, FoundAnswer, CarriesFor, AsksFor, Sole

\* What is appended answers u when it is for r.
LEMMA CarriesAppend ==
    ASSUME NEW S, NEW s \in Seq(S), NEW e \in S, NEW r, NEW u, CarriesFor(s, r, u),
           r \in e.deps => Found(s, r) = 0 /\ u \in e.ret
    PROVE  /\ CarriesFor(Append(s, e), r, u)
           /\ Found(Append(s, e), r) = Found(s, r) + Bit(r \in e.deps)
<1>1. /\ Sole(Append(s, e), r)
      /\ Found(Append(s, e), r) = Found(s, r) + Bit(r \in e.deps)
  BY FoundAppend DEF CarriesFor
<1>2. \A i \in DOMAIN Append(s, e) : \/ i \in DOMAIN s /\ Append(s, e)[i] = s[i]
                                     \/ Append(s, e)[i] = e
  BY AppendProperties, LenProperties
<1>. QED BY <1>1, <1>2 DEF CarriesFor

LEMMA AsksAppend ==
    ASSUME NEW S, NEW s \in Seq(S), NEW e \in S, NEW r, AsksFor(s, r),
           r \in e.deps => Found(s, r) = 0 /\ e.resp
    PROVE  /\ AsksFor(Append(s, e), r)
           /\ Found(Append(s, e), r) = Found(s, r) + Bit(r \in e.deps)
<1>1. /\ Sole(Append(s, e), r)
      /\ Found(Append(s, e), r) = Found(s, r) + Bit(r \in e.deps)
  BY FoundAppend DEF AsksFor
<1>2. \A i \in DOMAIN Append(s, e) : \/ i \in DOMAIN s /\ Append(s, e)[i] = s[i]
                                     \/ Append(s, e)[i] = e
  BY AppendProperties, LenProperties
<1>. QED BY <1>1, <1>2 DEF AsksFor

LEMMA CarriesRemoved ==
    ASSUME NEW S, NEW s \in Seq(S), NEW i \in 1 .. Len(s), NEW r, NEW u, CarriesFor(s, r, u)
    PROVE  /\ CarriesFor(RemoveAt(s, i), r, u)
           /\ Found(s, r) = Found(RemoveAt(s, i), r) + Bit(r \in s[i].deps)
           /\ r \in s[i].deps => u \in s[i].ret
<1>1. /\ Sole(RemoveAt(s, i), r)
      /\ Found(s, r) = Found(RemoveAt(s, i), r) + Bit(r \in s[i].deps)
  BY FoundRemoved DEF CarriesFor
<1>2. Range(RemoveAt(s, i)) \subseteq Range(s)
  BY RangeIs
<1>3. DOMAIN s = 1 .. Len(s)
  BY LenProperties
<1>. QED BY <1>1, <1>2, <1>3 DEF CarriesFor, Range

LEMMA CarriesTail ==
    ASSUME NEW S, NEW s \in Seq(S), s # <<>>, NEW r, NEW u, CarriesFor(s, r, u)
    PROVE  /\ CarriesFor(Tail(s), r, u)
           /\ Found(s, r) = Found(Tail(s), r) + Bit(r \in Head(s).deps)
           /\ r \in Head(s).deps => u \in Head(s).ret
BY CarriesRemoved, TailRemoves

LEMMA AsksTail ==
    ASSUME NEW S, NEW s \in Seq(S), s # <<>>, NEW r, AsksFor(s, r)
    PROVE  /\ AsksFor(Tail(s), r)
           /\ Found(s, r) = Found(Tail(s), r) + Bit(r \in Head(s).deps)
           /\ r \in Head(s).deps => Head(s).resp
<1>1. /\ Sole(Tail(s), r)
      /\ Found(s, r) = Found(Tail(s), r) + Bit(r \in Head(s).deps)
  BY FoundTail DEF AsksFor
<1>2. 1 \in DOMAIN s /\ Head(s) = s[1]
  BY HeadIn
<1>3. \A i \in DOMAIN Tail(s) : i + 1 \in DOMAIN s /\ Tail(s)[i] = s[i + 1]
  BY TailAt
<1>. QED BY <1>1, <1>2, <1>3 DEF AsksFor

\* What waits at place i of s waits at f[i] of t.
MovesAll(s, t, f) ==
    /\ \A i \in DOMAIN s : /\ f[i] \in DOMAIN t
                           /\ t[f[i]].deps = s[i].deps /\ t[f[i]].ret = s[i].ret
    /\ \A k \in DOMAIN t : \E i \in DOMAIN s : f[i] = k

LEMMA CarriesMoved ==
    ASSUME NEW s, NEW t, NEW f, NEW r, NEW u, CarriesFor(s, r, u), MovesAll(s, t, f)
    PROVE  CarriesFor(t, r, u) /\ Found(t, r) = Found(s, r)
<1>1. Sole(t, r) /\ Found(t, r) = Found(s, r)
  BY FoundMoves DEF CarriesFor, MovesAll
<1>. QED BY <1>1 DEF CarriesFor, MovesAll

\* A fill or a hit answers u when it is for r.
LEMMA AnswerIs ==
    ASSUME TypeOK, NEW e, e.deps \in SUBSET (1 .. issued), NEW r, NEW u \in Uppers,
           r \in e.deps => u \in e.ret /\ FoundAnswer(returned[u], r) = 0,
           SoleAnswer(returned[u], r), returned' = Answer(e)
    PROVE  /\ SoleAnswer(returned'[u], r)
           /\ FoundAnswer(returned'[u], r) = FoundAnswer(returned[u], r) + Bit(r \in e.deps)
<1>1. returned[u] \in Seq(SUBSET (1 .. issued))
  BY DEF TypeOK
<1>2. CASE u \in e.ret
  <2>1. returned'[u] = Append(returned[u], e.deps)
    BY <1>2 DEF Answer
  <2>. QED BY <1>1, <2>1, FoundAnswerAppend
<1>3. CASE u \notin e.ret
  <2>1. returned'[u] = returned[u] /\ r \notin e.deps
    BY <1>3 DEF Answer
  <2>2. Bit(r \in e.deps) = 0 /\ FoundAnswer(returned[u], r) \in {0, 1}
    BY <2>1, FoundBit DEF Bit
  <2>. QED BY <2>1, <2>2
<1>. QED BY <1>2, <1>3

LEMMA NowhereIs ==
    ASSUME TypeOK, NEW r, r \notin 1 .. issued
    PROVE  /\ \A u \in Uppers : /\ Found(wq[u], r) = 0 /\ Found(rq[u], r) = 0
                                /\ Found(pq[u], r) = 0
                                /\ FoundAnswer(returned[u], r) = 0 /\ SoleAnswer(returned[u], r)
           /\ Found(tagCheck, r) = 0 /\ Found(stash, r) = 0
           /\ Found(mshr, r) = 0 /\ Found(inflightWrites, r) = 0
<1>1. ASSUME NEW s, s \in Seq(Requests) \/ s \in Seq(Lookups) \/ s \in Seq(Misses)
      PROVE  Found(s, r) = 0
  <2>1. \A i \in DOMAIN s : s[i] \in Requests \/ s[i] \in Lookups \/ s[i] \in Misses
    BY <1>1, LenProperties, ElementOfSeq
  <2>2. \A i \in DOMAIN s : r \notin s[i].deps
    BY <2>1 DEF Requests, Lookups, Misses
  <2>. QED BY <2>2, FoundBit
<1>2. ASSUME NEW s \in Seq(SUBSET (1 .. issued))
      PROVE  FoundAnswer(s, r) = 0 /\ SoleAnswer(s, r)
  <2>1. \A i \in DOMAIN s : s[i] \in SUBSET (1 .. issued)
    BY LenProperties, ElementOfSeq
  <2>2. \A i \in DOMAIN s : r \notin s[i]
    BY <2>1
  <2>. QED BY <2>2 DEF FoundAnswer, SoleAnswer
<1>. QED BY <1>1, <1>2 DEF TypeOK
-----------------------------------------------------------------------------
(* Every action keeps what is owed *)

\* A new request is not for a read that waits already.
LEMMA OwedRead ==
    ASSUME TypeOK, NEW u \in Uppers, NEW r \in 1 .. issued, OwedOnce(r, u),
           NEW v \in Uppers, NEW l \in Lines, NEW w, SendRead(v, l, w),
           UNCHANGED <<wq, pq, returned, tagCheck, stash, mshr, inflightWrites>>
    PROVE  OwedOnce(r, u)'
<1>. DEFINE p == RequestOf(l, w, "LOAD", TRUE, v \in cache.physical, {issued + 1})
<1>1. rq' = [rq EXCEPT ![v] = Append(rq[v], p)]
  BY DEF SendRead
<1>2. r \notin p.deps
  BY CacheIs DEF RequestOf, TypeOK
<1>. HIDE DEF p
<1>3. /\ rq \in [Uppers -> Seq(Requests)]
      /\ \A x \in Uppers : rq[x] \in Seq(Requests \cup {p})
  <2>1. Seq(Requests) \subseteq Seq(Requests \cup {p})
    BY SeqMonotonic
  <2>. QED BY <2>1 DEF TypeOK
<1>4. ASSUME NEW x \in Uppers, AsksFor(rq[x], r)
      PROVE  AsksFor(rq'[x], r) /\ Found(rq'[x], r) = Found(rq[x], r)
  <2>1. CASE x = v
    <3>1. /\ AsksFor(Append(rq[v], p), r)
          /\ Found(Append(rq[v], p), r) = Found(rq[v], r) + Bit(r \in p.deps)
      BY <1>2, <1>3, <1>4, <2>1, AsksAppend
    <3>2. Bit(r \in p.deps) = 0 /\ Found(rq[v], r) \in {0, 1}
      BY <1>2, FoundBit DEF Bit
    <3>. QED BY <1>1, <1>3, <2>1, <3>1, <3>2
  <2>2. CASE x # v
    BY <1>1, <1>3, <1>4, <2>2
  <2>. QED BY <2>1, <2>2
<1>5. NotElsewhere(r, u)'
  <2>1. \A x \in Uppers : x # u => Found(rq'[x], r) = 0
    BY <1>4, FoundBit DEF OwedOnce, NotElsewhere
  <2>. QED BY <2>1 DEF OwedOnce, NotElsewhere
<1>6. AsksFor(rq'[u], r) /\ Found(rq'[u], r) = Found(rq[u], r)
  BY <1>4 DEF OwedOnce
<1>. QED BY <1>5, <1>6 DEF OwedOnce

LEMMA OwedPrefetch ==
    ASSUME TypeOK, NEW u \in Uppers, NEW r \in 1 .. issued, OwedOnce(r, u),
           NEW v \in Uppers, NEW p, pq' = [pq EXCEPT ![v] = Append(pq[v], p)], r \notin p.deps,
           UNCHANGED <<wq, rq, returned, tagCheck, stash, mshr, inflightWrites>>
    PROVE  OwedOnce(r, u)'
<1>3. /\ pq \in [Uppers -> Seq(Requests)]
      /\ \A x \in Uppers : pq[x] \in Seq(Requests \cup {p})
  <2>1. Seq(Requests) \subseteq Seq(Requests \cup {p})
    BY SeqMonotonic
  <2>. QED BY <2>1 DEF TypeOK
<1>4. ASSUME NEW x \in Uppers, AsksFor(pq[x], r)
      PROVE  AsksFor(pq'[x], r) /\ Found(pq'[x], r) = Found(pq[x], r)
  <2>1. CASE x = v
    <3>1. /\ AsksFor(Append(pq[v], p), r)
          /\ Found(Append(pq[v], p), r) = Found(pq[v], r) + Bit(r \in p.deps)
      <4>1. pq[v] \in Seq(Requests \cup {p}) /\ AsksFor(pq[v], r) /\ p \in Requests \cup {p}
        BY <1>3, <1>4, <2>1
      <4>. QED BY <4>1, AsksAppend
    <3>2. Bit(r \in p.deps) = 0 /\ Found(pq[v], r) \in {0, 1}
      BY FoundBit DEF Bit
    <3>. QED BY <1>3, <2>1, <3>1, <3>2
  <2>2. CASE x # v
    BY <1>3, <1>4, <2>2
  <2>. QED BY <2>1, <2>2
<1>5. NotElsewhere(r, u)'
  <2>1. \A x \in Uppers : x # u => Found(pq'[x], r) = 0
    BY <1>4, FoundBit DEF OwedOnce, NotElsewhere
  <2>. QED BY <2>1 DEF OwedOnce, NotElsewhere
<1>6. AsksFor(pq'[u], r) /\ Found(pq'[u], r) = Found(pq[u], r)
  BY <1>4 DEF OwedOnce
<1>. QED BY <1>5, <1>6 DEF OwedOnce

LEMMA OwedWrite ==
    ASSUME TypeOK, NEW u \in Uppers, NEW r \in 1 .. issued, OwedOnce(r, u),
           NEW v \in Uppers, NEW l \in Lines, NEW w, AddWrite(v, l, w)
    PROVE  OwedOnce(r, u)'
<1>. DEFINE p == RequestOf(l, w, "WRITE", FALSE, v \in cache.physical, {issued + 1})
<1>1. /\ wq' = [wq EXCEPT ![v] = Append(wq[v], p)]
      /\ UNCHANGED <<rq, pq, returned, tagCheck, stash, mshr, inflightWrites>>
  BY DEF AddWrite, Arrive, lookups, misses
<1>2. r \notin p.deps
  BY CacheIs DEF RequestOf, TypeOK
<1>. HIDE DEF p
<1>3. \A x \in Uppers : wq[x] \in Seq(Requests \cup {p})
  <2>1. Seq(Requests) \subseteq Seq(Requests \cup {p})
    BY SeqMonotonic
  <2>. QED BY <2>1 DEF TypeOK
<1>4. ASSUME NEW x \in Uppers PROVE Found(wq'[x], r) = 0
  <2>1. Found(wq[x], r) = 0 /\ AsksFor(wq[x], r)
    BY FoundBit DEF OwedOnce, NotElsewhere
  <2>2. CASE x = v
    <3>1. Found(Append(wq[v], p), r) = Found(wq[v], r) + Bit(r \in p.deps)
      BY <1>2, <1>3, <2>1, <2>2, AsksAppend
    <3>2. Bit(r \in p.deps) = 0
      BY <1>2 DEF Bit
    <3>. QED BY <1>1, <2>1, <2>2, <3>1, <3>2 DEF TypeOK
  <2>3. CASE x # v
    BY <1>1, <2>1, <2>3 DEF TypeOK
  <2>. QED BY <2>2, <2>3
<1>5. NotElsewhere(r, u)'
  BY <1>1, <1>4 DEF OwedOnce, NotElsewhere
<1>. QED BY <1>1, <1>5 DEF OwedOnce

\* A new read is owed an answer by its place in the queue.
LEMMA OwedFresh ==
    ASSUME TypeOK, NEW u \in Uppers, NEW r, r \notin 1 .. issued, NEW p, r \in p.deps, p.resp,
           UNCHANGED <<wq, returned, tagCheck, stash, mshr, inflightWrites>>,
           \/ rq' = [rq EXCEPT ![u] = Append(rq[u], p)] /\ UNCHANGED pq
           \/ pq' = [pq EXCEPT ![u] = Append(pq[u], p)] /\ UNCHANGED rq
    PROVE  OwedOnce(r, u)'
<1>1. /\ \A v \in Uppers : /\ Found(wq[v], r) = 0 /\ Found(rq[v], r) = 0
                           /\ Found(pq[v], r) = 0
                           /\ FoundAnswer(returned[v], r) = 0 /\ SoleAnswer(returned[v], r)
      /\ Found(tagCheck, r) = 0 /\ Found(stash, r) = 0
      /\ Found(mshr, r) = 0 /\ Found(inflightWrites, r) = 0
  BY NowhereIs
<1>2. /\ CarriesFor(tagCheck, r, u) /\ CarriesFor(stash, r, u)
      /\ CarriesFor(mshr, r, u) /\ CarriesFor(inflightWrites, r, u)
      /\ AsksFor(rq[u], r) /\ AsksFor(pq[u], r)
  BY <1>1, FoundBit
<1>3. ASSUME NEW q \in Seq(Requests), Found(q, r) = 0
      PROVE  AsksFor(Append(q, p), r) /\ Found(Append(q, p), r) = 1
  <2>1. q \in Seq(Requests \cup {p})
    <3>1. Seq(Requests) \subseteq Seq(Requests \cup {p})
      BY SeqMonotonic
    <3>. QED BY <3>1
  <2>2. AsksFor(q, r) /\ Bit(r \in p.deps) = 1
    BY <1>3, FoundBit DEF Bit
  <2>. QED BY <1>3, <2>1, <2>2, AsksAppend
<1>4. /\ rq \in [Uppers -> Seq(Requests)] /\ pq \in [Uppers -> Seq(Requests)]
  BY DEF TypeOK
<1>5. \A v \in Uppers : v # u => rq'[v] = rq[v] /\ pq'[v] = pq[v]
  BY <1>4
<1>6. NotElsewhere(r, u)'
  BY <1>1, <1>5 DEF NotElsewhere
<1>7. /\ AsksFor(rq'[u], r) /\ AsksFor(pq'[u], r)
      /\ Found(rq'[u], r) + Found(pq'[u], r) = 1
  <2>1. CASE rq' = [rq EXCEPT ![u] = Append(rq[u], p)] /\ UNCHANGED pq
    <3>1. rq'[u] = Append(rq[u], p) /\ rq[u] \in Seq(Requests)
      BY <1>4, <2>1
    <3>. QED BY <1>1, <1>2, <1>3, <2>1, <3>1
  <2>2. CASE pq' = [pq EXCEPT ![u] = Append(pq[u], p)] /\ UNCHANGED rq
    <3>1. pq'[u] = Append(pq[u], p) /\ pq[u] \in Seq(Requests)
      BY <1>4, <2>2
    <3>. QED BY <1>1, <1>2, <1>3, <2>2, <3>1
  <2>. QED BY <2>1, <2>2
<1>. QED BY <1>1, <1>2, <1>6, <1>7 DEF OwedOnce

\* An answer that is taken was owed to somebody else, or the read waits no more.
LEMMA OwedTaken ==
    ASSUME TypeOK, NEW u \in Uppers, NEW r, OwedOnce(r, u), <<r, u>> \in waiting',
           NEW v \in Uppers, TakeAnswers(v)
    PROVE  OwedOnce(r, u)'
<1>1. /\ returned' = [returned EXCEPT ![v] = <<>>]
      /\ waiting' = waiting \ ((UNION Range(returned[v])) \X {v})
      /\ UNCHANGED <<wq, rq, pq, tagCheck, stash, mshr, inflightWrites>>
  BY DEF TakeAnswers, queues, lookups, misses
<1>2. SoleAnswer(returned'[u], r) /\ FoundAnswer(returned'[u], r) = FoundAnswer(returned[u], r)
  <2>1. CASE u = v
    <3>1. r \notin UNION Range(returned[u])
      BY <1>1, <2>1
    <3>2. FoundAnswer(returned[u], r) = 0
      BY <3>1 DEF FoundAnswer, Range
    <3>3. returned'[u] = <<>>
      BY <1>1, <2>1 DEF TypeOK
    <3>. QED BY <3>2, <3>3 DEF FoundAnswer, SoleAnswer
  <2>2. CASE u # v
    BY <1>1, <2>2 DEF TypeOK, OwedOnce
  <2>. QED BY <2>1, <2>2
<1>3. NotElsewhere(r, u)'
  BY <1>1 DEF OwedOnce, NotElsewhere
<1>. QED BY <1>1, <1>2, <1>3 DEF OwedOnce

\* finish_packet, finish_translation and issue_translation move registers and lookups.
LEMMA OwedSettled ==
    ASSUME TypeOK, ReadyFirst, Registers, NEW u \in Uppers, NEW r, OwedOnce(r, u),
           NEW l \in Lines, FinishPacket(l)
    PROVE  OwedOnce(r, u)'
<1>1. /\ asked[l] > 0 /\ mshr' = Settled(l)
      /\ UNCHANGED <<wq, rq, pq, returned, tagCheck, stash, inflightWrites>>
  BY DEF FinishPacket, queues, lookups
<1>2. PICK k, f \in DOMAIN mshr : MovesTo(l, k, f)
  BY <1>1, SettledIs
<1>3. \A j \in DOMAIN mshr : mshr[j] \in Misses
  BY LenProperties, ElementOfSeq DEF TypeOK
<1>. DEFINE d == [mshr[k] EXCEPT !.done = TRUE]
<1>4. d.deps = mshr[k].deps /\ d.ret = mshr[k].ret
  BY <1>3 DEF Misses
<1>. HIDE DEF d
<1>5. mshr' = [j \in DOMAIN mshr |-> IF j = f THEN d ELSE IF j = k THEN mshr[f] ELSE mshr[j]]
  BY <1>1, <1>2 DEF MovesTo, d
<1>6. PICK g : g = [j \in DOMAIN mshr |-> IF j = f THEN k ELSE IF j = k THEN f ELSE j]
  OBVIOUS
<1>7. \A j \in DOMAIN mshr : /\ g[j] \in DOMAIN mshr'
                             /\ mshr'[g[j]].deps = mshr[j].deps /\ mshr'[g[j]].ret = mshr[j].ret
  BY <1>4, <1>5, <1>6
<1>8. \A j \in DOMAIN mshr' : g[j] \in DOMAIN mshr /\ g[g[j]] = j
  BY <1>5, <1>6
<1>9. CarriesFor(mshr', r, u) /\ Found(mshr', r) = Found(mshr, r)
  <2>1. \A j \in DOMAIN mshr' : \E i \in DOMAIN mshr : g[i] = j
    BY <1>8
  <2>2. MovesAll(mshr, mshr', g)
    BY <1>7, <2>1 DEF MovesAll
  <2>. QED BY <2>2, CarriesMoved DEF OwedOnce
<1>10. NotElsewhere(r, u)'
  BY <1>1 DEF OwedOnce, NotElsewhere
<1>. QED BY <1>1, <1>9, <1>10 DEF OwedOnce

LEMMA OwedTranslated ==
    ASSUME TypeOK, NEW u \in Uppers, NEW r, OwedOnce(r, u),
           IssueTranslation \/ \E l \in Lines : FinishTranslation(l)
    PROVE  OwedOnce(r, u)'
<1>1. UNCHANGED <<wq, rq, pq, returned, mshr, inflightWrites>>
  BY DEF IssueTranslation, FinishTranslation, queues, misses
<1>2. CarriesFor(tagCheck', r, u) /\ Found(tagCheck', r) = Found(tagCheck, r)
  <2>1. PICK g : g = [i \in DOMAIN tagCheck |-> i]
    OBVIOUS
  <2>2. \A i \in DOMAIN tagCheck : /\ g[i] \in DOMAIN tagCheck'
                                   /\ tagCheck'[g[i]].deps = tagCheck[i].deps
                                   /\ tagCheck'[g[i]].ret = tagCheck[i].ret
    BY <2>1, TranslationMoves DEF SameEntry
  <2>3. \A k \in DOMAIN tagCheck' : \E i \in DOMAIN tagCheck : g[i] = k
    BY <2>1, TranslationMoves
  <2>4. MovesAll(tagCheck, tagCheck', g)
    BY <2>2, <2>3 DEF MovesAll
  <2>. QED BY <2>4, CarriesMoved DEF OwedOnce
<1>3. CarriesFor(stash', r, u) /\ Found(stash', r) = Found(stash, r)
  <2>1. PICK g : MovesStash(g)
    BY TranslationMoves
  <2>2. \A i \in DOMAIN stash : /\ g[i] \in DOMAIN stash'
                                /\ stash'[g[i]].deps = stash[i].deps
                                /\ stash'[g[i]].ret = stash[i].ret
    BY <2>1 DEF MovesStash, SameEntry
  <2>3. \A k \in DOMAIN stash' : \E i \in DOMAIN stash : g[i] = k
    BY <2>1 DEF MovesStash
  <2>4. MovesAll(stash, stash', g)
    BY <2>2, <2>3 DEF MovesAll
  <2>. QED BY <2>4, CarriesMoved DEF OwedOnce
<1>4. NotElsewhere(r, u)'
  BY <1>1 DEF OwedOnce, NotElsewhere
<1>. QED BY <1>1, <1>2, <1>3, <1>4 DEF OwedOnce

\* A queue after the collisions are looked for.
LEMMA ChecksFor ==
    ASSUME NEW q \in Seq(Requests), NEW S \in SUBSET (1 .. Len(q)), NEW o \in BOOLEAN,
           NEW r, AsksFor(q, r)
    PROVE  /\ AsksFor(Checked(q, S, o), r)
           /\ Found(Checked(q, S, o), r) = FoundAt(q, S, r)
<1>1. PICK f : Collects(q, S, Checked(q, S, o), f)
  BY CheckedIs
<1>. DEFINE t == Checked(q, S, o)
<1>. HIDE DEF t
<1>2. Collects(q, S, t, f)
  BY <1>1 DEF t
<1>3. Sole(t, r) /\ Found(t, r) = FoundAt(q, S, r)
  BY <1>2, FoundChecked DEF AsksFor
<1>4. DOMAIN q = 1 .. Len(q)
  BY LenProperties
<1>5. ASSUME NEW n \in DOMAIN t, r \in t[n].deps PROVE t[n].resp
  <2>1. PICK j \in S : f[j] = n /\ r \in q[j].deps
    BY <1>2, <1>5 DEF Collects
  <2>2. q[j].resp
    BY <1>4, <2>1 DEF AsksFor
  <2>3. q[j].resp => t[f[j]].resp
    BY <1>2 DEF Collects
  <2>. QED BY <2>1, <2>2, <2>3
<1>. QED BY <1>3, <1>5 DEF t, AsksFor

LEMMA OwedChecked ==
    ASSUME TypeOK, NEW u \in Uppers, NEW r, OwedOnce(r, u), CheckCollisions
    PROVE  OwedOnce(r, u)'
<1>. DEFINE o == cache.offset
            left(w, q) == Left(w, q, o)
            a == ForwardedAnswers(wq'[u], rq[u], o)
            b == ForwardedAnswers(wq'[u], pq[u], o)
<1>1. o \in BOOLEAN /\ FALSE \in BOOLEAN
  BY CacheIs DEF TypeOK
<1>2. ASSUME NEW v \in Uppers
      PROVE  /\ wq[v] \in Seq(Requests) /\ rq[v] \in Seq(Requests) /\ pq[v] \in Seq(Requests)
             /\ wq'[v] = Checked(wq[v], 1 .. Len(wq[v]), o)
             /\ rq'[v] = Checked(rq[v], left(wq'[v], rq[v]), FALSE)
             /\ pq'[v] = Checked(pq[v], left(wq'[v], pq[v]), FALSE)
  BY DEF CheckCollisions, CheckedWrites, CheckedReads, Left, TypeOK
<1>3. /\ UNCHANGED <<tagCheck, stash, mshr, inflightWrites>>
      /\ returned'[u] = (returned[u] \o a) \o b
  BY DEF CheckCollisions, lookups, misses
<1>4. ASSUME NEW q \in Seq(Requests), NEW w, AsksFor(q, r)
      PROVE  /\ AsksFor(Checked(q, left(w, q), FALSE), r)
             /\ Found(Checked(q, left(w, q), FALSE), r) = FoundAt(q, left(w, q), r)
  <2>1. left(w, q) \in SUBSET (1 .. Len(q))
    BY DEF Left
  <2>. HIDE DEF left
  <2>. QED BY <1>1, <1>4, <2>1, ChecksFor
<1>5. ASSUME NEW q \in Seq(Requests), NEW w, Found(q, r) = 0
      PROVE  Found(Checked(q, left(w, q), FALSE), r) = 0
  <2>1. AsksFor(q, r) /\ DOMAIN q = 1 .. Len(q)
    BY <1>5, FoundBit, LenProperties
  <2>2. ~(\E j \in left(w, q) : r \in q[j].deps)
    BY <1>5, <2>1, FoundBit DEF Left
  <2>3. FoundAt(q, left(w, q), r) = 0
    BY <2>2 DEF FoundAt
  <2>. HIDE DEF left
  <2>. QED BY <1>4, <2>1, <2>3
<1>6. ASSUME NEW v \in Uppers PROVE Found(wq'[v], r) = 0
  <2>1. Found(wq[v], r) = 0 /\ AsksFor(wq[v], r)
    BY FoundBit DEF OwedOnce, NotElsewhere
  <2>2. Found(wq'[v], r) = FoundAt(wq[v], 1 .. Len(wq[v]), r)
    <3>. DEFINE S == 1 .. Len(wq[v])
    <3>1. wq[v] \in Seq(Requests) /\ S \in SUBSET (1 .. Len(wq[v])) /\ wq'[v] = Checked(wq[v], S, o)
      BY <1>2
    <3>. HIDE DEF o, S
    <3>2. Found(Checked(wq[v], S, o), r) = FoundAt(wq[v], S, r)
      BY <1>1, <2>1, <3>1, ChecksFor
    <3>. QED BY <3>1, <3>2 DEF S
  <2>3. ~(\E j \in 1 .. Len(wq[v]) : r \in wq[v][j].deps)
    BY <1>2, <2>1, FoundBit, LenProperties
  <2>. QED BY <2>2, <2>3 DEF FoundAt
<1>7. ASSUME NEW v \in Uppers, v # u PROVE Found(rq'[v], r) = 0 /\ Found(pq'[v], r) = 0
  <2>1. Found(rq[v], r) = 0 /\ Found(pq[v], r) = 0
    BY <1>7 DEF OwedOnce, NotElsewhere
  <2>. DEFINE w == wq'[v]
  <2>2. /\ rq[v] \in Seq(Requests) /\ pq[v] \in Seq(Requests)
        /\ rq'[v] = Checked(rq[v], left(w, rq[v]), FALSE)
        /\ pq'[v] = Checked(pq[v], left(w, pq[v]), FALSE)
    BY <1>2
  <2>. HIDE DEF left, w
  <2>3. Found(Checked(rq[v], left(w, rq[v]), FALSE), r) = 0
    BY <1>5, <2>1, <2>2
  <2>4. Found(Checked(pq[v], left(w, pq[v]), FALSE), r) = 0
    BY <1>5, <2>1, <2>2
  <2>. QED BY <2>2, <2>3, <2>4
<1>8. NotElsewhere(r, u)'
  BY <1>6, <1>7 DEF NotElsewhere
<1>9. ASSUME NEW q \in Seq(Requests), NEW w, AsksFor(q, r)
      PROVE  /\ ForwardedAnswers(w, q, o) \in Seq(SUBSET (1 .. issued))
             /\ SoleAnswer(ForwardedAnswers(w, q, o), r)
             /\ FoundAnswer(ForwardedAnswers(w, q, o), r)
                   + FoundAt(q, left(w, q), r) = Found(q, r)
  <2>1. Sole(q, r) /\ \A i \in DOMAIN q : r \in q[i].deps => q[i].resp
    BY <1>9 DEF AsksFor
  <2>2. o \in BOOLEAN
    BY <1>1
  <2>. HIDE DEF o
  <2>. QED BY <2>1, <2>2, ForwardedIs
<1>10. /\ AsksFor(rq'[u], r) /\ a \in Seq(SUBSET (1 .. issued)) /\ SoleAnswer(a, r)
       /\ FoundAnswer(a, r) + Found(rq'[u], r) = Found(rq[u], r)
  <2>. DEFINE w == wq'[u]
  <2>1. /\ rq[u] \in Seq(Requests) /\ AsksFor(rq[u], r)
        /\ rq'[u] = Checked(rq[u], left(w, rq[u]), FALSE)
    BY <1>2 DEF OwedOnce
  <2>2. a = ForwardedAnswers(w, rq[u], o)
    OBVIOUS
  <2>. HIDE DEF left, w, a, o
  <2>3. /\ AsksFor(Checked(rq[u], left(w, rq[u]), FALSE), r)
        /\ Found(Checked(rq[u], left(w, rq[u]), FALSE), r)
              = FoundAt(rq[u], left(w, rq[u]), r)
    BY <1>4, <2>1
  <2>4. /\ a \in Seq(SUBSET (1 .. issued)) /\ SoleAnswer(a, r)
        /\ FoundAnswer(a, r) + FoundAt(rq[u], left(w, rq[u]), r)
              = Found(rq[u], r)
    BY <1>9, <2>1, <2>2
  <2>. QED BY <2>1, <2>3, <2>4
<1>11. /\ AsksFor(pq'[u], r) /\ b \in Seq(SUBSET (1 .. issued)) /\ SoleAnswer(b, r)
       /\ FoundAnswer(b, r) + Found(pq'[u], r) = Found(pq[u], r)
  <2>. DEFINE w == wq'[u]
  <2>1. /\ pq[u] \in Seq(Requests) /\ AsksFor(pq[u], r)
        /\ pq'[u] = Checked(pq[u], left(w, pq[u]), FALSE)
    BY <1>2 DEF OwedOnce
  <2>2. b = ForwardedAnswers(w, pq[u], o)
    OBVIOUS
  <2>. HIDE DEF left, w, b, o
  <2>3. /\ AsksFor(Checked(pq[u], left(w, pq[u]), FALSE), r)
        /\ Found(Checked(pq[u], left(w, pq[u]), FALSE), r)
              = FoundAt(pq[u], left(w, pq[u]), r)
    BY <1>4, <2>1
  <2>4. /\ b \in Seq(SUBSET (1 .. issued)) /\ SoleAnswer(b, r)
        /\ FoundAnswer(b, r) + FoundAt(pq[u], left(w, pq[u]), r)
              = Found(pq[u], r)
    BY <1>9, <2>1, <2>2
  <2>. QED BY <2>1, <2>3, <2>4
<1>. HIDE DEF left, a, b
<1>12. /\ {Found(rq[u], r), Found(pq[u], r), FoundAnswer(returned[u], r), Found(tagCheck, r),
           Found(stash, r), Found(mshr, r), Found(inflightWrites, r),
           Found(rq'[u], r), Found(pq'[u], r), FoundAnswer(a, r), FoundAnswer(b, r)} \subseteq {0, 1}
       /\ returned[u] \in Seq(SUBSET (1 .. issued))
  BY FoundIs DEF TypeOK
<1>13. FoundAnswer(returned[u], r) + FoundAnswer(a, r) + FoundAnswer(b, r) <= 1
  BY <1>10, <1>11, <1>12 DEF OwedOnce
<1>14. /\ SoleAnswer(returned[u] \o a, r)
       /\ FoundAnswer(returned[u] \o a, r) = FoundAnswer(returned[u], r) + FoundAnswer(a, r)
       /\ returned[u] \o a \in Seq(SUBSET (1 .. issued))
  <2>1. FoundAnswer(returned[u], r) + FoundAnswer(a, r) <= 1
    BY <1>12, <1>13
  <2>. QED BY <1>10, <1>12, <2>1, FoundAnswerConcat, ConcatProperties DEF OwedOnce
<1>15. /\ SoleAnswer(returned'[u], r)
       /\ FoundAnswer(returned'[u], r)
             = FoundAnswer(returned[u], r) + FoundAnswer(a, r) + FoundAnswer(b, r)
  <2>. DEFINE c == returned[u] \o a
              T == SUBSET (1 .. issued)
  <2>1. /\ c \in Seq(T) /\ b \in Seq(T) /\ SoleAnswer(c, r) /\ SoleAnswer(b, r)
        /\ FoundAnswer(c, r) = FoundAnswer(returned[u], r) + FoundAnswer(a, r)
        /\ returned'[u] = c \o b
    BY <1>3, <1>11, <1>14
  <2>. HIDE DEF c, T
  <2>2. FoundAnswer(c, r) + FoundAnswer(b, r) <= 1
    BY <1>13, <2>1
  <2>3. /\ SoleAnswer(c \o b, r)
        /\ FoundAnswer(c \o b, r) = FoundAnswer(c, r) + FoundAnswer(b, r)
    BY <2>1, <2>2, FoundAnswerConcat
  <2>. QED BY <2>1, <2>3
<1>16. /\ CarriesFor(tagCheck', r, u) /\ CarriesFor(stash', r, u)
       /\ CarriesFor(mshr', r, u) /\ CarriesFor(inflightWrites', r, u)
       /\ Found(tagCheck', r) = Found(tagCheck, r) /\ Found(stash', r) = Found(stash, r)
       /\ Found(mshr', r) = Found(mshr, r) /\ Found(inflightWrites', r) = Found(inflightWrites, r)
  BY <1>3 DEF OwedOnce
<1>17. Found(rq'[u], r) + Found(pq'[u], r) + FoundAnswer(returned'[u], r)
          + Found(tagCheck', r) + Found(stash', r) + Found(mshr', r) + Found(inflightWrites', r) = 1
  BY <1>10, <1>11, <1>12, <1>15, <1>16 DEF OwedOnce
<1>. QED BY <1>8, <1>10, <1>11, <1>15, <1>16, <1>17 DEF OwedOnce

\* A fill moves what its register owes to the answers.
LEMMA OwedFilled ==
    ASSUME TypeOK, NEW u \in Uppers, NEW r, OwedOnce(r, u), FillFromMshr \/ FillFromWrites
    PROVE  OwedOnce(r, u)'
<1>0. UNCHANGED <<wq, rq, pq, tagCheck, stash>>
  BY DEF FillFromMshr, FillFromWrites, queues, lookups
<1>1. NotElsewhere(r, u)'
  BY <1>0 DEF OwedOnce, NotElsewhere
<1>2. /\ {Found(rq[u], r), Found(pq[u], r), FoundAnswer(returned[u], r), Found(tagCheck, r),
          Found(stash, r), Found(mshr, r), Found(inflightWrites, r)} \subseteq {0, 1}
  BY FoundIs
<1>3. ASSUME NEW s \in Seq(Misses), s # <<>>, HandleFill(Head(s)), CarriesFor(s, r, u),
             Found(s, r) + FoundAnswer(returned[u], r) <= 1
      PROVE  /\ CarriesFor(Tail(s), r, u) /\ SoleAnswer(returned'[u], r)
             /\ Found(Tail(s), r) + FoundAnswer(returned'[u], r)
                   = Found(s, r) + FoundAnswer(returned[u], r)
  <2>. DEFINE e == Head(s)
  <2>1. /\ CarriesFor(Tail(s), r, u)
        /\ Found(s, r) = Found(Tail(s), r) + Bit(r \in e.deps)
        /\ r \in e.deps => u \in e.ret
    BY <1>3, CarriesTail
  <2>2. /\ e.deps \in SUBSET (1 .. issued) /\ returned' = Answer(e)
    <3>1. e \in Misses
      BY <1>3, HeadIn
    <3>. QED BY <1>3, <3>1 DEF Misses, HandleFill, BypassFill, FillWay
  <2>. HIDE DEF e
  <2>3. /\ Found(Tail(s), r) \in {0, 1} /\ Found(s, r) \in {0, 1}
        /\ Bit(r \in e.deps) \in {0, 1} /\ (r \in e.deps <=> Bit(r \in e.deps) = 1)
        /\ FoundAnswer(returned[u], r) \in {0, 1}
    BY FoundIs DEF Bit
  <2>4. r \in e.deps => FoundAnswer(returned[u], r) = 0
    BY <1>3, <2>1, <2>3
  <2>5. /\ SoleAnswer(returned'[u], r)
        /\ FoundAnswer(returned'[u], r) = FoundAnswer(returned[u], r) + Bit(r \in e.deps)
    BY <2>1, <2>2, <2>4, AnswerIs DEF OwedOnce
  <2>. QED BY <2>1, <2>3, <2>5
<1>4. CASE FillFromMshr
  <2>1. /\ mshr \in Seq(Misses) /\ mshr # <<>> /\ HandleFill(Head(mshr)) /\ mshr' = Tail(mshr)
        /\ UNCHANGED inflightWrites
    BY <1>4 DEF FillFromMshr, TypeOK
  <2>2. CarriesFor(mshr, r, u) /\ Found(mshr, r) + FoundAnswer(returned[u], r) <= 1
    BY <1>2 DEF OwedOnce
  <2>3. /\ CarriesFor(mshr', r, u) /\ SoleAnswer(returned'[u], r)
        /\ Found(mshr', r) + FoundAnswer(returned'[u], r)
              = Found(mshr, r) + FoundAnswer(returned[u], r)
    BY <1>3, <2>1, <2>2
  <2>4. Found(mshr', r) \in {0, 1} /\ FoundAnswer(returned'[u], r) \in {0, 1}
    BY FoundIs
  <2>. QED BY <1>0, <1>1, <1>2, <2>1, <2>3, <2>4 DEF OwedOnce
<1>5. CASE FillFromWrites
  <2>1. /\ inflightWrites \in Seq(Misses) /\ inflightWrites # <<>>
        /\ HandleFill(Head(inflightWrites)) /\ inflightWrites' = Tail(inflightWrites)
        /\ UNCHANGED mshr
    BY <1>5 DEF FillFromWrites, TypeOK
  <2>2. CarriesFor(inflightWrites, r, u) /\ Found(inflightWrites, r) + FoundAnswer(returned[u], r) <= 1
    BY <1>2 DEF OwedOnce
  <2>3. /\ CarriesFor(inflightWrites', r, u) /\ SoleAnswer(returned'[u], r)
        /\ Found(inflightWrites', r) + FoundAnswer(returned'[u], r)
              = Found(inflightWrites, r) + FoundAnswer(returned[u], r)
    BY <1>3, <2>1, <2>2
  <2>4. Found(inflightWrites', r) \in {0, 1} /\ FoundAnswer(returned'[u], r) \in {0, 1}
    BY FoundIs
  <2>. QED BY <1>0, <1>1, <1>2, <2>1, <2>3, <2>4 DEF OwedOnce
<1>. QED BY <1>4, <1>5

\* A lookup that starts takes what its request asks for.
LEMMA QueueTaken ==
    ASSUME NEW q \in [Uppers -> Seq(Requests)], NEW v \in Uppers, q[v] # <<>>, NEW r, AsksFor(q[v], r)
    PROVE  /\ AsksFor(Take(q, v)[v], r)
           /\ Found(q[v], r) = Found(Take(q, v)[v], r) + Bit(r \in Head(q[v]).deps)
           /\ r \in Head(q[v]).deps => Head(q[v]).resp
           /\ \A x \in Uppers : x # v => Take(q, v)[x] = q[x]
           /\ Head(q[v]) \in Requests
<1>1. q[v] \in Seq(Requests) /\ Take(q, v) = [q EXCEPT ![v] = Tail(q[v])]
  BY DEF Take
<1>2. Take(q, v)[v] = Tail(q[v]) /\ \A x \in Uppers : x # v => Take(q, v)[x] = q[x]
  BY <1>1
<1>3. /\ AsksFor(Tail(q[v]), r)
      /\ Found(q[v], r) = Found(Tail(q[v]), r) + Bit(r \in Head(q[v]).deps)
      /\ r \in Head(q[v]).deps => Head(q[v]).resp
  BY <1>1, AsksTail
<1>4. Head(q[v]) \in Requests
  BY <1>1, HeadIn
<1>. QED BY <1>2, <1>3, <1>4

LEMMA StartsFor ==
    ASSUME TypeOK, NEW h \in Requests, NEW v \in Uppers, tagCheck' = StartEntry(h, v),
           NEW u \in Uppers, NEW r, CarriesFor(tagCheck, r, u),
           r \in h.deps => h.resp /\ v = u /\ Found(tagCheck, r) = 0
    PROVE  /\ CarriesFor(tagCheck', r, u)
           /\ Found(tagCheck', r) = Found(tagCheck, r) + Bit(r \in h.deps)
<1>. DEFINE ret == IF h.resp THEN {v} ELSE {}
            e == TagEntry(h, ret, FALSE, FALSE)
<1>1. tagCheck' = Append(tagCheck, e) /\ tagCheck \in Seq(Lookups)
  BY DEF StartEntry, TypeOK
<1>2. e \in Lookups
  <2>1. ret \in SUBSET Uppers
    OBVIOUS
  <2>. HIDE DEF ret
  <2>. QED BY <2>1, EntryTypes
<1>3. e.deps = h.deps /\ e.ret = ret
  BY DEF TagEntry
<1>4. r \in e.deps => Found(tagCheck, r) = 0 /\ u \in e.ret
  BY <1>3
<1>. HIDE DEF e
<1>5. /\ CarriesFor(Append(tagCheck, e), r, u)
      /\ Found(Append(tagCheck, e), r) = Found(tagCheck, r) + Bit(r \in e.deps)
  BY <1>1, <1>2, <1>4, CarriesAppend
<1>. QED BY <1>1, <1>3, <1>5

LEMMA OwedStarted ==
    ASSUME TypeOK, NEW u \in Uppers, NEW r, OwedOnce(r, u), NEW v \in Uppers, StartQueued(v)
    PROVE  OwedOnce(r, u)'
<1>0. /\ UNCHANGED <<returned, stash, mshr, inflightWrites>>
      /\ wq \in [Uppers -> Seq(Requests)] /\ rq \in [Uppers -> Seq(Requests)]
      /\ pq \in [Uppers -> Seq(Requests)]
  BY DEF StartQueued, misses, TypeOK
<1>1. /\ {Found(rq[u], r), Found(pq[u], r), FoundAnswer(returned[u], r), Found(tagCheck, r),
          Found(stash, r), Found(mshr, r), Found(inflightWrites, r),
          Found(rq'[u], r), Found(pq'[u], r), Found(tagCheck', r)} \subseteq {0, 1}
  BY FoundIs
<1>2. /\ CarriesFor(tagCheck, r, u) /\ AsksFor(rq[u], r) /\ AsksFor(pq[u], r)
      /\ \A x \in Uppers : Found(wq[x], r) = 0 /\ AsksFor(wq[x], r)
      /\ \A x \in Uppers : x # u => /\ Found(rq[x], r) = 0 /\ AsksFor(rq[x], r)
                                    /\ Found(pq[x], r) = 0 /\ AsksFor(pq[x], r)
  BY FoundBit DEF OwedOnce, NotElsewhere
<1>3. CASE CanStart(wq[v]) /\ tagCheck' = StartEntry(Head(wq[v]), v) /\ wq' = Take(wq, v)
           /\ UNCHANGED <<rq, pq>>
  <2>. DEFINE h == Head(wq[v])
  <2>1. /\ AsksFor(wq'[v], r) /\ Found(wq[v], r) = Found(wq'[v], r) + Bit(r \in h.deps)
        /\ h \in Requests /\ \A x \in Uppers : x # v => wq'[x] = wq[x]
    <3>1. wq[v] # <<>> /\ AsksFor(wq[v], r)
      BY <1>2, <1>3 DEF CanStart
    <3>. DEFINE t == Take(wq, v)
    <3>2. /\ AsksFor(t[v], r) /\ Found(wq[v], r) = Found(t[v], r) + Bit(r \in h.deps)
          /\ h \in Requests /\ \A x \in Uppers : x # v => t[x] = wq[x]
      BY <1>0, <3>1, QueueTaken, ZenonT(60)
    <3>3. wq' = t
      BY <1>3
    <3>. HIDE DEF t, h
    <3>. QED BY <3>2, <3>3
  <2>2. tagCheck' = StartEntry(h, v)
    BY <1>3
  <2>. HIDE DEF h
  <2>3. r \notin h.deps /\ Bit(r \in h.deps) = 0 /\ Found(wq'[v], r) = 0
    <3>1. Found(wq[v], r) = 0 /\ Found(wq'[v], r) \in {0, 1}
      BY <1>2, FoundBit
    <3>2. Bit(r \in h.deps) = 0
      BY <2>1, <3>1 DEF Bit
    <3>3. Found(wq'[v], r) = 0
      BY <2>1, <3>1, <3>2
    <3>. QED BY <3>2, <3>3 DEF Bit
  <2>4. /\ CarriesFor(tagCheck', r, u)
        /\ Found(tagCheck', r) = Found(tagCheck, r) + Bit(r \in h.deps)
    BY <1>2, <2>1, <2>2, <2>3, StartsFor
  <2>5. Found(tagCheck', r) = Found(tagCheck, r)
    BY <1>1, <2>3, <2>4
  <2>6. NotElsewhere(r, u)'
    BY <1>2, <1>3, <2>1, <2>3 DEF NotElsewhere
  <2>. QED BY <1>0, <1>3, <2>4, <2>5, <2>6 DEF OwedOnce
<1>4. ASSUME NEW q \in [Uppers -> Seq(Requests)], q[v] # <<>>, AsksFor(q[u], r),
             tagCheck' = StartEntry(Head(q[v]), v),
             \A x \in Uppers : x # u => Found(q[x], r) = 0 /\ AsksFor(q[x], r),
             Found(q[u], r) + Found(tagCheck, r) <= 1
      PROVE  /\ CarriesFor(tagCheck', r, u) /\ AsksFor(Take(q, v)[u], r)
             /\ Found(Take(q, v)[u], r) + Found(tagCheck', r) = Found(q[u], r) + Found(tagCheck, r)
             /\ \A x \in Uppers : x # u => Found(Take(q, v)[x], r) = 0
  <2>. DEFINE h == Head(q[v])
              t == Take(q, v)
  <2>0. AsksFor(q[v], r)
    BY <1>4
  <2>1. /\ AsksFor(t[v], r) /\ Found(q[v], r) = Found(t[v], r) + Bit(r \in h.deps)
        /\ r \in h.deps => h.resp
        /\ \A x \in Uppers : x # v => t[x] = q[x]
        /\ h \in Requests
    BY <1>4, <2>0, QueueTaken, ZenonT(60)
  <2>2. tagCheck' = StartEntry(h, v)
    BY <1>4
  <2>. HIDE DEF h, t
  <2>3. /\ Found(t[v], r) \in {0, 1} /\ Found(q[v], r) \in {0, 1} /\ Found(q[u], r) \in {0, 1}
        /\ Found(t[u], r) \in {0, 1}
        /\ Found(tagCheck, r) \in {0, 1} /\ Bit(r \in h.deps) \in {0, 1}
        /\ (r \in h.deps <=> Bit(r \in h.deps) = 1)
    BY FoundIs DEF Bit
  <2>4. r \in h.deps => v = u /\ Found(tagCheck, r) = 0
    <3>1. v # u => Found(q[v], r) = 0
      BY <1>4
    <3>. QED BY <1>4, <2>1, <2>3, <3>1
  <2>5. /\ CarriesFor(tagCheck', r, u)
        /\ Found(tagCheck', r) = Found(tagCheck, r) + Bit(r \in h.deps)
    BY <1>2, <2>1, <2>2, <2>4, StartsFor
  <2>6. ASSUME NEW x \in Uppers, x # u PROVE Found(t[x], r) = 0
    <3>1. CASE x = v
      BY <1>4, <2>1, <2>3, <2>6, <3>1
    <3>2. CASE x # v
      BY <1>4, <2>1, <2>6, <3>2
    <3>. QED BY <3>1, <3>2
  <2>7. AsksFor(t[u], r) /\ Found(t[u], r) + Found(tagCheck', r) = Found(q[u], r) + Found(tagCheck, r)
    <3>1. CASE u = v
      BY <2>1, <2>3, <2>5, <3>1
    <3>2. CASE u # v
      <4>1. Bit(r \in h.deps) = 0
        BY <2>3, <2>4, <3>2
      <4>2. t[u] = q[u]
        BY <2>1, <3>2
      <4>. QED BY <1>4, <2>3, <2>5, <4>1, <4>2
    <3>. QED BY <3>1, <3>2
  <2>. QED BY <2>5, <2>6, <2>7 DEF t
<1>5. CASE CanStart(rq[v]) /\ tagCheck' = StartEntry(Head(rq[v]), v) /\ rq' = Take(rq, v)
           /\ UNCHANGED <<wq, pq>>
  <2>1. Found(rq[u], r) + Found(tagCheck, r) <= 1 /\ rq[v] # <<>>
    BY <1>1, <1>5 DEF OwedOnce, CanStart
  <2>2. /\ CarriesFor(tagCheck', r, u) /\ AsksFor(rq'[u], r)
        /\ Found(rq'[u], r) + Found(tagCheck', r) = Found(rq[u], r) + Found(tagCheck, r)
        /\ \A x \in Uppers : x # u => Found(rq'[x], r) = 0
    BY <1>0, <1>2, <1>4, <1>5, <2>1
  <2>3. NotElsewhere(r, u)'
    BY <1>2, <1>5, <2>2 DEF NotElsewhere
  <2>. QED BY <1>0, <1>1, <1>5, <2>2, <2>3 DEF OwedOnce
<1>6. CASE CanStart(pq[v]) /\ tagCheck' = StartEntry(Head(pq[v]), v) /\ pq' = Take(pq, v)
           /\ UNCHANGED <<wq, rq>>
  <2>1. Found(pq[u], r) + Found(tagCheck, r) <= 1 /\ pq[v] # <<>>
    BY <1>1, <1>6 DEF OwedOnce, CanStart
  <2>2. /\ CarriesFor(tagCheck', r, u) /\ AsksFor(pq'[u], r)
        /\ Found(pq'[u], r) + Found(tagCheck', r) = Found(pq[u], r) + Found(tagCheck, r)
        /\ \A x \in Uppers : x # u => Found(pq'[x], r) = 0
    BY <1>0, <1>2, <1>4, <1>6, <2>1
  <2>3. NotElsewhere(r, u)'
    BY <1>2, <1>6, <2>2 DEF NotElsewhere
  <2>. QED BY <1>0, <1>1, <1>6, <2>2, <2>3 DEF OwedOnce
<1>. QED BY <1>3, <1>5, <1>6 DEF StartQueued

\* Lookups pass between tagCheck and the stash; the cache's own carry nothing.
LEMMA OwedMoved ==
    ASSUME TypeOK, Kinds, NEW u \in Uppers, NEW r, OwedOnce(r, u),
           StartStashed \/ StartPrefetch \/ StashLate
    PROVE  OwedOnce(r, u)'
<1>0. UNCHANGED <<wq, rq, pq, returned, mshr, inflightWrites>>
  BY DEF StartStashed, StartPrefetch, StashLate, queues, misses
<1>1. NotElsewhere(r, u)'
  BY <1>0 DEF OwedOnce, NotElsewhere
<1>2. /\ tagCheck \in Seq(Lookups) /\ stash \in Seq(Lookups) /\ internalPQ \in Seq(Lookups)
      /\ CarriesFor(tagCheck, r, u) /\ CarriesFor(stash, r, u)
      /\ Found(tagCheck, r) + Found(stash, r) <= 1
      /\ {Found(tagCheck, r), Found(stash, r), Found(tagCheck', r), Found(stash', r)} \subseteq {0, 1}
  <2>1. {Found(rq[u], r), Found(pq[u], r), FoundAnswer(returned[u], r), Found(tagCheck, r),
         Found(stash, r), Found(mshr, r), Found(inflightWrites, r)} \subseteq {0, 1}
    BY FoundIs
  <2>2. Found(tagCheck, r) + Found(stash, r) <= 1
    BY <2>1 DEF OwedOnce
  <2>. QED BY <2>2, FoundIs DEF OwedOnce, TypeOK
<1>3. ASSUME /\ CarriesFor(tagCheck', r, u) /\ CarriesFor(stash', r, u)
             /\ Found(tagCheck', r) + Found(stash', r) = Found(tagCheck, r) + Found(stash, r)
      PROVE  OwedOnce(r, u)'
  <2>1. {Found(rq[u], r), Found(pq[u], r), FoundAnswer(returned[u], r), Found(mshr, r),
         Found(inflightWrites, r)} \subseteq {0, 1}
    BY FoundIs
  <2>. QED BY <1>0, <1>1, <1>2, <1>3, <2>1 DEF OwedOnce
<1>4. CASE StartStashed
  <2>. DEFINE e == Head(stash)
  <2>1. stash # <<>> /\ tagCheck' = Append(tagCheck, e) /\ stash' = Tail(stash)
    BY <1>4 DEF StartStashed, StashReady
  <2>2. /\ CarriesFor(stash', r, u)
        /\ Found(stash, r) = Found(stash', r) + Bit(r \in e.deps)
        /\ r \in e.deps => u \in e.ret
    BY <1>2, <2>1, CarriesTail
  <2>3. e \in Lookups
    BY <1>2, <2>1, HeadIn
  <2>. HIDE DEF e
  <2>4. r \in e.deps => Found(tagCheck, r) = 0
    BY <1>2, <2>2 DEF Bit
  <2>5. /\ CarriesFor(tagCheck', r, u)
        /\ Found(tagCheck', r) = Found(tagCheck, r) + Bit(r \in e.deps)
    BY <1>2, <2>1, <2>2, <2>3, <2>4, CarriesAppend
  <2>. QED BY <1>2, <1>3, <2>2, <2>5 DEF Bit
<1>5. CASE StartPrefetch
  <2>. DEFINE e == Head(internalPQ)
  <2>1. internalPQ # <<>> /\ tagCheck' = Append(tagCheck, e) /\ UNCHANGED stash
    BY <1>5 DEF StartPrefetch, CanStart
  <2>2. e \in Lookups /\ e.deps = {}
    <3>1. e \in Lookups /\ 1 \in DOMAIN internalPQ /\ e = internalPQ[1] /\ e \in Range(internalPQ)
      BY <1>2, <2>1, HeadIn, RangeIs
    <3>2. e.local
      BY <3>1 DEF Kinds
    <3>. QED BY <3>1, <3>2 DEF Kinds
  <2>. HIDE DEF e
  <2>3. /\ CarriesFor(tagCheck', r, u)
        /\ Found(tagCheck', r) = Found(tagCheck, r) + Bit(r \in e.deps)
    BY <1>2, <2>1, <2>2, CarriesAppend
  <2>4. Bit(r \in e.deps) = 0
    BY <2>2 DEF Bit
  <2>. QED BY <1>2, <1>3, <2>1, <2>3, <2>4
<1>6. CASE StashLate
  <2>1. PICK i \in 1 .. Len(tagCheck) :
           /\ stash' = Append(stash, tagCheck[i]) /\ tagCheck' = RemoveAt(tagCheck, i)
           /\ tagCheck[i] \in Lookups
    BY <1>6, LateIs
  <2>. DEFINE e == tagCheck[i]
  <2>2. /\ CarriesFor(tagCheck', r, u)
        /\ Found(tagCheck, r) = Found(tagCheck', r) + Bit(r \in e.deps)
        /\ r \in e.deps => u \in e.ret
    BY <1>2, <2>1, CarriesRemoved
  <2>3. e \in Lookups /\ stash' = Append(stash, e)
    BY <2>1
  <2>. HIDE DEF e
  <2>4. r \in e.deps => Found(stash, r) = 0
    BY <1>2, <2>2 DEF Bit
  <2>5. /\ CarriesFor(stash', r, u)
        /\ Found(stash', r) = Found(stash, r) + Bit(r \in e.deps)
    BY <1>2, <2>2, <2>3, <2>4, CarriesAppend
  <2>. QED BY <1>2, <1>3, <2>2, <2>5 DEF Bit
<1>. QED BY <1>4, <1>5, <1>6

\* A finished lookup is answered, or waits among the misses.
LEMMA OwedLookedUp ==
    ASSUME TypeOK, Kinds, NEW u \in Uppers, NEW r, OwedOnce(r, u), CheckTag
    PROVE  OwedOnce(r, u)'
<1>. DEFINE e == Head(tagCheck)
<1>1. /\ tagCheck # <<>> /\ tagCheck' = Tail(tagCheck) /\ UNCHANGED <<wq, rq, pq, stash>>
      /\ Hit(e) \/ WriteMiss(e) \/ MergeMiss(e) \/ AllocateMiss(e)
  BY DEF CheckTag, queues
<1>2. /\ tagCheck \in Seq(Lookups) /\ mshr \in Seq(Misses) /\ inflightWrites \in Seq(Misses)
      /\ CarriesFor(tagCheck, r, u) /\ CarriesFor(mshr, r, u) /\ CarriesFor(inflightWrites, r, u)
      /\ SoleAnswer(returned[u], r)
  BY DEF TypeOK, OwedOnce
<1>3. /\ CarriesFor(tagCheck', r, u)
      /\ Found(tagCheck, r) = Found(tagCheck', r) + Bit(r \in e.deps)
      /\ r \in e.deps => u \in e.ret
  BY <1>1, <1>2, CarriesTail
<1>4. e \in Lookups /\ (e.local => e.deps = {})
  <2>1. e \in Lookups /\ e \in Range(tagCheck)
    BY <1>1, <1>2, HeadIn, RangeIs
  <2>. QED BY <2>1 DEF Kinds
<1>. HIDE DEF e
<1>5. {Found(rq[u], r), Found(pq[u], r), FoundAnswer(returned[u], r), Found(tagCheck, r),
       Found(stash, r), Found(mshr, r), Found(inflightWrites, r), Found(tagCheck', r),
       Found(mshr', r), Found(inflightWrites', r), FoundAnswer(returned'[u], r)} \subseteq {0, 1}
  BY FoundIs
<1>6. r \in e.deps => /\ FoundAnswer(returned[u], r) = 0
                      /\ Found(mshr, r) = 0 /\ Found(inflightWrites, r) = 0
  BY <1>3, <1>5 DEF OwedOnce, Bit
<1>7. NotElsewhere(r, u)'
  BY <1>1 DEF OwedOnce, NotElsewhere
<1>8. ASSUME /\ SoleAnswer(returned'[u], r)
             /\ CarriesFor(mshr', r, u) /\ CarriesFor(inflightWrites', r, u)
             /\ FoundAnswer(returned'[u], r) + Found(mshr', r) + Found(inflightWrites', r)
                   = FoundAnswer(returned[u], r) + Found(mshr, r) + Found(inflightWrites, r)
                        + Bit(r \in e.deps)
      PROVE  OwedOnce(r, u)'
  <2>1. Bit(r \in e.deps) \in {0, 1}
    BY DEF Bit
  <2>2. Found(rq[u], r) + Found(pq[u], r) + FoundAnswer(returned[u], r)
           + Found(tagCheck, r) + Found(stash, r) + Found(mshr, r) + Found(inflightWrites, r) = 1
    BY DEF OwedOnce
  <2>3. Found(rq[u], r) + Found(pq[u], r) + FoundAnswer(returned'[u], r) + Found(tagCheck', r)
           + Found(stash, r) + Found(mshr', r) + Found(inflightWrites', r) = 1
    BY <1>3, <1>5, <1>8, <2>1, <2>2
  <2>4. /\ AsksFor(rq'[u], r) /\ AsksFor(pq'[u], r) /\ CarriesFor(stash', r, u)
        /\ rq'[u] = rq[u] /\ pq'[u] = pq[u] /\ stash' = stash
    BY <1>1 DEF OwedOnce
  <2>. QED BY <1>3, <1>7, <1>8, <2>3, <2>4 DEF OwedOnce
<1>9. CASE Hit(e)
  <2>1. returned' = Answer(e) /\ UNCHANGED <<mshr, inflightWrites>>
    BY <1>9 DEF Hit, misses
  <2>2. e.deps \in SUBSET (1 .. issued)
    BY <1>4 DEF Lookups
  <2>3. /\ SoleAnswer(returned'[u], r)
        /\ FoundAnswer(returned'[u], r) = FoundAnswer(returned[u], r) + Bit(r \in e.deps)
    BY <1>2, <1>3, <1>6, <2>1, <2>2, AnswerIs
  <2>. QED BY <1>2, <1>5, <1>8, <2>1, <2>3 DEF Bit
<1>10. CASE WriteMiss(e)
  <2>. DEFINE m == [MshrEntry(e) EXCEPT !.done = TRUE]
  <2>1. inflightWrites' = Append(inflightWrites, m) /\ UNCHANGED <<mshr, returned>>
    BY <1>10 DEF WriteMiss
  <2>2. m \in Misses /\ m.deps = e.deps /\ m.ret = e.ret
    BY <1>4, MissTypes DEF MshrEntry
  <2>. HIDE DEF m
  <2>3. /\ CarriesFor(inflightWrites', r, u)
        /\ Found(inflightWrites', r) = Found(inflightWrites, r) + Bit(r \in m.deps)
    BY <1>2, <1>3, <1>6, <2>1, <2>2, CarriesAppend
  <2>. QED BY <1>2, <1>5, <1>8, <2>1, <2>2, <2>3 DEF Bit
<1>11. CASE MergeMiss(e)
  <2>. DEFINE k == First(MshrWith(e.line))
              x == Merged(mshr[k], MshrEntry(e))
  <2>1. mshr' = [mshr EXCEPT ![k] = x] /\ UNCHANGED <<inflightWrites, returned>>
    BY <1>11 DEF MergeMiss
  <2>2. k \in DOMAIN mshr /\ mshr[k] \in Misses
    <3>1. DOMAIN mshr = 1 .. Len(mshr) /\ Len(mshr) \in Nat
      BY <1>2, LenProperties
    <3>2. MshrWith(e.line) \in SUBSET Nat /\ MshrWith(e.line) # {}
      BY <1>11, <3>1 DEF MergeMiss, MshrWith
    <3>3. First(MshrWith(e.line)) \in MshrWith(e.line)
      BY <3>2, FirstIs
    <3>. QED BY <1>2, <3>1, <3>3, ElementOfSeq DEF MshrWith
  <2>. HIDE DEF k
  <2>3. x.deps = mshr[k].deps \cup e.deps /\ x.ret = mshr[k].ret \cup e.ret
    BY <2>2 DEF Merged, MshrEntry, Misses
  <2>. HIDE DEF x
  <2>4. /\ Sole(mshr', r)
        /\ Found(mshr', r) = Found(mshr, r) + Bit(r \in e.deps)
    <3>1. Sole(mshr, r)
      BY <1>2 DEF CarriesFor
    <3>2. r \in e.deps => Found(mshr, r) = 0
      BY <1>6
    <3>3. /\ DOMAIN mshr' = DOMAIN mshr /\ mshr'[k].deps = mshr[k].deps \cup e.deps
          /\ \A i \in DOMAIN mshr : i # k => mshr'[i] = mshr[i]
      BY <2>1, <2>2, <2>3
    <3>. QED BY <2>2, <3>1, <3>2, <3>3, FoundJoined
  <2>5. \A i \in DOMAIN mshr' : r \in mshr'[i].deps => u \in mshr'[i].ret
    <3>1. \A i \in DOMAIN mshr' : i \in DOMAIN mshr /\ mshr'[i] = IF i = k THEN x ELSE mshr[i]
      BY <2>1
    <3>. QED BY <1>2, <1>3, <2>2, <2>3, <3>1 DEF CarriesFor
  <2>6. CarriesFor(mshr', r, u)
    BY <2>4, <2>5 DEF CarriesFor
  <2>. QED BY <1>2, <1>5, <1>8, <2>1, <2>4, <2>6 DEF Bit
<1>12. CASE AllocateMiss(e) /\ e.local /\ e.skip
  <2>1. UNCHANGED <<mshr, inflightWrites, returned>> /\ Bit(r \in e.deps) = 0
    BY <1>4, <1>12 DEF AllocateMiss, Bit
  <2>. QED BY <1>2, <1>5, <1>8, <2>1
<1>13. CASE AllocateMiss(e) /\ ~(e.local /\ e.skip)
  <2>. DEFINE m == MshrEntry(e)
  <2>1. mshr' = Append(mshr, m) /\ UNCHANGED <<inflightWrites, returned>>
    BY <1>13 DEF AllocateMiss
  <2>2. m \in Misses /\ m.deps = e.deps /\ m.ret = e.ret
    BY <1>4, MissTypes DEF MshrEntry
  <2>. HIDE DEF m
  <2>3. /\ CarriesFor(mshr', r, u)
        /\ Found(mshr', r) = Found(mshr, r) + Bit(r \in m.deps)
    BY <1>2, <1>3, <1>6, <2>1, <2>2, CarriesAppend
  <2>. QED BY <1>2, <1>5, <1>8, <2>1, <2>2, <2>3 DEF Bit
<1>. QED BY <1>1, <1>9, <1>10, <1>11, <1>12, <1>13

\* What a step does not touch is owed as before.
LEMMA OwedStays ==
    ASSUME NEW u, NEW r, OwedOnce(r, u),
           UNCHANGED <<wq, rq, pq, returned, tagCheck, stash, mshr, inflightWrites>>
    PROVE  OwedOnce(r, u)'
<1>1. NotElsewhere(r, u)'
  BY DEF OwedOnce, NotElsewhere
<1>. QED BY <1>1 DEF OwedOnce

\* What is owed to a read that waited already.
LEMMA OwedOlder ==
    ASSUME TypeOK, ReadyFirst, Registers, Kinds, [Next]_vars, NEW u \in Uppers,
           NEW r \in 1 .. issued, OwedOnce(r, u), <<r, u>> \in waiting'
    PROVE  OwedOnce(r, u)'
<1>1. ASSUME NEW v \in Uppers, NEW l \in Lines, NEW w \in cache.words,
             \/ AddRead(v, l, w) \/ AddWrite(v, l, w)
             \/ \E resp \in BOOLEAN : AddPrefetch(v, l, w, resp)
      PROVE  OwedOnce(r, u)'
  <2>1. CASE AddRead(v, l, w)
    <3>1. SendRead(v, l, w) /\ UNCHANGED <<wq, pq, returned, tagCheck, stash, mshr, inflightWrites>>
      BY <2>1 DEF AddRead, Arrive, lookups, misses
    <3>. QED BY <3>1, OwedRead
  <2>2. CASE AddWrite(v, l, w)
    BY <2>2, OwedWrite
  <2>3. ASSUME NEW resp \in BOOLEAN, AddPrefetch(v, l, w, resp) PROVE OwedOnce(r, u)'
    <3>. DEFINE who == IF resp THEN {issued + 1} ELSE {}
                p == RequestOf(l, w, "PREFETCH", resp, v \in cache.physical, who)
    <3>1. /\ pq' = [pq EXCEPT ![v] = Append(pq[v], p)]
          /\ UNCHANGED <<wq, rq, returned, tagCheck, stash, mshr, inflightWrites>>
      BY <2>3 DEF AddPrefetch, Arrive, lookups, misses
    <3>2. r \notin who
      BY CacheIs DEF TypeOK
    <3>3. r \notin p.deps
      BY <3>2 DEF RequestOf
    <3>. HIDE DEF p
    <3>. QED BY <3>1, <3>3, OwedPrefetch
  <2>. QED BY <1>1, <2>1, <2>2, <2>3
<1>2. ASSUME NEW v \in Uppers, NEW l \in Lines, NEW p \in Lines, WalkRead(v, l, p)
      PROVE  OwedOnce(r, u)'
  <2>1. SendRead(v, p, 0) /\ UNCHANGED <<wq, pq, returned, tagCheck, stash, mshr, inflightWrites>>
    BY <1>2 DEF WalkRead, Arrive, misses
  <2>. QED BY <2>1, OwedRead
<1>3. ASSUME NEW l \in Lines, NEW fillThis \in BOOLEAN, PrefetchLine(l, fillThis)
      PROVE  OwedOnce(r, u)'
  <2>1. UNCHANGED <<wq, rq, pq, returned, tagCheck, stash, mshr, inflightWrites>>
    BY <1>3 DEF PrefetchLine, lookups, misses
  <2>. QED BY <2>1, OwedStays
<1>4. CASE Environment
  BY <1>1, <1>2, <1>3, <1>4 DEF Environment
<1>5. CASE Deliver
  BY <1>5, OwedTaken, OwedSettled, OwedTranslated DEF Deliver
<1>6. CASE Operate
  BY <1>6, OwedChecked, OwedFilled, OwedMoved, OwedStarted, OwedTranslated, OwedLookedUp DEF Operate
<1>7. CASE UNCHANGED vars
  BY <1>7, OwedStays DEF vars, queues, lookups, misses
<1>. QED BY <1>4, <1>5, <1>6, <1>7 DEF Next

\* A read starts to wait as it joins the queue.
LEMMA WaitingGrows ==
    ASSUME TypeOK, [Next]_vars, NEW u \in Uppers, NEW r, <<r, u>> \in waiting',
           <<r, u>> \notin waiting
    PROVE  OwedOnce(r, u)'
<1>0. issued \in Nat /\ issued + 1 \notin 1 .. issued
  BY CacheIs DEF TypeOK
<1>1. ASSUME NEW v \in Uppers, NEW l, NEW w, SendRead(v, l, w),
             UNCHANGED <<wq, pq, returned, tagCheck, stash, mshr, inflightWrites>>
      PROVE  OwedOnce(r, u)'
  <2>. DEFINE p == RequestOf(l, w, "LOAD", TRUE, v \in cache.physical, {issued + 1})
  <2>1. rq' = [rq EXCEPT ![v] = Append(rq[v], p)] /\ r = issued + 1 /\ u = v
    BY <1>1 DEF SendRead
  <2>2. r \in p.deps /\ p.resp
    BY <2>1 DEF RequestOf
  <2>. HIDE DEF p
  <2>. QED BY <1>0, <1>1, <2>1, <2>2, OwedFresh
<1>2. ASSUME NEW v \in Uppers, NEW l, NEW w, NEW resp \in BOOLEAN, AddPrefetch(v, l, w, resp)
      PROVE  OwedOnce(r, u)'
  <2>. DEFINE who == IF resp THEN {issued + 1} ELSE {}
              p == RequestOf(l, w, "PREFETCH", resp, v \in cache.physical, who)
  <2>1. /\ pq' = [pq EXCEPT ![v] = Append(pq[v], p)]
        /\ waiting' = waiting \cup (who \X {v})
        /\ UNCHANGED <<wq, rq, returned, tagCheck, stash, mshr, inflightWrites>>
    BY <1>2 DEF AddPrefetch, Arrive, lookups, misses
  <2>2. r \in who /\ u = v
    BY <2>1
  <2>3. r = issued + 1 /\ resp
    BY <2>2
  <2>4. r \in p.deps /\ p.resp
    BY <2>2, <2>3 DEF RequestOf
  <2>. HIDE DEF p, who
  <2>. QED BY <1>0, <2>1, <2>2, <2>3, <2>4, OwedFresh
<1>3. ASSUME NEW v \in Uppers, NEW l, NEW w, AddRead(v, l, w) PROVE OwedOnce(r, u)'
  <2>1. SendRead(v, l, w) /\ UNCHANGED <<wq, pq, returned, tagCheck, stash, mshr, inflightWrites>>
    BY <1>3 DEF AddRead, Arrive, lookups, misses
  <2>. QED BY <1>1, <2>1
<1>4. ASSUME NEW v \in Uppers, NEW l, NEW p, WalkRead(v, l, p) PROVE OwedOnce(r, u)'
  <2>1. SendRead(v, p, 0) /\ UNCHANGED <<wq, pq, returned, tagCheck, stash, mshr, inflightWrites>>
    BY <1>4 DEF WalkRead, Arrive, misses
  <2>. QED BY <1>1, <2>1
<1>5. ASSUME waiting' \subseteq waiting PROVE FALSE
  BY <1>5
<1>6. CASE Environment
  <2>1. ASSUME NEW v, NEW l, NEW w, AddWrite(v, l, w) PROVE waiting' \subseteq waiting
    BY <2>1 DEF AddWrite
  <2>2. ASSUME NEW l, NEW fillThis, PrefetchLine(l, fillThis) PROVE waiting' \subseteq waiting
    BY <2>2 DEF PrefetchLine
  <2>. QED BY <1>2, <1>3, <1>4, <1>5, <1>6, <2>1, <2>2 DEF Environment
<1>7. CASE Deliver
  <2>1. waiting' \subseteq waiting
    BY <1>7 DEF Deliver, TakeAnswers, FinishPacket, FinishTranslation, history
  <2>. QED BY <1>5, <2>1
<1>8. CASE Operate
  <2>1. CASE CheckTag
    <3>1. \E e : Hit(e) \/ WriteMiss(e) \/ MergeMiss(e) \/ AllocateMiss(e)
      BY <2>1 DEF CheckTag
    <3>2. waiting' \subseteq waiting
      BY <3>1 DEF Hit, WriteMiss, MergeMiss, AllocateMiss, history
    <3>. QED BY <1>5, <3>2
  <2>2. CASE ~CheckTag
    <3>1. waiting' \subseteq waiting
      BY <1>8, <2>2 DEF Operate, CheckCollisions, FillFromMshr, FillFromWrites, StartStashed,
                        StartPrefetch, StartQueued, IssueTranslation, StashLate, history
    <3>. QED BY <1>5, <3>1
  <2>. QED BY <2>1, <2>2
<1>9. CASE UNCHANGED vars
  BY <1>5, <1>9 DEF vars, history
<1>. QED BY <1>6, <1>7, <1>8, <1>9 DEF Next

LEMMA OwedKept ==
    ASSUME TypeOK, ReadyFirst, Registers, Kinds, Owed, [Next]_vars
    PROVE  Owed'
<1>1. SUFFICES ASSUME NEW u \in Uppers, NEW r \in 1 .. issued', <<r, u>> \in waiting'
               PROVE  OwedOnce(r, u)'
  BY DEF Owed
<1>2. CASE <<r, u>> \in waiting
  <2>1. r \in 1 .. issued
    BY <1>2 DEF TypeOK
  <2>2. OwedOnce(r, u)
    BY <1>2, <2>1 DEF Owed
  <2>. QED BY <1>1, <2>1, <2>2, OwedOlder
<1>3. CASE <<r, u>> \notin waiting
  BY <1>1, <1>3, WaitingGrows
<1>. QED BY <1>2, <1>3
-----------------------------------------------------------------------------
(* The invariant and what it shows *)

LEMMA AtMostOne ==
    ASSUME NEW T, \A i, j \in T : i = j
    PROVE  Cardinality(T) = IF T = {} THEN 0 ELSE 1
<1>1. CASE T = {}
  BY <1>1, FS_EmptySet
<1>2. CASE T # {}
  <2>1. PICK i \in T : T = {i}
    BY <1>2
  <2>. QED BY <1>2, <2>1, FS_Singleton
<1>. QED BY <1>1, <1>2

LEMMA CountQueued ==
    ASSUME NEW s, NEW r, AsksFor(s, r)
    PROVE  Cardinality({i \in DOMAIN s : s[i].resp /\ r \in s[i].deps}) = Found(s, r)
<1>. DEFINE T == {i \in DOMAIN s : s[i].resp /\ r \in s[i].deps}
<1>1. /\ \A i, j \in T : i = j
      /\ T = {} <=> ~(\E i \in DOMAIN s : r \in s[i].deps)
  BY DEF AsksFor, Sole
<1>. HIDE DEF T
<1>2. Cardinality(T) = IF T = {} THEN 0 ELSE 1
  BY <1>1, AtMostOne
<1>. QED BY <1>1, <1>2 DEF Found, T

LEMMA CountInside ==
    ASSUME NEW s, NEW r, NEW u, CarriesFor(s, r, u)
    PROVE  Cardinality({i \in DOMAIN s : u \in s[i].ret /\ r \in s[i].deps}) = Found(s, r)
<1>. DEFINE T == {i \in DOMAIN s : u \in s[i].ret /\ r \in s[i].deps}
<1>1. /\ \A i, j \in T : i = j
      /\ T = {} <=> ~(\E i \in DOMAIN s : r \in s[i].deps)
  BY DEF CarriesFor, Sole
<1>. HIDE DEF T
<1>2. Cardinality(T) = IF T = {} THEN 0 ELSE 1
  BY <1>1, AtMostOne
<1>. QED BY <1>1, <1>2 DEF Found, T

LEMMA CountAnswers ==
    ASSUME NEW s, NEW r, SoleAnswer(s, r)
    PROVE  Cardinality({i \in DOMAIN s : r \in s[i]}) = FoundAnswer(s, r)
<1>. DEFINE T == {i \in DOMAIN s : r \in s[i]}
<1>1. /\ \A i, j \in T : i = j
      /\ T = {} <=> ~(\E i \in DOMAIN s : r \in s[i])
  BY DEF SoleAnswer
<1>. HIDE DEF T
<1>2. Cardinality(T) = IF T = {} THEN 0 ELSE 1
  BY <1>1, AtMostOne
<1>. QED BY <1>1, <1>2 DEF FoundAnswer, T

\* What is owed once is one obligation.
LEMMA OwedIsObligation ==
    ASSUME NEW r, NEW u \in Uppers, OwedOnce(r, u)
    PROVE  Obligations(r, u) = 1
<1>1. AsksFor(wq[u], r) /\ Found(wq[u], r) = 0
  BY FoundBit DEF OwedOnce, NotElsewhere
<1>2. /\ Cardinality({i \in DOMAIN wq[u] : wq[u][i].resp /\ r \in wq[u][i].deps}) = 0
      /\ Cardinality({i \in DOMAIN rq[u] : rq[u][i].resp /\ r \in rq[u][i].deps}) = Found(rq[u], r)
      /\ Cardinality({i \in DOMAIN pq[u] : pq[u][i].resp /\ r \in pq[u][i].deps}) = Found(pq[u], r)
  BY <1>1, CountQueued DEF OwedOnce
<1>3. Cardinality({i \in DOMAIN returned[u] : r \in returned[u][i]}) = FoundAnswer(returned[u], r)
  BY CountAnswers DEF OwedOnce
<1>4. /\ Cardinality({i \in DOMAIN tagCheck : u \in tagCheck[i].ret /\ r \in tagCheck[i].deps})
            = Found(tagCheck, r)
      /\ Cardinality({i \in DOMAIN stash : u \in stash[i].ret /\ r \in stash[i].deps})
            = Found(stash, r)
      /\ Cardinality({i \in DOMAIN mshr : u \in mshr[i].ret /\ r \in mshr[i].deps})
            = Found(mshr, r)
      /\ Cardinality({i \in DOMAIN inflightWrites :
                        u \in inflightWrites[i].ret /\ r \in inflightWrites[i].deps})
            = Found(inflightWrites, r)
  BY CountInside DEF OwedOnce
<1>5. Obligations(r, u) =
        Cardinality({i \in DOMAIN wq[u] : wq[u][i].resp /\ r \in wq[u][i].deps})
        + Cardinality({i \in DOMAIN rq[u] : rq[u][i].resp /\ r \in rq[u][i].deps})
        + Cardinality({i \in DOMAIN pq[u] : pq[u][i].resp /\ r \in pq[u][i].deps})
        + Cardinality({i \in DOMAIN returned[u] : r \in returned[u][i]})
        + Cardinality({i \in DOMAIN tagCheck : u \in tagCheck[i].ret /\ r \in tagCheck[i].deps})
        + Cardinality({i \in DOMAIN stash : u \in stash[i].ret /\ r \in stash[i].deps})
        + Cardinality({i \in DOMAIN mshr : u \in mshr[i].ret /\ r \in mshr[i].deps})
        + Cardinality({i \in DOMAIN inflightWrites :
                         u \in inflightWrites[i].ret /\ r \in inflightWrites[i].deps})
  BY DEF Obligations, CountIn
<1>6. /\ {Found(rq[u], r), Found(pq[u], r), FoundAnswer(returned[u], r), Found(tagCheck, r),
          Found(stash, r), Found(mshr, r), Found(inflightWrites, r)} \subseteq {0, 1}
      /\ Found(rq[u], r) + Found(pq[u], r) + FoundAnswer(returned[u], r)
            + Found(tagCheck, r) + Found(stash, r) + Found(mshr, r) + Found(inflightWrites, r) = 1
  BY FoundBit DEF OwedOnce
<1>7. Obligations(r, u) =
        0 + Found(rq[u], r) + Found(pq[u], r) + FoundAnswer(returned[u], r)
          + Found(tagCheck, r) + Found(stash, r) + Found(mshr, r) + Found(inflightWrites, r)
  BY <1>2, <1>3, <1>4, <1>5
<1>. QED BY <1>6, <1>7

LEMMA OwedIsAnswered ==
    ASSUME TypeOK, Registers, Owed
    PROVE  AnsweredOnce
<1>1. DOMAIN mshr = 1 .. Len(mshr)
  BY LenProperties DEF TypeOK
<1>2. ASSUME NEW l \in Lines
      PROVE  asked[l] = Cardinality({i \in 1 .. Len(mshr) : mshr[i].line = l /\ ~mshr[i].done})
  <2>. DEFINE T == {i \in 1 .. Len(mshr) : mshr[i].line = l /\ ~mshr[i].done}
  <2>1. /\ \A i, j \in T : i = j
        /\ asked[l] = IF T = {} THEN 0 ELSE 1
    <3>1. \A i, j \in T : i = j
      BY <1>1 DEF Registers
    <3>2. T = {} <=> ~(\E i \in DOMAIN mshr : mshr[i].line = l /\ ~mshr[i].done)
      BY <1>1
    <3>. HIDE DEF T
    <3>. QED BY <3>1, <3>2 DEF Registers
  <2>. HIDE DEF T
  <2>2. Cardinality(T) = IF T = {} THEN 0 ELSE 1
    BY <2>1, AtMostOne
  <2>. QED BY <2>1, <2>2 DEF T
<1>3. OneAnswerPerMiss
  BY <1>1, <1>2 DEF OneAnswerPerMiss, Registers
<1>4. \A r \in 1 .. issued, u \in Uppers : <<r, u>> \in waiting => Obligations(r, u) = 1
  BY OwedIsObligation DEF Owed
<1>. QED BY <1>3, <1>4 DEF AnsweredOnce

\* At the start every queue is empty, and nobody waits.
LEMMA InitCache ==
    ASSUME Init
    PROVE  CacheInv
<1>0. /\ cache \in Caches /\ issued = 0 /\ waiting = {} /\ unwritten = {} /\ walks = {}
      /\ internalPQ = <<>> /\ tagCheck = <<>> /\ stash = <<>> /\ mshr = <<>>
      /\ inflightWrites = <<>>
      /\ wq = [u \in Uppers |-> <<>>] /\ rq = [u \in Uppers |-> <<>>]
      /\ pq = [u \in Uppers |-> <<>>] /\ returned = [u \in Uppers |-> <<>>]
      /\ block = [w \in Ways |-> InvalidBlock] /\ asked = [l \in Lines |-> 0]
      /\ walkRead = [l \in Lines |-> 0]
  BY DEF Init
<1>1. /\ cache.mshrs \in Nat /\ cache.requests \in Nat
  BY <1>0, CacheIs
<1>2. /\ \A S : <<>> \in Seq(S)
      /\ Len(<<>>) = 0 /\ DOMAIN <<>> = {}
  BY EmptySeq
<1>3. \A u \in Uppers : wq[u] = <<>> /\ rq[u] = <<>> /\ pq[u] = <<>>
  BY <1>0
<1>4. TypeOK
  <2>1. {wq, rq, pq} \subseteq [Uppers -> Seq(Requests)]
    BY <1>0, <1>2
  <2>2. returned \in [Uppers -> Seq(SUBSET (1 .. issued))]
    BY <1>0, <1>2
  <2>3. \A u \in Uppers :
          Len(wq[u]) <= WQ_SIZE /\ Len(rq[u]) <= RQ_SIZE /\ Len(pq[u]) <= PQ_SIZE
    BY <1>2, <1>3, SizesAre
  <2>4. /\ internalPQ \in Seq(Lookups) /\ Len(internalPQ) <= IPQ_SIZE
        /\ tagCheck \in Seq(Lookups) /\ Len(tagCheck) <= TAG_SIZE
        /\ stash \in Seq(Lookups)
        /\ mshr \in Seq(Misses) /\ Len(mshr) <= cache.mshrs
        /\ inflightWrites \in Seq(Misses)
    BY <1>0, <1>1, <1>2, SizesAre
  <2>5. block \in [Ways -> Blocks]
    BY <1>0 DEF InvalidBlock, Blocks
  <2>6. /\ asked \in [Lines -> Nat] /\ walks \subseteq Lines /\ walkRead \in [Lines -> 0 .. issued]
        /\ issued \in 0 .. cache.requests
        /\ waiting \subseteq (1 .. issued) \X Uppers /\ unwritten \subseteq 1 .. issued
    BY <1>0, <1>1
  <2>. QED BY <1>0, <2>1, <2>2, <2>3, <2>4, <2>5, <2>6 DEF TypeOK
<1>5. ReadyFirst /\ Registers
  <2>1. DoneFirst /\ TransFirst
    BY <1>0, <1>2 DEF DoneFirst, TransFirst
  <2>2. Registers
    BY <1>0, <1>2 DEF Registers
  <2>. QED BY <1>4, <2>1, <2>2, ReadyFirstIs
<1>6. Kinds
  <2>1. Range(internalPQ) \cup Range(tagCheck) \cup Range(stash) = {}
    BY <1>0, <1>2 DEF Range
  <2>2. \A w \in Ways : block[w].line \notin Lines
    BY <1>0, SizesAre DEF InvalidBlock
  <2>. QED BY <1>0, <1>2, <1>3, <2>1, <2>2 DEF Kinds
<1>7. Owed /\ WriteBacksKept
  BY <1>0 DEF Owed, WriteBacksKept
<1>. QED BY <1>4, <1>5, <1>6, <1>7 DEF CacheInv

LEMMA NextCache ==
    ASSUME CacheInv, [Next]_vars
    PROVE  CacheInv'
<1>1. TypeOK'
  BY TypesKept DEF CacheInv
<1>2. ReadyFirst' /\ Registers'
  BY OrderKept DEF CacheInv
<1>3. Kinds'
  BY KindsKept DEF CacheInv
<1>4. Owed'
  BY OwedKept DEF CacheInv
<1>5. WriteBacksKept'
  BY <1>1, WriteBacksStay DEF CacheInv
<1>. QED BY <1>1, <1>2, <1>3, <1>4, <1>5 DEF CacheInv

\* The inductive invariant of the cache: the types, the order of what is
\* ready, one register per line and one answer per unanswered register, the
\* kinds of request each queue may hold, every waiting read in one place, and
\* every unwritten write carried.
THEOREM CacheIsInvariant == Spec => []CacheInv
<1>1. Init => CacheInv
  BY InitCache
<1>2. CacheInv /\ [Next]_vars => CacheInv'
  BY NextCache
<1>. QED BY <1>1, <1>2, PTL DEF Spec

\* finish_packet, finish_translation, fills, merges and stashed lookups keep
\* the answered registers and the translated lookups in front: operate() may
\* stop at the first that is not ready.
THEOREM CacheReadyFirst == Spec => []ReadyFirst
<1>1. CacheInv => ReadyFirst
  BY DEF CacheInv
<1>. QED BY <1>1, CacheIsInvariant, PTL

\* Whatever is checked for collisions, forwarded, started, stashed, translated,
\* missed, merged, filled or hit: no answer of the lower level finds no
\* register, and a read that waits is owed exactly one answer.
THEOREM CacheAnswersOnce == Spec => []AnsweredOnce
<1>1. CacheInv => AnsweredOnce
  BY OwedIsAnswered DEF CacheInv
<1>. QED BY <1>1, CacheIsInvariant, PTL

\* Where writes are write-backs of an upper level, a queue, a lookup, a miss or
\* a dirty way carries each until the lower level has taken it.
THEOREM CacheKeepsWriteBacks == Spec => []WriteBacksKept
<1>1. CacheInv => WriteBacksKept
  BY DEF CacheInv
<1>. QED BY <1>1, CacheIsInvariant, PTL
=============================================================================
