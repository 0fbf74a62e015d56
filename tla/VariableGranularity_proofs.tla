-------------------- MODULE VariableGranularity_proofs ----------------------
(***************************************************************************)
(* Variable granularity, for all sizes (SetInv, MapInv): the groups fit    *)
(* fast memory and their blocks, a queued promotion is alone and begins    *)
(* behind them, the queued evictions are of different groups; and each     *)
(* group has changed places with the lines of block 0 under it.            *)
(***************************************************************************)
EXTENDS MCParts_proofs
-----------------------------------------------------------------------------
(* Variable granularity: the lines the groups take *)

LEMMA SetSizes ==
    /\ Lines \in Nat /\ Lines >= 1 /\ Lines \in Set!Granularity
    /\ Set!Granularity \in SUBSET (1 .. Lines)
    /\ Blocks \in Nat /\ Blocks > 0 /\ NUMBER_OF_BLOCK \in Nat /\ COUNTER_MAX_VALUE \in Nat
    /\ HOTNESS_THRESHOLD \in Nat /\ REMAPPING_REQUEST_QUEUE_LENGTH \in Nat
    /\ \A p \in Touched : p[1] \in Set!SlowBlock /\ p[2] \in Set!Line
<1>1. /\ Lines \in Set!Granularity /\ Blocks > 0
      /\ Blocks \in Nat /\ NUMBER_OF_BLOCK \in Nat /\ COUNTER_MAX_VALUE \in Nat
      /\ HOTNESS_THRESHOLD \in Nat /\ REMAPPING_REQUEST_QUEUE_LENGTH \in Nat
  BY SetAssumption DEF Set!SetParameters
<1>2. \A p \in Touched : p[1] \in Set!SlowBlock /\ p[2] \in Set!Line
  BY SetAssumption DEF Set!SetParameters
<1>3. Set!Granularity \in SUBSET (1 .. Lines)
  BY DEF Set!Granularity
<1>4. Lines \in 1 .. Lines
  BY <1>1, <1>3
<1>5. Lines \in Nat /\ Lines >= 1
  BY <1>4
<1>. QED BY <1>1, <1>2, <1>3, <1>5

Sized(groups, n) == \A i \in 1 .. n : groups[i].size \in Nat

\* f adds up the sizes of the first n groups.
Prefix(groups, n, f) ==
    /\ f \in [0 .. n -> Nat] /\ f[0] = 0
    /\ \A i \in 1 .. n : f[i] = f[i - 1] + groups[i].size

LEMMA PrefixExists ==
    ASSUME NEW groups, NEW n \in Nat, Sized(groups, n)
    PROVE  \E f : Prefix(groups, n, f)
<1>. DEFINE bad == {k \in 0 .. n : ~\E f : Prefix(groups, k, f)}
<1>1. bad = {}
  <2>. SUFFICES ASSUME bad # {} PROVE FALSE
    OBVIOUS
  <2>1. PICK m \in bad : \A k \in bad : m <= k
    <3>1. bad \in SUBSET Nat
      OBVIOUS
    <3>. HIDE DEF bad
    <3>. QED BY <3>1, LeastFound
  <2>2. m \in 0 .. n /\ ~\E f : Prefix(groups, m, f)
    OBVIOUS
  <2>3. m # 0
    <3>1. Prefix(groups, 0, [i \in 0 .. 0 |-> 0])
      BY DEF Prefix
    <3>. QED BY <2>2, <3>1
  <2>4. m - 1 \in 0 .. n /\ m - 1 \notin bad
    BY <2>1, <2>2, <2>3
  <2>5. PICK f : Prefix(groups, m - 1, f)
    BY <2>4
  <2>. DEFINE g == [i \in 0 .. m |-> IF i < m THEN f[i] ELSE f[m - 1] + groups[m].size]
  <2>6. f \in [0 .. m - 1 -> Nat] /\ f[0] = 0 /\ \A i \in 1 .. m - 1 : f[i] = f[i - 1] + groups[i].size
    BY <2>5 DEF Prefix
  <2>7. groups[m].size \in Nat
    BY <2>2, <2>3 DEF Sized
  <2>8. g \in [0 .. m -> Nat]
    BY <2>2, <2>3, <2>6, <2>7
  <2>9. g[0] = 0
    BY <2>2, <2>3, <2>6
  <2>10. \A i \in 1 .. m : g[i] = g[i - 1] + groups[i].size
    <3>. SUFFICES ASSUME NEW i \in 1 .. m PROVE g[i] = g[i - 1] + groups[i].size
      OBVIOUS
    <3>1. m \in Nat /\ i \in 0 .. m /\ i - 1 \in 0 .. m /\ i - 1 < m
      BY <2>2
    <3>2. g[i - 1] = f[i - 1] /\ (i < m => g[i] = f[i]) /\ (i = m => g[i] = f[m - 1] + groups[m].size)
      BY <3>1
    <3>. HIDE DEF g
    <3>3. CASE i < m
      <4>1. i \in 1 .. m - 1
        BY <3>1, <3>3
      <4>. QED BY <2>6, <3>2, <3>3, <4>1
    <3>4. CASE i = m
      BY <3>2, <3>4
    <3>. QED BY <3>1, <3>3, <3>4
  <2>. HIDE DEF g
  <2>11. Prefix(groups, m, g)
    BY <2>8, <2>9, <2>10 DEF Prefix
  <2>. QED BY <2>2, <2>11
<1>. QED BY <1>1

LEMMA UsedBy ==
    ASSUME NEW groups, NEW n \in Nat, NEW f, Prefix(groups, n, f), NEW k \in 0 .. n
    PROVE  Set!Used(groups, k) = f[k]
<1>. DEFINE after(s) == [i \in 0 .. k |-> IF i = 0 THEN 0 ELSE s[i - 1] + groups[i].size]
            g == [i \in 0 .. k |-> f[i]]
<1>1. f \in [0 .. n -> Nat] /\ f[0] = 0 /\ \A i \in 1 .. n : f[i] = f[i - 1] + groups[i].size
  BY DEF Prefix
<1>2. g = after(g)
  <2>1. \A i \in 0 .. k : g[i] = after(g)[i]
    BY <1>1
  <2>. QED BY <2>1
<1>3. Set!Used(groups, k) = (CHOOSE s : s = after(s))[k]
  BY DEF Set!Used
<1>4. PICK s : s = after(s) /\ Set!Used(groups, k) = s[k]
  <2>. HIDE DEF after
  <2>. QED BY <1>2, <1>3
<1>. DEFINE bad == {i \in 0 .. k : s[i] # f[i]}
<1>5. bad = {}
  <2>. SUFFICES ASSUME bad # {} PROVE FALSE
    OBVIOUS
  <2>1. PICK m \in bad : \A i \in bad : m <= i
    <3>1. bad \in SUBSET Nat
      OBVIOUS
    <3>. HIDE DEF bad
    <3>. QED BY <3>1, LeastFound
  <2>2. m \in 0 .. k /\ s[m] # f[m]
    OBVIOUS
  <2>3. m # 0
    BY <1>1, <1>4, <2>2
  <2>4. m - 1 \in 0 .. k /\ m - 1 \notin bad
    BY <2>1, <2>2, <2>3
  <2>5. s[m - 1] = f[m - 1]
    BY <2>4
  <2>6. s[m] = s[m - 1] + groups[m].size
    BY <1>4, <2>2, <2>3
  <2>7. f[m] = f[m - 1] + groups[m].size
    <3>1. m \in 1 .. n
      BY <2>2, <2>3
    <3>. QED BY <1>1, <3>1
  <2>. QED BY <2>2, <2>5, <2>6, <2>7
<1>6. k \in 0 .. k
  OBVIOUS
<1>7. s[k] = f[k]
  BY <1>5, <1>6
<1>. QED BY <1>4, <1>7

LEMMA UsedIs ==
    ASSUME NEW groups \in Seq(Set!Group)
    PROVE  /\ Len(groups) \in Nat /\ DOMAIN groups = 1 .. Len(groups)
           /\ Set!Used(groups, 0) = 0
           /\ \A k \in 0 .. Len(groups) : Set!Used(groups, k) \in Nat
           /\ \A k \in 1 .. Len(groups) :
                 /\ groups[k].size \in Nat /\ groups[k].size >= 1 /\ groups[k] \in Set!Group
                 /\ Set!Used(groups, k) = Set!Used(groups, k - 1) + groups[k].size
           /\ \A i, j \in 0 .. Len(groups) : i <= j => Set!Used(groups, i) <= Set!Used(groups, j)
<1>. DEFINE n == Len(groups)
<1>1. n \in Nat /\ DOMAIN groups = 1 .. n /\ \A k \in 1 .. n : groups[k] \in Set!Group
  BY LenProperties, ElementOfSeq
<1>2. \A k \in 1 .. n : groups[k].size \in Nat /\ groups[k].size >= 1
  BY <1>1, SetSizes DEF Set!Group
<1>. HIDE DEF n
<1>3. PICK f : Prefix(groups, n, f)
  BY <1>1, <1>2, PrefixExists DEF Sized
<1>4. f \in [0 .. n -> Nat] /\ f[0] = 0 /\ \A i \in 1 .. n : f[i] = f[i - 1] + groups[i].size
  BY <1>3 DEF Prefix
<1>5. \A k \in 0 .. n : Set!Used(groups, k) = f[k]
  BY <1>1, <1>3, UsedBy
<1>6. ASSUME NEW i \in 0 .. n PROVE \A j \in 0 .. n : i <= j => f[i] <= f[j]
  <2>. DEFINE bad == {j \in 0 .. n : i <= j /\ ~(f[i] <= f[j])}
  <2>. SUFFICES ASSUME bad # {} PROVE FALSE
    OBVIOUS
  <2>1. PICK m \in bad : \A j \in bad : m <= j
    <3>1. bad \in SUBSET Nat
      OBVIOUS
    <3>. HIDE DEF bad
    <3>. QED BY <3>1, LeastFound
  <2>2. m \in 0 .. n /\ i <= m /\ ~(f[i] <= f[m]) /\ m # i
    BY <1>4
  <2>3. m - 1 \in 0 .. n /\ i <= m - 1 /\ m - 1 \notin bad /\ m \in 1 .. n
    BY <1>1, <2>1, <2>2
  <2>4. f[i] <= f[m - 1]
    BY <2>3
  <2>5. f[m] = f[m - 1] + groups[m].size /\ groups[m].size \in Nat
    BY <1>2, <1>4, <2>3
  <2>6. f[i] \in Nat /\ f[m - 1] \in Nat
    BY <1>4, <2>3
  <2>. QED BY <2>2, <2>4, <2>5, <2>6
<1>7. 0 \in 0 .. n /\ \A k \in 1 .. n : k \in 0 .. n /\ k - 1 \in 0 .. n
  BY <1>1
<1>. QED BY <1>1, <1>2, <1>4, <1>5, <1>6, <1>7 DEF n

\* Groups of the same sizes take the same lines.
LEMMA UsedSame ==
    ASSUME NEW groups \in Seq(Set!Group), NEW others, NEW k \in 0 .. Len(groups),
           \A i \in 1 .. k : others[i].size = groups[i].size
    PROVE  Set!Used(others, k) = Set!Used(groups, k)
<1>1. Len(groups) \in Nat /\ k \in Nat /\ Sized(groups, k)
  BY UsedIs DEF Sized
<1>2. PICK f : Prefix(groups, k, f)
  BY <1>1, PrefixExists
<1>3. Prefix(others, k, f)
  BY <1>2 DEF Prefix
<1>4. k \in 0 .. k
  BY <1>1
<1>5. Set!Used(others, k) = f[k]
  BY <1>1, <1>3, <1>4, UsedBy
<1>6. Set!Used(groups, k) = f[k]
  BY <1>1, <1>2, <1>4, UsedBy
<1>. QED BY <1>5, <1>6
-----------------------------------------------------------------------------
(* Variable granularity: the queued requests *)

GroupsFit(groups) ==
    /\ Len(groups) <= NUMBER_OF_BLOCK
    /\ Set!Used(groups, Len(groups)) <= Lines
    /\ \A i \in 1 .. Len(groups) :
          /\ groups[i].start + groups[i].size <= Lines
          /\ groups[i].tag = 0 => groups[i].start = Set!Used(groups, i - 1)

\* Set!Eviction and Set!Expands for groups other than those of the entry.
EvictionOf(groups, i) ==
    [promotion |-> FALSE, fm |-> Set!Used(groups, i - 1), block |-> groups[i].tag,
     sm |-> groups[i].start, size |-> groups[i].size]

ExpandsIn(groups, r) ==
    /\ Len(groups) > 0
    /\ groups[Len(groups)].tag = r.block
    /\ groups[Len(groups)].start <= r.sm

\* A promotion has room, for its lines and for a group, and does not overlap the last
\* group if it extends that.
PromotionFits(r, groups) ==
    /\ r.fm = Set!Used(groups, Len(groups))
    /\ r.fm + r.size <= Lines
    /\ r.sm + r.size <= Lines
    /\ IF ExpandsIn(groups, r)
       THEN groups[Len(groups)].start + groups[Len(groups)].size <= r.sm
       ELSE Len(groups) < NUMBER_OF_BLOCK

RequestFits(r, groups) ==
    IF r.promotion THEN PromotionFits(r, groups)
                   ELSE \E i \in 1 .. Len(groups) : r = EvictionOf(groups, i)

\* Every request fits, a promotion is alone, and no two evictions are of the same lines.
QueueOf(q, groups) ==
    /\ q \in Seq(Set!Request) /\ Len(q) <= REMAPPING_REQUEST_QUEUE_LENGTH
    /\ \A n \in 1 .. Len(q) : RequestFits(q[n], groups) /\ (q[n].promotion => Len(q) = 1)
    /\ \A n, m \in 1 .. Len(q) : q[n].fm = q[m].fm => n = m

LEMMA SeqFacts ==
    ASSUME NEW S, NEW q \in Seq(S), NEW r \in S
    PROVE  /\ Len(q) \in Nat /\ DOMAIN q = 1 .. Len(q) /\ \A n \in 1 .. Len(q) : q[n] \in S
           /\ Append(q, r) \in Seq(S) /\ Len(Append(q, r)) = Len(q) + 1
           /\ \A n \in 1 .. Len(q) : Append(q, r)[n] = q[n]
           /\ Append(q, r)[Len(q) + 1] = r
BY AppendProperties, LenProperties, ElementOfSeq

LEMMA EvictionFits ==
    ASSUME NEW groups \in Seq(Set!Group), GroupsFit(groups), NEW i \in 1 .. Len(groups),
           groups[i].tag # 0
    PROVE  EvictionOf(groups, i) \in Set!Request
<1>1. /\ Set!Used(groups, i - 1) \in Nat /\ Set!Used(groups, i) \in Nat
      /\ groups[i].size \in Nat /\ groups[i].size >= 1 /\ groups[i] \in Set!Group
      /\ Set!Used(groups, i) = Set!Used(groups, i - 1) + groups[i].size
      /\ Set!Used(groups, i) <= Set!Used(groups, Len(groups))
      /\ Set!Used(groups, Len(groups)) \in Nat
  <2>1. /\ i - 1 \in 0 .. Len(groups) /\ i \in 0 .. Len(groups) /\ Len(groups) \in 0 .. Len(groups)
        /\ i <= Len(groups)
    BY UsedIs
  <2>. QED BY <2>1, UsedIs
<1>2. Set!Used(groups, i - 1) \in Set!Line
  BY <1>1, SetSizes DEF Set!Line, GroupsFit
<1>3. /\ groups[i].tag \in Set!SlowBlock /\ groups[i].start \in Set!Line
      /\ groups[i].size \in 1 .. Lines
  BY <1>1 DEF Set!Group, Set!SlowBlock
<1>. QED BY <1>2, <1>3 DEF Set!Request, EvictionOf

\* The lines of a group are no other's.
LEMMA PlacesDiffer ==
    ASSUME NEW groups \in Seq(Set!Group), NEW i \in 1 .. Len(groups), NEW j \in 1 .. Len(groups),
           Set!Used(groups, i - 1) < Set!Used(groups, j),
           Set!Used(groups, j - 1) < Set!Used(groups, i)
    PROVE  i = j
<1>1. /\ Len(groups) \in Nat
      /\ i - 1 \in 0 .. Len(groups) /\ i \in 0 .. Len(groups)
      /\ j - 1 \in 0 .. Len(groups) /\ j \in 0 .. Len(groups)
  BY UsedIs
<1>2. /\ Set!Used(groups, i - 1) \in Nat /\ Set!Used(groups, i) \in Nat
      /\ Set!Used(groups, j - 1) \in Nat /\ Set!Used(groups, j) \in Nat
      /\ i <= j - 1 => Set!Used(groups, i) <= Set!Used(groups, j - 1)
      /\ j <= i - 1 => Set!Used(groups, j) <= Set!Used(groups, i - 1)
  <2>1. \A k \in 0 .. Len(groups) : Set!Used(groups, k) \in Nat
    BY UsedIs
  <2>2. \A k, m \in 0 .. Len(groups) : k <= m => Set!Used(groups, k) <= Set!Used(groups, m)
    BY UsedIs
  <2>. QED BY <1>1, <2>1, <2>2
<1>. QED BY <1>1, <1>2

LEMMA PlaceOfOne ==
    ASSUME NEW groups \in Seq(Set!Group), NEW i \in 1 .. Len(groups), NEW j \in 1 .. Len(groups),
           Set!Used(groups, i - 1) = Set!Used(groups, j - 1)
    PROVE  i = j
<1>1. /\ Len(groups) \in Nat /\ i - 1 \in 0 .. Len(groups) /\ i \in 0 .. Len(groups)
      /\ j - 1 \in 0 .. Len(groups) /\ j \in 0 .. Len(groups)
  BY UsedIs
<1>2. /\ Set!Used(groups, i - 1) \in Nat /\ Set!Used(groups, j - 1) \in Nat
      /\ Set!Used(groups, i) > Set!Used(groups, i - 1)
      /\ Set!Used(groups, j) > Set!Used(groups, j - 1)
  <2>1. \A k \in 0 .. Len(groups) : Set!Used(groups, k) \in Nat
    BY UsedIs
  <2>2. /\ groups[i].size \in Nat /\ groups[i].size >= 1
        /\ Set!Used(groups, i) = Set!Used(groups, i - 1) + groups[i].size
    BY UsedIs
  <2>3. /\ groups[j].size \in Nat /\ groups[j].size >= 1
        /\ Set!Used(groups, j) = Set!Used(groups, j - 1) + groups[j].size
    BY UsedIs
  <2>4. Set!Used(groups, i - 1) \in Nat /\ Set!Used(groups, j - 1) \in Nat
    BY <1>1, <2>1
  <2>5. Set!Used(groups, i) > Set!Used(groups, i - 1)
    BY <2>2, <2>4
  <2>6. Set!Used(groups, j) > Set!Used(groups, j - 1)
    BY <2>3, <2>4
  <2>. QED BY <2>4, <2>5, <2>6
<1>. QED BY <1>2, PlacesDiffer

\* What enqueue_remapping_request() makes of the queue.
LEMMA EnqueuedCases ==
    ASSUME NEW q \in Seq(Set!Request), NEW r \in Set!Request
    PROVE  \/ /\ Set!Enqueued(q, r) = Append(q, r) /\ Len(q) < REMAPPING_REQUEST_QUEUE_LENGTH
              /\ \A n \in 1 .. Len(q) : ~q[n].promotion /\ ~r.promotion /\ q[n].fm # r.fm
           \/ Set!Enqueued(q, r) = q
           \/ \E i \in 1 .. Len(q) : /\ Set!Enqueued(q, r) = [q EXCEPT ![i].size = r.size]
                                     /\ Set!SameAddresses(q[i], r) /\ r.size > q[i].size
<1>. DEFINE rivals == {n \in 1 .. Len(q) : ~Set!Independent(q[n], r)}
            i == CHOOSE i \in rivals : \A j \in rivals : i <= j
<1>1. Set!Enqueued(q, r) =
        IF rivals = {}
        THEN IF Len(q) < REMAPPING_REQUEST_QUEUE_LENGTH THEN Append(q, r) ELSE q
        ELSE IF Set!SameAddresses(q[i], r) /\ r.size > q[i].size
        THEN [q EXCEPT ![i].size = r.size]
        ELSE q
  BY DEF Set!Enqueued
<1>2. CASE rivals = {}
  BY <1>1, <1>2 DEF Set!Independent
<1>3. CASE rivals # {}
  <2>1. rivals \in SUBSET Nat
    OBVIOUS
  <2>2. i \in rivals
    <3>. HIDE DEF rivals
    <3>. QED BY <1>3, <2>1, LeastFound
  <2>3. i \in 1 .. Len(q)
    BY <2>2
  <2>. HIDE DEF i
  <2>. QED BY <1>1, <1>3, <2>3
<1>. QED BY <1>2, <1>3

LEMMA EvictionEnqueued ==
    ASSUME NEW groups \in Seq(Set!Group), GroupsFit(groups), NEW q, QueueOf(q, groups),
           NEW i \in 1 .. Len(groups), groups[i].tag # 0
    PROVE  QueueOf(Set!Enqueued(q, EvictionOf(groups, i)), groups)
<1>. DEFINE r == EvictionOf(groups, i)
<1>1. r \in Set!Request /\ q \in Seq(Set!Request)
  BY EvictionFits DEF QueueOf
<1>2. /\ ~r.promotion /\ r.fm = Set!Used(groups, i - 1) /\ r.block = groups[i].tag
      /\ r.sm = groups[i].start /\ r.size = groups[i].size
  BY DEF EvictionOf
<1>3. RequestFits(r, groups)
  BY <1>2 DEF RequestFits
<1>. HIDE DEF r
<1>4. ASSUME Set!Enqueued(q, r) = Append(q, r), Len(q) < REMAPPING_REQUEST_QUEUE_LENGTH,
             \A n \in 1 .. Len(q) : ~q[n].promotion /\ ~r.promotion /\ q[n].fm # r.fm
      PROVE  QueueOf(Set!Enqueued(q, r), groups)
  <2>1. /\ Len(q) \in Nat /\ Append(q, r) \in Seq(Set!Request) /\ Len(Append(q, r)) = Len(q) + 1
        /\ \A n \in 1 .. Len(q) : Append(q, r)[n] = q[n]
        /\ Append(q, r)[Len(q) + 1] = r
    BY <1>1, SeqFacts
  <2>2. Len(q) + 1 <= REMAPPING_REQUEST_QUEUE_LENGTH
    BY <1>4, <2>1, SetSizes
  <2>3. \A n \in 1 .. Len(q) + 1 : n \in 1 .. Len(q) \/ n = Len(q) + 1
    BY <2>1
  <2>4. \A n \in 1 .. Len(q) : RequestFits(q[n], groups)
    BY DEF QueueOf
  <2>5. \A n, m \in 1 .. Len(q) : q[n].fm = q[m].fm => n = m
    BY DEF QueueOf
  <2>6. \A n \in 1 .. Len(q) + 1 : RequestFits(Append(q, r)[n], groups) /\ ~Append(q, r)[n].promotion
    BY <1>2, <1>3, <1>4, <2>1, <2>3, <2>4
  <2>7. \A n, m \in 1 .. Len(q) + 1 : Append(q, r)[n].fm = Append(q, r)[m].fm => n = m
    BY <1>4, <2>1, <2>3, <2>5
  <2>. DEFINE t == Append(q, r)
  <2>8. /\ t \in Seq(Set!Request) /\ Len(t) = Len(q) + 1 /\ Len(t) <= REMAPPING_REQUEST_QUEUE_LENGTH
        /\ \A n \in 1 .. Len(t) : RequestFits(t[n], groups) /\ ~t[n].promotion
        /\ \A n, m \in 1 .. Len(t) : t[n].fm = t[m].fm => n = m
    BY <2>1, <2>2, <2>6, <2>7
  <2>. HIDE DEF t
  <2>9. QueueOf(t, groups)
    BY <2>8 DEF QueueOf
  <2>. QED BY <1>4, <2>9 DEF t
<1>5. ASSUME NEW n \in 1 .. Len(q), Set!SameAddresses(q[n], r), r.size > q[n].size
      PROVE  FALSE
  <2>1. ~q[n].promotion /\ q[n].fm = r.fm
    BY <1>2, <1>5, Zenon DEF Set!SameAddresses
  <2>2. PICK j \in 1 .. Len(groups) : q[n] = EvictionOf(groups, j)
    BY <2>1 DEF QueueOf, RequestFits
  <2>3. q[n].fm = Set!Used(groups, j - 1) /\ q[n].size = groups[j].size
    BY <2>2 DEF EvictionOf
  <2>4. i = j
    BY <1>2, <2>1, <2>3, PlaceOfOne
  <2>5. groups[j].size \in Nat
    BY UsedIs
  <2>. QED BY <1>2, <1>5, <2>3, <2>4, <2>5
<1>6. \/ /\ Set!Enqueued(q, r) = Append(q, r) /\ Len(q) < REMAPPING_REQUEST_QUEUE_LENGTH
         /\ \A n \in 1 .. Len(q) : ~q[n].promotion /\ ~r.promotion /\ q[n].fm # r.fm
      \/ Set!Enqueued(q, r) = q
  BY <1>1, <1>5, EnqueuedCases
<1>7. QueueOf(Set!Enqueued(q, r), groups)
  <2>1. CASE Set!Enqueued(q, r) = q
    BY <2>1
  <2>. QED BY <1>4, <1>6, <2>1, Zenon
<1>. QED BY <1>7 DEF r

LEMMA PromotionEnqueued ==
    ASSUME NEW groups \in Seq(Set!Group), NEW q, QueueOf(q, groups),
           NEW r \in Set!Request, r.promotion, PromotionFits(r, groups)
    PROVE  QueueOf(Set!Enqueued(q, r), groups)
<1>1. q \in Seq(Set!Request) /\ Len(q) \in Nat
  BY SeqFacts DEF QueueOf
<1>2. RequestFits(r, groups)
  BY DEF RequestFits
<1>3. CASE /\ Set!Enqueued(q, r) = Append(q, r) /\ Len(q) < REMAPPING_REQUEST_QUEUE_LENGTH
           /\ \A n \in 1 .. Len(q) : ~q[n].promotion /\ ~r.promotion /\ q[n].fm # r.fm
  <2>1. Len(q) = 0
    BY <1>1, <1>3
  <2>2. /\ Append(q, r) \in Seq(Set!Request) /\ Len(Append(q, r)) = 1 /\ Append(q, r)[1] = r
    BY <1>1, <2>1, SeqFacts
  <2>3. 1 <= REMAPPING_REQUEST_QUEUE_LENGTH
    BY <1>3, <2>1, SetSizes
  <2>4. \A n \in 1 .. 1 : n = 1
    OBVIOUS
  <2>. QED BY <1>2, <1>3, <2>2, <2>3, <2>4 DEF QueueOf
<1>4. ASSUME NEW i \in 1 .. Len(q), Set!Enqueued(q, r) = [q EXCEPT ![i].size = r.size],
             Set!SameAddresses(q[i], r)
      PROVE  QueueOf(Set!Enqueued(q, r), groups)
  <2>1. q[i] \in Set!Request /\ q[i].promotion
    <3>1. q[i].promotion = r.promotion
      BY <1>4 DEF Set!SameAddresses
    <3>. QED BY <1>1, <3>1, SeqFacts
  <2>2. Len(q) = 1 /\ i = 1
    BY <1>1, <2>1 DEF QueueOf
  <2>3. q[i].fm = r.fm /\ q[i].block = r.block /\ q[i].sm = r.sm
    BY <1>4, Zenon DEF Set!SameAddresses
  <2>. DEFINE s == [q[1] EXCEPT !.size = r.size]
  <2>4. s \in Set!Request /\ s.promotion /\ s.fm = r.fm /\ s.block = r.block /\ s.sm = r.sm
        /\ s.size = r.size
    BY <2>1, <2>2, <2>3 DEF Set!Request
  <2>5. Set!Enqueued(q, r) = [q EXCEPT ![1] = s]
    BY <1>4, <2>2
  <2>. HIDE DEF s
  <2>6. /\ [q EXCEPT ![1] = s] \in Seq(Set!Request) /\ Len([q EXCEPT ![1] = s]) = 1
        /\ [q EXCEPT ![1] = s][1] = s
    <3>1. 1 \in 1 .. Len(q) /\ s \in Set!Request
      BY <2>2, <2>4
    <3>2. /\ [q EXCEPT ![1] = s] \in Seq(Set!Request) /\ Len([q EXCEPT ![1] = s]) = Len(q)
          /\ \A j \in 1 .. Len(q) : [q EXCEPT ![1] = s][j] = IF j = 1 THEN s ELSE q[j]
      BY <1>1, <3>1, ExceptSeq
    <3>. QED BY <2>2, <3>1, <3>2
  <2>7. RequestFits(s, groups)
    BY <2>4 DEF RequestFits, PromotionFits, ExpandsIn
  <2>8. \A n \in 1 .. 1 : n = 1
    OBVIOUS
  <2>9. 1 <= REMAPPING_REQUEST_QUEUE_LENGTH
    BY <2>2 DEF QueueOf
  <2>. QED BY <2>5, <2>6, <2>7, <2>8, <2>9 DEF QueueOf
<1>. QED BY <1>1, <1>3, <1>4, EnqueuedCases
-----------------------------------------------------------------------------
(* Variable granularity: the run of lines to be promoted *)

RunFits(r) ==
    /\ r \in [start : Set!Line, end : Set!Line, size : 1 .. Lines]
    /\ r.end = r.start + r.size - 1

Outcome == {"search", "present", "place", "no space", "expand"}

CandidateFits(c, b) ==
    /\ c \in [run : [start : Set!Line, end : Set!Line, size : 1 .. Lines],
              limited : BOOLEAN, outcome : Outcome]
    /\ RunFits(c.run)
    /\ c.outcome = "place" => /\ Set!Cursor > 0 /\ placement[Set!Cursor].tag = b
                              /\ c.run.start < placement[Set!Cursor].start
    /\ c.outcome = "expand" =>
          /\ Set!Cursor > 0 /\ placement[Set!Cursor].tag = b
          /\ placement[Set!Cursor].start + placement[Set!Cursor].size <= c.run.start
          /\ c.run.size <= Lines - Set!Used(placement, Set!Cursor)

LEMMA LineSets ==
    /\ \A l : l \in Set!Line <=> l \in Int /\ 0 <= l /\ l < Lines
    /\ \A l : l \in 1 .. Lines <=> l \in Int /\ 1 <= l /\ l <= Lines
    /\ Lines \in Int /\ Lines >= 1
BY SetSizes DEF Set!Line

LEMMA RunIs ==
    ASSUME NEW first \in Int, NEW size \in Int, 0 <= first, 1 <= size, first + size <= Lines
    PROVE  RunFits(Set!Run(first, size)) /\ Set!Run(first, size).start = first
           /\ Set!Run(first, size).size = size /\ Set!Run(first, size).end = first + size - 1
<1>1. first \in Set!Line /\ first + size - 1 \in Set!Line /\ size \in 1 .. Lines
  BY LineSets
<1>. QED BY <1>1 DEF RunFits, Set!Run

LEMMA AdjustedIs ==
    ASSUME NEW first \in Set!Line, NEW end \in Set!Line, first <= end, NEW size \in 1 .. Lines
    PROVE  RunFits(Set!Adjusted(first, end, size)) /\ Set!Adjusted(first, end, size).start = first
<1>1. first \in Int /\ end \in Int /\ size \in Int /\ 0 <= first /\ end < Lines /\ 1 <= size
      /\ Lines \in Int
  BY LineSets
<1>2. CASE first + size - 1 >= Lines
  BY <1>1, <1>2, RunIs DEF Set!Adjusted
<1>3. CASE ~(first + size - 1 >= Lines)
  BY <1>1, <1>3, RunIs DEF Set!Adjusted
<1>. QED BY <1>2, <1>3

LEMMA RoundedDownIs ==
    ASSUME NEW first \in Set!Line, NEW end \in Set!Line, first <= end, NEW size \in 1 .. Lines
    PROVE  /\ RunFits(Set!RoundedDown(first, end, size))
           /\ Set!RoundedDown(first, end, size).start = first
<1>1. first \in Int /\ end \in Int /\ size \in Int /\ 0 <= first /\ end < Lines /\ 1 <= size
      /\ Lines \in Int
  BY LineSets
<1>2. CASE first + size - 1 > end
  BY <1>1, <1>2, RunIs DEF Set!RoundedDown
<1>3. CASE ~(first + size - 1 > end)
  BY <1>1, <1>3, RunIs DEF Set!RoundedDown
<1>. QED BY <1>2, <1>3

LEMMA RoundedIs == ASSUME NEW n \in 1 .. Lines PROVE Set!Rounded(n) \in n .. Lines
<1>. DEFINE enough == {g \in Set!Granularity : n <= g}
            least == CHOOSE m \in enough : \A k \in enough : m <= k
<1>1. enough \in SUBSET Nat /\ Lines \in enough
  <2>1. n <= Lines /\ Lines \in Set!Granularity
    BY SetSizes
  <2>2. \A g \in Set!Granularity : g \in Nat
    BY SetSizes
  <2>. QED BY <2>1, <2>2
<1>2. least \in enough /\ \A k \in enough : least <= k
  <2>. HIDE DEF enough
  <2>. QED BY <1>1, LeastFound
<1>. HIDE DEF least
<1>3. \E g \in Set!Granularity : /\ n <= g
                                 /\ \A h \in Set!Granularity : n <= h => g <= h
  BY <1>2
<1>. HIDE DEF enough
<1>4. Set!Rounded(n) \in Set!Granularity /\ n <= Set!Rounded(n)
  BY <1>3 DEF Set!Rounded
<1>5. Set!Rounded(n) \in 1 .. Lines
  BY <1>4, SetSizes
<1>. QED BY <1>4, <1>5

LEMMA HotRunIs ==
    ASSUME NEW lines \in SUBSET Set!Line, lines # {}
    PROVE  RunFits(Set!HotRun(lines))
<1>. DEFINE first == CHOOSE l \in lines : \A m \in lines : l <= m
            end   == CHOOSE l \in lines : \A m \in lines : m <= l
<1>1. lines \in SUBSET Nat /\ lines \in SUBSET (0 .. Lines)
  BY LineSets
<1>2. first \in lines /\ \A m \in lines : first <= m
  BY <1>1, LeastFound
<1>3. end \in lines /\ \A m \in lines : m <= end
  BY <1>1, SetSizes, GreatestFound
<1>4. Set!HotRun(lines) = Set!Adjusted(first, end, Set!Rounded(end - first + 1))
  BY DEF Set!HotRun
<1>. HIDE DEF first, end
<1>5. first \in Set!Line /\ end \in Set!Line /\ first <= end /\ end - first + 1 \in 1 .. Lines
  BY <1>2, <1>3, LineSets
<1>6. Set!Rounded(end - first + 1) \in 1 .. Lines
  BY <1>5, RoundedIs, LineSets
<1>. QED BY <1>4, <1>5, <1>6, AdjustedIs

LEMMA PastGroupIs ==
    ASSUME NEW b, NEW c, CandidateFits(c, b), c.outcome = "search",
           NEW g \in Set!Group, g.start + g.size <= Lines
    PROVE  CandidateFits(Set!PastGroup(c, g), b)
<1>. DEFINE r == c.run
            rest == Set!GroupEnd(g) + 1
            down == Set!RoundedDown(rest, r.end, r.size)
            adjusted == Set!Adjusted(rest, r.end, r.size)
            cut == Set!RoundedDown(r.start, g.start - 1, r.size)
<1>1. /\ r.start \in Set!Line /\ r.end \in Set!Line /\ r.size \in 1 .. Lines
      /\ g.start \in Set!Line /\ g.size \in 1 .. Lines
  BY DEF CandidateFits, Set!Group
<1>2. /\ r.start \in Int /\ r.end \in Int /\ g.start \in Int /\ g.size \in Int
      /\ 0 <= r.start /\ r.end < Lines /\ 0 <= g.start /\ 1 <= g.size /\ Lines \in Int
  BY <1>1, LineSets
<1>3. rest = g.start + g.size /\ Set!GroupEnd(g) = g.start + g.size - 1
  BY <1>2 DEF Set!GroupEnd
<1>4. CASE r.start <= Set!GroupEnd(g) /\ Set!GroupEnd(g) < r.end
  <2>1. rest \in Set!Line /\ rest <= r.end
    BY <1>2, <1>3, <1>4, LineSets
  <2>2. RunFits(down) /\ RunFits(adjusted)
    BY <1>1, <2>1, RoundedDownIs, AdjustedIs
  <2>3. \/ Set!PastGroup(c, g) = [c EXCEPT !.run = down]
        \/ Set!PastGroup(c, g) = [c EXCEPT !.run = adjusted]
    BY <1>4 DEF Set!PastGroup
  <2>. HIDE DEF down, adjusted, r
  <2>. QED BY <2>2, <2>3 DEF CandidateFits, RunFits
<1>5. CASE Set!PastGroup(c, g) = [c EXCEPT !.outcome = "present"]
  BY <1>5 DEF CandidateFits, Outcome
<1>6. CASE r.start < g.start /\ g.start <= r.end
           /\ Set!PastGroup(c, g) = Set!Candidate(cut, TRUE, "search")
  <2>1. g.start - 1 \in Set!Line /\ r.start <= g.start - 1
    BY <1>2, <1>6, LineSets
  <2>2. RunFits(cut)
    BY <1>1, <2>1, RoundedDownIs
  <2>. DEFINE next == Set!PastGroup(c, g)
  <2>. HIDE DEF cut, r
  <2>3. /\ next.run = cut /\ next.outcome = "search"
        /\ next = [run |-> cut, limited |-> TRUE, outcome |-> "search"]
    BY <1>6 DEF Set!Candidate
  <2>. HIDE DEF next
  <2>4. CandidateFits(next, b)
    <3>1. next \in [run : [start : Set!Line, end : Set!Line, size : 1 .. Lines],
                    limited : BOOLEAN, outcome : Outcome]
      BY <2>2, <2>3 DEF RunFits, Outcome
    <3>. QED BY <2>2, <2>3, <3>1 DEF CandidateFits
  <2>. QED BY <2>4 DEF next
<1>7. CASE Set!PastGroup(c, g) = c
  BY <1>7
<1>8. \/ r.start <= Set!GroupEnd(g) /\ Set!GroupEnd(g) < r.end
      \/ Set!PastGroup(c, g) = [c EXCEPT !.outcome = "present"]
      \/ r.start < g.start /\ g.start <= r.end
           /\ Set!PastGroup(c, g) = Set!Candidate(cut, TRUE, "search")
      \/ Set!PastGroup(c, g) = c
  BY DEF Set!PastGroup
<1>. QED BY <1>4, <1>5, <1>6, <1>7, <1>8

LEMMA AtLastGroupIs ==
    ASSUME NEW b, NEW c, CandidateFits(c, b), c.outcome = "search",
           placement \in Seq(Set!Group), Set!Cursor > 0, placement[Set!Cursor].tag = b,
           GroupsFit(placement)
    PROVE  LET next == Set!AtLastGroup(c, placement[Set!Cursor], Set!FreeSpace(placement))
           IN  CandidateFits(next, b) /\ next.outcome # "search"
<1>. DEFINE g == placement[Set!Cursor]
            space == Set!FreeSpace(placement)
            r == c.run
            size == Set!Rounded(r.end - g.start + 1)
            whole == IF c.limited THEN Set!RoundedDown(g.start, r.end, size)
                                  ELSE Set!Adjusted(g.start, r.end, size)
            more == IF whole.size - g.size <= space THEN whole.size - g.size ELSE space
            next == Set!AtLastGroup(c, g, space)
            cut == Set!RoundedDown(r.start, g.start - 1, r.size)
            grown == Set!Run(whole.end + 1 - more, more)
<1>1. /\ Set!Cursor = Len(placement) /\ g \in Set!Group /\ g.start + g.size <= Lines
      /\ space = Lines - Set!Used(placement, Set!Cursor)
      /\ Set!Used(placement, Set!Cursor) \in Nat /\ Set!Used(placement, Set!Cursor) <= Lines
  <2>1. Len(placement) \in 1 .. Len(placement) /\ Len(placement) \in 0 .. Len(placement)
    BY UsedIs DEF Set!Cursor
  <2>. QED BY <2>1, UsedIs DEF Set!Cursor, Set!FreeSpace, GroupsFit
<1>. HIDE DEF g, space
<1>2. /\ r.start \in Set!Line /\ r.end \in Set!Line /\ r.size \in 1 .. Lines
      /\ g.start \in Set!Line /\ g.size \in 1 .. Lines
  BY <1>1 DEF CandidateFits, Set!Group
<1>3. /\ r.start \in Int /\ r.end \in Int /\ g.start \in Int /\ g.size \in Int
      /\ 0 <= r.start /\ r.end < Lines /\ 0 <= g.start /\ 1 <= g.size /\ Lines \in Int
      /\ space \in Int /\ 0 <= space
  <2>1. /\ r.start \in Int /\ r.end \in Int /\ g.start \in Int /\ g.size \in Int
        /\ 0 <= r.start /\ r.end < Lines /\ 0 <= g.start /\ 1 <= g.size /\ Lines \in Int
    BY <1>2, LineSets
  <2>2. space \in Int /\ 0 <= space
    BY <1>1, <2>1
  <2>. QED BY <2>1, <2>2
<1>4. Set!GroupEnd(g) = g.start + g.size - 1
  BY DEF Set!GroupEnd
<1>5. next = IF r.start < g.start THEN Set!Candidate(cut, TRUE, "place")
             ELSE IF r.end <= Set!GroupEnd(g) \/ whole.size <= g.size
             THEN [c EXCEPT !.outcome = "present"]
             ELSE IF more = 0 THEN [c EXCEPT !.outcome = "no space"]
             ELSE [c EXCEPT !.run = grown, !.outcome = "expand"]
  BY DEF Set!AtLastGroup
<1>6. CASE r.start < g.start
  <2>1. g.start - 1 \in Set!Line /\ r.start <= g.start - 1
    <3>1. g.start < Lines
      BY <1>2, LineSets
    <3>2. g.start - 1 \in Int /\ 0 <= g.start - 1 /\ g.start - 1 < Lines /\ r.start <= g.start - 1
      BY <1>3, <1>6, <3>1
    <3>. QED BY <3>2, LineSets
  <2>2. RunFits(cut) /\ cut.start = r.start
    BY <1>2, <2>1, RoundedDownIs
  <2>3. next = Set!Candidate(cut, TRUE, "place")
    BY <1>5, <1>6
  <2>. HIDE DEF cut, r, next
  <2>4. /\ next.run = cut /\ next.limited = TRUE /\ next.outcome = "place"
        /\ next = [run |-> cut, limited |-> TRUE, outcome |-> "place"]
    BY <2>3 DEF Set!Candidate
  <2>5. CandidateFits(next, b)
    BY <1>6, <2>2, <2>4 DEF CandidateFits, RunFits, Outcome, g
  <2>. QED BY <2>4, <2>5 DEF next, g, space
<1>7. CASE ~(r.start < g.start) /\ (r.end <= Set!GroupEnd(g) \/ whole.size <= g.size)
  <2>1. next = [c EXCEPT !.outcome = "present"]
    BY <1>5, <1>7
  <2>. HIDE DEF next
  <2>2. CandidateFits(next, b) /\ next.outcome # "search"
    BY <2>1 DEF CandidateFits, Outcome
  <2>. QED BY <2>2 DEF next, g, space
<1>8. CASE /\ ~(r.start < g.start) /\ ~(r.end <= Set!GroupEnd(g)) /\ ~(whole.size <= g.size)
           /\ more = 0
  <2>1. next = [c EXCEPT !.outcome = "no space"]
    BY <1>5, <1>8
  <2>. HIDE DEF next
  <2>2. CandidateFits(next, b) /\ next.outcome # "search"
    BY <2>1 DEF CandidateFits, Outcome
  <2>. QED BY <2>2 DEF next, g, space
<1>9. CASE /\ ~(r.start < g.start) /\ ~(r.end <= Set!GroupEnd(g)) /\ ~(whole.size <= g.size)
           /\ more # 0
  <2>1. next = [c EXCEPT !.run = grown, !.outcome = "expand"]
    BY <1>5, <1>9
  <2>2. g.start <= r.end /\ r.end - g.start + 1 \in 1 .. Lines
    BY <1>3, <1>4, <1>9, LineSets
  <2>3. size \in 1 .. Lines
    BY <2>2, RoundedIs, LineSets
  <2>4. RunFits(whole) /\ whole.start = g.start
    BY <1>2, <2>2, <2>3, RoundedDownIs, AdjustedIs
  <2>5. /\ whole.end \in Int /\ whole.size \in Int /\ whole.end < Lines
        /\ whole.end = g.start + whole.size - 1
    BY <2>4, LineSets DEF RunFits
  <2>. HIDE DEF whole
  <2>6. more \in Int /\ 1 <= more /\ more <= space /\ more <= whole.size - g.size
    <3>1. \A w, z, s, e \in Int :
             /\ e = IF w - z <= s THEN w - z ELSE s
             /\ ~(w <= z) /\ e # 0 /\ 0 <= s
             => 1 <= e /\ e <= s /\ e <= w - z
      OBVIOUS
    <3>2. /\ more \in Int /\ more # 0 /\ ~(whole.size <= g.size)
          /\ more = IF whole.size - g.size <= space THEN whole.size - g.size ELSE space
      BY <1>3, <1>9, <2>5
    <3>. HIDE DEF more
    <3>. QED BY <1>3, <2>5, <3>1, <3>2
  <2>. HIDE DEF more
  <2>7. /\ RunFits(grown) /\ grown.start = whole.end + 1 - more /\ grown.size = more
        /\ g.start + g.size <= grown.start
    <3>. DEFINE first == whole.end + 1 - more
    <3>0. \A e, w, m, a, z, top \in Int :
             /\ e < top /\ e = a + w - 1 /\ m <= w - z /\ 0 <= a /\ 1 <= z
             => LET f == e + 1 - m IN f \in Int /\ 0 <= f /\ f + m <= top /\ a + z <= f
      OBVIOUS
    <3>1. first \in Int /\ 0 <= first /\ first + more <= Lines /\ g.start + g.size <= first
      BY <1>3, <2>5, <2>6, <3>0
    <3>. HIDE DEF first
    <3>2. /\ RunFits(Set!Run(first, more)) /\ Set!Run(first, more).start = first
          /\ Set!Run(first, more).size = more
      BY <2>6, <3>1, RunIs
    <3>. QED BY <3>1, <3>2 DEF first
  <2>. HIDE DEF grown, next, r
  <2>8. /\ next.run = grown /\ next.outcome = "expand"
        /\ next = [run |-> grown, limited |-> c.limited, outcome |-> "expand"]
        /\ c.limited \in BOOLEAN
    BY <2>1 DEF CandidateFits
  <2>9. CandidateFits(next, b)
    <3>1. next \in [run : [start : Set!Line, end : Set!Line, size : 1 .. Lines],
                    limited : BOOLEAN, outcome : Outcome]
      BY <2>7, <2>8 DEF RunFits, Outcome
    <3>2. next.run.size <= Lines - Set!Used(placement, Set!Cursor)
      BY <1>1, <2>6, <2>7, <2>8
    <3>3. placement[Set!Cursor].start + placement[Set!Cursor].size <= next.run.start
      BY <2>7, <2>8 DEF g
    <3>. QED BY <2>7, <2>8, <3>1, <3>2, <3>3 DEF CandidateFits
  <2>. QED BY <2>8, <2>9 DEF next, g, space
<1>. QED BY <1>6, <1>7, <1>8, <1>9
-----------------------------------------------------------------------------
(* Variable granularity: what the folds over the groups keep *)

LEMMA FoldStays ==
    ASSUME NEW n \in Nat, NEW S, NEW iter, iter[{}] \in S,
           \A k \in 1 .. n : iter[1 .. k - 1] \in S => iter[1 .. k] \in S
    PROVE  iter[1 .. n] \in S
<1>. DEFINE bad == {k \in 0 .. n : iter[1 .. k] \notin S}
<1>1. bad = {}
  <2>. SUFFICES ASSUME bad # {} PROVE FALSE
    OBVIOUS
  <2>1. PICK m \in bad : \A k \in bad : m <= k
    <3>1. bad \in SUBSET Nat
      OBVIOUS
    <3>. HIDE DEF bad
    <3>. QED BY <3>1, LeastFound
  <2>2. m \in 0 .. n /\ iter[1 .. m] \notin S
    OBVIOUS
  <2>3. m # 0
    <3>1. 1 .. 0 = {}
      OBVIOUS
    <3>. QED BY <2>2, <3>1
  <2>4. m \in 1 .. n /\ m - 1 \in 0 .. n /\ m - 1 \notin bad
    BY <2>1, <2>2, <2>3
  <2>5. iter[1 .. m - 1] \in S
    BY <2>4
  <2>. QED BY <2>2, <2>4, <2>5
<1>2. n \in 0 .. n
  OBVIOUS
<1>. QED BY <1>1, <1>2

LEMMA ColdDataEvictedFits ==
    ASSUME placement \in Seq(Set!Group), GroupsFit(placement),
           QueueOf(remapping_request_queue, placement), NEW b, NEW hotAfter
    PROVE  QueueOf(Set!ColdDataEvicted(b, hotAfter), placement)
<1>. DEFINE n == Len(placement)
            cold == {i \in 1 .. n : placement[i].tag \notin hotAfter \cup {0, b}}
            victim == placement[CHOOSE i \in cold : \A j \in cold : i <= j].tag
            S == {q \in Seq(Set!Request) : QueueOf(q, placement)}
            evict(q, i) == IF placement[i].tag = victim
                           THEN Set!Enqueued(q, EvictionOf(placement, i)) ELSE q
            step == [p \in (1 .. n) \X S |-> evict(p[2], p[1])]
            after(it) == [s \in SUBSET (1 .. n) |->
                            IF s = {} THEN remapping_request_queue
                            ELSE evict(it[s \ {Greatest(s)}], Greatest(s))]
            out == Set!ColdDataEvicted(b, hotAfter)
<1>1. n \in Nat /\ remapping_request_queue \in S
  BY UsedIs DEF QueueOf
<1>2. CASE cold = {}
  BY <1>2 DEF Set!ColdDataEvicted, Set!Cursor
<1>3. CASE cold # {}
  <2>1. victim # 0
    <3>. DEFINE first == CHOOSE i \in cold : \A j \in cold : i <= j
    <3>1. cold \in SUBSET Nat
      OBVIOUS
    <3>2. first \in cold
      <4>. HIDE DEF cold
      <4>. QED BY <1>3, <3>1, LeastFound
    <3>. HIDE DEF first
    <3>3. placement[first].tag # 0
      BY <3>2
    <3>. QED BY <3>3 DEF first
  <2>. HIDE DEF victim
  <2>2. ASSUME NEW q \in S, NEW i \in 1 .. n PROVE evict(q, i) \in S
    <3>1. CASE placement[i].tag = victim
      <4>1. QueueOf(Set!Enqueued(q, EvictionOf(placement, i)), placement)
        BY <2>1, <3>1, EvictionEnqueued
      <4>. QED BY <3>1, <4>1 DEF QueueOf
    <3>2. CASE placement[i].tag # victim
      BY <3>2
    <3>. QED BY <3>1, <3>2
  <2>3. step \in [(1 .. n) \X S -> S]
    <3>. HIDE DEF S, evict
    <3>1. ASSUME NEW p \in (1 .. n) \X S PROVE evict(p[2], p[1]) \in S
      BY <2>2
    <3>. QED BY <3>1
  <2>. HIDE DEF S
  <2>4. PICK it : FoldLeftOf(n, S, remapping_request_queue, step, it)
    <3>. HIDE DEF step, n
    <3>. QED BY <1>1, <2>3, FoldLeftExists
  <2>5. it = after(it)
    <3>1. ASSUME NEW s \in SUBSET (1 .. n), s # {}
          PROVE  it[s] = evict(it[s \ {Greatest(s)}], Greatest(s))
      <4>. HIDE DEF n, evict
      <4>1. Greatest(s) \in 1 .. n /\ s \ {Greatest(s)} \in SUBSET (1 .. n)
        BY <1>1, <3>1, GreatestIs
      <4>2. <<Greatest(s), it[s \ {Greatest(s)}]>> \in (1 .. n) \X S
        BY <2>4, <4>1 DEF FoldLeftOf
      <4>3. it[s] = step[<<Greatest(s), it[s \ {Greatest(s)}]>>]
        BY <2>4, <3>1 DEF FoldLeftOf
      <4>. QED BY <4>2, <4>3
    <3>2. it[{}] = remapping_request_queue /\ it \in [SUBSET (1 .. n) -> S]
      BY <2>4 DEF FoldLeftOf
    <3>. HIDE DEF n, evict
    <3>. QED BY <3>1, <3>2
  <2>6. out = (CHOOSE x_ : x_ = after(x_))[1 .. n]
    <3>. DEFINE seq == [i \in 1 .. n |-> i]
                code(x_) == [s \in SUBSET (1 .. n) |->
                               IF s = {} THEN remapping_request_queue
                               ELSE evict(x_[s \ {Greatest(s)}], seq[Greatest(s)])]
    <3>1. out = (CHOOSE x_ : x_ = code(x_))[1 .. n]
      <4>1. DOMAIN seq = 1 .. n
        OBVIOUS
      <4>. QED BY <1>3, <4>1 DEF Set!ColdDataEvicted, Set!Cursor, Set!Eviction, EvictionOf, victim,
               Set!FoldLeft, Set!MapThenFoldSet, Set!Max, Greatest
    <3>2. ASSUME NEW x_ PROVE code(x_) = after(x_)
      <4>1. ASSUME NEW s \in SUBSET (1 .. n), s # {} PROVE seq[Greatest(s)] = Greatest(s)
        <5>1. Greatest(s) \in 1 .. n
          <6>. HIDE DEF n
          <6>. QED BY <1>1, <4>1, GreatestIs
        <5>. QED BY <5>1
      <4>. HIDE DEF n, evict, seq
      <4>. QED BY <4>1
    <3>. HIDE DEF code, after
    <3>. QED BY <3>1, <3>2
  <2>7. PICK x_ : x_ = after(x_) /\ out = x_[1 .. n]
    <3>. HIDE DEF after, out
    <3>. QED BY <2>5, <2>6
  <2>8. x_[{}] \in S
    BY <1>1, <2>7 DEF S
  <2>9. ASSUME NEW k \in 1 .. n, x_[1 .. k - 1] \in S PROVE x_[1 .. k] \in S
    <3>. HIDE DEF n, evict
    <3>1. /\ 1 .. k \in SUBSET (1 .. n) /\ 1 .. k # {} /\ Greatest(1 .. k) = k
          /\ (1 .. k) \ {k} = 1 .. k - 1
      BY <1>1, UpTo
    <3>2. x_[1 .. k] = evict(x_[1 .. k - 1], k)
      BY <2>7, <3>1
    <3>. QED BY <2>2, <2>9, <3>2
  <2>10. x_[1 .. n] \in S
    <3>. HIDE DEF n
    <3>. QED BY <1>1, <2>8, <2>9, FoldStays
  <2>11. out \in S
    BY <2>7, <2>10
  <2>. QED BY <2>11 DEF S
<1>. QED BY <1>2, <1>3

\* The search has a candidate that fits; if it is still on behind the last group, that is
\* of another block.
LEMMA SearchedFits ==
    ASSUME placement \in Seq(Set!Group), GroupsFit(placement),
           NEW b, NEW lines \in SUBSET Set!Line, lines # {}
    PROVE  /\ CandidateFits(Set!Searched(b, lines), b)
           /\ Set!Searched(b, lines).outcome = "search" /\ Set!Cursor > 0
              => placement[Set!Cursor].tag # b
<1>. DEFINE n == Len(placement)
            base == Set!Candidate(Set!HotRun(lines), FALSE, "search")
            C == [run : [start : Set!Line, end : Set!Line, size : 1 .. Lines],
                  limited : BOOLEAN, outcome : Outcome]
            S == {c \in C : CandidateFits(c, b)}
            visit(c, i) == IF c.outcome # "search" \/ placement[i].tag # b THEN c
                           ELSE IF i < n THEN Set!PastGroup(c, placement[i])
                           ELSE Set!AtLastGroup(c, placement[i], Set!FreeSpace(placement))
            step == [p \in (1 .. n) \X S |-> visit(p[2], p[1])]
            after(it) == [s \in SUBSET (1 .. n) |->
                            IF s = {} THEN base ELSE visit(it[s \ {Greatest(s)}], Greatest(s))]
            out == Set!Searched(b, lines)
<1>1. n \in Nat
  BY UsedIs
<1>2. base \in S
  <2>1. RunFits(Set!HotRun(lines))
    BY HotRunIs
  <2>. DEFINE run == Set!HotRun(lines)
  <2>. HIDE DEF run
  <2>2. base = [run |-> run, limited |-> FALSE, outcome |-> "search"]
    BY DEF Set!Candidate, run
  <2>. HIDE DEF base
  <2>3. base \in C
    BY <2>1, <2>2 DEF RunFits, Outcome, run
  <2>4. base.run = run /\ base.outcome = "search"
    BY <2>2
  <2>5. CandidateFits(base, b)
    BY <2>1, <2>3, <2>4 DEF CandidateFits, run
  <2>. QED BY <2>3, <2>5
<1>. HIDE DEF base
<1>3. \A c : CandidateFits(c, b) => c \in S
  BY DEF CandidateFits
<1>4. ASSUME NEW c \in S, NEW i \in 1 .. n
      PROVE  /\ visit(c, i) \in S
             /\ i = n /\ visit(c, i).outcome = "search" => placement[i].tag # b
  <2>1. CASE c.outcome # "search" \/ placement[i].tag # b
    BY <2>1
  <2>2. CASE c.outcome = "search" /\ placement[i].tag = b /\ i < n
    <3>1. placement[i] \in Set!Group /\ placement[i].start + placement[i].size <= Lines
      BY UsedIs DEF GroupsFit
    <3>2. CandidateFits(Set!PastGroup(c, placement[i]), b)
      BY <2>2, <3>1, PastGroupIs
    <3>3. visit(c, i) = Set!PastGroup(c, placement[i])
      BY <2>2
    <3>4. i # n
      BY <2>2
    <3>. HIDE DEF visit, S, n
    <3>. QED BY <1>3, <3>2, <3>3, <3>4
  <2>3. CASE c.outcome = "search" /\ placement[i].tag = b /\ ~(i < n)
    <3>1. i = n /\ i = Set!Cursor /\ Set!Cursor > 0
      BY <1>1, <2>3 DEF Set!Cursor
    <3>2. /\ CandidateFits(Set!AtLastGroup(c, placement[i], Set!FreeSpace(placement)), b)
          /\ Set!AtLastGroup(c, placement[i], Set!FreeSpace(placement)).outcome # "search"
      BY <2>3, <3>1, AtLastGroupIs
    <3>3. visit(c, i) = Set!AtLastGroup(c, placement[i], Set!FreeSpace(placement))
      BY <2>3
    <3>. HIDE DEF visit, S, n
    <3>. QED BY <1>3, <3>2, <3>3
  <2>. QED BY <2>1, <2>2, <2>3
<1>5. step \in [(1 .. n) \X S -> S]
  <2>. HIDE DEF S, visit
  <2>1. ASSUME NEW p \in (1 .. n) \X S PROVE visit(p[2], p[1]) \in S
    BY <1>4
  <2>. QED BY <2>1
<1>6. \A c \in S : CandidateFits(c, b)
  OBVIOUS
<1>. HIDE DEF S
<1>7. PICK it : FoldLeftOf(n, S, base, step, it)
  <2>. HIDE DEF step, n
  <2>. QED BY <1>1, <1>2, <1>5, FoldLeftExists
<1>8. it = after(it)
  <2>1. ASSUME NEW s \in SUBSET (1 .. n), s # {}
        PROVE  it[s] = visit(it[s \ {Greatest(s)}], Greatest(s))
    <3>. HIDE DEF n, visit
    <3>1. Greatest(s) \in 1 .. n /\ s \ {Greatest(s)} \in SUBSET (1 .. n)
      BY <1>1, <2>1, GreatestIs
    <3>2. <<Greatest(s), it[s \ {Greatest(s)}]>> \in (1 .. n) \X S
      BY <1>7, <3>1 DEF FoldLeftOf
    <3>3. it[s] = step[<<Greatest(s), it[s \ {Greatest(s)}]>>]
      BY <1>7, <2>1 DEF FoldLeftOf
    <3>. QED BY <3>2, <3>3
  <2>2. it[{}] = base /\ it \in [SUBSET (1 .. n) -> S]
    BY <1>7 DEF FoldLeftOf
  <2>. HIDE DEF n, visit
  <2>. QED BY <2>1, <2>2
<1>9. out = (CHOOSE x_ : x_ = after(x_))[1 .. n]
  <2>. DEFINE seq == [i \in 1 .. n |-> i]
              code(x_) == [s \in SUBSET (1 .. n) |->
                             IF s = {} THEN base ELSE visit(x_[s \ {Greatest(s)}], seq[Greatest(s)])]
  <2>1. out = (CHOOSE x_ : x_ = code(x_))[1 .. n]
    <3>1. DOMAIN seq = 1 .. n
      OBVIOUS
    <3>. QED BY <3>1 DEF Set!Searched, Set!Cursor, base,
             Set!FoldLeft, Set!MapThenFoldSet, Set!Max, Greatest
  <2>2. ASSUME NEW x_ PROVE code(x_) = after(x_)
    <3>1. ASSUME NEW s \in SUBSET (1 .. n), s # {} PROVE seq[Greatest(s)] = Greatest(s)
      <4>1. Greatest(s) \in 1 .. n
        <5>. HIDE DEF n
        <5>. QED BY <1>1, <3>1, GreatestIs
      <4>. QED BY <4>1
    <3>. HIDE DEF n, visit, seq
    <3>. QED BY <3>1
  <2>. HIDE DEF code, after
  <2>. QED BY <2>1, <2>2
<1>10. PICK x_ : x_ = after(x_) /\ out = x_[1 .. n]
  <2>. HIDE DEF after, out
  <2>. QED BY <1>8, <1>9
<1>11. x_[{}] \in S
  BY <1>2, <1>10
<1>12. ASSUME NEW k \in 1 .. n PROVE x_[1 .. k] = visit(x_[1 .. k - 1], k)
  <2>. HIDE DEF n, visit
  <2>1. /\ 1 .. k \in SUBSET (1 .. n) /\ 1 .. k # {} /\ Greatest(1 .. k) = k
        /\ (1 .. k) \ {k} = 1 .. k - 1
    BY <1>1, UpTo
  <2>. QED BY <1>10, <2>1
<1>. HIDE DEF n, visit, out, after
<1>13. ASSUME NEW k \in 0 .. n PROVE x_[1 .. k] \in S
  <2>1. k \in Nat
    BY <1>1
  <2>2. ASSUME NEW j \in 1 .. k, x_[1 .. j - 1] \in S PROVE x_[1 .. j] \in S
    <3>1. j \in 1 .. n
      BY <1>1
    <3>. QED BY <1>4, <1>12, <2>2, <3>1
  <2>. QED BY <1>11, <2>1, <2>2, FoldStays
<1>14. CandidateFits(out, b)
  <2>1. n \in 0 .. n
    BY <1>1
  <2>. QED BY <1>6, <1>10, <1>13, <2>1
<1>15. n > 0 /\ out.outcome = "search" => placement[n].tag # b
  <2>. SUFFICES ASSUME n > 0, out.outcome = "search" PROVE placement[n].tag # b
    OBVIOUS
  <2>1. n \in 1 .. n /\ n - 1 \in 0 .. n
    BY <1>1
  <2>2. x_[1 .. n - 1] \in S /\ out = visit(x_[1 .. n - 1], n)
    BY <1>10, <1>12, <1>13, <2>1
  <2>. QED BY <1>4, <2>1, <2>2
<1>. QED BY <1>14, <1>15 DEF n, out, Set!Cursor

LEMMA PromotionIs ==
    ASSUME placement \in Seq(Set!Group), GroupsFit(placement), NEW b \in Set!SlowBlock,
           NEW c, CandidateFits(c, b), c.outcome \in Set!Placing,
           c.outcome = "search" /\ Set!Cursor > 0 => placement[Set!Cursor].tag # b,
           Set!PromotionSize(c) # 0
    PROVE  /\ Set!Promotion(b, c) \in Set!Request /\ Set!Promotion(b, c).promotion
           /\ PromotionFits(Set!Promotion(b, c), placement)
<1>. DEFINE n == Len(placement)
            used == Set!Used(placement, n)
            size == Set!PromotionSize(c)
            r == Set!Promotion(b, c)
<1>1. /\ n \in Nat /\ used \in Nat /\ used <= Lines /\ n <= NUMBER_OF_BLOCK /\ Set!Cursor = n
      /\ Set!FreeSpace(placement) = Lines - used
  <2>1. Len(placement) \in 0 .. Len(placement)
    BY UsedIs
  <2>. QED BY <2>1, UsedIs DEF GroupsFit, Set!Cursor, Set!FreeSpace
<1>2. /\ c.run.start \in Set!Line /\ c.run.size \in 1 .. Lines
      /\ c.run.end \in Set!Line /\ c.run.end = c.run.start + c.run.size - 1
  BY DEF CandidateFits, RunFits
<1>3. /\ c.run.start \in Int /\ 0 <= c.run.start /\ c.run.size \in Int /\ 1 <= c.run.size
      /\ c.run.start + c.run.size <= Lines /\ Lines \in Int
  BY <1>2, LineSets
<1>4. /\ size \in Int /\ 1 <= size /\ size <= c.run.size /\ size <= Lines - used
      /\ c.outcome # "expand" => n # NUMBER_OF_BLOCK
  <2>1. CASE c.outcome = "expand"
    <3>1. size = c.run.size
      BY <2>1 DEF Set!PromotionSize
    <3>2. c.run.size <= Lines - used
      BY <1>1, <2>1 DEF CandidateFits
    <3>. QED BY <1>3, <2>1, <3>1, <3>2
  <2>2. CASE c.outcome # "expand"
    <3>1. /\ n # NUMBER_OF_BLOCK
          /\ size = IF c.run.size <= Lines - used THEN c.run.size ELSE Lines - used
      BY <1>1, <2>2 DEF Set!PromotionSize
    <3>. QED BY <1>1, <1>3, <3>1
  <2>. QED BY <2>1, <2>2
<1>5. /\ r = [promotion |-> TRUE, fm |-> Lines - Set!FreeSpace(placement), block |-> b,
              sm |-> c.run.start, size |-> size]
  BY DEF Set!Promotion
<1>. HIDE DEF size, r, used, n
<1>6. Lines - Set!FreeSpace(placement) = used
  BY <1>1, <1>3
<1>7. used \in Set!Line /\ size \in 1 .. Lines
  BY <1>1, <1>3, <1>4, LineSets
<1>8. r \in Set!Request /\ r.promotion /\ r.fm = used /\ r.block = b /\ r.sm = c.run.start
      /\ r.size = size
  BY <1>2, <1>5, <1>6, <1>7 DEF Set!Request
<1>9. r.fm + r.size <= Lines /\ r.sm + r.size <= Lines
  BY <1>1, <1>3, <1>4, <1>8
<1>10. IF ExpandsIn(placement, r)
       THEN placement[n].start + placement[n].size <= r.sm
       ELSE n < NUMBER_OF_BLOCK
  <2>1. CASE c.outcome = "expand"
    <3>1. /\ n > 0 /\ placement[n].tag = b
          /\ placement[n].start + placement[n].size <= c.run.start
      BY <1>1, <2>1 DEF CandidateFits
    <3>2. n \in 1 .. Len(placement)
      BY <1>1, <3>1 DEF n
    <3>3. placement[n] \in Set!Group
      BY <3>2, UsedIs
    <3>4. placement[n].start \in Int /\ placement[n].size \in Int /\ placement[n].size >= 1
      BY <3>3, LineSets DEF Set!Group
    <3>5. ExpandsIn(placement, r)
      BY <1>3, <1>8, <3>1, <3>4 DEF ExpandsIn, n
    <3>. QED BY <1>8, <3>1, <3>5
  <2>2. CASE c.outcome = "place"
    <3>1. n > 0 /\ c.run.start < placement[n].start
      BY <1>1, <2>2 DEF CandidateFits
    <3>2. n \in 1 .. Len(placement)
      BY <1>1, <3>1 DEF n
    <3>3. placement[n] \in Set!Group
      BY <3>2, UsedIs
    <3>4. placement[n].start \in Int
      BY <3>3, LineSets DEF Set!Group
    <3>5. ~ExpandsIn(placement, r)
      BY <1>3, <1>8, <3>1, <3>4 DEF ExpandsIn, n
    <3>6. n < NUMBER_OF_BLOCK
      BY <1>1, <1>4, <2>2, SetSizes
    <3>. QED BY <3>5, <3>6
  <2>3. CASE c.outcome = "search"
    <3>1. ~ExpandsIn(placement, r)
      BY <1>1, <1>8, <2>3 DEF ExpandsIn, n
    <3>2. n < NUMBER_OF_BLOCK
      BY <1>1, <1>4, <2>3, SetSizes
    <3>. QED BY <3>1, <3>2
  <2>. QED BY <2>1, <2>2, <2>3 DEF Set!Placing
<1>11. PromotionFits(r, placement)
  BY <1>8, <1>9, <1>10 DEF PromotionFits, n, used
<1>. QED BY <1>8, <1>11 DEF r
-----------------------------------------------------------------------------
(* Variable granularity: the invariant of the queue *)

SetInv == /\ Set!TypeOK
          /\ GroupsFit(placement)
          /\ QueueOf(remapping_request_queue, placement)
          /\ ~failed

LEMMA SetStart == Set!Init => SetInv
<1>. SUFFICES ASSUME Set!Init PROVE SetInv
  OBVIOUS
<1>. USE DEF Set!Init
<1>1. placement = <<>> /\ placement \in Seq(Set!Group) /\ Len(placement) = 0
  OBVIOUS
<1>2. remapping_request_queue \in Seq(Set!Request) /\ Len(remapping_request_queue) = 0
  OBVIOUS
<1>3. GroupsFit(placement)
  <2>1. Set!Used(placement, 0) = 0
    BY <1>1, UsedIs
  <2>. QED BY <1>1, <2>1, SetSizes DEF GroupsFit
<1>4. QueueOf(remapping_request_queue, placement)
  BY <1>2, SetSizes DEF QueueOf
<1>5. Set!TypeOK
  <2>1. /\ counter \in [Set!SlowBlock -> 0 .. COUNTER_MAX_VALUE] /\ hot \subseteq Set!SlowBlock
        /\ access \in [Set!SlowBlock -> SUBSET Set!Line]
        /\ misplaced \in BOOLEAN /\ failed \in BOOLEAN
    <3>1. 0 \in 0 .. COUNTER_MAX_VALUE
      BY SetSizes
    <3>2. counter \in [Set!SlowBlock -> 0 .. COUNTER_MAX_VALUE]
      BY <3>1
    <3>3. access \in [Set!SlowBlock -> SUBSET Set!Line]
      OBVIOUS
    <3>. QED BY <3>2, <3>3, Zenon
  <2>2. memory \in [Set!BlockLine -> Set!BlockLine \cup {Set!Other}]
    OBVIOUS
  <2>. QED BY <1>1, <1>2, <2>1, <2>2, SetSizes DEF Set!TypeOK
<1>. QED BY <1>3, <1>4, <1>5 DEF SetInv

LEMMA QueueAfterFits ==
    ASSUME SetInv, NEW b \in Set!SlowBlock, NEW l \in Set!Line,
           NEW lines \in SUBSET Set!Line, lines # {}, NEW hotAfter
    PROVE  QueueOf(Set!QueueAfter(b, l, lines, hotAfter), placement)
<1>. DEFINE c == Set!Searched(b, lines)
            out == Set!QueueAfter(b, l, lines, hotAfter)
<1>1. placement \in Seq(Set!Group) /\ GroupsFit(placement)
      /\ QueueOf(remapping_request_queue, placement)
  BY DEF SetInv, Set!TypeOK
<1>2. \/ out = remapping_request_queue
      \/ out = Set!ColdDataEvicted(b, hotAfter)
      \/ /\ c.outcome # "present" /\ c.outcome # "no space" /\ Set!PromotionSize(c) # 0
         /\ out = Set!Enqueued(remapping_request_queue, Set!Promotion(b, c))
  BY DEF Set!QueueAfter
<1>3. CandidateFits(c, b) /\ (c.outcome = "search" /\ Set!Cursor > 0 => placement[Set!Cursor].tag # b)
  BY <1>1, SearchedFits
<1>. HIDE DEF c, out
<1>4. c.outcome \in Outcome
  BY <1>3 DEF CandidateFits
<1>5. CASE out = remapping_request_queue
  BY <1>1, <1>5 DEF out
<1>6. CASE out = Set!ColdDataEvicted(b, hotAfter)
  <2>1. QueueOf(Set!ColdDataEvicted(b, hotAfter), placement)
    BY <1>1, ColdDataEvictedFits
  <2>. QED BY <1>6, <2>1 DEF out
<1>7. CASE /\ c.outcome # "present" /\ c.outcome # "no space" /\ Set!PromotionSize(c) # 0
           /\ out = Set!Enqueued(remapping_request_queue, Set!Promotion(b, c))
  <2>1. c.outcome \in Set!Placing
    BY <1>4, <1>7 DEF Outcome, Set!Placing
  <2>2. /\ Set!Promotion(b, c) \in Set!Request /\ Set!Promotion(b, c).promotion
        /\ PromotionFits(Set!Promotion(b, c), placement)
    BY <1>1, <1>3, <1>7, <2>1, PromotionIs
  <2>3. QueueOf(Set!Enqueued(remapping_request_queue, Set!Promotion(b, c)), placement)
    BY <1>1, <2>2, PromotionEnqueued
  <2>. QED BY <1>7, <2>3 DEF out
<1>. QED BY <1>2, <1>5, <1>6, <1>7

LEMMA TrackSlowKeepsSet ==
    ASSUME SetInv, NEW b \in Set!SlowBlock, NEW l \in Set!Line, NEW busy \in BOOLEAN,
           Set!TrackSlowBlock(b, l, busy)
    PROVE  SetInv'
<1>. DEFINE count == IF counter[b] < COUNTER_MAX_VALUE THEN counter[b] + 1 ELSE counter[b]
            lines == access[b] \cup {l}
            hotAfter == IF count >= HOTNESS_THRESHOLD THEN hot \cup {b} ELSE hot
            c == Set!Searched(b, lines)
<1>1. /\ placement \in Seq(Set!Group) /\ counter \in [Set!SlowBlock -> 0 .. COUNTER_MAX_VALUE]
      /\ hot \subseteq Set!SlowBlock /\ access \in [Set!SlowBlock -> SUBSET Set!Line]
      /\ memory \in [Set!BlockLine -> Set!BlockLine \cup {Set!Other}] /\ misplaced \in BOOLEAN
      /\ GroupsFit(placement) /\ QueueOf(remapping_request_queue, placement)
  BY DEF SetInv, Set!TypeOK
<1>2. /\ access' = [access EXCEPT ![b] = lines] /\ counter' = [counter EXCEPT ![b] = count]
      /\ hot' = hotAfter
      /\ remapping_request_queue' = IF busy THEN remapping_request_queue
                                    ELSE Set!QueueAfter(b, l, lines, hotAfter)
      /\ failed' = (b \in hotAfter /\ c.outcome \in Set!Placing /\ c.run.size = 0)
      /\ UNCHANGED <<placement, memory, misplaced>>
  BY DEF Set!TrackSlowBlock
<1>3. lines \in SUBSET Set!Line /\ lines # {}
  BY <1>1
<1>4. count \in 0 .. COUNTER_MAX_VALUE
  BY <1>1, SetSizes
<1>5. hotAfter \subseteq Set!SlowBlock
  BY <1>1
<1>. HIDE DEF count, lines, hotAfter
<1>6. c.run.size \in 1 .. Lines
  <2>1. CandidateFits(c, b)
    BY <1>1, <1>3, SearchedFits
  <2>. HIDE DEF c
  <2>. QED BY <2>1 DEF CandidateFits
<1>7. failed' = FALSE
  <2>1. c.run.size # 0
    BY <1>6, LineSets
  <2>. QED BY <1>2, <2>1, Zenon
<1>8. QueueOf(remapping_request_queue', placement)
  <2>1. QueueOf(Set!QueueAfter(b, l, lines, hotAfter), placement)
    BY <1>3, QueueAfterFits
  <2>2. CASE busy
    BY <1>1, <1>2, <2>2
  <2>3. CASE ~busy
    BY <1>2, <2>1, <2>3
  <2>. QED BY <2>2, <2>3
<1>9. /\ counter' \in [Set!SlowBlock -> 0 .. COUNTER_MAX_VALUE]
      /\ access' \in [Set!SlowBlock -> SUBSET Set!Line]
      /\ hot' \subseteq Set!SlowBlock
  BY <1>1, <1>2, <1>3, <1>4, <1>5
<1>10. /\ placement' = placement /\ memory' = memory /\ misplaced' = misplaced
  BY <1>2
<1>11. GroupsFit(placement)' /\ QueueOf(remapping_request_queue, placement)'
  BY <1>1, <1>8, <1>10
<1>12. /\ placement' \in Seq(Set!Group) /\ misplaced' \in BOOLEAN
       /\ memory' \in [Set!BlockLine -> Set!BlockLine \cup {Set!Other}]
  BY <1>1, <1>10
<1>. QED BY <1>7, <1>9, <1>11, <1>12, Zenon DEF SetInv, Set!TypeOK, QueueOf

LEMMA TrackFastKeepsSet ==
    ASSUME SetInv, NEW l, Set!TrackFastBlock(l)
    PROVE  SetInv'
<1>1. PICK i \in Set!Covering(l) :
        /\ placement[i].tag # 0
        /\ remapping_request_queue' = Set!Enqueued(remapping_request_queue, Set!Eviction(i))
        /\ UNCHANGED <<placement, counter, hot, access, memory, misplaced, failed>>
  BY DEF Set!TrackFastBlock
<1>2. i \in 1 .. Len(placement)
  BY DEF Set!Covering, Set!Cursor
<1>3. Set!Eviction(i) = EvictionOf(placement, i)
  BY DEF Set!Eviction, EvictionOf
<1>4. placement \in Seq(Set!Group) /\ GroupsFit(placement)
      /\ QueueOf(remapping_request_queue, placement)
  BY DEF SetInv, Set!TypeOK
<1>5. QueueOf(Set!Enqueued(remapping_request_queue, EvictionOf(placement, i)), placement)
  BY <1>1, <1>2, <1>4, EvictionEnqueued
<1>6. /\ placement' = placement /\ counter' = counter /\ hot' = hot /\ access' = access
      /\ memory' = memory /\ misplaced' = misplaced /\ failed' = failed
  BY <1>1
<1>7. GroupsFit(placement)' /\ QueueOf(remapping_request_queue, placement)'
  BY <1>1, <1>3, <1>4, <1>5, <1>6
<1>. QED BY <1>6, <1>7 DEF SetInv, Set!TypeOK, QueueOf

LEMMA DetectKeepsSet == ASSUME SetInv, Set!DetectColdData PROVE SetInv'
<1>1. /\ placement' = placement /\ remapping_request_queue' = remapping_request_queue
      /\ memory' = memory /\ misplaced' = misplaced /\ failed' = failed
  BY DEF Set!DetectColdData
<1>2. counter' \in [Set!SlowBlock -> 0 .. COUNTER_MAX_VALUE]
  <2>1. \A b \in Set!SlowBlock : counter[b] \div 2 \in 0 .. COUNTER_MAX_VALUE
    BY SetSizes DEF SetInv, Set!TypeOK
  <2>. QED BY <2>1 DEF Set!DetectColdData
<1>3. hot' \subseteq Set!SlowBlock /\ access' \in [Set!SlowBlock -> SUBSET Set!Line]
  BY DEF Set!DetectColdData, SetInv, Set!TypeOK
<1>. QED BY <1>1, <1>2, <1>3 DEF SetInv, Set!TypeOK
-----------------------------------------------------------------------------
(* Variable granularity: what a finished request makes of the groups *)

\* The groups with the i-th replaced by g.
Replaced(groups, i, g, next) ==
    /\ next \in Seq(Set!Group) /\ Len(next) = Len(groups) /\ next[i] = g
    /\ \A j \in 1 .. Len(groups) : j # i => next[j] = groups[j]

LEMMA ReplacedUsed ==
    ASSUME NEW groups \in Seq(Set!Group), NEW i \in 1 .. Len(groups), NEW g, NEW next,
           Replaced(groups, i, g, next)
    PROVE  /\ \A k \in 0 .. i - 1 : Set!Used(next, k) = Set!Used(groups, k)
           /\ Set!Used(next, i) = Set!Used(groups, i - 1) + g.size
           /\ g.size = groups[i].size =>
                 \A k \in 0 .. Len(groups) : Set!Used(next, k) = Set!Used(groups, k)
<1>1. Len(groups) \in Nat /\ next \in Seq(Set!Group) /\ Len(next) = Len(groups) /\ next[i] = g
  BY UsedIs DEF Replaced
<1>2. ASSUME NEW k \in 0 .. i - 1 PROVE Set!Used(next, k) = Set!Used(groups, k)
  <2>1. k \in 0 .. Len(groups) /\ \A j \in 1 .. k : j \in 1 .. Len(groups) /\ j # i
    BY <1>1
  <2>2. \A j \in 1 .. k : next[j].size = groups[j].size
    BY <2>1 DEF Replaced
  <2>. QED BY <2>1, <2>2, UsedSame
<1>3. Set!Used(next, i) = Set!Used(groups, i - 1) + g.size
  <2>1. Set!Used(next, i) = Set!Used(next, i - 1) + next[i].size
    BY <1>1, UsedIs
  <2>2. i - 1 \in 0 .. i - 1
    BY <1>1
  <2>. QED BY <1>1, <1>2, <2>1, <2>2
<1>4. ASSUME g.size = groups[i].size, NEW k \in 0 .. Len(groups)
      PROVE  Set!Used(next, k) = Set!Used(groups, k)
  <2>1. \A j \in 1 .. k : next[j].size = groups[j].size
    <3>1. \A j \in 1 .. k : j \in 1 .. Len(groups)
      BY <1>1
    <3>. QED BY <1>1, <1>4, <3>1 DEF Replaced
  <2>. QED BY <2>1, UsedSame
<1>. QED BY <1>2, <1>3, <1>4

LEMMA GrownIs ==
    ASSUME NEW groups \in Seq(Set!Group), NEW i \in 1 .. Len(groups), NEW size \in 1 .. Lines
    PROVE  Replaced(groups, i, [tag |-> groups[i].tag, start |-> groups[i].start, size |-> size],
                    [groups EXCEPT ![i].size = size])
<1>. DEFINE g == [tag |-> groups[i].tag, start |-> groups[i].start, size |-> size]
<1>1. groups[i] \in Set!Group
  BY UsedIs
<1>2. g \in Set!Group /\ g = [groups[i] EXCEPT !.size = size]
  BY <1>1 DEF Set!Group
<1>. HIDE DEF g
<1>3. [groups EXCEPT ![i].size = size] = [groups EXCEPT ![i] = g]
  BY <1>2
<1>4. /\ [groups EXCEPT ![i] = g] \in Seq(Set!Group) /\ Len([groups EXCEPT ![i] = g]) = Len(groups)
      /\ \A j \in 1 .. Len(groups) : [groups EXCEPT ![i] = g][j] = IF j = i THEN g ELSE groups[j]
  BY <1>2, ExceptSeq
<1>5. Replaced(groups, i, g, [groups EXCEPT ![i] = g])
  BY <1>4 DEF Replaced
<1>. QED BY <1>3, <1>5 DEF g

LEMMA RecoveredIs ==
    ASSUME NEW groups \in Seq(Set!Group), NEW i \in 1 .. Len(groups), NEW l \in Set!Line,
           0 \in Set!Block
    PROVE  Replaced(groups, i, [tag |-> 0, start |-> l, size |-> groups[i].size],
                    [groups EXCEPT ![i].tag = 0, ![i].start = l])
<1>. DEFINE g == [tag |-> 0, start |-> l, size |-> groups[i].size]
<1>1. groups[i] \in Set!Group /\ DOMAIN groups = 1 .. Len(groups)
  BY UsedIs
<1>2. g \in Set!Group /\ g = [groups[i] EXCEPT !.tag = 0, !.start = l]
  <2>1. groups[i].size \in 1 .. Lines /\ groups[i] = [groups[i] EXCEPT !.tag = groups[i].tag]
    BY <1>1 DEF Set!Group
  <2>2. g \in Set!Group
    BY <2>1 DEF Set!Group
  <2>3. g = [groups[i] EXCEPT !.tag = 0, !.start = l]
    <3>. DEFINE h == [groups[i] EXCEPT !.tag = 0]
    <3>2. [groups[i] EXCEPT !.tag = 0, !.start = l] = [h EXCEPT !.start = l]
      OBVIOUS
    <3>3. h = [tag |-> 0, start |-> groups[i].start, size |-> groups[i].size]
      BY <1>1 DEF Set!Group
    <3>. HIDE DEF h
    <3>4. g = [h EXCEPT !.start = l]
      BY <3>3
    <3>. QED BY <3>2, <3>4
  <2>. QED BY <2>2, <2>3
<1>. HIDE DEF g
<1>3. [groups EXCEPT ![i].tag = 0, ![i].start = l] = [groups EXCEPT ![i] = g]
  BY <1>1, <1>2
<1>4. /\ [groups EXCEPT ![i] = g] \in Seq(Set!Group) /\ Len([groups EXCEPT ![i] = g]) = Len(groups)
      /\ \A j \in 1 .. Len(groups) : [groups EXCEPT ![i] = g][j] = IF j = i THEN g ELSE groups[j]
  BY <1>2, ExceptSeq
<1>5. Replaced(groups, i, g, [groups EXCEPT ![i] = g])
  BY <1>4 DEF Replaced
<1>. QED BY <1>3, <1>5 DEF g

LEMMA AppendedUsed ==
    ASSUME NEW groups \in Seq(Set!Group), NEW g \in Set!Group
    PROVE  LET next == Append(groups, g)
           IN  /\ next \in Seq(Set!Group) /\ Len(next) = Len(groups) + 1
               /\ next[Len(groups) + 1] = g /\ \A j \in 1 .. Len(groups) : next[j] = groups[j]
               /\ \A k \in 0 .. Len(groups) : Set!Used(next, k) = Set!Used(groups, k)
               /\ Set!Used(next, Len(groups) + 1) = Set!Used(groups, Len(groups)) + g.size
<1>. DEFINE next == Append(groups, g)
            n == Len(groups)
<1>1. /\ next \in Seq(Set!Group) /\ Len(next) = n + 1 /\ next[n + 1] = g
      /\ \A j \in 1 .. n : next[j] = groups[j]
  BY AppendProperties
<1>. HIDE DEF next
<1>2. n \in Nat
  BY UsedIs
<1>3. ASSUME NEW k \in 0 .. n PROVE Set!Used(next, k) = Set!Used(groups, k)
  <2>1. \A j \in 1 .. k : next[j].size = groups[j].size
    BY <1>1, <1>2
  <2>. QED BY <2>1, UsedSame
<1>4. Set!Used(next, n + 1) = Set!Used(groups, n) + g.size
  <2>1. n + 1 \in 1 .. Len(next) /\ n + 1 - 1 = n /\ n \in 0 .. n
    BY <1>1, <1>2
  <2>2. Set!Used(next, n + 1) = Set!Used(next, n) + next[n + 1].size
    BY <1>1, <2>1, UsedIs
  <2>. QED BY <1>1, <1>3, <2>1, <2>2
<1>. QED BY <1>1, <1>3, <1>4 DEF next

\* Only groups of block 0 are dropped.
LEMMA TrimmedIs ==
    ASSUME NEW groups \in Seq(Set!Group)
    PROVE  LET next == Set!Trimmed(groups)
           IN  /\ next \in Seq(Set!Group) /\ Len(next) \in 0 .. Len(groups)
               /\ \A j \in 1 .. Len(next) : next[j] = groups[j]
               /\ \A k \in 0 .. Len(next) : Set!Used(next, k) = Set!Used(groups, k)
               /\ \A j \in 1 .. Len(groups) : groups[j].tag # 0 => j <= Len(next)
<1>. DEFINE n == Len(groups)
            kept == {i \in 1 .. n : groups[i].tag # 0}
            m == CHOOSE m \in 0 .. n : /\ \A i \in kept : i <= m
                                       /\ m = 0 \/ m \in kept
            next == Set!Trimmed(groups)
<1>1. n \in Nat /\ \A i \in 1 .. n : groups[i] \in Set!Group
  BY UsedIs
<1>2. \E k \in 0 .. n : /\ \A i \in kept : i <= k
                        /\ k = 0 \/ k \in kept
  <2>1. CASE kept = {}
    <3>1. 0 \in 0 .. n
      BY <1>1
    <3>. QED BY <2>1, <3>1
  <2>2. CASE kept # {}
    <3>1. kept \in SUBSET (0 .. n) /\ kept \in SUBSET (1 .. n)
      OBVIOUS
    <3>. HIDE DEF kept
    <3>2. PICK k \in kept : \A i \in kept : i <= k
      BY <1>1, <2>2, <3>1, GreatestFound
    <3>. QED BY <3>1, <3>2
  <2>. QED BY <2>1, <2>2
<1>3. m \in 0 .. n /\ \A i \in kept : i <= m
  <2>. HIDE DEF kept, n
  <2>. QED BY <1>2
<1>4. next = SubSeq(groups, 1, m)
  BY DEF Set!Trimmed
<1>. HIDE DEF m, next
<1>5. \A i \in 1 .. m : groups[i] \in Set!Group
  BY <1>1, <1>3
<1>6. m \in Int /\ 1 \in Int
  BY <1>3
<1>7. /\ next \in Seq(Set!Group) /\ Len(next) = IF 1 <= m THEN m - 1 + 1 ELSE 0
      /\ \A i \in 1 .. m - 1 + 1 : next[i] = groups[1 + i - 1]
  BY <1>4, <1>5, <1>6, SubSeqProperties
<1>8. Len(next) = m /\ \A j \in 1 .. m : next[j] = groups[j]
  BY <1>1, <1>3, <1>7
<1>9. ASSUME NEW k \in 0 .. m PROVE Set!Used(next, k) = Set!Used(groups, k)
  <2>1. k \in 0 .. Len(groups) /\ \A j \in 1 .. k : next[j].size = groups[j].size
    BY <1>1, <1>3, <1>8
  <2>. QED BY <2>1, UsedSame
<1>. QED BY <1>3, <1>7, <1>8, <1>9 DEF next

LEMMA RequestSizes ==
    ASSUME NEW r \in Set!Request
    PROVE  /\ r.fm \in Nat /\ r.sm \in Nat /\ r.size \in Nat /\ r.size >= 1 /\ r.size \in 1 .. Lines
           /\ r.fm \in Set!Line /\ r.sm \in Set!Line /\ r.block \in Set!SlowBlock
           /\ r.block \in Set!Block /\ r.block # 0 /\ 0 \in Set!Block
<1>1. r.fm \in Set!Line /\ r.sm \in Set!Line /\ r.size \in 1 .. Lines /\ r.block \in Set!SlowBlock
  BY DEF Set!Request
<1>2. r.block \in Set!Block /\ r.block # 0 /\ 0 \in Set!Block
  BY <1>1, SetSizes DEF Set!SlowBlock, Set!Block
<1>. QED BY <1>1, <1>2, LineSets

LEMMA ExchangedTypes ==
    ASSUME NEW r \in Set!Request, r.fm + r.size <= Lines, r.sm + r.size <= Lines,
           memory \in [Set!BlockLine -> Set!BlockLine \cup {Set!Other}]
    PROVE  Set!Exchanged(r) \in [Set!BlockLine -> Set!BlockLine \cup {Set!Other}]
<1>. DEFINE value(h) == IF h[1] = 0 /\ h[2] \in r.fm .. r.fm + r.size - 1
                        THEN memory[<<r.block, r.sm + h[2] - r.fm>>]
                        ELSE IF h[1] = r.block /\ h[2] \in r.sm .. r.sm + r.size - 1
                        THEN memory[<<0, r.fm + h[2] - r.sm>>]
                        ELSE memory[h]
<1>1. ASSUME NEW h \in Set!BlockLine PROVE value(h) \in Set!BlockLine \cup {Set!Other}
  <2>1. CASE h[1] = 0 /\ h[2] \in r.fm .. r.fm + r.size - 1
    <3>1. r.sm + h[2] - r.fm \in Set!Line
      BY <2>1, RequestSizes, LineSets
    <3>2. <<r.block, r.sm + h[2] - r.fm>> \in Set!BlockLine
      BY <3>1, RequestSizes DEF Set!BlockLine
    <3>3. value(h) = memory[<<r.block, r.sm + h[2] - r.fm>>]
      BY <2>1
    <3>. HIDE DEF value
    <3>. QED BY <3>2, <3>3
  <2>2. CASE h[1] = r.block /\ h[2] \in r.sm .. r.sm + r.size - 1
    <3>1. r.fm + h[2] - r.sm \in Set!Line
      BY <2>2, RequestSizes, LineSets
    <3>2. <<0, r.fm + h[2] - r.sm>> \in Set!BlockLine
      BY <3>1, RequestSizes DEF Set!BlockLine
    <3>3. value(h) = memory[<<0, r.fm + h[2] - r.sm>>]
      BY <2>2, RequestSizes
    <3>. HIDE DEF value
    <3>. QED BY <3>2, <3>3
  <2>3. CASE /\ ~(h[1] = 0 /\ h[2] \in r.fm .. r.fm + r.size - 1)
             /\ ~(h[1] = r.block /\ h[2] \in r.sm .. r.sm + r.size - 1)
    BY <2>3
  <2>. QED BY <2>1, <2>2, <2>3
<1>2. Set!Exchanged(r) = [h \in Set!BlockLine |-> value(h)]
  BY DEF Set!Exchanged
<1>. HIDE DEF value
<1>. QED BY <1>1, <1>2

\* What FinishPromotion makes of the groups.
LEMMA PromotedIs ==
    ASSUME placement \in Seq(Set!Group), GroupsFit(placement), NEW r \in Set!Request,
           r.promotion, PromotionFits(r, placement), Set!FinishPromotion(r)
    PROVE  /\ placement' \in Seq(Set!Group) /\ GroupsFit(placement') /\ failed' = FALSE
           /\ \/ /\ ExpandsIn(placement, r)
                 /\ Replaced(placement, Len(placement),
                             [tag |-> r.block, start |-> placement[Len(placement)].start,
                              size |-> placement[Len(placement)].size + r.size], placement')
              \/ /\ ~ExpandsIn(placement, r)
                 /\ placement' = Append(placement,
                                        [tag |-> r.block, start |-> r.sm, size |-> r.size])
<1>. DEFINE n == Len(placement)
            last == placement[n]
            fresh == [tag |-> r.block, start |-> r.sm, size |-> r.size]
            grown == [tag |-> last.tag, start |-> last.start, size |-> last.size + r.size]
<1>1. Set!Expands(r) <=> ExpandsIn(placement, r)
  BY DEF Set!Expands, ExpandsIn, Set!Cursor
<1>2. /\ r.fm = Set!Used(placement, n) /\ r.fm + r.size <= Lines /\ r.sm + r.size <= Lines
      /\ IF ExpandsIn(placement, r) THEN last.start + last.size <= r.sm ELSE n < NUMBER_OF_BLOCK
  BY DEF PromotionFits
<1>3. /\ n \in Nat /\ n <= NUMBER_OF_BLOCK
      /\ \A i \in 1 .. n :
            /\ placement[i].start + placement[i].size <= Lines
            /\ placement[i].tag = 0 => placement[i].start = Set!Used(placement, i - 1)
  BY UsedIs DEF GroupsFit
<1>4. /\ \A k \in 0 .. n : Set!Used(placement, k) \in Nat
      /\ \A i \in 1 .. n : Set!Used(placement, i) = Set!Used(placement, i - 1) + placement[i].size
  BY UsedIs
<1>5. CASE ExpandsIn(placement, r)
  <2>1. n > 0 /\ n \in 1 .. n /\ n - 1 \in 0 .. n /\ last.tag = r.block /\ last.start <= r.sm
    BY <1>3, <1>5 DEF ExpandsIn
  <2>2. /\ last \in Set!Group /\ last.start \in Nat /\ last.size \in Nat /\ last.size >= 1
        /\ last.start + last.size <= r.sm
    <3>1. last \in Set!Group
      BY <2>1, UsedIs
    <3>2. last.start \in Set!Line /\ last.size \in 1 .. Lines
      BY <3>1 DEF Set!Group
    <3>. QED BY <1>2, <1>5, <3>1, <3>2, LineSets
  <2>3. last.size + r.size \in 1 .. Lines /\ last.start + (last.size + r.size) <= Lines
    <3>1. /\ r.sm \in Nat /\ r.size \in Nat /\ r.sm + r.size <= Lines /\ Lines \in Nat
      BY <1>2, RequestSizes, SetSizes
    <3>. HIDE DEF last
    <3>. QED BY <2>2, <3>1
  <2>4. placement' = [placement EXCEPT ![n].size = last.size + r.size]
    BY <1>1, <1>5 DEF Set!FinishPromotion, Set!Cursor
  <2>5. Replaced(placement, n, grown, placement')
    <3>. HIDE DEF n
    <3>. QED BY <2>1, <2>3, <2>4, GrownIs DEF n
  <2>. DEFINE next == placement'
  <2>6. /\ next \in Seq(Set!Group) /\ Len(next) = n /\ next[n] = grown
        /\ \A j \in 1 .. n : j # n => next[j] = placement[j]
    BY <2>5 DEF Replaced
  <2>7. /\ \A k \in 0 .. n - 1 : Set!Used(next, k) = Set!Used(placement, k)
        /\ Set!Used(next, n) = Set!Used(placement, n - 1) + grown.size
    BY <2>1, <2>5, ReplacedUsed
  <2>8. Set!Used(next, n) <= Lines
    <3>1. Set!Used(placement, n) = Set!Used(placement, n - 1) + last.size
          /\ Set!Used(placement, n - 1) \in Nat
      BY <1>4, <2>1
    <3>2. grown.size = last.size + r.size
      OBVIOUS
    <3>. QED BY <1>2, <2>2, <2>7, <3>1, <3>2, RequestSizes
  <2>. HIDE DEF next
  <2>9. ASSUME NEW i \in 1 .. n
        PROVE  /\ next[i].start + next[i].size <= Lines
               /\ next[i].tag = 0 => next[i].start = Set!Used(next, i - 1)
    <3>1. CASE i = n
      <4>1. next[i].tag = r.block /\ next[i].start = last.start /\ next[i].size = last.size + r.size
        BY <2>1, <2>6, <3>1
      <4>. QED BY <2>3, <4>1, RequestSizes
    <3>2. CASE i # n
      <4>1. next[i] = placement[i] /\ i - 1 \in 0 .. n - 1
        BY <1>3, <2>6, <3>2
      <4>. QED BY <1>3, <2>7, <4>1
    <3>. QED BY <3>1, <3>2
  <2>10. GroupsFit(next)
    BY <1>3, <2>6, <2>8, <2>9 DEF GroupsFit
  <2>11. failed' = FALSE
    BY <1>1, <1>5, Zenon DEF Set!FinishPromotion
  <2>. QED BY <1>5, <2>1, <2>5, <2>6, <2>10, <2>11 DEF next
<1>6. CASE ~ExpandsIn(placement, r)
  <2>1. placement' = Append(placement, fresh)
    BY <1>1, <1>6 DEF Set!FinishPromotion
  <2>2. fresh \in Set!Group
    BY RequestSizes DEF Set!Group
  <2>3. fresh.tag = r.block /\ fresh.start = r.sm /\ fresh.size = r.size
    OBVIOUS
  <2>. HIDE DEF fresh
  <2>. DEFINE next == Append(placement, fresh)
  <2>4. /\ next \in Seq(Set!Group) /\ Len(next) = n + 1 /\ next[n + 1] = fresh
        /\ \A j \in 1 .. n : next[j] = placement[j]
        /\ \A k \in 0 .. n : Set!Used(next, k) = Set!Used(placement, k)
        /\ Set!Used(next, n + 1) = Set!Used(placement, n) + fresh.size
    BY <2>2, AppendedUsed
  <2>. HIDE DEF next
  <2>5. Len(next) <= NUMBER_OF_BLOCK /\ Set!Used(next, Len(next)) <= Lines
    BY <1>2, <1>3, <1>6, <2>3, <2>4, SetSizes
  <2>6. ASSUME NEW i \in 1 .. n + 1
        PROVE  /\ next[i].start + next[i].size <= Lines
               /\ next[i].tag = 0 => next[i].start = Set!Used(next, i - 1)
    <3>1. CASE i = n + 1
      BY <1>2, <2>3, <2>4, <3>1, RequestSizes
    <3>2. CASE i # n + 1
      <4>1. i \in 1 .. n /\ i - 1 \in 0 .. n /\ next[i] = placement[i]
        BY <1>3, <2>4, <3>2
      <4>. QED BY <1>3, <2>4, <4>1
    <3>. QED BY <3>1, <3>2
  <2>7. GroupsFit(next)
    BY <2>4, <2>5, <2>6 DEF GroupsFit
  <2>8. failed' = FALSE
    <3>1. n # NUMBER_OF_BLOCK /\ ~(Lines - Set!Used(placement, n) < r.size)
      <4>1. n \in 0 .. n
        BY <1>3
      <4>. QED BY <1>2, <1>3, <1>4, <1>6, <4>1, RequestSizes, SetSizes
    <3>2. ~(Set!Cursor = NUMBER_OF_BLOCK \/ Set!FreeSpace(placement) < r.size)
      BY <3>1 DEF Set!Cursor, Set!FreeSpace
    <3>. QED BY <3>2, Zenon DEF Set!FinishPromotion
  <2>. QED BY <1>6, <2>1, <2>4, <2>7, <2>8 DEF next, fresh
<1>. QED BY <1>5, <1>6

\* The groups without the i-th: its lines are block 0's again, and groups of block 0 at the
\* end may be dropped.
Evicted(groups, i, next) ==
    /\ next \in Seq(Set!Group) /\ Len(next) \in 0 .. Len(groups)
    /\ \A j \in 1 .. Len(next) :
          next[j] = IF j = i
                    THEN [tag |-> 0, start |-> Set!Used(groups, i - 1), size |-> groups[i].size]
                    ELSE groups[j]
    /\ \A k \in 0 .. Len(next) : Set!Used(next, k) = Set!Used(groups, k)
    /\ \A j \in 1 .. Len(groups) : j # i /\ groups[j].tag # 0 => j <= Len(next)

LEMMA EvictedFits ==
    ASSUME NEW groups \in Seq(Set!Group), GroupsFit(groups), NEW i \in 1 .. Len(groups), NEW next,
           Evicted(groups, i, next)
    PROVE  GroupsFit(next)
<1>. DEFINE n == Len(groups)
            m == Len(next)
<1>1. /\ n \in Nat /\ \A k \in 0 .. n : Set!Used(groups, k) \in Nat
      /\ \A j, k \in 0 .. n : j <= k => Set!Used(groups, j) <= Set!Used(groups, k)
      /\ \A k \in 1 .. n : Set!Used(groups, k) = Set!Used(groups, k - 1) + groups[k].size
  BY UsedIs
<1>2. /\ n <= NUMBER_OF_BLOCK /\ Set!Used(groups, n) <= Lines
      /\ \A j \in 1 .. n : /\ groups[j].start + groups[j].size <= Lines
                           /\ groups[j].tag = 0 => groups[j].start = Set!Used(groups, j - 1)
  BY DEF GroupsFit
<1>3. m \in 0 .. n /\ \A k \in 0 .. m : Set!Used(next, k) = Set!Used(groups, k)
  BY DEF Evicted
<1>4. m <= NUMBER_OF_BLOCK /\ Set!Used(next, m) <= Lines
  <2>1. m \in 0 .. m /\ n \in 0 .. n /\ m <= n
    BY <1>1, <1>3
  <2>2. Set!Used(groups, m) <= Set!Used(groups, n) /\ Set!Used(groups, m) \in Nat
        /\ Set!Used(groups, n) \in Nat
    BY <1>1, <1>3, <2>1
  <2>3. Set!Used(next, m) = Set!Used(groups, m)
    BY <1>3, <2>1
  <2>. QED BY <1>1, <1>2, <1>3, <2>1, <2>2, <2>3, SetSizes
<1>5. ASSUME NEW j \in 1 .. m
      PROVE  /\ next[j].start + next[j].size <= Lines
             /\ next[j].tag = 0 => next[j].start = Set!Used(next, j - 1)
  <2>1. j \in 1 .. n /\ j - 1 \in 0 .. m /\ j \in 0 .. n /\ n \in 0 .. n
    BY <1>1, <1>3
  <2>2. Set!Used(next, j - 1) = Set!Used(groups, j - 1)
    BY <1>3, <2>1
  <2>3. CASE j = i
    <3>1. next[j].start = Set!Used(groups, j - 1) /\ next[j].size = groups[j].size
      BY <2>3 DEF Evicted
    <3>2. Set!Used(groups, j) = Set!Used(groups, j - 1) + groups[j].size
      BY <1>1, <2>1
    <3>3. Set!Used(groups, j) <= Set!Used(groups, n) /\ Set!Used(groups, j) \in Nat
          /\ Set!Used(groups, n) \in Nat
      BY <1>1, <2>1
    <3>4. next[j].start + next[j].size = Set!Used(groups, j)
      BY <3>1, <3>2
    <3>. QED BY <1>2, <2>2, <3>1, <3>3, <3>4, SetSizes
  <2>4. CASE j # i
    <3>1. next[j] = groups[j]
      BY <2>4 DEF Evicted
    <3>. QED BY <1>2, <2>1, <2>2, <3>1
  <2>. QED BY <2>3, <2>4
<1>. QED BY <1>4, <1>5 DEF GroupsFit

\* What FinishEviction makes of the groups.
LEMMA EvictedIs ==
    ASSUME placement \in Seq(Set!Group), GroupsFit(placement), NEW i \in 1 .. Len(placement),
           placement[i].tag # 0, NEW r, r = EvictionOf(placement, i), Set!FinishEviction(r)
    PROVE  Evicted(placement, i, placement') /\ failed' = FALSE
<1>. DEFINE n == Len(placement)
            recovered == [placement EXCEPT ![i].tag = 0, ![i].start = r.fm]
            free == [tag |-> 0, start |-> Set!Used(placement, i - 1), size |-> placement[i].size]
<1>1. r \in Set!Request
  BY EvictionFits
<1>2. /\ r.fm = Set!Used(placement, i - 1) /\ r.block = placement[i].tag
      /\ r.size = placement[i].size /\ ~r.promotion
  BY DEF EvictionOf
<1>3. /\ n \in Nat /\ \A k \in 0 .. n : Set!Used(placement, k) \in Nat
      /\ \A j, k \in 0 .. n : j <= k => Set!Used(placement, j) <= Set!Used(placement, k)
      /\ \A k \in 1 .. n : /\ placement[k].size \in Nat /\ placement[k].size >= 1
                           /\ Set!Used(placement, k) = Set!Used(placement, k - 1) + placement[k].size
  BY UsedIs
<1>4. Set!Occupied(r) \in SUBSET Nat /\ i \in Set!Occupied(r)
      /\ \A j \in Set!Occupied(r) : i <= j
  <2>1. i \in 1 .. n /\ i \in 0 .. n /\ i - 1 \in 0 .. n
    BY <1>3
  <2>2. r.fm < Set!Used(placement, i)
    BY <1>2, <1>3, <2>1
  <2>3. ASSUME NEW j \in Set!Occupied(r) PROVE j \in 1 .. n /\ i <= j
    <3>1. j \in 1 .. n /\ r.fm < Set!Used(placement, j)
      BY DEF Set!Occupied, Set!Cursor
    <3>2. j \in 0 .. n
      BY <3>1
    <3>3. j <= i - 1 => Set!Used(placement, j) <= Set!Used(placement, i - 1)
      BY <1>3, <2>1, <3>2
    <3>4. Set!Used(placement, j) \in Nat /\ Set!Used(placement, i - 1) \in Nat
      BY <1>3, <2>1, <3>2
    <3>. QED BY <1>2, <2>1, <3>1, <3>3, <3>4
  <2>4. i \in Set!Occupied(r)
    BY <1>2, <2>1, <2>2 DEF Set!Occupied, Set!Cursor
  <2>. QED BY <2>3, <2>4
<1>. DEFINE first == CHOOSE k \in Set!Occupied(r) : \A j \in Set!Occupied(r) : k <= j
<1>5. first = i
  <2>1. first \in Set!Occupied(r) /\ \A j \in Set!Occupied(r) : first <= j
    BY <1>4, LeastFound
  <2>. HIDE DEF first
  <2>. QED BY <1>4, <2>1
<1>6. /\ failed' = FALSE
      /\ placement' = recovered \/ placement' = Set!Trimmed(recovered)
  <2>1. ~(Set!Occupied(r) = {} \/ placement[first].size # r.size)
    BY <1>2, <1>4, <1>5
  <2>2. failed' = (Set!Occupied(r) = {} \/ placement[first].size # r.size)
    BY Zenon DEF Set!FinishEviction
  <2>3. \/ placement' = [placement EXCEPT ![first].tag = 0, ![first].start = r.fm]
        \/ placement' = Set!Trimmed([placement EXCEPT ![first].tag = 0, ![first].start = r.fm])
    <3>1. placement' = IF Set!Occupied(r) = {} \/ placement[first].size # r.size THEN placement
                       ELSE IF first = Set!Cursor
                       THEN Set!Trimmed([placement EXCEPT ![first].tag = 0, ![first].start = r.fm])
                       ELSE [placement EXCEPT ![first].tag = 0, ![first].start = r.fm]
      BY DEF Set!FinishEviction
    <3>. HIDE DEF first
    <3>. QED BY <2>1, <3>1
  <2>. HIDE DEF first
  <2>4. failed' = FALSE
    BY <2>1, <2>2, Zenon
  <2>. QED BY <1>5, <2>3, <2>4
<1>7. Replaced(placement, i, free, recovered)
  <2>1. r.fm \in Set!Line /\ 0 \in Set!Block
    BY <1>1, RequestSizes
  <2>. QED BY <1>2, <2>1, RecoveredIs
<1>. DEFINE back == recovered
<1>8. /\ back \in Seq(Set!Group) /\ Len(back) = n /\ back[i] = free
      /\ \A j \in 1 .. n : j # i => back[j] = placement[j]
  BY <1>7 DEF Replaced
<1>9. \A k \in 0 .. n : Set!Used(back, k) = Set!Used(placement, k)
  BY <1>7, ReplacedUsed
<1>. HIDE DEF recovered, free, first
<1>10. CASE placement' = back
  <2>1. n \in 0 .. n
    BY <1>3
  <2>2. \A j \in 1 .. n : j <= n
    BY <1>3
  <2>. QED BY <1>6, <1>8, <1>9, <1>10, <2>1, <2>2 DEF Evicted, free
<1>11. CASE placement' = Set!Trimmed(back)
  <2>. DEFINE next == Set!Trimmed(back)
  <2>1. /\ next \in Seq(Set!Group) /\ Len(next) \in 0 .. n
        /\ \A j \in 1 .. Len(next) : next[j] = back[j]
        /\ \A k \in 0 .. Len(next) : Set!Used(next, k) = Set!Used(back, k)
        /\ \A j \in 1 .. n : back[j].tag # 0 => j <= Len(next)
    BY <1>8, TrimmedIs
  <2>. HIDE DEF next
  <2>2. \A j \in 1 .. Len(next) : next[j] = IF j = i THEN free ELSE placement[j]
    <3>1. \A j \in 1 .. Len(next) : j \in 1 .. n
      BY <1>3, <2>1
    <3>. QED BY <1>8, <2>1, <3>1
  <2>3. \A k \in 0 .. Len(next) : Set!Used(next, k) = Set!Used(placement, k)
    <3>1. \A k \in 0 .. Len(next) : k \in 0 .. n
      BY <1>3, <2>1
    <3>. QED BY <1>9, <2>1, <3>1
  <2>4. \A j \in 1 .. n : j # i /\ placement[j].tag # 0 => j <= Len(next)
    BY <1>8, <2>1
  <2>. QED BY <1>6, <1>11, <2>1, <2>2, <2>3, <2>4 DEF Evicted, free, next
<1>. QED BY <1>6, <1>10, <1>11

LEMMA QueueSet ==
    ASSUME SetInv, remapping_request_queue # <<>>
    PROVE  LET q == remapping_request_queue
               r == Head(q)
           IN  /\ q \in Seq(Set!Request) /\ Len(q) \in Nat /\ Len(q) >= 1 /\ r = q[1]
               /\ r \in Set!Request /\ RequestFits(r, placement) /\ (r.promotion => Len(q) = 1)
               /\ Tail(q) \in Seq(Set!Request) /\ Len(Tail(q)) = Len(q) - 1
               /\ \A n \in 1 .. Len(q) - 1 : Tail(q)[n] = q[n + 1]
               /\ r.fm + r.size <= Lines /\ r.sm + r.size <= Lines
<1>. DEFINE q == remapping_request_queue
            r == Head(q)
<1>1. /\ q \in Seq(Set!Request) /\ \A n \in 1 .. Len(q) : RequestFits(q[n], placement)
      /\ \A n \in 1 .. Len(q) : q[n].promotion => Len(q) = 1
      /\ placement \in Seq(Set!Group) /\ GroupsFit(placement)
  BY DEF SetInv, QueueOf, Set!TypeOK
<1>2. Len(q) \in Nat /\ Len(q) # 0
  BY <1>1, LenProperties, EmptySeq
<1>3. r = q[1] /\ 1 \in 1 .. Len(q)
  BY <1>1, <1>2
<1>4. /\ r \in Set!Request /\ Tail(q) \in Seq(Set!Request) /\ Len(Tail(q)) = Len(q) - 1
      /\ \A n \in 1 .. Len(Tail(q)) : Tail(q)[n] = q[n + 1]
  BY <1>1, HeadTailProperties
<1>. HIDE DEF r, q
<1>5. RequestFits(r, placement)
  BY <1>1, <1>3
<1>6. r.fm + r.size <= Lines /\ r.sm + r.size <= Lines
  <2>1. CASE r.promotion
    BY <1>5, <2>1 DEF RequestFits, PromotionFits
  <2>2. CASE ~r.promotion
    <3>1. PICK i \in 1 .. Len(placement) : r = EvictionOf(placement, i)
      BY <1>5, <2>2 DEF RequestFits
    <3>2. r.fm = Set!Used(placement, i - 1) /\ r.sm = placement[i].start /\ r.size = placement[i].size
      BY <3>1 DEF EvictionOf
    <3>3. Set!Used(placement, i) = Set!Used(placement, i - 1) + placement[i].size
      BY <1>1, UsedIs
    <3>4. /\ i \in 0 .. Len(placement) /\ Len(placement) \in 0 .. Len(placement)
          /\ i <= Len(placement)
      BY <1>1, UsedIs
    <3>5. Set!Used(placement, i) <= Set!Used(placement, Len(placement))
          /\ Set!Used(placement, i) \in Nat /\ Set!Used(placement, Len(placement)) \in Nat
      BY <1>1, <3>4, UsedIs
    <3>6. Set!Used(placement, Len(placement)) <= Lines
          /\ placement[i].start + placement[i].size <= Lines
      BY <1>1 DEF GroupsFit
    <3>. QED BY <3>2, <3>3, <3>5, <3>6, SetSizes
  <2>. QED BY <2>1, <2>2
<1>. QED BY <1>1, <1>2, <1>3, <1>4, <1>5, <1>6 DEF q, r

\* The evictions that wait behind one of the i-th group are of groups that stay.
LEMMA EvictionsStay ==
    ASSUME NEW groups \in Seq(Set!Group), NEW q, QueueOf(q, groups), NEW i \in 1 .. Len(groups),
           NEW next, Evicted(groups, i, next), Len(q) >= 1, q[1] = EvictionOf(groups, i),
           NEW rest \in Seq(Set!Request), Len(rest) = Len(q) - 1,
           \A n \in 1 .. Len(q) - 1 : rest[n] = q[n + 1]
    PROVE  QueueOf(rest, next)
<1>1. /\ q \in Seq(Set!Request) /\ Len(q) <= REMAPPING_REQUEST_QUEUE_LENGTH
      /\ \A n \in 1 .. Len(q) : RequestFits(q[n], groups) /\ (q[n].promotion => Len(q) = 1)
      /\ \A n, m \in 1 .. Len(q) : q[n].fm = q[m].fm => n = m
  BY DEF QueueOf
<1>2. Len(q) \in Nat /\ \A n \in 1 .. Len(q) : q[n] \in Set!Request
  BY <1>1, LenProperties, ElementOfSeq
<1>3. Len(rest) <= REMAPPING_REQUEST_QUEUE_LENGTH
  BY <1>1, <1>2, SetSizes
<1>. DEFINE left == Len(rest)
<1>6. ASSUME NEW n \in 1 .. left
      PROVE  /\ n + 1 \in 1 .. Len(q) /\ 1 \in 1 .. Len(q) /\ n + 1 # 1 /\ Len(q) # 1
             /\ n \in 1 .. Len(q) - 1
  <2>1. left = Len(q) - 1
    OBVIOUS
  <2>. HIDE DEF left
  <2>. QED BY <1>2, <2>1
<1>7. \A n \in 1 .. left : rest[n] = q[n + 1]
  BY <1>6
<1>4. ASSUME NEW n \in 1 .. Len(rest)
      PROVE  RequestFits(rest[n], next) /\ ~rest[n].promotion
  <2>1. n + 1 \in 1 .. Len(q) /\ 1 \in 1 .. Len(q) /\ n + 1 # 1 /\ rest[n] = q[n + 1]
        /\ Len(q) # 1
    BY <1>6, <1>7
  <2>2. ~rest[n].promotion
    BY <1>1, <2>1
  <2>3. PICK j \in 1 .. Len(groups) : rest[n] = EvictionOf(groups, j)
    BY <1>1, <2>1, <2>2 DEF RequestFits
  <2>4. rest[n].fm = Set!Used(groups, j - 1) /\ rest[n].block = groups[j].tag
    BY <2>3 DEF EvictionOf
  <2>5. q[1].fm = Set!Used(groups, i - 1)
    BY DEF EvictionOf
  <2>6. j # i
    BY <1>1, <2>1, <2>4, <2>5
  <2>7. groups[j].tag # 0
    <3>1. rest[n] \in Set!Request
      BY <1>2, <2>1
    <3>. QED BY <2>4, <3>1, RequestSizes
  <2>8. j <= Len(next) /\ Len(next) \in 0 .. Len(groups)
    BY <2>6, <2>7 DEF Evicted
  <2>9. j \in 1 .. Len(next) /\ j - 1 \in 0 .. Len(next)
    <3>1. Len(groups) \in Nat
      BY UsedIs
    <3>. QED BY <2>8, <3>1
  <2>10. next[j] = groups[j] /\ Set!Used(next, j - 1) = Set!Used(groups, j - 1)
    BY <2>6, <2>9 DEF Evicted
  <2>11. rest[n] = EvictionOf(next, j)
    BY <2>3, <2>10 DEF EvictionOf
  <2>. QED BY <2>2, <2>9, <2>11 DEF RequestFits
<1>5. ASSUME NEW n \in 1 .. Len(rest), NEW m \in 1 .. Len(rest), rest[n].fm = rest[m].fm
      PROVE  n = m
  <2>1. n + 1 \in 1 .. Len(q) /\ m + 1 \in 1 .. Len(q) /\ rest[n] = q[n + 1] /\ rest[m] = q[m + 1]
    BY <1>6, <1>7
  <2>2. n + 1 = m + 1
    BY <1>1, <1>5, <2>1
  <2>. QED BY <1>2, <2>2
<1>. QED BY <1>3, <1>4, <1>5 DEF QueueOf

LEMMA FinishKeepsSet == ASSUME SetInv, Set!FinishRemapping PROVE SetInv'
<1>. DEFINE q == remapping_request_queue
            r == Head(q)
<1>1. /\ q # <<>>
      /\ Set!FinishPromotion(r) \/ Set!FinishEviction(r)
      /\ memory' = IF misplaced' THEN [h \in Set!BlockLine |-> Set!Other] ELSE Set!Exchanged(r)
      /\ q' = Tail(q) /\ UNCHANGED <<counter, hot, access>>
  BY DEF Set!FinishRemapping
<1>2. /\ placement \in Seq(Set!Group) /\ counter \in [Set!SlowBlock -> 0 .. COUNTER_MAX_VALUE]
      /\ hot \subseteq Set!SlowBlock /\ access \in [Set!SlowBlock -> SUBSET Set!Line]
      /\ memory \in [Set!BlockLine -> Set!BlockLine \cup {Set!Other}] /\ misplaced \in BOOLEAN
      /\ GroupsFit(placement) /\ QueueOf(q, placement)
  BY DEF SetInv, Set!TypeOK
<1>3. /\ q \in Seq(Set!Request) /\ Len(q) \in Nat /\ Len(q) >= 1 /\ r = q[1]
      /\ r \in Set!Request /\ RequestFits(r, placement) /\ (r.promotion => Len(q) = 1)
      /\ Tail(q) \in Seq(Set!Request) /\ Len(Tail(q)) = Len(q) - 1
      /\ \A n \in 1 .. Len(q) - 1 : Tail(q)[n] = q[n + 1]
      /\ r.fm + r.size <= Lines /\ r.sm + r.size <= Lines
  BY <1>1, QueueSet
<1>4. /\ counter' \in [Set!SlowBlock -> 0 .. COUNTER_MAX_VALUE]
      /\ hot' \subseteq Set!SlowBlock /\ access' \in [Set!SlowBlock -> SUBSET Set!Line]
  BY <1>1, <1>2
<1>5. memory' \in [Set!BlockLine -> Set!BlockLine \cup {Set!Other}]
  <2>1. Set!Exchanged(r) \in [Set!BlockLine -> Set!BlockLine \cup {Set!Other}]
    BY <1>2, <1>3, ExchangedTypes
  <2>. QED BY <1>1, <2>1
<1>. HIDE DEF q, r
<1>6. /\ placement' \in Seq(Set!Group) /\ GroupsFit(placement') /\ failed' = FALSE
      /\ QueueOf(q', placement') /\ misplaced' \in BOOLEAN
  <2>1. CASE Set!FinishPromotion(r)
    <3>1. r.promotion
      BY <2>1, Zenon DEF Set!FinishPromotion
    <3>2. PromotionFits(r, placement)
      BY <1>3, <3>1 DEF RequestFits
    <3>3. placement' \in Seq(Set!Group) /\ GroupsFit(placement') /\ failed' = FALSE
      BY <1>2, <1>3, <2>1, <3>1, <3>2, PromotedIs
    <3>4. QueueOf(q', placement')
      <4>1. q' \in Seq(Set!Request) /\ Len(q') = 0
        BY <1>1, <1>3, <3>1
      <4>. QED BY <4>1, SetSizes DEF QueueOf
    <3>5. misplaced' \in BOOLEAN
      BY <2>1, Zenon DEF Set!FinishPromotion
    <3>. QED BY <3>3, <3>4, <3>5
  <2>2. CASE Set!FinishEviction(r)
    <3>1. ~r.promotion
      BY <2>2, Zenon DEF Set!FinishEviction
    <3>2. PICK i \in 1 .. Len(placement) : r = EvictionOf(placement, i)
      BY <1>3, <3>1 DEF RequestFits
    <3>3. placement[i].tag # 0
      <4>1. r.block = placement[i].tag
        BY <3>2 DEF EvictionOf
      <4>. QED BY <1>3, <4>1, RequestSizes
    <3>4. Evicted(placement, i, placement') /\ failed' = FALSE
      BY <1>2, <2>2, <3>2, <3>3, EvictedIs
    <3>. DEFINE next == placement'
    <3>5. next \in Seq(Set!Group)
      BY <3>4 DEF Evicted
    <3>6. GroupsFit(next)
      BY <1>2, <3>4, EvictedFits
    <3>7. QueueOf(q', next)
      <4>. DEFINE rest == q'
      <4>1. rest \in Seq(Set!Request) /\ Len(rest) = Len(q) - 1
            /\ \A n \in 1 .. Len(q) - 1 : rest[n] = q[n + 1]
        BY <1>1, <1>3
      <4>2. Evicted(placement, i, next) /\ q[1] = EvictionOf(placement, i)
        BY <1>3, <3>2, <3>4
      <4>. HIDE DEF rest, next
      <4>3. QueueOf(rest, next)
        BY <1>2, <1>3, <4>1, <4>2, EvictionsStay
      <4>. QED BY <4>3 DEF rest
    <3>8. misplaced' \in BOOLEAN
      <4>1. misplaced' = misplaced
        BY <2>2, Zenon DEF Set!FinishEviction
      <4>. QED BY <1>2, <4>1
    <3>. QED BY <3>4, <3>5, <3>6, <3>7, <3>8
  <2>. QED BY <1>1, <2>1, <2>2
<1>7. GroupsFit(placement)' /\ QueueOf(remapping_request_queue, placement)'
  BY <1>6 DEF q
<1>. QED BY <1>4, <1>5, <1>6, <1>7, Zenon DEF SetInv, Set!TypeOK, QueueOf

LEMMA SetKept == ASSUME SetInv, Set!Next PROVE SetInv'
<1>1. \A p \in Touched : p[1] \in Set!SlowBlock /\ p[2] \in Set!Line
  BY SetSizes
<1>2. CASE \E p \in Touched, busy \in BOOLEAN : Set!TrackSlowBlock(p[1], p[2], busy)
  BY <1>1, <1>2, TrackSlowKeepsSet
<1>3. CASE \E l \in Set!Line : Set!TrackFastBlock(l)
  BY <1>3, TrackFastKeepsSet
<1>4. CASE Set!DetectColdData
  BY <1>4, DetectKeepsSet
<1>5. CASE Set!FinishRemapping
  BY <1>5, FinishKeepsSet
<1>. QED BY <1>2, <1>3, <1>4, <1>5 DEF Set!Next

LEMMA SetKeeps ==
    (part = "granularity" => SetInv) /\ [SumNext]_allVars => (part = "granularity" => SetInv)'
<1>. SUFFICES ASSUME part = "granularity" => SetInv, [SumNext]_allVars, part' = "granularity"
              PROVE  SetInv'
  OBVIOUS
<1>1. part' = part
  BY DEF SumNext, allVars
<1>2. SetInv
  BY <1>1
<1>3. CASE Set!Next
  BY <1>2, <1>3, SetKept
<1>4. CASE UNCHANGED allVars
  BY <1>2, <1>4 DEF allVars, managementVars, setVars, SetInv, Set!TypeOK, GroupsFit, QueueOf
<1>. QED BY <1>1, <1>3, <1>4 DEF SumNext

\* The groups of the placement entry fit fast memory and the slow blocks they are of, and the
\* queued requests fit them (memory_activity_tracking(), finish_remapping_request()).
THEOREM SetInvariant == SumSpec => [](part = "granularity" => SetInv)
<1>1. SumInit => (part = "granularity" => SetInv)
  BY SetStart DEF SumInit
<1>. QED BY <1>1, SetKeeps, PTL DEF SumSpec

\* Every queued request fits the groups as they are when its swap is over, and no sanity check
\* of source/variable_granularity.cc fails, though requests wait while others are finished.
THEOREM RequestsAlwaysFit == SumSpec => []RequestsFit
<1>1. (part = "granularity" => SetInv) => RequestsFit
  <2>. SUFFICES ASSUME part = "granularity", SetInv PROVE Set!RequestsFit
    BY DEF RequestsFit
  <2>. DEFINE q == remapping_request_queue
  <2>1. /\ ~failed /\ placement \in Seq(Set!Group) /\ GroupsFit(placement)
        /\ q \in Seq(Set!Request)
        /\ \A n \in 1 .. Len(q) : RequestFits(q[n], placement) /\ (q[n].promotion => Len(q) = 1)
    BY DEF SetInv, QueueOf, Set!TypeOK
  <2>2. ASSUME NEW n \in 1 .. Len(q), q[n].promotion
        PROVE  /\ Len(q) = 1 /\ q[n].fm = Set!Used(placement, Set!Cursor)
               /\ q[n].size <= Set!FreeSpace(placement)
    <3>1. PromotionFits(q[n], placement)
      BY <2>1, <2>2 DEF RequestFits
    <3>2. q[n] \in Set!Request
      BY <2>1, ElementOfSeq
    <3>3. Len(placement) \in 0 .. Len(placement) /\ Set!Used(placement, Len(placement)) \in Nat
      BY <2>1, UsedIs
    <3>4. q[n].size \in Nat
      BY <3>2, RequestSizes
    <3>. QED BY <2>1, <2>2, <3>1, <3>3, <3>4, SetSizes DEF PromotionFits, Set!Cursor, Set!FreeSpace
  <2>3. ASSUME NEW n \in 1 .. Len(q), ~q[n].promotion
        PROVE  \E i \in 1 .. Set!Cursor : q[n] = Set!Eviction(i)
    BY <2>1, <2>3 DEF RequestFits, EvictionOf, Set!Eviction, Set!Cursor
  <2>. QED BY <2>1, <2>2, <2>3 DEF Set!RequestsFit
<1>. QED BY <1>1, SetInvariant, PTL
-----------------------------------------------------------------------------
(* Variable granularity: where the lines are *)

HeldBy(g, b, l) == g.tag = b /\ g.start <= l /\ l < g.start + g.size

\* The lines of a group and those of block 0 that they replace have changed places, and
\* every other line is at its own place.
Mapped(groups, mem) ==
    /\ \A i \in 1 .. Len(groups), x_ \in Nat : x_ < groups[i].size =>
          /\ mem[<<0, Set!Used(groups, i - 1) + x_>>] = <<groups[i].tag, groups[i].start + x_>>
          /\ mem[<<groups[i].tag, groups[i].start + x_>>] = <<0, Set!Used(groups, i - 1) + x_>>
    /\ \A l \in Set!Line : l >= Set!Used(groups, Len(groups)) => mem[<<0, l>>] = <<0, l>>
    /\ \A b \in Set!SlowBlock, l \in Set!Line :
          (\A i \in 1 .. Len(groups) : ~HeldBy(groups[i], b, l)) => mem[<<b, l>>] = <<b, l>>

\* The numbers of one group.
LEMMA GroupNumbers ==
    ASSUME NEW groups \in Seq(Set!Group), GroupsFit(groups), NEW i \in 1 .. Len(groups)
    PROVE  /\ groups[i].tag \in Set!Block /\ groups[i].start \in Nat /\ groups[i].size \in Nat
           /\ groups[i].size >= 1 /\ groups[i].start + groups[i].size <= Lines
           /\ Set!Used(groups, i - 1) \in Nat
           /\ Set!Used(groups, i) = Set!Used(groups, i - 1) + groups[i].size
           /\ Set!Used(groups, i) <= Set!Used(groups, Len(groups))
           /\ Set!Used(groups, Len(groups)) \in Nat /\ Set!Used(groups, Len(groups)) <= Lines
           /\ groups[i].tag = 0 => groups[i].start = Set!Used(groups, i - 1)
<1>1. groups[i] \in Set!Group
  BY UsedIs
<1>2. groups[i].tag \in Set!Block /\ groups[i].start \in Set!Line /\ groups[i].size \in 1 .. Lines
  BY <1>1 DEF Set!Group
<1>3. groups[i].start \in Nat /\ groups[i].size \in Nat /\ groups[i].size >= 1
  BY <1>2, LineSets
<1>4. /\ Len(groups) \in Nat /\ i - 1 \in 0 .. Len(groups) /\ i \in 0 .. Len(groups)
      /\ Len(groups) \in 0 .. Len(groups) /\ i <= Len(groups)
  BY UsedIs
<1>5. Set!Used(groups, i - 1) \in Nat /\ Set!Used(groups, Len(groups)) \in Nat
  BY <1>4, UsedIs
<1>6. /\ Set!Used(groups, i) = Set!Used(groups, i - 1) + groups[i].size
      /\ Set!Used(groups, i) <= Set!Used(groups, Len(groups))
  BY <1>4, UsedIs
<1>7. /\ Set!Used(groups, Len(groups)) <= Lines
      /\ groups[i].start + groups[i].size <= Lines
      /\ groups[i].tag = 0 => groups[i].start = Set!Used(groups, i - 1)
  BY DEF GroupsFit
<1>. QED BY <1>2, <1>3, <1>5, <1>6, <1>7

LEMMA GroupLines ==
    ASSUME NEW groups \in Seq(Set!Group), GroupsFit(groups), NEW i \in 1 .. Len(groups),
           NEW k \in Nat, k < groups[i].size
    PROVE  Set!Used(groups, i - 1) + k \in Set!Line /\ groups[i].start + k \in Set!Line
<1>1. /\ groups[i].start \in Nat /\ groups[i].size \in Nat
      /\ groups[i].start + groups[i].size <= Lines /\ Set!Used(groups, i - 1) \in Nat
      /\ Set!Used(groups, i) = Set!Used(groups, i - 1) + groups[i].size
      /\ Set!Used(groups, i) <= Set!Used(groups, Len(groups))
      /\ Set!Used(groups, Len(groups)) \in Nat /\ Set!Used(groups, Len(groups)) <= Lines
  BY GroupNumbers
<1>2. Set!Used(groups, i - 1) + k < Lines /\ groups[i].start + k < Lines
  BY <1>1, SetSizes
<1>3. /\ Set!Used(groups, i - 1) + k \in Int /\ 0 <= Set!Used(groups, i - 1) + k
      /\ groups[i].start + k \in Int /\ 0 <= groups[i].start + k
  BY <1>1
<1>. QED BY <1>2, <1>3, LineSets

\* A line below the end of the groups is a line of one of them.
LEMMA GroupOfLine ==
    ASSUME NEW groups \in Seq(Set!Group), NEW l \in Nat, l < Set!Used(groups, Len(groups))
    PROVE  \E i \in 1 .. Len(groups) : Set!Used(groups, i - 1) <= l /\ l < Set!Used(groups, i)
<1>. DEFINE n == Len(groups)
            above == {k \in 0 .. n : l < Set!Used(groups, k)}
<1>1. n \in Nat /\ Set!Used(groups, 0) = 0 /\ \A k \in 0 .. n : Set!Used(groups, k) \in Nat
  BY UsedIs
<1>2. n \in above /\ above \in SUBSET Nat
  BY <1>1
<1>3. PICK m \in above : \A k \in above : m <= k
  <2>. HIDE DEF above
  <2>. QED BY <1>2, LeastFound
<1>4. m \in 0 .. n /\ l < Set!Used(groups, m)
  OBVIOUS
<1>5. m # 0
  BY <1>1, <1>4
<1>6. m \in 1 .. n /\ m - 1 \in 0 .. n /\ m - 1 \notin above
  BY <1>1, <1>3, <1>4, <1>5
<1>7. ~(l < Set!Used(groups, m - 1)) /\ Set!Used(groups, m - 1) \in Nat
  BY <1>1, <1>6
<1>. QED BY <1>4, <1>6, <1>7

\* What an exchange does to each line.
LEMMA ExchangedIs ==
    ASSUME NEW r \in Set!Request, r.fm + r.size <= Lines, r.sm + r.size <= Lines
    PROVE  /\ \A k \in Nat : k < r.size =>
                 /\ Set!Exchanged(r)[<<0, r.fm + k>>] = memory[<<r.block, r.sm + k>>]
                 /\ Set!Exchanged(r)[<<r.block, r.sm + k>>] = memory[<<0, r.fm + k>>]
           /\ \A b \in Set!Block, l \in Set!Line :
                 /\ ~(b = 0 /\ r.fm <= l /\ l < r.fm + r.size)
                 /\ ~(b = r.block /\ r.sm <= l /\ l < r.sm + r.size)
                 => Set!Exchanged(r)[<<b, l>>] = memory[<<b, l>>]
<1>. DEFINE value(b, l) == IF b = 0 /\ l \in r.fm .. r.fm + r.size - 1
                           THEN memory[<<r.block, r.sm + l - r.fm>>]
                           ELSE IF b = r.block /\ l \in r.sm .. r.sm + r.size - 1
                           THEN memory[<<0, r.fm + l - r.sm>>]
                           ELSE memory[<<b, l>>]
<1>1. ASSUME NEW b \in Set!Block, NEW l \in Set!Line
      PROVE  Set!Exchanged(r)[<<b, l>>] = value(b, l)
  <2>1. <<b, l>> \in Set!BlockLine /\ <<b, l>>[1] = b /\ <<b, l>>[2] = l
    BY DEF Set!BlockLine
  <2>. QED BY <2>1 DEF Set!Exchanged
<1>2. ASSUME NEW k \in Nat, k < r.size
      PROVE  /\ Set!Exchanged(r)[<<0, r.fm + k>>] = memory[<<r.block, r.sm + k>>]
             /\ Set!Exchanged(r)[<<r.block, r.sm + k>>] = memory[<<0, r.fm + k>>]
  <2>1. r.fm + k \in Set!Line /\ r.sm + k \in Set!Line
    BY <1>2, RequestSizes, LineSets
  <2>2. r.fm + k \in r.fm .. r.fm + r.size - 1 /\ r.sm + k \in r.sm .. r.sm + r.size - 1
    BY <1>2, RequestSizes
  <2>3. r.sm + (r.fm + k) - r.fm = r.sm + k /\ r.fm + (r.sm + k) - r.sm = r.fm + k
    BY RequestSizes
  <2>4. value(0, r.fm + k) = memory[<<r.block, r.sm + k>>]
    BY <2>2, <2>3
  <2>5. value(r.block, r.sm + k) = memory[<<0, r.fm + k>>]
    BY <2>2, <2>3, RequestSizes
  <2>. HIDE DEF value
  <2>. QED BY <1>1, <2>1, <2>4, <2>5, RequestSizes
<1>3. ASSUME NEW b \in Set!Block, NEW l \in Set!Line,
             ~(b = 0 /\ r.fm <= l /\ l < r.fm + r.size),
             ~(b = r.block /\ r.sm <= l /\ l < r.sm + r.size)
      PROVE  Set!Exchanged(r)[<<b, l>>] = memory[<<b, l>>]
  <2>1. l \in Int /\ r.fm \in Int /\ r.sm \in Int /\ r.size \in Int
    BY RequestSizes, LineSets
  <2>2. /\ ~(b = 0 /\ l \in r.fm .. r.fm + r.size - 1)
        /\ ~(b = r.block /\ l \in r.sm .. r.sm + r.size - 1)
    BY <1>3, <2>1
  <2>3. value(b, l) = memory[<<b, l>>]
    BY <2>2
  <2>. QED BY <1>1, <2>3
<1>. QED BY <1>2, <1>3

LEMMA TranslationFinds ==
    ASSUME SetInv, Mapped(placement, memory), NEW b \in Set!Block, NEW l \in Set!Line
    PROVE  memory[Set!Translated(<<b, l>>)] = <<b, l>>
<1>. DEFINE n == Len(placement)
            p == <<b, l>>
            holders == {i \in 1 .. n : Set!Holds(placement[i], b, l)}
            covers  == {i \in Set!Covering(l) : placement[i].tag # 0}
            first == CHOOSE i \in holders : \A j \in holders : i <= j
            any == CHOOSE i \in covers : TRUE
<1>1. placement \in Seq(Set!Group) /\ GroupsFit(placement)
  BY DEF SetInv, Set!TypeOK
<1>2. l \in Nat
  BY LineSets
<1>3. Set!Translated(p) =
        IF b # 0 /\ holders # {}
        THEN <<0, Set!Used(placement, first - 1) + l - placement[first].start>>
        ELSE IF b = 0 /\ covers # {}
        THEN <<placement[any].tag, placement[any].start + l - Set!Used(placement, any - 1)>>
        ELSE p
  BY DEF Set!Translated, Set!Cursor
<1>4. ASSUME NEW i \in 1 .. n
      PROVE  Set!Holds(placement[i], b, l) <=> HeldBy(placement[i], b, l)
  <2>1. placement[i].start \in Nat /\ placement[i].size \in Nat
    BY <1>1, GroupNumbers
  <2>. QED BY <1>2, <2>1 DEF Set!Holds, HeldBy, Set!GroupEnd
<1>5. CASE b # 0 /\ holders # {}
  <2>1. holders \in SUBSET Nat
    OBVIOUS
  <2>2. first \in holders
    <3>. HIDE DEF holders
    <3>. QED BY <1>5, <2>1, LeastFound
  <2>3. Set!Translated(p) = <<0, Set!Used(placement, first - 1) + l - placement[first].start>>
    BY <1>3, <1>5
  <2>. HIDE DEF first
  <2>4. first \in 1 .. n /\ HeldBy(placement[first], b, l)
    BY <1>4, <2>2
  <2>5. /\ placement[first].start \in Nat /\ placement[first].size \in Nat
        /\ Set!Used(placement, first - 1) \in Nat
    BY <1>1, <2>4, GroupNumbers
  <2>. DEFINE k == l - placement[first].start
  <2>6. k \in Nat /\ k < placement[first].size /\ placement[first].tag = b
    BY <1>2, <2>4, <2>5 DEF HeldBy
  <2>7. /\ Set!Used(placement, first - 1) + l - placement[first].start
             = Set!Used(placement, first - 1) + k
        /\ placement[first].start + k = l
    BY <1>2, <2>5
  <2>. HIDE DEF k
  <2>8. memory[<<0, Set!Used(placement, first - 1) + k>>] = <<b, placement[first].start + k>>
    BY <2>4, <2>6 DEF Mapped
  <2>. QED BY <2>3, <2>7, <2>8
<1>6. CASE b # 0 /\ holders = {}
  <2>1. b \in Set!SlowBlock
    BY <1>6 DEF Set!SlowBlock
  <2>2. memory[<<b, l>>] = <<b, l>>
    BY <1>4, <1>6, <2>1 DEF Mapped
  <2>. QED BY <1>3, <1>6, <2>2
<1>7. CASE b = 0 /\ covers # {}
  <2>1. any \in covers
    BY <1>7
  <2>2. Set!Translated(p) = <<placement[any].tag, placement[any].start + l - Set!Used(placement, any - 1)>>
    BY <1>3, <1>7
  <2>. HIDE DEF any
  <2>3. /\ any \in 1 .. n /\ Set!Used(placement, any - 1) <= l /\ l < Set!Used(placement, any)
    BY <2>1 DEF Set!Covering, Set!Cursor
  <2>4. /\ placement[any].start \in Nat /\ placement[any].size \in Nat
        /\ Set!Used(placement, any - 1) \in Nat
        /\ Set!Used(placement, any) = Set!Used(placement, any - 1) + placement[any].size
    BY <1>1, <2>3, GroupNumbers
  <2>. DEFINE k == l - Set!Used(placement, any - 1)
  <2>5. k \in Nat /\ k < placement[any].size
    BY <1>2, <2>3, <2>4
  <2>6. /\ placement[any].start + l - Set!Used(placement, any - 1) = placement[any].start + k
        /\ Set!Used(placement, any - 1) + k = l
    BY <1>2, <2>4
  <2>. HIDE DEF k
  <2>7. memory[<<placement[any].tag, placement[any].start + k>>]
          = <<0, Set!Used(placement, any - 1) + k>>
    BY <2>3, <2>5 DEF Mapped
  <2>. QED BY <1>7, <2>2, <2>6, <2>7
<1>8. CASE b = 0 /\ covers = {}
  <2>1. memory[<<0, l>>] = <<0, l>>
    <3>1. CASE l >= Set!Used(placement, n)
      BY <3>1 DEF Mapped
    <3>2. CASE l < Set!Used(placement, n)
      <4>1. PICK i \in 1 .. n : Set!Used(placement, i - 1) <= l /\ l < Set!Used(placement, i)
        BY <1>1, <1>2, <3>2, GroupOfLine
      <4>2. placement[i].tag = 0
        BY <1>8, <4>1 DEF Set!Covering, Set!Cursor
      <4>3. /\ placement[i].start = Set!Used(placement, i - 1) /\ placement[i].size \in Nat
            /\ Set!Used(placement, i - 1) \in Nat
            /\ Set!Used(placement, i) = Set!Used(placement, i - 1) + placement[i].size
        BY <1>1, <4>2, GroupNumbers
      <4>. DEFINE k == l - Set!Used(placement, i - 1)
      <4>4. k \in Nat /\ k < placement[i].size /\ Set!Used(placement, i - 1) + k = l
        BY <1>2, <4>1, <4>3
      <4>. HIDE DEF k
      <4>5. memory[<<0, Set!Used(placement, i - 1) + k>>] = <<0, placement[i].start + k>>
        BY <4>2, <4>4 DEF Mapped
      <4>. QED BY <4>3, <4>4, <4>5
    <3>3. Set!Used(placement, n) \in Nat
      <4>1. Len(placement) \in 0 .. Len(placement)
        BY <1>1, UsedIs
      <4>. QED BY <1>1, <4>1, UsedIs
    <3>. QED BY <1>2, <3>1, <3>2, <3>3
  <2>. QED BY <1>3, <1>8, <2>1
<1>. QED BY <1>5, <1>6, <1>7, <1>8

\* The lines that a promotion moves, and those that it leaves.
Moved(r, mem) ==
    /\ \A k \in Nat : k < r.size =>
          /\ mem[<<0, r.fm + k>>] = <<r.block, r.sm + k>>
          /\ mem[<<r.block, r.sm + k>>] = <<0, r.fm + k>>
    /\ \A i \in 1 .. Len(placement), k \in Nat : k < placement[i].size =>
          /\ mem[<<0, Set!Used(placement, i - 1) + k>>] = <<placement[i].tag, placement[i].start + k>>
          /\ mem[<<placement[i].tag, placement[i].start + k>>] = <<0, Set!Used(placement, i - 1) + k>>
    /\ \A l \in Set!Line : l >= r.fm + r.size => mem[<<0, l>>] = <<0, l>>
    /\ \A b \in Set!SlowBlock, l \in Set!Line :
          /\ \A i \in 1 .. Len(placement) : ~HeldBy(placement[i], b, l)
          /\ ~(b = r.block /\ r.sm <= l /\ l < r.sm + r.size)
          => mem[<<b, l>>] = <<b, l>>

LEMMA PromotionMoves ==
    ASSUME placement \in Seq(Set!Group), GroupsFit(placement), Mapped(placement, memory),
           NEW r \in Set!Request, PromotionFits(r, placement), ~Set!Overlaps(r)
    PROVE  Moved(r, Set!Exchanged(r))
<1>. DEFINE n == Len(placement)
            mem == Set!Exchanged(r)
<1>1. /\ r.fm = Set!Used(placement, n) /\ r.fm + r.size <= Lines /\ r.sm + r.size <= Lines
  BY DEF PromotionFits
<1>2. /\ r.fm \in Nat /\ r.sm \in Nat /\ r.size \in Nat /\ r.block \in Set!SlowBlock
      /\ r.block \in Set!Block /\ r.block # 0 /\ 0 \in Set!Block
  BY RequestSizes
<1>3. /\ \A k \in Nat : k < r.size => /\ mem[<<0, r.fm + k>>] = memory[<<r.block, r.sm + k>>]
                                      /\ mem[<<r.block, r.sm + k>>] = memory[<<0, r.fm + k>>]
      /\ \A b \in Set!Block, l \in Set!Line :
            /\ ~(b = 0 /\ r.fm <= l /\ l < r.fm + r.size)
            /\ ~(b = r.block /\ r.sm <= l /\ l < r.sm + r.size)
            => mem[<<b, l>>] = memory[<<b, l>>]
  BY <1>1, ExchangedIs
<1>4. ASSUME NEW i \in 1 .. n, NEW l \in Set!Line, r.sm <= l, l < r.sm + r.size
      PROVE  ~HeldBy(placement[i], r.block, l)
  <2>1. l \in r.sm .. r.sm + r.size - 1
    BY <1>2, <1>4, LineSets
  <2>2. ~Set!Holds(placement[i], r.block, l)
    BY <2>1 DEF Set!Overlaps, Set!Cursor
  <2>3. placement[i].start \in Nat /\ placement[i].size \in Nat /\ l \in Nat
    BY GroupNumbers, LineSets
  <2>. QED BY <2>2, <2>3 DEF Set!Holds, Set!GroupEnd, HeldBy
<1>. HIDE DEF mem
<1>5. ASSUME NEW k \in Nat, k < r.size
      PROVE  /\ mem[<<0, r.fm + k>>] = <<r.block, r.sm + k>>
             /\ mem[<<r.block, r.sm + k>>] = <<0, r.fm + k>>
  <2>1. r.fm + k \in Set!Line /\ r.sm + k \in Set!Line
    <3>1. r.fm + r.size <= Lines /\ r.sm + r.size <= Lines /\ Lines \in Nat
      BY <1>1, SetSizes
    <3>2. /\ r.fm + k \in Int /\ 0 <= r.fm + k /\ r.fm + k < Lines
          /\ r.sm + k \in Int /\ 0 <= r.sm + k /\ r.sm + k < Lines
      <4>1. \A a, z, e, top \in Nat :
               e < z /\ a + z <= top => a + e \in Int /\ 0 <= a + e /\ a + e < top
        OBVIOUS
      <4>. QED BY <1>2, <1>5, <3>1, <4>1
    <3>. QED BY <3>2, LineSets
  <2>2. memory[<<0, r.fm + k>>] = <<0, r.fm + k>>
    BY <1>1, <1>2, <2>1 DEF Mapped
  <2>3. r.sm <= r.sm + k /\ r.sm + k < r.sm + r.size
    BY <1>2, <1>5
  <2>4. memory[<<r.block, r.sm + k>>] = <<r.block, r.sm + k>>
    BY <1>2, <1>4, <2>1, <2>3 DEF Mapped
  <2>. QED BY <1>3, <1>5, <2>2, <2>4
<1>6. ASSUME NEW i \in 1 .. n, NEW k \in Nat, k < placement[i].size
      PROVE  /\ mem[<<0, Set!Used(placement, i - 1) + k>>] = <<placement[i].tag, placement[i].start + k>>
             /\ mem[<<placement[i].tag, placement[i].start + k>>] = <<0, Set!Used(placement, i - 1) + k>>
  <2>. DEFINE f == Set!Used(placement, i - 1) + k
              s == placement[i].start + k
  <2>1. f \in Set!Line /\ s \in Set!Line
    BY <1>6, GroupLines
  <2>2. /\ placement[i].tag \in Set!Block /\ placement[i].start \in Nat /\ placement[i].size \in Nat
        /\ Set!Used(placement, i - 1) \in Nat
        /\ Set!Used(placement, i) = Set!Used(placement, i - 1) + placement[i].size
        /\ Set!Used(placement, i) <= Set!Used(placement, n)
        /\ placement[i].tag = 0 => placement[i].start = Set!Used(placement, i - 1)
    BY GroupNumbers
  <2>3. f < r.fm
    BY <1>1, <1>2, <1>6, <2>2
  <2>4. memory[<<0, f>>] = <<placement[i].tag, s>> /\ memory[<<placement[i].tag, s>>] = <<0, f>>
    BY <1>6 DEF Mapped
  <2>5. placement[i].tag = 0 => s = f
    BY <2>2
  <2>6. HeldBy(placement[i], placement[i].tag, s)
    BY <1>6, <2>2 DEF HeldBy
  <2>. HIDE DEF f, s
  <2>7. f \in Nat /\ s \in Nat
    BY <2>1, LineSets
  <2>8. mem[<<0, f>>] = memory[<<0, f>>]
    BY <1>2, <1>3, <2>1, <2>3, <2>7
  <2>9. ~(placement[i].tag = 0 /\ r.fm <= s /\ s < r.fm + r.size)
    BY <1>2, <2>3, <2>5, <2>7
  <2>10. ~(placement[i].tag = r.block /\ r.sm <= s /\ s < r.sm + r.size)
    BY <1>4, <2>1, <2>6
  <2>11. mem[<<placement[i].tag, s>>] = memory[<<placement[i].tag, s>>]
    BY <1>3, <2>1, <2>2, <2>9, <2>10
  <2>. QED BY <2>4, <2>8, <2>11 DEF f, s
<1>7. ASSUME NEW l \in Set!Line, l >= r.fm + r.size PROVE mem[<<0, l>>] = <<0, l>>
  <2>1. l \in Nat /\ l >= Set!Used(placement, n)
    BY <1>1, <1>2, <1>7, LineSets
  <2>2. memory[<<0, l>>] = <<0, l>>
    BY <2>1 DEF Mapped
  <2>3. mem[<<0, l>>] = memory[<<0, l>>]
    BY <1>2, <1>3, <1>7, <2>1
  <2>. QED BY <2>2, <2>3
<1>8. ASSUME NEW b \in Set!SlowBlock, NEW l \in Set!Line,
             \A i \in 1 .. n : ~HeldBy(placement[i], b, l),
             ~(b = r.block /\ r.sm <= l /\ l < r.sm + r.size)
      PROVE  mem[<<b, l>>] = <<b, l>>
  <2>1. memory[<<b, l>>] = <<b, l>>
    BY <1>8 DEF Mapped
  <2>2. b \in Set!Block /\ b # 0
    BY DEF Set!SlowBlock
  <2>. QED BY <1>3, <1>8, <2>1, <2>2
<1>. QED BY <1>5, <1>6, <1>7, <1>8 DEF Moved, mem

LEMMA AppendKeepsMap ==
    ASSUME placement \in Seq(Set!Group), GroupsFit(placement), NEW r \in Set!Request,
           PromotionFits(r, placement), NEW mem, Moved(r, mem), NEW g \in Set!Group,
           g.tag = r.block, g.start = r.sm, g.size = r.size
    PROVE  Mapped(Append(placement, g), mem)
<1>. DEFINE n == Len(placement)
            next == Append(placement, g)
<1>1. /\ next \in Seq(Set!Group) /\ Len(next) = n + 1 /\ next[n + 1] = g
      /\ \A j \in 1 .. n : next[j] = placement[j]
      /\ \A k \in 0 .. n : Set!Used(next, k) = Set!Used(placement, k)
      /\ Set!Used(next, n + 1) = Set!Used(placement, n) + g.size
  BY AppendedUsed
<1>. HIDE DEF next
<1>2. n \in Nat /\ r.fm = Set!Used(placement, n)
  BY UsedIs DEF PromotionFits
<1>3. ASSUME NEW i \in 1 .. n + 1, NEW k \in Nat, k < next[i].size
      PROVE  /\ mem[<<0, Set!Used(next, i - 1) + k>>] = <<next[i].tag, next[i].start + k>>
             /\ mem[<<next[i].tag, next[i].start + k>>] = <<0, Set!Used(next, i - 1) + k>>
  <2>1. CASE i = n + 1
    <3>1. Set!Used(next, i - 1) = r.fm
      <4>1. i - 1 = n /\ n \in 0 .. n
        BY <1>2, <2>1
      <4>. QED BY <1>1, <1>2, <4>1
    <3>2. next[i].tag = r.block /\ next[i].start = r.sm /\ k < r.size
      BY <1>1, <1>3, <2>1
    <3>. QED BY <3>1, <3>2 DEF Moved
  <2>2. CASE i # n + 1
    <3>1. i \in 1 .. n /\ i - 1 \in 0 .. n
      BY <1>2, <2>2
    <3>2. next[i] = placement[i] /\ Set!Used(next, i - 1) = Set!Used(placement, i - 1)
      BY <1>1, <3>1
    <3>. QED BY <1>3, <3>1, <3>2 DEF Moved
  <2>. QED BY <2>1, <2>2
<1>4. \A l \in Set!Line : l >= Set!Used(next, n + 1) => mem[<<0, l>>] = <<0, l>>
  BY <1>1, <1>2 DEF Moved
<1>5. ASSUME NEW b \in Set!SlowBlock, NEW l \in Set!Line,
             \A i \in 1 .. n + 1 : ~HeldBy(next[i], b, l)
      PROVE  mem[<<b, l>>] = <<b, l>>
  <2>1. \A i \in 1 .. n : i \in 1 .. n + 1 /\ next[i] = placement[i]
    BY <1>1, <1>2
  <2>2. \A i \in 1 .. n : ~HeldBy(placement[i], b, l)
    BY <1>5, <2>1
  <2>3. n + 1 \in 1 .. n + 1
    BY <1>2
  <2>4. ~HeldBy(g, b, l)
    BY <1>1, <1>5, <2>3
  <2>5. ~(b = r.block /\ r.sm <= l /\ l < r.sm + r.size)
    BY <2>4 DEF HeldBy
  <2>. QED BY <2>2, <2>5 DEF Moved
<1>6. Mapped(next, mem)
  BY <1>1, <1>3, <1>4, <1>5 DEF Mapped
<1>. QED BY <1>6 DEF next

LEMMA ExpandKeepsMap ==
    ASSUME placement \in Seq(Set!Group), GroupsFit(placement), NEW r \in Set!Request,
           PromotionFits(r, placement), ExpandsIn(placement, r), NEW mem, Moved(r, mem), NEW g, NEW next,
           r.sm = placement[Len(placement)].start + placement[Len(placement)].size,
           g.tag = r.block, g.start = placement[Len(placement)].start,
           g.size = placement[Len(placement)].size + r.size,
           Replaced(placement, Len(placement), g, next)
    PROVE  Mapped(next, mem)
<1>. DEFINE n == Len(placement)
            last == placement[n]
<1>1. n \in Nat /\ n \in 1 .. n /\ last.tag = r.block /\ r.fm = Set!Used(placement, n)
  BY UsedIs DEF ExpandsIn, PromotionFits
<1>2. /\ next \in Seq(Set!Group) /\ Len(next) = n /\ next[n] = g
      /\ \A j \in 1 .. n : j # n => next[j] = placement[j]
  BY DEF Replaced
<1>3. /\ \A k \in 0 .. n - 1 : Set!Used(next, k) = Set!Used(placement, k)
      /\ Set!Used(next, n) = Set!Used(placement, n - 1) + g.size
  BY <1>1, ReplacedUsed
<1>4. /\ last.start \in Nat /\ last.size \in Nat /\ Set!Used(placement, n - 1) \in Nat
      /\ Set!Used(placement, n) = Set!Used(placement, n - 1) + last.size
      /\ r.size \in Nat /\ r.fm \in Nat /\ r.sm \in Nat
  BY <1>1, GroupNumbers, RequestSizes
<1>5. Set!Used(next, n) = r.fm + r.size
  BY <1>1, <1>3, <1>4
<1>6. ASSUME NEW i \in 1 .. n, NEW k \in Nat, k < next[i].size
      PROVE  /\ mem[<<0, Set!Used(next, i - 1) + k>>] = <<next[i].tag, next[i].start + k>>
             /\ mem[<<next[i].tag, next[i].start + k>>] = <<0, Set!Used(next, i - 1) + k>>
  <2>1. i - 1 \in 0 .. n - 1 /\ Set!Used(next, i - 1) = Set!Used(placement, i - 1)
    BY <1>1, <1>3
  <2>2. CASE i = n /\ k < last.size
    <3>1. next[i].tag = last.tag /\ next[i].start = last.start
      BY <1>1, <1>2, <2>2
    <3>2. /\ mem[<<0, Set!Used(placement, n - 1) + k>>] = <<last.tag, last.start + k>>
          /\ mem[<<last.tag, last.start + k>>] = <<0, Set!Used(placement, n - 1) + k>>
      BY <1>1, <2>2 DEF Moved
    <3>3. Set!Used(next, i - 1) = Set!Used(placement, n - 1)
      BY <2>1, <2>2
    <3>. HIDE DEF last, n
    <3>. QED BY <3>1, <3>2, <3>3
  <2>3. CASE i = n /\ ~(k < last.size)
    <3>. DEFINE m == k - last.size
    <3>1. next[i].tag = r.block /\ next[i].start = last.start /\ next[i].size = last.size + r.size
      BY <1>2, <2>3
    <3>2. /\ m \in Nat /\ m < r.size /\ Set!Used(placement, n - 1) + k = r.fm + m
          /\ last.start + k = r.sm + m
      <4>1. k < last.size + r.size /\ r.sm = last.start + last.size
        BY <1>6, <3>1
      <4>2. \A a, z, u, e, q \in Nat :
               ~(e < z) /\ e < z + q => /\ e - z \in Nat /\ e - z < q
                                        /\ u + e = (u + z) + (e - z) /\ a + e = (a + z) + (e - z)
        OBVIOUS
      <4>. HIDE DEF last
      <4>3. r.fm = Set!Used(placement, n - 1) + last.size
        BY <1>1, <1>4
      <4>. DEFINE u == Set!Used(placement, n - 1)
                  a == last.start
                  z == last.size
                  q == r.size
      <4>4. a \in Nat /\ z \in Nat /\ u \in Nat /\ q \in Nat
        BY <1>4
      <4>5. ~(k < z) /\ k < z + q /\ r.fm = u + z /\ r.sm = a + z
        BY <2>3, <4>1, <4>3
      <4>. HIDE DEF u, a, z, q
      <4>6. k - z \in Nat /\ k - z < q /\ u + k = (u + z) + (k - z) /\ a + k = (a + z) + (k - z)
        BY <4>2, <4>4, <4>5
      <4>. QED BY <4>5, <4>6 DEF u, a, z, q
    <3>. HIDE DEF m
    <3>3. mem[<<0, r.fm + m>>] = <<r.block, r.sm + m>> /\ mem[<<r.block, r.sm + m>>] = <<0, r.fm + m>>
      BY <3>2 DEF Moved
    <3>. QED BY <2>1, <2>3, <3>1, <3>2, <3>3
  <2>4. CASE i # n
    <3>1. next[i] = placement[i]
      BY <1>2, <2>4
    <3>. QED BY <1>6, <2>1, <3>1 DEF Moved
  <2>. QED BY <2>2, <2>3, <2>4
<1>7. \A l \in Set!Line : l >= Set!Used(next, n) => mem[<<0, l>>] = <<0, l>>
  BY <1>5 DEF Moved
<1>8. ASSUME NEW b \in Set!SlowBlock, NEW l \in Set!Line, \A i \in 1 .. n : ~HeldBy(next[i], b, l)
      PROVE  mem[<<b, l>>] = <<b, l>>
  <2>0. l \in Nat
    BY LineSets
  <2>1. ~HeldBy(g, b, l)
    BY <1>1, <1>2, <1>8
  <2>2. ~HeldBy(last, b, l) /\ ~(b = r.block /\ r.sm <= l /\ l < r.sm + r.size)
    <3>1. /\ g.tag = r.block /\ g.start = last.start /\ g.size = last.size + r.size
          /\ r.sm = last.start + last.size
      OBVIOUS
    <3>2. ~(g.tag = b /\ g.start <= l /\ l < g.start + g.size)
      BY <2>1 DEF HeldBy
    <3>. HIDE DEF last, n
    <3>. DEFINE a == last.start
                z == last.size
                q == r.size
                s == r.sm
    <3>3. a \in Nat /\ z \in Nat /\ q \in Nat /\ s = a + z
      BY <1>4, <3>1
    <3>4. ~(r.block = b /\ a <= l /\ l < a + (z + q))
      BY <3>1, <3>2
    <3>. HIDE DEF a, z, q, s
    <3>5. ~(r.block = b /\ a <= l /\ l < a + z) /\ ~(b = r.block /\ s <= l /\ l < s + q)
      BY <2>0, <3>3, <3>4
    <3>. QED BY <1>1, <3>5 DEF HeldBy, a, z, q, s
  <2>3. \A i \in 1 .. n : ~HeldBy(placement[i], b, l)
    BY <1>2, <1>8, <2>2
  <2>. QED BY <2>2, <2>3 DEF Moved
<1>. QED BY <1>2, <1>6, <1>7, <1>8 DEF Mapped

\* Two groups share no lines: where one line went would have two answers.
LEMMA GroupsApart ==
    ASSUME placement \in Seq(Set!Group), GroupsFit(placement), Mapped(placement, memory),
           NEW i \in 1 .. Len(placement), NEW j \in 1 .. Len(placement), NEW l \in Nat,
           HeldBy(placement[i], placement[j].tag, l), HeldBy(placement[j], placement[j].tag, l)
    PROVE  i = j
<1>1. ASSUME NEW e \in 1 .. Len(placement), HeldBy(placement[e], placement[j].tag, l)
      PROVE  \E k \in Nat : /\ Set!Used(placement, e - 1) <= k /\ k < Set!Used(placement, e)
                            /\ memory[<<placement[j].tag, l>>] = <<0, k>>
  <2>1. /\ placement[e].start \in Nat /\ placement[e].size \in Nat
        /\ Set!Used(placement, e - 1) \in Nat
        /\ Set!Used(placement, e) = Set!Used(placement, e - 1) + placement[e].size
    BY GroupNumbers
  <2>2. /\ placement[e].tag = placement[j].tag /\ placement[e].start <= l
        /\ l < placement[e].start + placement[e].size
    BY <1>1 DEF HeldBy
  <2>. DEFINE a == l - placement[e].start
  <2>3. a \in Nat /\ a < placement[e].size /\ placement[e].start + a = l
    <3>1. \A s, z, w \in Nat : s <= w /\ w < s + z => w - s \in Nat /\ w - s < z /\ s + (w - s) = w
      OBVIOUS
    <3>2. placement[e].start \in Nat /\ placement[e].size \in Nat
      BY <2>1
    <3>. QED BY <2>2, <3>1, <3>2
  <2>. HIDE DEF a
  <2>4. memory[<<placement[e].tag, placement[e].start + a>>] = <<0, Set!Used(placement, e - 1) + a>>
    BY <2>3 DEF Mapped
  <2>. DEFINE k == Set!Used(placement, e - 1) + a
  <2>5. k \in Nat /\ Set!Used(placement, e - 1) <= k /\ k < Set!Used(placement, e)
    <3>1. \A u, z, w \in Nat : w < z => u + w \in Nat /\ u <= u + w /\ u + w < u + z
      OBVIOUS
    <3>. HIDE DEF k
    <3>2. k = Set!Used(placement, e - 1) + a
      BY DEF k
    <3>. DEFINE u == Set!Used(placement, e - 1)
                z == placement[e].size
    <3>3. u \in Nat /\ z \in Nat /\ a < z /\ k = u + a /\ Set!Used(placement, e) = u + z
      BY <2>1, <2>3, <3>2
    <3>. HIDE DEF u, z
    <3>4. k \in Nat /\ u <= k /\ k < u + z
      BY <2>3, <3>1, <3>3
    <3>. QED BY <3>3, <3>4 DEF u
  <2>6. memory[<<placement[j].tag, l>>] = <<0, k>>
    BY <2>2, <2>3, <2>4
  <2>. HIDE DEF k
  <2>. QED BY <2>5, <2>6
<1>2. PICK k \in Nat : /\ Set!Used(placement, i - 1) <= k /\ k < Set!Used(placement, i)
                       /\ memory[<<placement[j].tag, l>>] = <<0, k>>
  BY <1>1
<1>3. PICK m \in Nat : /\ Set!Used(placement, j - 1) <= m /\ m < Set!Used(placement, j)
                       /\ memory[<<placement[j].tag, l>>] = <<0, m>>
  BY <1>1
<1>4. k = m
  BY <1>2, <1>3
<1>5. /\ Set!Used(placement, i - 1) \in Nat /\ Set!Used(placement, j - 1) \in Nat
      /\ placement[i].size \in Nat /\ placement[j].size \in Nat
      /\ Set!Used(placement, i) = Set!Used(placement, i - 1) + placement[i].size
      /\ Set!Used(placement, j) = Set!Used(placement, j - 1) + placement[j].size
  <2>1. \A e \in 1 .. Len(placement) :
           /\ Set!Used(placement, e - 1) \in Nat /\ placement[e].size \in Nat
           /\ Set!Used(placement, e) = Set!Used(placement, e - 1) + placement[e].size
    BY GroupNumbers
  <2>. QED BY <2>1
<1>6. /\ Set!Used(placement, i - 1) < Set!Used(placement, j)
      /\ Set!Used(placement, j - 1) < Set!Used(placement, i)
  <2>1. Set!Used(placement, i) \in Nat /\ Set!Used(placement, j) \in Nat
    BY <1>5, SMTT(20)
  <2>2. \A a, z, w \in Nat : a <= w /\ w < z => a < z
    OBVIOUS
  <2>3. Set!Used(placement, i - 1) <= k /\ k < Set!Used(placement, j)
    BY <1>2, <1>3, <1>4
  <2>4. Set!Used(placement, j - 1) <= k /\ k < Set!Used(placement, i)
    BY <1>2, <1>3, <1>4
  <2>5. Set!Used(placement, i - 1) \in Nat /\ Set!Used(placement, j - 1) \in Nat
    BY <1>5
  <2>. QED BY <2>1, <2>2, <2>3, <2>4, <2>5
<1>. QED BY <1>6, PlacesDiffer

LEMMA EvictionKeepsMap ==
    ASSUME placement \in Seq(Set!Group), GroupsFit(placement), Mapped(placement, memory),
           NEW i \in 1 .. Len(placement), placement[i].tag # 0, NEW next,
           Evicted(placement, i, next)
    PROVE  Mapped(next, Set!Exchanged(EvictionOf(placement, i)))
<1>. DEFINE n == Len(placement)
            m == Len(next)
            r == EvictionOf(placement, i)
            mem == Set!Exchanged(r)
<1>1. /\ r \in Set!Request /\ r.fm = Set!Used(placement, i - 1) /\ r.block = placement[i].tag
      /\ r.sm = placement[i].start /\ r.size = placement[i].size
  BY EvictionFits DEF EvictionOf
<1>2. /\ r.fm \in Nat /\ r.sm \in Nat /\ r.size \in Nat /\ r.block \in Set!SlowBlock
      /\ r.block \in Set!Block /\ r.block # 0 /\ 0 \in Set!Block
  BY <1>1, RequestSizes
<1>3. /\ Set!Used(placement, i) = r.fm + r.size /\ r.fm + r.size <= Lines /\ r.sm + r.size <= Lines
      /\ r.fm + r.size <= Set!Used(placement, n)
  <2>1. /\ Set!Used(placement, i) = Set!Used(placement, i - 1) + placement[i].size
        /\ Set!Used(placement, i) <= Set!Used(placement, n)
        /\ Set!Used(placement, n) \in Nat /\ Set!Used(placement, n) <= Lines
        /\ placement[i].start + placement[i].size <= Lines
    BY GroupNumbers
  <2>. QED BY <1>1, <1>2, <2>1, SetSizes
<1>. HIDE DEF r
<1>4. /\ \A k \in Nat : k < r.size => /\ mem[<<0, r.fm + k>>] = memory[<<r.block, r.sm + k>>]
                                      /\ mem[<<r.block, r.sm + k>>] = memory[<<0, r.fm + k>>]
      /\ \A b \in Set!Block, l \in Set!Line :
            /\ ~(b = 0 /\ r.fm <= l /\ l < r.fm + r.size)
            /\ ~(b = r.block /\ r.sm <= l /\ l < r.sm + r.size)
            => mem[<<b, l>>] = memory[<<b, l>>]
  BY <1>1, <1>3, ExchangedIs
<1>5. ASSUME NEW k \in Nat, k < r.size
      PROVE  /\ mem[<<0, r.fm + k>>] = <<0, r.fm + k>>
             /\ mem[<<r.block, r.sm + k>>] = <<r.block, r.sm + k>>
  <2>1. /\ memory[<<0, r.fm + k>>] = <<r.block, r.sm + k>>
        /\ memory[<<r.block, r.sm + k>>] = <<0, r.fm + k>>
    BY <1>1, <1>5 DEF Mapped
  <2>. QED BY <1>4, <1>5, <2>1
<1>. HIDE DEF mem
<1>6. /\ n \in Nat /\ m \in 0 .. n /\ next \in Seq(Set!Group)
      /\ \A k \in 0 .. m : Set!Used(next, k) = Set!Used(placement, k)
      /\ \A j \in 1 .. m : j # i => next[j] = placement[j]
      /\ \A j \in 1 .. m : j = i => /\ next[j].tag = 0 /\ next[j].start = r.fm
                                    /\ next[j].size = r.size
      /\ \A j \in 1 .. n : j # i /\ placement[j].tag # 0 => j <= m
  BY <1>1, UsedIs DEF Evicted
<1>7. ASSUME NEW j \in 1 .. n, j # i, NEW k \in Nat, k < placement[j].size
      PROVE  /\ mem[<<0, Set!Used(placement, j - 1) + k>>] = <<placement[j].tag, placement[j].start + k>>
             /\ mem[<<placement[j].tag, placement[j].start + k>>] = <<0, Set!Used(placement, j - 1) + k>>
  <2>. DEFINE f == Set!Used(placement, j - 1) + k
              s == placement[j].start + k
  <2>1. f \in Set!Line /\ s \in Set!Line
    BY <1>7, GroupLines
  <2>2. /\ placement[j].tag \in Set!Block /\ placement[j].start \in Nat /\ placement[j].size \in Nat
        /\ Set!Used(placement, j - 1) \in Nat
        /\ Set!Used(placement, j) = Set!Used(placement, j - 1) + placement[j].size
        /\ placement[j].tag = 0 => placement[j].start = Set!Used(placement, j - 1)
    BY GroupNumbers
  <2>3. memory[<<0, f>>] = <<placement[j].tag, s>> /\ memory[<<placement[j].tag, s>>] = <<0, f>>
    BY <1>7 DEF Mapped
  <2>4. placement[j].tag = 0 => s = f
    BY <2>2
  <2>5. HeldBy(placement[j], placement[j].tag, s)
    BY <1>7, <2>2, SMTT(20) DEF HeldBy
  <2>6. ~(r.fm <= f /\ f < r.fm + r.size)
    <3>1. Set!Used(placement, j - 1) <= f /\ f < Set!Used(placement, j)
      BY <1>7, <2>2
    <3>. SUFFICES ASSUME r.fm <= f, f < r.fm + r.size PROVE FALSE
      OBVIOUS
    <3>. HIDE DEF f
    <3>2. f \in Nat
      BY <2>1, LineSets
    <3>3. /\ Set!Used(placement, i - 1) < Set!Used(placement, j)
          /\ Set!Used(placement, j - 1) < Set!Used(placement, i)
      <4>1. \A a, w, z \in Nat : a <= w /\ w < z => a < z
        OBVIOUS
      <4>2. Set!Used(placement, i - 1) <= f /\ f < Set!Used(placement, i)
        BY <1>1, <1>3
      <4>3. /\ Set!Used(placement, i - 1) \in Nat /\ Set!Used(placement, i) \in Nat
            /\ Set!Used(placement, j) \in Nat /\ Set!Used(placement, j - 1) \in Nat
        BY <1>1, <1>2, <1>3, <2>2, SMTT(20)
      <4>. QED BY <3>1, <3>2, <4>1, <4>2, <4>3, SMTT(20)
    <3>4. i = j
      BY <3>3, PlacesDiffer
    <3>. QED BY <1>7, <3>4
  <2>. HIDE DEF f, s
  <2>7. f \in Nat /\ s \in Nat
    BY <2>1, LineSets
  <2>8. ~(placement[j].tag = r.block /\ r.sm <= s /\ s < r.sm + r.size)
    <3>. SUFFICES ASSUME placement[j].tag = r.block, r.sm <= s, s < r.sm + r.size PROVE FALSE
      OBVIOUS
    <3>1. HeldBy(placement[i], placement[j].tag, s)
      BY <1>1 DEF HeldBy
    <3>2. i = j
      BY <2>5, <2>7, <3>1, GroupsApart
    <3>. QED BY <1>7, <3>2
  <2>9. mem[<<0, f>>] = memory[<<0, f>>]
    BY <1>2, <1>4, <2>1, <2>6
  <2>10. mem[<<placement[j].tag, s>>] = memory[<<placement[j].tag, s>>]
    BY <1>4, <2>1, <2>2, <2>4, <2>6, <2>8
  <2>. QED BY <2>3, <2>9, <2>10 DEF f, s
<1>8. ASSUME NEW j \in 1 .. m, NEW k \in Nat, k < next[j].size
      PROVE  /\ mem[<<0, Set!Used(next, j - 1) + k>>] = <<next[j].tag, next[j].start + k>>
             /\ mem[<<next[j].tag, next[j].start + k>>] = <<0, Set!Used(next, j - 1) + k>>
  <2>1. j - 1 \in 0 .. m /\ j \in 1 .. n /\ Set!Used(next, j - 1) = Set!Used(placement, j - 1)
    BY <1>6
  <2>2. CASE j = i
    <3>1. next[j].tag = 0 /\ next[j].start = r.fm /\ next[j].size = r.size
      BY <1>6, <2>2
    <3>2. k < r.size
      BY <1>8, <3>1
    <3>3. mem[<<0, r.fm + k>>] = <<0, r.fm + k>>
      BY <1>5, <3>2
    <3>4. Set!Used(next, j - 1) = r.fm
      BY <1>1, <2>1, <2>2
    <3>. QED BY <3>1, <3>3, <3>4
  <2>3. CASE j # i
    <3>1. next[j] = placement[j]
      BY <1>6, <2>3
    <3>. QED BY <1>7, <1>8, <2>1, <2>3, <3>1
  <2>. QED BY <2>2, <2>3
<1>9. ASSUME NEW l \in Set!Line, l >= Set!Used(next, m) PROVE mem[<<0, l>>] = <<0, l>>
  <2>1. l \in Nat /\ Set!Used(next, m) = Set!Used(placement, m) /\ Set!Used(placement, n) \in Nat
    <3>1. m \in 0 .. m /\ n \in 0 .. n
      BY <1>6
    <3>. QED BY <1>6, <3>1, UsedIs, LineSets
  <2>2. CASE l >= Set!Used(placement, n)
    <3>1. memory[<<0, l>>] = <<0, l>>
      BY <2>2 DEF Mapped
    <3>2. ~(l < r.fm + r.size)
      BY <1>2, <1>3, <2>1, <2>2
    <3>3. mem[<<0, l>>] = memory[<<0, l>>]
      BY <1>2, <1>4, <3>2
    <3>. QED BY <3>1, <3>3
  <2>3. CASE l < Set!Used(placement, n)
    <3>1. PICK j \in 1 .. n : Set!Used(placement, j - 1) <= l /\ l < Set!Used(placement, j)
      BY <2>1, <2>3, GroupOfLine
    <3>2. /\ placement[j].size \in Nat /\ Set!Used(placement, j - 1) \in Nat
          /\ Set!Used(placement, j) = Set!Used(placement, j - 1) + placement[j].size
          /\ placement[j].tag = 0 => placement[j].start = Set!Used(placement, j - 1)
      BY GroupNumbers
    <3>. DEFINE k == l - Set!Used(placement, j - 1)
    <3>3. k \in Nat /\ k < placement[j].size /\ Set!Used(placement, j - 1) + k = l
      BY <2>1, <3>1, <3>2
    <3>. HIDE DEF k
    <3>4. CASE j = i
      <4>1. k < r.size /\ r.fm + k = l
        BY <1>1, <3>3, <3>4
      <4>. QED BY <1>5, <3>3, <4>1
    <3>5. CASE j # i
      <4>1. placement[j].tag = 0
        <5>. SUFFICES ASSUME placement[j].tag # 0 PROVE FALSE
          OBVIOUS
        <5>1. j <= m
          BY <1>6, <3>5
        <5>2. /\ j \in 0 .. n /\ m \in 0 .. n
              /\ \A a, c \in 0 .. n : a <= c => Set!Used(placement, a) <= Set!Used(placement, c)
              /\ \A a \in 0 .. n : Set!Used(placement, a) \in Nat
          BY <1>6, UsedIs
        <5>3. Set!Used(placement, j) <= Set!Used(placement, m)
              /\ Set!Used(placement, j) \in Nat /\ Set!Used(placement, m) \in Nat
          BY <5>1, <5>2
        <5>. QED BY <1>9, <2>1, <3>1, <5>3
      <4>2. mem[<<0, l>>] = <<0, placement[j].start + k>>
        BY <1>7, <3>3, <3>5, <4>1
      <4>. QED BY <3>2, <3>3, <4>1, <4>2
    <3>. QED BY <3>4, <3>5
  <2>4. l >= Set!Used(placement, n) \/ l < Set!Used(placement, n)
    BY <2>1
  <2>. QED BY <2>2, <2>3, <2>4, Zenon
<1>10. ASSUME NEW b \in Set!SlowBlock, NEW l \in Set!Line, \A j \in 1 .. m : ~HeldBy(next[j], b, l)
       PROVE  mem[<<b, l>>] = <<b, l>>
  <2>1. l \in Nat /\ b \in Set!Block /\ b # 0
    BY LineSets DEF Set!SlowBlock
  <2>2. CASE HeldBy(placement[i], b, l)
    <3>. DEFINE k == l - r.sm
    <3>1. b = r.block /\ r.sm <= l /\ l < r.sm + r.size
      BY <1>1, <2>2 DEF HeldBy
    <3>2. k \in Nat /\ k < r.size /\ r.sm + k = l
      BY <1>2, <2>1, <3>1
    <3>. HIDE DEF k
    <3>. QED BY <1>5, <3>1, <3>2
  <2>3. CASE ~HeldBy(placement[i], b, l)
    <3>1. ASSUME NEW j \in 1 .. n, HeldBy(placement[j], b, l) PROVE FALSE
      <4>1. j # i /\ placement[j].tag = b
        BY <2>3, <3>1 DEF HeldBy
      <4>2. j <= m
        BY <1>6, <2>1, <4>1
      <4>3. j \in 1 .. m /\ next[j] = placement[j]
        BY <1>6, <4>1, <4>2
      <4>. QED BY <1>10, <3>1, <4>3
    <3>2. memory[<<b, l>>] = <<b, l>>
      BY <3>1 DEF Mapped
    <3>3. ~(b = r.block /\ r.sm <= l /\ l < r.sm + r.size)
      BY <1>1, <2>3 DEF HeldBy
    <3>4. mem[<<b, l>>] = memory[<<b, l>>]
      BY <1>4, <2>1, <3>3
    <3>. QED BY <3>2, <3>4
  <2>. QED BY <2>2, <2>3
<1>. QED BY <1>8, <1>9, <1>10 DEF Mapped, mem, r
-----------------------------------------------------------------------------
(* Variable granularity: every line is found *)

MapInv == misplaced \/ Mapped(placement, memory)

LEMMA MapStart == Set!Init => MapInv
<1>. SUFFICES ASSUME Set!Init PROVE Mapped(placement, memory)
  BY DEF MapInv
<1>1. placement = <<>> /\ Len(placement) = 0 /\ memory = [h \in Set!BlockLine |-> h]
  BY DEF Set!Init
<1>2. 0 \in Set!Block
  BY SetSizes DEF Set!Block
<1>3. \A b \in Set!Block, l \in Set!Line : memory[<<b, l>>] = <<b, l>>
  BY <1>1 DEF Set!BlockLine
<1>4. \A b \in Set!SlowBlock : b \in Set!Block
  BY DEF Set!SlowBlock
<1>. QED BY <1>1, <1>2, <1>3, <1>4 DEF Mapped

LEMMA FinishKeepsMap == ASSUME SetInv, MapInv, Set!FinishRemapping PROVE MapInv'
<1>. DEFINE r == Head(remapping_request_queue)
            n == Len(placement)
<1>. SUFFICES ASSUME ~misplaced' PROVE Mapped(placement', memory')
  BY DEF MapInv
<1>1. /\ remapping_request_queue # <<>>
      /\ Set!FinishPromotion(r) \/ Set!FinishEviction(r)
      /\ memory' = Set!Exchanged(r)
  BY DEF Set!FinishRemapping
<1>2. r \in Set!Request /\ RequestFits(r, placement)
  BY <1>1, QueueSet
<1>3. placement \in Seq(Set!Group) /\ GroupsFit(placement)
  BY DEF SetInv, Set!TypeOK
<1>. HIDE DEF r
<1>4. CASE Set!FinishPromotion(r)
  <2>1. /\ misplaced' = (misplaced \/ Set!Overlaps(r) \/ (Set!Expands(r) /\ ~Set!Continues(r)))
        /\ r.promotion
    BY <1>4, Zenon DEF Set!FinishPromotion
  <2>2. ~misplaced /\ ~Set!Overlaps(r) /\ (Set!Expands(r) => Set!Continues(r))
    BY <2>1, Zenon
  <2>3. Mapped(placement, memory) /\ PromotionFits(r, placement)
    BY <1>2, <2>1, <2>2 DEF MapInv, RequestFits
  <2>4. Moved(r, memory')
    BY <1>1, <1>2, <1>3, <2>2, <2>3, PromotionMoves
  <2>5. \/ /\ ExpandsIn(placement, r)
           /\ Replaced(placement, n, [tag |-> r.block, start |-> placement[n].start,
                                      size |-> placement[n].size + r.size], placement')
        \/ placement' = Append(placement, [tag |-> r.block, start |-> r.sm, size |-> r.size])
    BY <1>2, <1>3, <1>4, <2>1, <2>3, PromotedIs
  <2>. DEFINE grown == [tag |-> r.block, start |-> placement[n].start, size |-> placement[n].size + r.size]
              fresh == [tag |-> r.block, start |-> r.sm, size |-> r.size]
  <2>6. CASE ExpandsIn(placement, r) /\ Replaced(placement, n, grown, placement')
    <3>1. Set!Expands(r)
      BY <2>1, <2>6 DEF Set!Expands, ExpandsIn, Set!Cursor
    <3>2. r.sm = placement[n].start + placement[n].size - 1 + 1
      BY <2>2, <3>1 DEF Set!Continues, Set!GroupEnd, Set!Cursor
    <3>3. n \in 1 .. n
      BY <1>3, <2>6, UsedIs DEF ExpandsIn
    <3>4. placement[n].start \in Nat /\ placement[n].size \in Nat
      BY <1>3, <3>3, GroupNumbers
    <3>5. r.sm = placement[n].start + placement[n].size
      BY <3>2, <3>4
    <3>6. grown.tag = r.block /\ grown.start = placement[n].start
          /\ grown.size = placement[n].size + r.size
      OBVIOUS
    <3>. DEFINE next == placement'
                mem == memory'
    <3>7. Replaced(placement, n, grown, next) /\ Moved(r, mem)
      BY <2>4, <2>6
    <3>. HIDE DEF grown, next, mem
    <3>8. Mapped(next, mem)
      BY <1>2, <1>3, <2>3, <2>6, <3>5, <3>6, <3>7, ExpandKeepsMap
    <3>. QED BY <3>8 DEF next, mem
  <2>7. CASE placement' = Append(placement, fresh)
    <3>1. fresh \in Set!Group
      BY <1>2, RequestSizes DEF Set!Group
    <3>2. fresh.tag = r.block /\ fresh.start = r.sm /\ fresh.size = r.size
      OBVIOUS
    <3>. DEFINE mem == memory'
    <3>3. Moved(r, mem)
      BY <2>4
    <3>. HIDE DEF fresh, mem
    <3>4. Mapped(Append(placement, fresh), mem)
      BY <1>2, <1>3, <2>3, <3>1, <3>2, <3>3, AppendKeepsMap
    <3>. QED BY <2>7, <3>4 DEF mem
  <2>. QED BY <2>5, <2>6, <2>7
<1>5. CASE Set!FinishEviction(r)
  <2>1. ~r.promotion /\ misplaced' = misplaced
    BY <1>5, Zenon DEF Set!FinishEviction
  <2>2. Mapped(placement, memory)
    BY <2>1 DEF MapInv
  <2>3. PICK i \in 1 .. n : r = EvictionOf(placement, i)
    BY <1>2, <2>1 DEF RequestFits
  <2>4. placement[i].tag # 0
    <3>1. r.block = placement[i].tag
      BY <2>3 DEF EvictionOf
    <3>. QED BY <1>2, <3>1, RequestSizes
  <2>. DEFINE next == placement'
  <2>5. Evicted(placement, i, next)
    BY <1>3, <1>5, <2>3, <2>4, EvictedIs
  <2>. HIDE DEF next
  <2>6. Mapped(next, Set!Exchanged(EvictionOf(placement, i)))
    BY <1>3, <2>2, <2>4, <2>5, EvictionKeepsMap
  <2>. QED BY <1>1, <2>3, <2>6 DEF next
<1>. QED BY <1>1, <1>4, <1>5

LEMMA MapUntouched == ASSUME MapInv, UNCHANGED <<placement, memory, misplaced>> PROVE MapInv'
BY DEF MapInv, Mapped

LEMMA MapKept == ASSUME SetInv, MapInv, Set!Next PROVE MapInv'
<1>1. CASE \E p \in Touched, busy \in BOOLEAN : Set!TrackSlowBlock(p[1], p[2], busy)
  BY <1>1, MapUntouched DEF Set!TrackSlowBlock
<1>2. CASE \E l \in Set!Line : Set!TrackFastBlock(l)
  BY <1>2, MapUntouched DEF Set!TrackFastBlock
<1>3. CASE Set!DetectColdData
  BY <1>3, MapUntouched DEF Set!DetectColdData
<1>4. CASE Set!FinishRemapping
  BY <1>4, FinishKeepsMap
<1>. QED BY <1>1, <1>2, <1>3, <1>4 DEF Set!Next

LEMMA MapKeeps ==
    (part = "granularity" => SetInv /\ MapInv) /\ [SumNext]_allVars => (part = "granularity" => MapInv)'
<1>. SUFFICES ASSUME part = "granularity" => SetInv /\ MapInv, [SumNext]_allVars,
                     part' = "granularity"
              PROVE  MapInv'
  OBVIOUS
<1>1. part' = part
  BY DEF SumNext, allVars
<1>2. SetInv /\ MapInv
  BY <1>1
<1>3. CASE Set!Next
  BY <1>2, <1>3, MapKept
<1>4. CASE UNCHANGED allVars
  BY <1>2, <1>4, MapUntouched DEF allVars, setVars
<1>. QED BY <1>1, <1>3, <1>4 DEF SumNext

\* As long as no group was misplaced, each group and the lines of block 0 under it have
\* changed places and every other line is at home.
THEOREM MapInvariant == SumSpec => [](part = "granularity" => SetInv /\ MapInv)
<1>1. SumInit => (part = "granularity" => SetInv /\ MapInv)
  BY SetStart, MapStart DEF SumInit
<1>2. (part = "granularity" => SetInv /\ MapInv) /\ [SumNext]_allVars
      => (part = "granularity" => SetInv /\ MapInv)'
  BY SetKeeps, MapKeeps
<1>. QED BY <1>1, <1>2, PTL DEF SumSpec

\* As long as no group was misplaced, physical_to_hardware_address() leads every line of the
\* set to its data, whatever groups were made, extended, taken back and dropped.
THEOREM TranslationAlwaysFinds == SumSpec => []TranslationFindsData
<1>1. (part = "granularity" => SetInv /\ MapInv) => TranslationFindsData
  <2>. SUFFICES ASSUME part = "granularity", SetInv, MapInv PROVE Set!TranslationFindsData
    BY DEF TranslationFindsData
  <2>. SUFFICES ASSUME ~misplaced, NEW p \in Set!BlockLine PROVE memory[Set!Translated(p)] = p
    BY DEF Set!TranslationFindsData
  <2>1. Mapped(placement, memory)
    BY DEF MapInv
  <2>2. PICK b \in Set!Block, l \in Set!Line : p = <<b, l>>
    BY DEF Set!BlockLine
  <2>. QED BY <2>1, <2>2, TranslationFinds
<1>. QED BY <1>1, MapInvariant, PTL
=============================================================================
