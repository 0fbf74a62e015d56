------------------------ MODULE SwappingUnit_proofs ------------------------
(***************************************************************************)
(* Proofs about the swapping unit for memories and buffers of every size,  *)
(* whatever the memories accept and return in a cycle.                     *)
(***************************************************************************)
EXTENDS SwappingUnit, FiniteSetTheorems, TLAPS

\* The two segments lie in fast and in slow memory.
Geometry ==
    active_entry_number > 0 =>
        /\ base_address[0] + active_entry_number <= FastSize
        /\ base_address[1] >= FastSize
        /\ base_address[1] + active_entry_number <= FastSize + SlowSize

\* initialize_swapping() leaves nothing of the last swap behind.
IdleIsClear ==
    states = "Idle" => /\ active_entry_number = 0
                       /\ finish = {} /\ read_issue = {} /\ read = {} /\ write = {} /\ dirty = {}
                       /\ reads = {}

\* The order in which the flags of an entry are set.
FlagOrder ==
    /\ \A s \in read_issue \cup read : s[1] < active_entry_number
    /\ \A s \in read : <<s[1], 1 - s[2]>> \in read_issue
    /\ \A s \in write \cup dirty : Arrived(s[1])
    /\ \A i \in finish : <<i, 0>> \in write /\ <<i, 1>> \in write

ControlInv ==
    /\ TypeOK /\ FinishCounted /\ NoStrayRead /\ SwapMatchesRequest
    /\ Geometry /\ IdleIsClear /\ FlagOrder
-----------------------------------------------------------------------------
LEMMA ConstantFacts ==
    /\ FastSize \in Nat \ {0} /\ SlowSize \in Nat \ {0} /\ EntryNumber \in Nat \ {0}
    /\ Line = 0 .. FastSize + SlowSize - 1 /\ Entry = 0 .. EntryNumber - 1 /\ Segment = {0, 1}
    /\ Tracked \subseteq Line /\ Stale \notin Line /\ Data = Tracked \cup {Stale}
BY SizeAssumption DEF Line, Entry, Segment, Stale, Data

LEMMA SlotParts ==
    /\ \A s \in Slot : s[1] \in Entry /\ s[2] \in Segment /\ s = <<s[1], s[2]>>
    /\ \A i \in Entry, j \in Segment : <<i, j>> \in Slot
BY DEF Slot

LEMMA ValueInData == \A p \in Line : Value(p) \in Data
BY DEF Value, Data

LEMMA AgedInData == \A d \in Data, p \in Line : Aged(d, p) \in Data
BY DEF Aged, Data

\* What SlotOf, ArrivalSlot and Partner are for a line under swapping.
LEMMA LineUnderSwap ==
    ASSUME TypeOK, Geometry, NEW l \in Line, UnderSwap(l)
    PROVE  \E i \in Entry, j \in Segment :
              /\ i < active_entry_number
              /\ l = base_address[j] + i
              /\ SlotOf(l) = <<i, j>>
              /\ ArrivalSlot(l) = <<i, 1 - j>>
              /\ Partner(l) = base_address[1 - j] + i
              /\ Partner(l) \in Line
              /\ UnderSwap(Partner(l))
              /\ SlotOf(Partner(l)) = <<i, 1 - j>>
              /\ Partner(Partner(l)) = l
<1>. DEFINE n == active_entry_number
            j == IF InSegment(l, 0) THEN 0 ELSE 1
            i == l - base_address[j]
            m == base_address[1 - j] + i
<1>1. /\ n \in Nat /\ n <= EntryNumber /\ base_address[0] \in Line /\ base_address[1] \in Line
      /\ l \in Nat
  BY ConstantFacts DEF TypeOK
<1>2. j \in {0, 1} /\ InSegment(l, j)
  BY ConstantFacts DEF UnderSwap
<1>3. i \in Nat /\ i < n /\ l = base_address[j] + i
  BY <1>1, <1>2, ConstantFacts DEF InSegment
<1>4. SlotOf(l) = <<i, j>>
  BY DEF SlotOf
<1>5. ArrivalSlot(l) = <<i, 1 - j>>
  BY <1>4 DEF ArrivalSlot
<1>6. Partner(l) = m
  BY <1>4 DEF Partner
<1>. HIDE DEF i, j
<1>7. m \in Line /\ InSegment(m, 1 - j) /\ (1 - j = 1 => ~InSegment(m, 0))
  BY <1>1, <1>2, <1>3, ConstantFacts DEF InSegment, Geometry
<1>8. UnderSwap(m)
  BY <1>2, <1>7, ConstantFacts DEF UnderSwap
<1>9. SlotOf(m) = <<i, 1 - j>>
  <2>1. m - base_address[1 - j] = i
    BY <1>1, <1>2, <1>3, ConstantFacts
  <2>. QED BY <1>2, <1>7, <2>1 DEF SlotOf
<1>10. Partner(m) = l
  <2>1. base_address[1 - (1 - j)] + i = l
    BY <1>2, <1>3
  <2>. QED BY <1>8, <1>9, <2>1 DEF Partner
<1>11. i \in Entry
  BY <1>1, <1>3, ConstantFacts
<1>. QED BY <1>2, <1>3, <1>4, <1>5, <1>6, <1>7, <1>8, <1>9, <1>10, <1>11, ConstantFacts

LEMMA ActiveSlot ==
    ASSUME TypeOK, Geometry, NEW s \in Slot, s[1] < active_entry_number
    PROVE  /\ Home(s) \in Line
           /\ UnderSwap(Home(s))
           /\ SlotOf(Home(s)) = s
           /\ ArrivalSlot(Home(s)) = <<s[1], 1 - s[2]>>
<1>1. /\ s[1] \in Nat /\ s[2] \in {0, 1} /\ s = <<s[1], s[2]>>
      /\ active_entry_number \in Nat
      /\ base_address[0] \in Nat /\ base_address[1] \in Nat
  BY SlotParts, ConstantFacts DEF TypeOK
<1>2. /\ Home(s) \in Line /\ InSegment(Home(s), s[2]) /\ (s[2] = 1 => ~InSegment(Home(s), 0))
  <2>. DEFINE i == s[1]
  <2>1. i \in Nat /\ i < active_entry_number
    BY <1>1
  <2>. HIDE DEF i
  <2>2. /\ base_address[0] + active_entry_number <= FastSize
        /\ base_address[1] >= FastSize
        /\ base_address[1] + active_entry_number <= FastSize + SlowSize
    BY <1>1, <2>1 DEF Geometry
  <2>3. CASE s[2] = 0
    <3>1. Home(s) = base_address[0] + i
      BY <2>3 DEF Home, i
    <3>2. Home(s) \in Line
      BY <1>1, <2>1, <2>2, <3>1, ConstantFacts
    <3>. QED BY <1>1, <2>1, <2>3, <3>1, <3>2 DEF InSegment
  <2>4. CASE s[2] = 1
    <3>1. Home(s) = base_address[1] + i
      BY <2>4 DEF Home, i
    <3>2. Home(s) \in Line
      BY <1>1, <2>1, <2>2, <3>1, ConstantFacts
    <3>3. /\ base_address[1] <= Home(s) /\ Home(s) < base_address[1] + active_entry_number
          /\ base_address[0] + active_entry_number <= Home(s)
      <4>. DEFINE b0 == base_address[0]
                  b1 == base_address[1]
                  n == active_entry_number
      <4>1. b0 \in Nat /\ b1 \in Nat /\ n \in Nat /\ b0 + n <= FastSize /\ FastSize <= b1
        BY <1>1, <2>2, ConstantFacts
      <4>2. Home(s) = b1 + i
        BY <3>1
      <4>. HIDE DEF b0, b1, n
      <4>3. b1 <= b1 + i /\ b1 + i < b1 + n /\ b0 + n <= b1 + i
        BY <2>1, <4>1, ConstantFacts DEF n
      <4>. QED BY <4>2, <4>3 DEF b0, b1, n
    <3>4. InSegment(Home(s), 1)
      BY <3>3 DEF InSegment
    <3>5. ~InSegment(Home(s), 0)
      BY <1>1, <3>2, <3>3, ConstantFacts DEF InSegment
    <3>. QED BY <2>4, <3>2, <3>4, <3>5
  <2>. QED BY <1>1, <2>3, <2>4
<1>3. UnderSwap(Home(s))
  BY <1>1, <1>2, ConstantFacts DEF UnderSwap
<1>4. Home(s) - base_address[s[2]] = s[1]
  BY <1>1 DEF Home
<1>5. SlotOf(Home(s)) = <<s[1], s[2]>>
  BY <1>1, <1>2, <1>4 DEF SlotOf
<1>. QED BY <1>1, <1>2, <1>3, <1>5 DEF ArrivalSlot

\* The entries that are finished after a cycle, and their number.
LEMMA FinishNumberFacts ==
    ASSUME TypeOK, FinishCounted, FlagOrder, NEW aw \in SUBSET WritesToIssue
    PROVE  /\ finish \cup Completed(aw) \subseteq 0 .. active_entry_number - 1
           /\ FinishNumberAfter(aw) = Cardinality(finish \cup Completed(aw))
           /\ FinishNumberAfter(aw) \in 0 .. active_entry_number
           /\ FinishNumberAfter(aw) = active_entry_number =>
                 finish \cup Completed(aw) = 0 .. active_entry_number - 1
<1>. DEFINE done == finish \cup Completed(aw)
            all == 0 .. active_entry_number - 1
<1>1. active_entry_number \in Nat /\ active_entry_number <= EntryNumber
  BY ConstantFacts DEF TypeOK
<1>2. done \subseteq all /\ finish \cap Completed(aw) = {}
  <2>1. finish \subseteq Entry /\ \A i \in finish : i < active_entry_number
    BY DEF TypeOK, FinishCounted
  <2>2. Completed(aw) \subseteq Entry /\ \A i \in Completed(aw) : i < active_entry_number /\ i \notin finish
    BY DEF Completed
  <2>3. \A i \in Entry : i < active_entry_number => i \in all
    BY <1>1, ConstantFacts
  <2>. QED BY <2>1, <2>2, <2>3
<1>3. IsFiniteSet(all) /\ Cardinality(all) = active_entry_number
  BY <1>1, FS_Interval
<1>4. IsFiniteSet(done) /\ IsFiniteSet(finish) /\ IsFiniteSet(Completed(aw))
  <2>1. finish \in SUBSET all /\ Completed(aw) \in SUBSET all /\ done \in SUBSET all
    BY <1>2
  <2>. QED BY <1>3, <2>1, FS_Subset
<1>5. /\ Cardinality(done) = Cardinality(finish) + Cardinality(Completed(aw))
                             - Cardinality(finish \cap Completed(aw))
      /\ Cardinality(finish) \in Nat /\ Cardinality(Completed(aw)) \in Nat
      /\ Cardinality(done) \in Nat
  BY <1>4, FS_Union, FS_CardinalityType
<1>6. Cardinality(finish \cap Completed(aw)) = 0
  BY <1>2, FS_EmptySet
<1>7. FinishNumberAfter(aw) = Cardinality(done)
  BY <1>5, <1>6 DEF FinishNumberAfter, FinishCounted
<1>8. /\ Cardinality(done) <= active_entry_number
      /\ Cardinality(done) = active_entry_number => done = all
  <2>1. done \in SUBSET all
    BY <1>2
  <2>. HIDE DEF done, all
  <2>. QED BY <1>3, <2>1, FS_Subset
<1>. QED BY <1>1, <1>2, <1>5, <1>7, <1>8
-----------------------------------------------------------------------------
LEMMA InitTypeOK == Init => TypeOK
<1>. SUFFICES ASSUME Init PROVE TypeOK
  OBVIOUS
<1>1. memory \in [Line -> Data]
  BY ValueInData DEF Init
<1>2. data \in [Slot -> Data]
  BY DEF Init, Data
<1>3. base_address \in [Segment -> Line] /\ 0 \in 0 .. EntryNumber
  BY ConstantFacts DEF Init
<1>. QED BY <1>1, <1>2, <1>3 DEF Init, TypeOK

LEMMA InitControl == Init => ControlInv
<1>. SUFFICES ASSUME Init PROVE ControlInv
  OBVIOUS
<1>1. FinishCounted
  BY FS_EmptySet DEF Init, FinishCounted
<1>2. NoStrayRead /\ SwapMatchesRequest /\ Geometry /\ IdleIsClear /\ FlagOrder
  BY DEF Init, NoStrayRead, SwapMatchesRequest, Geometry, IdleIsClear, FlagOrder
<1>. QED BY <1>1, <1>2, InitTypeOK DEF ControlInv

LEMMA RequestFacts ==
    ASSUME NEW r \in Requests
    PROVE  /\ r.fm \in Line /\ r.sm \in Line /\ r.size \in 1 .. EntryNumber
           /\ r.fm + r.size <= FastSize
           /\ FastSize <= r.sm /\ r.sm + r.size <= FastSize + SlowSize
           /\ r # NoRequest
BY ConstantFacts DEF Requests, NoRequest

\* A request of the LLC: whatever it does to the unit, and whatever the
\* tracking of activity does to the front of the queue.
LEMMA TrackActivityControl ==
    ASSUME ControlInv, TrackActivity, UNCHANGED <<states, active_entry_number, base_address>>
    PROVE  SwapMatchesRequest' /\ request' \in Requests \cup {NoRequest}
<1>1. request' \in Requests \cup {NoRequest}
  BY DEF ControlInv, TypeOK, TrackActivity
<1>2. CASE request' = request
  BY <1>1, <1>2 DEF ControlInv, SwapMatchesRequest
<1>3. CASE request = NoRequest
  BY <1>1, <1>3 DEF ControlInv, SwapMatchesRequest
<1>4. ASSUME NEW n \in request.size + 1 .. EntryNumber, request # NoRequest,
             request' = [request EXCEPT !.size = n]
      PROVE  SwapMatchesRequest'
  <2>1. request \in Requests /\ request' \in Requests \cup {NoRequest}
    BY <1>1, <1>4 DEF ControlInv, TypeOK
  <2>2. request.size \in Nat /\ n >= request.size
    BY <2>1, ConstantFacts DEF Requests
  <2>3. request'.fm = request.fm /\ request'.sm = request.sm /\ request'.size = n
    BY <1>4, <2>1 DEF Requests
  <2>4. n # 0
    BY <2>2
  <2>5. request' # NoRequest
    BY <2>3, <2>4 DEF NoRequest
  <2>6. ASSUME states = "Swapping"
        PROVE  /\ base_address[0] = request'.fm /\ base_address[1] = request'.sm
               /\ active_entry_number \in 1 .. request'.size
    <3>1. /\ base_address[0] = request.fm /\ base_address[1] = request.sm
          /\ active_entry_number \in 1 .. request.size
      BY <2>6 DEF ControlInv, SwapMatchesRequest
    <3>2. n \in Nat /\ active_entry_number \in 1 .. n
      BY <2>2, <3>1, ConstantFacts
    <3>. QED BY <2>3, <3>1, <3>2
  <2>. QED BY <2>5, <2>6 DEF SwapMatchesRequest
<1>5. \/ request' = request
      \/ request = NoRequest
      \/ request # NoRequest /\ \E n \in request.size + 1 .. EntryNumber :
                                    request' = [request EXCEPT !.size = n]
  BY DEF TrackActivity
<1>. QED BY <1>1, <1>2, <1>3, <1>4, <1>5

LEMMA WriteMemoryControl ==
    ASSUME ControlInv, NEW p \in Line, WriteMemory(p), TrackActivity
    PROVE  ControlInv'
<1>1. UNCHANGED <<states, active_entry_number, finish_number, base_address, finish, read_issue,
                  read, write, dirty, reads, phase, h_address>>
  BY DEF WriteMemory, TrackActivity, unit, flags
<1>2. memory' \in [Line -> Data] /\ data' \in [Slot -> Data] /\ absorbed' \subseteq Tracked
  BY ValueInData, AgedInData DEF ControlInv, TypeOK, WriteMemory
<1>3. SwapMatchesRequest' /\ request' \in Requests \cup {NoRequest}
  BY <1>1, TrackActivityControl
<1>4. TypeOK'
  BY <1>1, <1>2, <1>3 DEF ControlInv, TypeOK
<1>5. FinishCounted' /\ NoStrayRead'
  BY <1>1 DEF ControlInv, FinishCounted, NoStrayRead, Arrived, UnderSwap, InSegment, SlotOf, ArrivalSlot
<1>6. Geometry' /\ IdleIsClear' /\ FlagOrder'
  BY <1>1 DEF ControlInv, Geometry, IdleIsClear, FlagOrder, Arrived
<1>. QED BY <1>3, <1>4, <1>5, <1>6 DEF ControlInv

LEMMA OtherAccessControl ==
    ASSUME ControlInv, OtherAccess, TrackActivity
    PROVE  ControlInv'
<1>1. UNCHANGED <<states, active_entry_number, finish_number, base_address, finish, read_issue,
                  read, write, dirty, reads, phase, h_address, data, memory, absorbed>>
  BY DEF OtherAccess, TrackActivity, unit, flags
<1>2. SwapMatchesRequest' /\ request' \in Requests \cup {NoRequest}
  BY <1>1, TrackActivityControl
<1>3. TypeOK'
  BY <1>1, <1>2 DEF ControlInv, TypeOK
<1>4. FinishCounted' /\ NoStrayRead'
  BY <1>1 DEF ControlInv, FinishCounted, NoStrayRead, Arrived, UnderSwap, InSegment, SlotOf, ArrivalSlot
<1>5. Geometry' /\ IdleIsClear' /\ FlagOrder'
  BY <1>1 DEF ControlInv, Geometry, IdleIsClear, FlagOrder, Arrived
<1>. QED BY <1>2, <1>3, <1>4, <1>5 DEF ControlInv

\* A write absorbed by the buffer reopens its entry and counts it as open.
LEMMA AbsorbWriteControl ==
    ASSUME ControlInv, NEW p \in Line, AbsorbWrite(p), TrackActivity
    PROVE  ControlInv'
<1>. DEFINE h == h_address[p]
            s == SlotOf(h)
<1>1. /\ UNCHANGED <<states, active_entry_number, base_address, read_issue, read, write, reads,
                     phase, h_address>>
      /\ UnderSwap(h) /\ Arrived(s[1])
      /\ dirty' = dirty \cup {s}
      /\ finish' = finish \ {s[1]}
      /\ finish_number' = ReopenedCount(s[1])
      /\ absorbed' = absorbed \cup {q \in Tracked : h_address[q] \in {h, Partner(h)}}
  BY DEF AbsorbWrite, TrackActivity
<1>2. h \in Line
  BY DEF ControlInv, TypeOK
<1>3. s \in Slot /\ s[1] \in Entry /\ s[1] < active_entry_number
  BY <1>1, <1>2, LineUnderSwap, SlotParts DEF ControlInv
<1>4. data' \in [Slot -> Data] /\ memory' \in [Line -> Data]
  BY ValueInData, AgedInData DEF ControlInv, TypeOK, AbsorbWrite
<1>. HIDE DEF s
<1>5. finish_number' = Cardinality(finish') /\ finish_number' \in 0 .. EntryNumber
  <2>1. IsFiniteSet(finish)
    <3>1. finish \in SUBSET Entry /\ IsFiniteSet(0 .. EntryNumber - 1)
      BY ConstantFacts, FS_Interval DEF ControlInv, TypeOK
    <3>. QED BY <3>1, ConstantFacts, FS_Subset
  <2>2. CASE s[1] \in finish
    <3>1. Cardinality(finish \ {s[1]}) = Cardinality(finish) - 1
      BY <2>1, <2>2, FS_RemoveElement
    <3>2. Cardinality(finish \ {s[1]}) \in Nat
      BY <2>1, FS_Subset, FS_CardinalityType
    <3>. QED BY <1>1, <2>2, <3>1, <3>2, ConstantFacts DEF ReopenedCount, ControlInv, FinishCounted, TypeOK
  <2>3. CASE s[1] \notin finish
    <3>1. finish \ {s[1]} = finish
      BY <2>3
    <3>2. finish_number = Cardinality(finish) /\ finish_number \in 0 .. EntryNumber
      BY DEF ControlInv, FinishCounted, TypeOK
    <3>3. ReopenedCount(s[1]) = finish_number - 0
      BY <2>3 DEF ReopenedCount
    <3>4. ReopenedCount(s[1]) = finish_number
      BY <3>2, <3>3, ConstantFacts
    <3>. QED BY <1>1, <3>1, <3>2, <3>4
  <2>. QED BY <2>2, <2>3
<1>6. SwapMatchesRequest' /\ request' \in Requests \cup {NoRequest}
  BY <1>1, TrackActivityControl
<1>7. TypeOK'
  <2>1. dirty' \subseteq Slot /\ finish' \subseteq Entry /\ absorbed' \subseteq Tracked
    BY <1>1, <1>3 DEF ControlInv, TypeOK
  <2>. QED BY <1>1, <1>4, <1>5, <1>6, <2>1 DEF ControlInv, TypeOK
<1>8. FinishCounted'
  BY <1>1, <1>5 DEF ControlInv, FinishCounted, Arrived
<1>9. NoStrayRead'
  <2>. SUFFICES ASSUME NEW l \in reads
                PROVE  /\ states = "Swapping" /\ UnderSwap(l) /\ SlotOf(l) \in read_issue
                       /\ ArrivalSlot(l) \notin read \cup write \cup dirty'
    BY <1>1 DEF NoStrayRead, UnderSwap, InSegment, SlotOf, ArrivalSlot
  <2>1. ArrivalSlot(l) \notin read \cup write \cup dirty /\ states = "Swapping" /\ UnderSwap(l)
        /\ SlotOf(l) \in read_issue
    BY DEF ControlInv, NoStrayRead
  <2>2. s \in read
    BY <1>1, <1>3, SlotParts, ConstantFacts DEF Arrived
  <2>. QED BY <1>1, <2>1, <2>2
<1>10. Geometry' /\ IdleIsClear' /\ FlagOrder'
  <2>1. states = "Swapping"
    <3>1. active_entry_number # 0
      BY <1>1, <1>2, <1>3, SlotParts, ConstantFacts DEF ControlInv, TypeOK
    <3>. QED BY <3>1 DEF ControlInv, IdleIsClear, TypeOK
  <2>. QED BY <1>1, <2>1 DEF ControlInv, Geometry, IdleIsClear, FlagOrder, Arrived
<1>. QED BY <1>6, <1>7, <1>8, <1>9, <1>10 DEF ControlInv
\* A slot belongs to one line, and so do the parts of a swap that has grown.
LEMMA ArrivalInjective ==
    ASSUME TypeOK, Geometry, NEW l \in Line, NEW m \in Line, UnderSwap(l), UnderSwap(m),
           ArrivalSlot(l) = ArrivalSlot(m)
    PROVE  l = m
<1>1. PICK i \in Entry, j \in Segment : l = base_address[j] + i /\ ArrivalSlot(l) = <<i, 1 - j>>
  BY LineUnderSwap
<1>2. PICK k \in Entry, g \in Segment : m = base_address[g] + k /\ ArrivalSlot(m) = <<k, 1 - g>>
  BY LineUnderSwap
<1>3. i = k /\ 1 - j = 1 - g
  BY <1>1, <1>2
<1>4. j = g
  BY <1>3, ConstantFacts
<1>. QED BY <1>1, <1>2, <1>3, <1>4

LEMMA GrowthKeepsSlots ==
    ASSUME TypeOK, TypeOK', Geometry, Geometry', UNCHANGED base_address,
           active_entry_number <= active_entry_number',
           NEW l \in Line, UnderSwap(l)
    PROVE  /\ UnderSwap(l)'
           /\ SlotOf(l)' = SlotOf(l)
           /\ ArrivalSlot(l)' = ArrivalSlot(l)
           /\ Partner(l)' = Partner(l)
<1>1. /\ base_address[0] \in Nat /\ base_address[1] \in Nat /\ l \in Nat
      /\ active_entry_number \in Nat /\ active_entry_number' \in Nat
  BY ConstantFacts DEF TypeOK
<1>2. PICK j \in Segment : InSegment(l, j)
  BY DEF UnderSwap
<1>3. active_entry_number > 0
  BY <1>1, <1>2, ConstantFacts DEF InSegment
<1>4. /\ base_address[0] + active_entry_number' <= FastSize
      /\ FastSize <= base_address[1]
  BY <1>1, <1>3 DEF Geometry
<1>5. \A g \in Segment : InSegment(l, g) => InSegment(l, g)'
  BY <1>1, ConstantFacts DEF InSegment
<1>6. InSegment(l, 1) => ~InSegment(l, 0) /\ ~InSegment(l, 0)'
  BY <1>1, <1>4, ConstantFacts DEF InSegment
<1>7. InSegment(l, 0)' <=> InSegment(l, 0)
  BY <1>2, <1>5, <1>6, ConstantFacts
<1>8. UnderSwap(l)'
  BY <1>2, <1>5 DEF UnderSwap
<1>9. SlotOf(l)' = SlotOf(l)
  BY <1>7 DEF SlotOf
<1>. QED BY <1>8, <1>9 DEF ArrivalSlot, Partner
-----------------------------------------------------------------------------
LEMMA IdleCycleControl ==
    ASSUME ControlInv, IdleCycle, UNCHANGED queue
    PROVE  ControlInv'
<1>1. /\ UNCHANGED <<states, active_entry_number, finish_number, base_address, finish, read_issue,
                     read, write, dirty, reads, request, h_address, data, memory, absorbed>>
      /\ phase' = "tick"
  BY DEF IdleCycle, queue, unit, flags
<1>2. TypeOK' /\ SwapMatchesRequest'
  BY <1>1 DEF ControlInv, TypeOK, SwapMatchesRequest
<1>3. FinishCounted' /\ NoStrayRead'
  BY <1>1 DEF ControlInv, FinishCounted, NoStrayRead, Arrived, UnderSwap, InSegment, SlotOf, ArrivalSlot
<1>4. Geometry' /\ IdleIsClear' /\ FlagOrder'
  BY <1>1 DEF ControlInv, Geometry, IdleIsClear, FlagOrder, Arrived
<1>. QED BY <1>2, <1>3, <1>4 DEF ControlInv

LEMMA StartSwapControl ==
    ASSUME ControlInv, StartSwap, UNCHANGED queue
    PROVE  ControlInv'
<1>1. /\ UNCHANGED <<finish_number, finish, read_issue, read, write, dirty, reads, request,
                     h_address, data, memory, absorbed>>
      /\ phase' = "tick" /\ states' = "Swapping" /\ active_entry_number' = request.size
      /\ base_address' = [j \in Segment |-> IF j = 0 THEN request.fm ELSE request.sm]
      /\ request # NoRequest /\ states = "Idle"
  BY DEF StartSwap, queue, flags
<1>2. /\ request \in Requests
      /\ finish = {} /\ read_issue = {} /\ read = {} /\ write = {} /\ dirty = {} /\ reads = {}
  BY <1>1 DEF ControlInv, TypeOK, IdleIsClear
<1>3. base_address'[0] = request.fm /\ base_address'[1] = request.sm
  BY <1>1, ConstantFacts
<1>4. request.size \in Nat /\ request.size >= 1 /\ request.size \in 0 .. EntryNumber
  BY <1>2, RequestFacts, ConstantFacts
<1>5. TypeOK'
  <2>1. base_address' \in [Segment -> Line]
    BY <1>1, <1>2, RequestFacts
  <2>. QED BY <1>1, <1>4, <2>1 DEF ControlInv, TypeOK
<1>6. SwapMatchesRequest' /\ Geometry'
  BY <1>1, <1>2, <1>3, <1>4, RequestFacts DEF SwapMatchesRequest, Geometry
<1>7. FinishCounted' /\ NoStrayRead' /\ IdleIsClear' /\ FlagOrder'
  BY <1>1, <1>2 DEF ControlInv, FinishCounted, NoStrayRead, IdleIsClear, FlagOrder
<1>. QED BY <1>5, <1>6, <1>7 DEF ControlInv

\* What the loops of operate_swapping() know of the requests they issue.
LEMMA IssuedFacts ==
    ASSUME ControlInv, NEW ar \in SUBSET ReadsToIssue, NEW aw \in SUBSET WritesToIssue
    PROVE  /\ ar \subseteq Slot /\ aw \subseteq Slot
           /\ \A s \in ar : /\ s[1] < active_entry_number
                            /\ s \notin read_issue
                            /\ <<s[1], 1 - s[2]>> \notin read \cup write \cup dirty \cup aw
           /\ \A s \in write \cup dirty \cup aw : s \in Slot /\ Arrived(s[1]) /\ s \in read
           /\ \A i \in finish \cup Completed(aw) :
                 Arrived(i) /\ <<i, 0>> \in write \cup aw /\ <<i, 1>> \in write \cup aw
<1>1. ar \subseteq Slot /\ aw \subseteq Slot /\ \A s \in aw : Arrived(s[1])
  BY DEF WritesToIssue, ReadsToIssue
<1>2. \A s \in write \cup dirty \cup aw : s \in Slot /\ Arrived(s[1]) /\ s \in read
  <2>. SUFFICES ASSUME NEW s \in write \cup dirty \cup aw
                PROVE  s \in Slot /\ Arrived(s[1]) /\ s \in read
    OBVIOUS
  <2>1. s \in Slot /\ Arrived(s[1])
    BY <1>1 DEF ControlInv, TypeOK, FlagOrder
  <2>. QED BY <2>1, SlotParts, ConstantFacts DEF Arrived
<1>3. ASSUME NEW s \in ar
      PROVE  /\ s[1] < active_entry_number /\ s \notin read_issue
             /\ <<s[1], 1 - s[2]>> \notin read \cup write \cup dirty \cup aw
  <2>1. s[1] < active_entry_number /\ s \notin read_issue
    BY DEF ReadsToIssue
  <2>2. /\ s[1] \in Entry /\ s[2] \in {0, 1} /\ s = <<s[1], s[2]>>
        /\ <<s[1], 1 - s[2]>>[1] = s[1] /\ <<s[1], 1 - s[2]>>[2] = 1 - s[2] /\ 1 - (1 - s[2]) = s[2]
    BY <1>1, SlotParts, ConstantFacts
  <2>3. <<s[1], 1 - s[2]>> \in read => s \in read_issue
    BY <2>2 DEF ControlInv, FlagOrder
  <2>. QED BY <1>2, <2>1, <2>3
<1>4. ASSUME NEW i \in finish \cup Completed(aw)
      PROVE  Arrived(i) /\ <<i, 0>> \in write \cup aw /\ <<i, 1>> \in write \cup aw
  <2>1. <<i, 0>> \in write \cup aw /\ <<i, 1>> \in write \cup aw
    BY DEF ControlInv, FlagOrder, Completed
  <2>2. <<i, 0>>[1] = i
    OBVIOUS
  <2>. QED BY <1>2, <2>1, <2>2
<1>. QED BY <1>1, <1>2, <1>3, <1>4

LEMMA ContinueSwapControl ==
    ASSUME ControlInv, NEW ar \in SUBSET ReadsToIssue, NEW aw \in SUBSET WritesToIssue,
           ContinueSwap(ar, aw), UNCHANGED queue
    PROVE  /\ ControlInv'
           /\ active_entry_number <= active_entry_number'
<1>1. /\ UNCHANGED <<states, base_address, read, data, absorbed, request, h_address>>
      /\ states = "Swapping" /\ phase' = "tick"
      /\ reads' = reads \cup {Home(s) : s \in ar}
      /\ memory' = MemoryAfter(aw)
      /\ read_issue' = read_issue \cup ar /\ write' = write \cup aw /\ dirty' = dirty \ aw
      /\ finish' = finish \cup Completed(aw) /\ finish_number' = FinishNumberAfter(aw)
      /\ active_entry_number' = IF RequestHasGrown THEN request.size ELSE active_entry_number
  BY DEF ContinueSwap, IssueRequests, queue
<1>2. /\ TypeOK /\ Geometry /\ request \in Requests
      /\ base_address[0] = request.fm /\ base_address[1] = request.sm
      /\ active_entry_number \in 1 .. request.size
  BY <1>1 DEF ControlInv, TypeOK, SwapMatchesRequest
<1>3. /\ active_entry_number \in Nat /\ active_entry_number' \in Nat
      /\ active_entry_number <= active_entry_number'
      /\ active_entry_number' \in 1 .. request.size /\ active_entry_number' \in 0 .. EntryNumber
  BY <1>1, <1>2, RequestFacts, ConstantFacts DEF RequestHasGrown
<1>10. /\ ar \subseteq Slot /\ aw \subseteq Slot
       /\ \A s \in write \cup dirty \cup aw : s \in Slot /\ Arrived(s[1]) /\ s \in read
       /\ \A i \in finish \cup Completed(aw) :
             Arrived(i) /\ <<i, 0>> \in write \cup aw /\ <<i, 1>> \in write \cup aw
  BY IssuedFacts
<1>11. /\ finish \cup Completed(aw) \subseteq 0 .. active_entry_number - 1
       /\ FinishNumberAfter(aw) = Cardinality(finish \cup Completed(aw))
       /\ FinishNumberAfter(aw) \in 0 .. active_entry_number
  BY FinishNumberFacts DEF ControlInv
<1>4. Geometry'
  <2>. DEFINE n == active_entry_number'
  <2>1. n \in Nat /\ n <= request.size
    BY <1>3
  <2>2. /\ request.fm \in Nat /\ request.sm \in Nat /\ request.size \in Nat
        /\ request.fm + request.size <= FastSize
        /\ FastSize <= request.sm /\ request.sm + request.size <= FastSize + SlowSize
    BY <1>2, RequestFacts, ConstantFacts
  <2>. HIDE DEF n
  <2>3. /\ request.fm + n <= FastSize /\ request.sm >= FastSize
        /\ request.sm + n <= FastSize + SlowSize
    BY <2>1, <2>2, ConstantFacts
  <2>4. base_address'[0] = request.fm /\ base_address'[1] = request.sm
    BY <1>1, <1>2
  <2>. QED BY <2>3, <2>4 DEF Geometry, n
<1>5. FinishCounted'
  <2>1. \A i \in finish' : i < active_entry_number'
    BY <1>1, <1>3, <1>11
  <2>2. \A i \in finish' : Arrived(i)'
    BY <1>1, <1>10 DEF Arrived
  <2>. QED BY <1>1, <1>11, <2>1, <2>2 DEF FinishCounted
<1>6. TypeOK'
  <2>1. \A s \in ar : Home(s) \in Line
    BY <1>2, IssuedFacts, ActiveSlot
  <2>2. memory' \in [Line -> Data]
    <3>1. ASSUME NEW l \in Line, UnderSwap(l), SlotOf(l) \in aw PROVE data[SlotOf(l)] \in Data
      BY <1>2, <1>10, <3>1 DEF TypeOK
    <3>. QED BY <1>1, <1>2, <3>1 DEF MemoryAfter, TypeOK
  <2>3. Completed(aw) \subseteq Entry
    BY DEF Completed
  <2>4. finish_number' \in 0 .. EntryNumber
    <3>1. /\ active_entry_number \in 0 .. EntryNumber /\ finish_number' = FinishNumberAfter(aw)
          /\ FinishNumberAfter(aw) \in 0 .. active_entry_number
      BY <1>1, <1>2, <1>11 DEF TypeOK
    <3>. QED BY <3>1, ConstantFacts
  <2>5. /\ reads' \subseteq Line /\ read_issue' \subseteq Slot /\ write' \subseteq Slot
        /\ dirty' \subseteq Slot /\ finish' \subseteq Entry
    BY <1>1, <1>2, <1>10, <2>1, <2>3 DEF TypeOK
  <2>. QED BY <1>1, <1>2, <1>3, <2>2, <2>4, <2>5 DEF TypeOK
<1>7. NoStrayRead'
  <2>. SUFFICES ASSUME NEW l \in reads'
                PROVE  /\ UnderSwap(l)' /\ (SlotOf(l) \in read_issue)'
                       /\ (ArrivalSlot(l) \notin read \cup write \cup dirty)'
    BY <1>1 DEF NoStrayRead
  <2>1. /\ l \in Line /\ UnderSwap(l) /\ SlotOf(l) \in read_issue'
        /\ ArrivalSlot(l) \notin read' \cup write' \cup dirty'
    <3>1. CASE l \in reads
      <4>1. /\ UnderSwap(l) /\ SlotOf(l) \in read_issue
            /\ ArrivalSlot(l) \notin read \cup write \cup dirty
        BY <3>1 DEF ControlInv, NoStrayRead
      <4>2. ArrivalSlot(l) \notin aw
        BY <4>1, IssuedFacts
      <4>. QED BY <1>1, <1>2, <3>1, <4>1, <4>2 DEF TypeOK
    <3>2. ASSUME NEW s \in ar, l = Home(s)
          PROVE  /\ l \in Line /\ UnderSwap(l) /\ SlotOf(l) \in read_issue'
                 /\ ArrivalSlot(l) \notin read' \cup write' \cup dirty'
      <4>1. s \in Slot /\ s[1] < active_entry_number
            /\ <<s[1], 1 - s[2]>> \notin read \cup write \cup dirty \cup aw
        BY IssuedFacts
      <4>2. /\ l \in Line /\ UnderSwap(l) /\ SlotOf(l) = s /\ ArrivalSlot(l) = <<s[1], 1 - s[2]>>
        BY <1>2, <3>2, <4>1, ActiveSlot
      <4>. QED BY <1>1, <4>1, <4>2
    <3>. QED BY <1>1, <3>1, <3>2
  <2>2. UnderSwap(l)' /\ SlotOf(l)' = SlotOf(l) /\ ArrivalSlot(l)' = ArrivalSlot(l)
    BY <1>1, <1>2, <1>3, <1>4, <1>6, <2>1, GrowthKeepsSlots
  <2>. QED BY <2>1, <2>2
<1>8. SwapMatchesRequest' /\ IdleIsClear'
  BY <1>1, <1>2, <1>3 DEF SwapMatchesRequest, IdleIsClear, ControlInv
<1>9. FlagOrder'
  <2>1. \A s \in read_issue' \cup read' : s[1] < active_entry_number'
    <3>. SUFFICES ASSUME NEW s \in read_issue \cup ar \cup read PROVE s[1] < active_entry_number'
      BY <1>1
    <3>1. s \in Slot /\ s[1] < active_entry_number
      <4>1. \A v \in ar : v[1] < active_entry_number
        BY DEF ReadsToIssue
      <4>. QED BY <1>2, <1>10, <4>1 DEF ControlInv, FlagOrder, TypeOK
    <3>2. s[1] \in Nat
      BY <3>1, SlotParts, ConstantFacts
    <3>. QED BY <1>3, <3>1, <3>2
  <2>2. \A s \in read' : <<s[1], 1 - s[2]>> \in read_issue'
    BY <1>1 DEF ControlInv, FlagOrder
  <2>3. \A s \in write' \cup dirty' : Arrived(s[1])'
    BY <1>1, IssuedFacts DEF Arrived
  <2>4. \A i \in finish' : <<i, 0>> \in write' /\ <<i, 1>> \in write'
    BY <1>1, IssuedFacts
  <2>. QED BY <2>1, <2>2, <2>3, <2>4 DEF FlagOrder
<1>. QED BY <1>3, <1>4, <1>5, <1>6, <1>7, <1>8, <1>9 DEF ControlInv

\* When every entry is done, nothing is left to read.
LEMMA NothingOutstanding ==
    ASSUME ControlInv, NEW ar \in SUBSET ReadsToIssue, NEW aw \in SUBSET WritesToIssue,
           FinishNumberAfter(aw) = active_entry_number
    PROVE  ar = {} /\ reads = {}
<1>1. finish \cup Completed(aw) = 0 .. active_entry_number - 1 /\ active_entry_number \in Nat
  <2>1. active_entry_number \in Nat
    BY ConstantFacts DEF ControlInv, TypeOK
  <2>2. finish \cup Completed(aw) = 0 .. active_entry_number - 1
    BY FinishNumberFacts DEF ControlInv
  <2>. QED BY <2>1, <2>2
<1>2. \A i \in Entry : i < active_entry_number => Arrived(i)
  <2>1. \A i \in finish \cup Completed(aw) : Arrived(i)
    BY IssuedFacts
  <2>2. \A i \in Entry : i < active_entry_number => i \in 0 .. active_entry_number - 1
    BY <1>1, ConstantFacts
  <2>. QED BY <1>1, <2>1, <2>2
<1>3. ASSUME NEW s \in ar PROVE FALSE
  <2>1. s \in Slot /\ s[1] < active_entry_number /\ <<s[1], 1 - s[2]>> \notin read
    BY IssuedFacts
  <2>2. s[1] \in Entry /\ s[2] \in {0, 1}
    BY <2>1, SlotParts, ConstantFacts
  <2>3. <<s[1], 0>> \in read /\ <<s[1], 1>> \in read
    BY <1>2, <2>1, <2>2 DEF Arrived
  <2>4. 1 - s[2] = 0 \/ 1 - s[2] = 1
    BY <2>2
  <2>. QED BY <2>1, <2>3, <2>4
<1>4. ASSUME NEW l \in reads PROVE FALSE
  <2>1. l \in Line /\ UnderSwap(l) /\ ArrivalSlot(l) \notin read
    BY DEF ControlInv, TypeOK, NoStrayRead
  <2>2. PICK i \in Entry, j \in Segment : i < active_entry_number /\ ArrivalSlot(l) = <<i, 1 - j>>
    BY <2>1, LineUnderSwap DEF ControlInv
  <2>3. 1 - j = 0 \/ 1 - j = 1
    BY ConstantFacts
  <2>. QED BY <1>2, <2>1, <2>2, <2>3 DEF Arrived
<1>. QED BY <1>3, <1>4

LEMMA FinishSwapControl ==
    ASSUME ControlInv, NEW ar \in SUBSET ReadsToIssue, NEW aw \in SUBSET WritesToIssue,
           FinishSwap(ar, aw), FinishRemappingRequest
    PROVE  ControlInv'
<1>1. /\ phase' = "tick" /\ states' = "Idle" /\ active_entry_number' = 0 /\ finish_number' = 0
      /\ base_address' = [j \in Segment |-> 0]
      /\ finish' = {} /\ read_issue' = {} /\ read' = {} /\ write' = {} /\ dirty' = {}
      /\ data' = [s \in Slot |-> Stale] /\ absorbed' = absorbed
      /\ reads' = reads \cup {Home(s) : s \in ar}
      /\ memory' = MemoryAfter(aw)
      /\ request' \in Requests \cup {NoRequest}
      /\ h_address' = [p \in Line |-> Partner(h_address[p])]
      /\ FinishNumberAfter(aw) = active_entry_number
  BY DEF FinishSwap, IssueRequests, FinishRemappingRequest
<1>2. reads' = {}
  BY <1>1, NothingOutstanding
<1>3. memory' \in [Line -> Data]
  <2>1. \A s \in aw : s \in Slot
    BY DEF WritesToIssue
  <2>. QED BY <1>1, <2>1 DEF MemoryAfter, ControlInv, TypeOK
<1>4. h_address' \in [Line -> Line]
  <2>1. ASSUME NEW l \in Line PROVE Partner(l) \in Line
    <3>1. CASE UnderSwap(l)
      BY <3>1, LineUnderSwap DEF ControlInv
    <3>2. CASE ~UnderSwap(l)
      BY <3>2 DEF Partner
    <3>. QED BY <3>1, <3>2
  <2>. QED BY <1>1, <2>1 DEF ControlInv, TypeOK
<1>5. base_address' \in [Segment -> Line] /\ 0 \in 0 .. EntryNumber /\ data' \in [Slot -> Data]
  BY <1>1, ConstantFacts
<1>6. TypeOK'
  BY <1>1, <1>2, <1>3, <1>4, <1>5 DEF ControlInv, TypeOK
<1>7. FinishCounted'
  BY <1>1, FS_EmptySet DEF FinishCounted
<1>8. NoStrayRead' /\ SwapMatchesRequest' /\ Geometry' /\ IdleIsClear' /\ FlagOrder'
  BY <1>1, <1>2 DEF NoStrayRead, SwapMatchesRequest, Geometry, IdleIsClear, FlagOrder
<1>. QED BY <1>6, <1>7, <1>8 DEF ControlInv

\* Each returning line is one the unit waits for, and fills its own slot.
LEMMA ReturnFacts ==
    ASSUME ControlInv, NEW ls \in SUBSET reads
    PROVE  \A l \in ls : /\ l \in Line /\ UnderSwap(l) /\ states = "Swapping"
                         /\ ArrivalSlot(l) \in Slot
                         /\ ArrivalSlot(l)[1] < active_entry_number
                         /\ ArrivalSlot(l)[1] \notin finish
                         /\ ArrivalSlot(l) \notin read \cup write \cup dirty
                         /\ <<ArrivalSlot(l)[1], 1 - ArrivalSlot(l)[2]>> \in read_issue
                         /\ (CHOOSE m \in ls : ArrivalSlot(m) = ArrivalSlot(l)) = l
<1>. SUFFICES ASSUME NEW l \in ls
              PROVE  /\ l \in Line /\ UnderSwap(l) /\ states = "Swapping"
                     /\ ArrivalSlot(l) \in Slot
                     /\ ArrivalSlot(l)[1] < active_entry_number
                     /\ ArrivalSlot(l)[1] \notin finish
                     /\ ArrivalSlot(l) \notin read \cup write \cup dirty
                     /\ <<ArrivalSlot(l)[1], 1 - ArrivalSlot(l)[2]>> \in read_issue
                     /\ (CHOOSE m \in ls : ArrivalSlot(m) = ArrivalSlot(l)) = l
  OBVIOUS
<1>1. \A m \in ls : m \in Line /\ UnderSwap(m)
  BY DEF ControlInv, TypeOK, NoStrayRead
<1>2. /\ states = "Swapping" /\ SlotOf(l) \in read_issue
      /\ ArrivalSlot(l) \notin read \cup write \cup dirty
  BY DEF ControlInv, NoStrayRead
<1>3. PICK i \in Entry, j \in Segment :
        i < active_entry_number /\ SlotOf(l) = <<i, j>> /\ ArrivalSlot(l) = <<i, 1 - j>>
  BY <1>1, LineUnderSwap DEF ControlInv
<1>4. /\ ArrivalSlot(l)[1] = i /\ ArrivalSlot(l)[2] = 1 - j /\ 1 - (1 - j) = j
      /\ 1 - j \in Segment
  BY <1>3, ConstantFacts
<1>5. i \notin finish
  BY <1>2, <1>3, <1>4, ConstantFacts DEF ControlInv, FinishCounted, Arrived
<1>6. \A m \in ls : ArrivalSlot(m) = ArrivalSlot(l) => m = l
  BY <1>1, ArrivalInjective DEF ControlInv
<1>7. (CHOOSE m \in ls : ArrivalSlot(m) = ArrivalSlot(l)) = l
  BY <1>6
<1>. QED BY <1>1, <1>2, <1>3, <1>4, <1>5, <1>7, SlotParts

LEMMA ReturnReadsControl ==
    ASSUME ControlInv, NEW ls \in SUBSET reads, ReturnReads(ls), UNCHANGED queue
    PROVE  /\ ControlInv'
           /\ read' = read \cup {ArrivalSlot(l) : l \in ls}
           /\ \A l \in ls : data'[ArrivalSlot(l)] = memory[l]
           /\ \A s \in Slot \ {ArrivalSlot(l) : l \in ls} : data'[s] = data[s]
<1>. DEFINE arriving == {ArrivalSlot(l) : l \in ls}
<1>1. /\ UNCHANGED <<states, active_entry_number, finish_number, base_address, finish, read_issue,
                     write, dirty, memory, absorbed, request, h_address>>
      /\ phase' = "initiate" /\ reads' = reads \ ls
  BY DEF ReturnReads, unit, queue
<1>12. \A l \in ls : /\ l \in Line /\ UnderSwap(l) /\ states = "Swapping"
                     /\ ArrivalSlot(l) \in Slot
                     /\ ArrivalSlot(l)[1] \notin finish
                     /\ ArrivalSlot(l) \notin read \cup write \cup dirty
  BY ReturnFacts
<1>2. arriving \subseteq Slot
  BY <1>12
<1>3. {s \in arriving : /\ states = "Swapping" /\ s[1] \notin finish
                        /\ s \notin write \cup dirty} = arriving
  BY <1>12
<1>4. /\ read' = read \cup arriving
      /\ data' = [s \in Slot |-> IF s \in arriving
                                 THEN memory[CHOOSE l \in ls : ArrivalSlot(l) = s] ELSE data[s]]
  BY <1>3 DEF ReturnReads
<1>5. \A l \in ls : data'[ArrivalSlot(l)] = memory[l]
  <2>. SUFFICES ASSUME NEW l \in ls PROVE data'[ArrivalSlot(l)] = memory[l]
    OBVIOUS
  <2>1. ArrivalSlot(l) \in Slot /\ ArrivalSlot(l) \in arriving
    BY <1>2
  <2>2. (CHOOSE m \in ls : ArrivalSlot(m) = ArrivalSlot(l)) = l
    BY ReturnFacts
  <2>. QED BY <1>4, <2>1, <2>2
<1>6. \A s \in Slot \ arriving : data'[s] = data[s]
  BY <1>4
<1>7. TypeOK'
  <2>1. ASSUME NEW s \in Slot PROVE data'[s] \in Data
    <3>1. CASE s \in arriving
      BY <1>5, <3>1, ReturnFacts DEF ControlInv, TypeOK
    <3>2. CASE s \notin arriving
      BY <1>6, <3>2 DEF ControlInv, TypeOK
    <3>. QED BY <3>1, <3>2
  <2>2. data' \in [Slot -> Data]
    BY <1>4, <2>1
  <2>. QED BY <1>1, <1>2, <1>4, <2>2 DEF ControlInv, TypeOK
<1>8. FinishCounted' /\ SwapMatchesRequest' /\ Geometry'
  BY <1>1, <1>4 DEF ControlInv, FinishCounted, SwapMatchesRequest, Geometry, Arrived
<1>9. NoStrayRead'
  <2>. SUFFICES ASSUME NEW l \in reads, l \notin ls
                PROVE  /\ states = "Swapping" /\ UnderSwap(l) /\ SlotOf(l) \in read_issue
                       /\ ArrivalSlot(l) \notin read' \cup write \cup dirty
    BY <1>1 DEF NoStrayRead, UnderSwap, InSegment, SlotOf, ArrivalSlot
  <2>1. /\ l \in Line /\ states = "Swapping" /\ UnderSwap(l) /\ SlotOf(l) \in read_issue
        /\ ArrivalSlot(l) \notin read \cup write \cup dirty
    BY DEF ControlInv, TypeOK, NoStrayRead
  <2>2. ArrivalSlot(l) \notin arriving
    <3>1. ASSUME NEW m \in ls, ArrivalSlot(l) = ArrivalSlot(m) PROVE l = m
      BY <1>12, <2>1, <3>1, ArrivalInjective DEF ControlInv
    <3>. QED BY <3>1
  <2>. QED BY <1>4, <2>1, <2>2
<1>10. IdleIsClear'
  <2>1. CASE ls = {}
    BY <1>1, <1>4, <2>1 DEF ControlInv, IdleIsClear
  <2>2. CASE ls # {}
    BY <1>1, <2>2, ReturnFacts DEF IdleIsClear
  <2>. QED BY <2>1, <2>2
<1>11. FlagOrder'
  BY <1>1, <1>4, ReturnFacts DEF ControlInv, FlagOrder, Arrived
<1>. QED BY <1>4, <1>5, <1>6, <1>7, <1>8, <1>9, <1>10, <1>11 DEF ControlInv

LEMMA StutterControl == ControlInv /\ UNCHANGED vars => ControlInv'
<1>. SUFFICES ASSUME ControlInv, UNCHANGED vars PROVE ControlInv'
  OBVIOUS
<1>. USE DEF vars, unit, flags
<1>1. TypeOK' /\ SwapMatchesRequest' /\ FinishCounted'
  BY DEF ControlInv, TypeOK, SwapMatchesRequest, FinishCounted, Arrived
<1>2. NoStrayRead'
  BY DEF ControlInv, NoStrayRead, UnderSwap, InSegment, SlotOf, ArrivalSlot
<1>3. Geometry' /\ IdleIsClear' /\ FlagOrder'
  BY DEF ControlInv, Geometry, IdleIsClear, FlagOrder, Arrived
<1>. QED BY <1>1, <1>2, <1>3 DEF ControlInv

LEMMA NextControl == ControlInv /\ [Next]_vars => ControlInv'
<1>. SUFFICES ASSUME ControlInv, [Next]_vars PROVE ControlInv'
  OBVIOUS
<1>1. CASE LlcRequest
  BY <1>1, OtherAccessControl, AbsorbWriteControl, WriteMemoryControl DEF LlcRequest
<1>2. CASE UnitCycle
  BY <1>2, IdleCycleControl, StartSwapControl, ContinueSwapControl, FinishSwapControl
  DEF UnitCycle, Transfer
<1>3. CASE Tick
  BY <1>3, ReturnReadsControl DEF Tick
<1>4. CASE UNCHANGED vars
  BY <1>4, StutterControl
<1>. QED BY <1>1, <1>2, <1>3, <1>4 DEF Next

\* The inductive invariant of the control state of the unit.
THEOREM ControlInvariant == Spec => []ControlInv
<1>. QED BY InitControl, NextControl, PTL DEF Spec

\* Every variable of the unit keeps its type, so no counter leaves its range.
THEOREM TypeCorrect == Spec => []TypeOK
<1>1. ControlInv => TypeOK
  BY DEF ControlInv
<1>. QED BY <1>1, ControlInvariant, PTL

\* finish_number counts the finished entries, so operate_swapping() ends a
\* swap exactly when every entry is finished.
THEOREM CountIsExact == Spec => []FinishCounted
<1>1. ControlInv => FinishCounted
  BY DEF ControlInv
<1>. QED BY <1>1, ControlInvariant, PTL

\* The unreachable branches of return_swapping_data() are unreachable.
THEOREM ReadsAreExpected == Spec => []NoStrayRead
<1>1. ControlInv => NoStrayRead
  BY DEF ControlInv
<1>. QED BY <1>1, ControlInvariant, PTL

\* The assertions of operate() about the front of the queue never fail.
THEOREM RequestStaysInFront == Spec => []SwapMatchesRequest
<1>1. ControlInv => SwapMatchesRequest
  BY DEF ControlInv
<1>. QED BY <1>1, ControlInvariant, PTL
-----------------------------------------------------------------------------
(* The data. Where the value of a line is while its entry is being served: *)
(* in its old place until its read returns, then in the slot it arrives    *)
(* at, and in its new place once that slot is written.                     *)

Injective == \A p, q \in Line : h_address[p] = h_address[q] => p = q

Located(p) ==
    LET h == h_address[p]
        t == ArrivalSlot(h)
    IN  /\ ~UnderSwap(h) => memory[h] = p
        /\ UnderSwap(h) => /\ t \notin read => memory[h] = p
                           /\ t \in read => data[t] = p
                           /\ t \in write => memory[Partner(h)] = p

DataInv == Injective /\ \A p \in Tracked \ absorbed : Located(p)

\* A line moves under swapping, in its entry and segment.
LEMMA PartnerInjective ==
    ASSUME TypeOK, Geometry, NEW l \in Line, NEW m \in Line, Partner(l) = Partner(m)
    PROVE  l = m
<1>1. CASE UnderSwap(l) /\ UnderSwap(m)
  BY <1>1, LineUnderSwap
<1>2. CASE UnderSwap(l) /\ ~UnderSwap(m)
  <2>1. Partner(m) = m
    BY <1>2 DEF Partner
  <2>. QED BY <1>2, <2>1, LineUnderSwap
<1>3. CASE ~UnderSwap(l) /\ UnderSwap(m)
  <2>1. Partner(l) = l
    BY <1>3 DEF Partner
  <2>. QED BY <1>3, <2>1, LineUnderSwap
<1>4. CASE ~UnderSwap(l) /\ ~UnderSwap(m)
  BY <1>4 DEF Partner
<1>. QED BY <1>1, <1>2, <1>3, <1>4

\* A line the swap reaches only now that it has grown has a new slot.
LEMMA NewSlots ==
    ASSUME TypeOK, TypeOK', Geometry', UNCHANGED base_address,
           NEW l \in Line, ~UnderSwap(l), UnderSwap(l)'
    PROVE  ~(ArrivalSlot(l)'[1] < active_entry_number)
<1>1. /\ base_address[0] \in Nat /\ base_address[1] \in Nat /\ l \in Nat
      /\ active_entry_number \in Nat /\ active_entry_number' \in Nat
  BY ConstantFacts DEF TypeOK
<1>2. PICK j \in Segment : /\ InSegment(l, j)' /\ ~InSegment(l, j)
                          /\ ArrivalSlot(l)'[1] = l - base_address[j]
  <2>1. CASE InSegment(l, 0)'
    BY <2>1, ConstantFacts DEF UnderSwap, ArrivalSlot, SlotOf
  <2>2. CASE ~InSegment(l, 0)'
    BY <2>2, ConstantFacts DEF UnderSwap, ArrivalSlot, SlotOf
  <2>. QED BY <2>1, <2>2
<1>4. base_address[j] \in Nat
  BY <1>1, <1>2, ConstantFacts
<1>5. base_address[j] <= l /\ ~(l < base_address[j] + active_entry_number)
  BY <1>2 DEF InSegment
<1>. QED BY <1>1, <1>2, <1>4, <1>5

LEMMA IdleSwapsNothing ==
    ASSUME TypeOK, active_entry_number = 0, NEW l \in Line
    PROVE  ~UnderSwap(l)
<1>1. base_address[0] \in Nat /\ base_address[1] \in Nat /\ l \in Nat
  BY ConstantFacts DEF TypeOK
<1>2. ASSUME NEW j \in Segment PROVE ~InSegment(l, j)
  <2>1. base_address[j] \in Nat
    BY <1>1, ConstantFacts
  <2>. QED BY <1>1, <2>1 DEF InSegment
<1>. QED BY <1>2 DEF UnderSwap

LEMMA InitData == Init => DataInv
<1>. SUFFICES ASSUME Init PROVE DataInv
  OBVIOUS
<1>1. \A p \in Line : h_address[p] = p
  BY DEF Init
<1>2. \A p \in Tracked : p \in Line /\ memory[p] = p
  BY ConstantFacts DEF Init, Value
<1>3. \A l \in Line : ~UnderSwap(l)
  BY InitTypeOK, IdleSwapsNothing DEF Init
<1>. QED BY <1>1, <1>2, <1>3 DEF DataInv, Injective, Located

LEMMA OtherAccessData ==
    ASSUME ControlInv, DataInv, OtherAccess, TrackActivity
    PROVE  DataInv'
<1>1. UNCHANGED <<active_entry_number, base_address, read, write, h_address, data, memory, absorbed>>
  BY DEF OtherAccess, TrackActivity, unit, flags
<1>. QED BY <1>1 DEF DataInv, Injective, Located, UnderSwap, InSegment, ArrivalSlot, SlotOf, Partner

LEMMA AgedOther == ASSUME NEW p, NEW q, p # q PROVE Aged(q, p) = q
BY DEF Aged

LEMMA WriteMemoryData ==
    ASSUME ControlInv, DataInv, NEW p \in Line, WriteMemory(p), TrackActivity
    PROVE  DataInv'
<1>1. /\ UNCHANGED <<active_entry_number, base_address, read, write, h_address>>
      /\ ~UnderSwap(h_address[p])
      /\ memory' = [l \in Line |-> IF l = h_address[p] THEN Value(p) ELSE Aged(memory[l], p)]
      /\ data' = [s \in Slot |-> Aged(data[s], p)]
      /\ absorbed' = absorbed \ {p}
  BY DEF WriteMemory, TrackActivity, unit, flags
<1>2. Injective'
  BY <1>1 DEF DataInv, Injective
<1>3. ASSUME NEW q \in Tracked, q \notin absorbed' PROVE Located(q)'
  <2>. DEFINE h == h_address[q]
              t == ArrivalSlot(h)
  <2>1. q \in Line /\ h \in Line
    BY ConstantFacts DEF ControlInv, TypeOK
  <2>2. UnderSwap(h)' = UnderSwap(h) /\ t' = t /\ Partner(h)' = Partner(h) /\ h' = h
    BY <1>1 DEF UnderSwap, InSegment, ArrivalSlot, SlotOf, Partner
  <2>3. CASE q = p
    <3>1. ~UnderSwap(h) /\ memory'[h] = q
      BY <1>1, <2>1, <2>3 DEF Value
    <3>. QED BY <2>2, <3>1 DEF Located
  <2>4. CASE q # p
    <3>1. Located(q) /\ q \notin absorbed
      BY <1>1, <1>3, <2>4 DEF DataInv
    <3>2. h # h_address[p]
      BY <2>1, <2>4 DEF DataInv, Injective
    <3>3. ASSUME ~UnderSwap(h) PROVE memory'[h] = q
      BY <1>1, <2>1, <2>4, <3>1, <3>2, <3>3, AgedOther DEF Located
    <3>4. ASSUME UnderSwap(h)
          PROVE  /\ t \notin read => memory'[h] = q
                 /\ t \in read => data'[t] = q
                 /\ t \in write => memory'[Partner(h)] = q
      <4>1. Partner(h) \in Line /\ UnderSwap(Partner(h)) /\ t \in Slot
        BY <2>1, <3>4, LineUnderSwap, SlotParts, ConstantFacts DEF ControlInv
      <4>2. Partner(h) # h_address[p]
        BY <1>1, <4>1
      <4>3. Aged(q, p) = q
        BY <2>4, AgedOther
      <4>. QED BY <1>1, <2>1, <3>1, <3>2, <3>4, <4>1, <4>2, <4>3 DEF Located
    <3>. QED BY <1>1, <2>2, <3>3, <3>4 DEF Located
  <2>. QED BY <2>3, <2>4
<1>. QED BY <1>2, <1>3 DEF DataInv

\* A write into the buffer touches the values of its line and of the partner.
LEMMA AbsorbWriteData ==
    ASSUME ControlInv, DataInv, NEW p \in Line, AbsorbWrite(p), TrackActivity
    PROVE  DataInv'
<1>. DEFINE k == h_address[p]
            s == SlotOf(k)
<1>1. /\ UNCHANGED <<active_entry_number, base_address, read, write, h_address>>
      /\ UnderSwap(k)
      /\ data' = [t \in Slot |-> IF t = s THEN Value(p) ELSE Aged(data[t], p)]
      /\ memory' = [l \in Line |-> Aged(memory[l], p)]
      /\ absorbed' = absorbed \cup {q \in Tracked : h_address[q] \in {k, Partner(k)}}
  BY DEF AbsorbWrite, TrackActivity
<1>2. Injective'
  BY <1>1 DEF DataInv, Injective
<1>3. k \in Line
  BY DEF ControlInv, TypeOK
<1>4. Partner(k) \in Line /\ UnderSwap(Partner(k)) /\ ArrivalSlot(Partner(k)) = s
  <2>1. PICK i \in Entry, j \in Segment :
          /\ SlotOf(k) = <<i, j>> /\ Partner(k) \in Line /\ UnderSwap(Partner(k))
          /\ SlotOf(Partner(k)) = <<i, 1 - j>>
    BY <1>1, <1>3, LineUnderSwap DEF ControlInv
  <2>2. 1 - (1 - j) = j
    BY ConstantFacts
  <2>. QED BY <2>1, <2>2 DEF ArrivalSlot
<1>5. ASSUME NEW q \in Tracked, q \notin absorbed' PROVE Located(q)'
  <2>. DEFINE h == h_address[q]
              t == ArrivalSlot(h)
  <2>1. q \in Line /\ h \in Line
    BY ConstantFacts DEF ControlInv, TypeOK
  <2>2. UnderSwap(h)' = UnderSwap(h) /\ t' = t /\ Partner(h)' = Partner(h) /\ h' = h
    BY <1>1 DEF UnderSwap, InSegment, ArrivalSlot, SlotOf, Partner
  <2>3. q \notin absorbed /\ h # k /\ h # Partner(k) /\ q # p
    BY <1>1, <1>5
  <2>4. Located(q) /\ Aged(q, p) = q
    BY <2>3, AgedOther DEF DataInv
  <2>5. ASSUME ~UnderSwap(h) PROVE memory'[h] = q
    BY <1>1, <2>1, <2>4, <2>5 DEF Located
  <2>6. ASSUME UnderSwap(h)
        PROVE  /\ t \notin read => memory'[h] = q
               /\ t \in read => data'[t] = q
               /\ t \in write => memory'[Partner(h)] = q
    <3>1. Partner(h) \in Line /\ t \in Slot
      BY <2>1, <2>6, LineUnderSwap, SlotParts, ConstantFacts DEF ControlInv
    <3>2. t # s
      BY <1>4, <2>1, <2>3, <2>6, ArrivalInjective DEF ControlInv
    <3>. QED BY <1>1, <2>1, <2>4, <2>6, <3>1, <3>2 DEF Located
  <2>. QED BY <1>1, <2>2, <2>5, <2>6 DEF Located
<1>. QED BY <1>2, <1>5 DEF DataInv

LEMMA StartSwapData ==
    ASSUME ControlInv, DataInv, IdleCycle \/ StartSwap, UNCHANGED queue
    PROVE  DataInv'
<1>1. /\ UNCHANGED <<read, write, h_address, data, memory, absorbed>>
      /\ states = "Idle"
  BY DEF IdleCycle, StartSwap, queue, unit, flags
<1>2. active_entry_number = 0 /\ read = {} /\ write = {}
  BY <1>1 DEF ControlInv, IdleIsClear
<1>3. ASSUME NEW p \in Tracked, p \notin absorbed PROVE memory[h_address[p]] = p
  <2>1. h_address[p] \in Line
    BY ConstantFacts DEF ControlInv, TypeOK
  <2>2. ~UnderSwap(h_address[p])
    BY <1>2, <2>1, IdleSwapsNothing DEF ControlInv
  <2>. QED BY <1>3, <2>2 DEF DataInv, Located
<1>4. \A p \in Tracked \ absorbed' : Located(p)'
  BY <1>1, <1>2, <1>3 DEF Located
<1>. QED BY <1>1, <1>4 DEF DataInv, Injective

\* What the writes of a cycle leave in the memories.
LEMMA WrittenMemory ==
    ASSUME ControlInv, DataInv, NEW aw \in SUBSET WritesToIssue,
           NEW p \in Tracked, p \notin absorbed
    PROVE  LET h == h_address[p]
               t == ArrivalSlot(h)
           IN  /\ h \in Line
               /\ ~UnderSwap(h) => MemoryAfter(aw)[h] = p
               /\ UnderSwap(h) => /\ t \notin read => MemoryAfter(aw)[h] = p
                                  /\ t \in read => data[t] = p
                                  /\ t \in write \cup aw => MemoryAfter(aw)[Partner(h)] = p
<1>. DEFINE h == h_address[p]
            t == ArrivalSlot(h)
<1>1. h \in Line
  BY ConstantFacts DEF ControlInv, TypeOK
<1>2. Located(p)
  BY DEF DataInv
<1>3. \A l \in Line : MemoryAfter(aw)[l] =
        IF UnderSwap(l) /\ SlotOf(l) \in aw THEN data[SlotOf(l)] ELSE memory[l]
  BY DEF MemoryAfter
<1>4. ASSUME ~UnderSwap(h) PROVE MemoryAfter(aw)[h] = p
  BY <1>1, <1>2, <1>3, <1>4 DEF Located
<1>5. ASSUME UnderSwap(h)
      PROVE  /\ t \notin read => MemoryAfter(aw)[h] = p
             /\ t \in read => data[t] = p
             /\ t \in write \cup aw => MemoryAfter(aw)[Partner(h)] = p
  <2>1. PICK i \in Entry, j \in Segment :
          /\ SlotOf(h) = <<i, j>> /\ t = <<i, 1 - j>>
          /\ Partner(h) \in Line /\ UnderSwap(Partner(h)) /\ SlotOf(Partner(h)) = <<i, 1 - j>>
    BY <1>1, <1>5, LineUnderSwap DEF ControlInv
  <2>2. \A s \in aw : Arrived(s[1]) /\ s \in Slot
    BY DEF WritesToIssue
  <2>3. 1 - j = 0 \/ 1 - j = 1
    BY ConstantFacts
  <2>4. SlotOf(h) \in aw \/ t \in aw => t \in read
    <3>1. SlotOf(h)[1] = i /\ t[1] = i
      BY <2>1
    <3>2. SlotOf(h) \in aw \/ t \in aw => Arrived(i)
      BY <2>2, <3>1
    <3>. QED BY <2>1, <2>3, <3>2 DEF Arrived
  <2>5. /\ t \notin read => memory[h] = p
        /\ t \in read => data[t] = p
        /\ t \in write => memory[Partner(h)] = p
    BY <1>2, <1>5 DEF Located
  <2>6. t \notin read => MemoryAfter(aw)[h] = p
    BY <1>1, <1>3, <2>4, <2>5
  <2>7. t \in write \cup aw => MemoryAfter(aw)[Partner(h)] = p
    BY <1>3, <2>1, <2>4, <2>5
  <2>. QED BY <2>5, <2>6, <2>7
<1>. QED BY <1>1, <1>4, <1>5

LEMMA ContinueSwapData ==
    ASSUME ControlInv, DataInv, NEW ar \in SUBSET ReadsToIssue, NEW aw \in SUBSET WritesToIssue,
           ContinueSwap(ar, aw), UNCHANGED queue
    PROVE  DataInv'
<1>1. /\ UNCHANGED <<base_address, read, data, absorbed, h_address>>
      /\ memory' = MemoryAfter(aw) /\ write' = write \cup aw
  BY DEF ContinueSwap, IssueRequests, queue
<1>2. ControlInv' /\ active_entry_number <= active_entry_number'
  BY ContinueSwapControl
<1>3. TypeOK /\ Geometry /\ TypeOK' /\ Geometry'
  BY <1>2 DEF ControlInv
<1>4. Injective'
  BY <1>1 DEF DataInv, Injective
<1>5. ASSUME NEW p \in Tracked, p \notin absorbed PROVE Located(p)'
  <2>. DEFINE h == h_address[p]
              t == ArrivalSlot(h)
  <2>1. /\ h \in Line
        /\ ~UnderSwap(h) => memory'[h] = p
        /\ UnderSwap(h) => /\ t \notin read => memory'[h] = p
                           /\ t \in read => data[t] = p
                           /\ t \in write' => memory'[Partner(h)] = p
    BY <1>1, <1>5, WrittenMemory
  <2>2. CASE UnderSwap(h)
    <3>1. UnderSwap(h)' /\ ArrivalSlot(h)' = t /\ Partner(h)' = Partner(h)
      <4>1. ASSUME NEW l \in Line, UnderSwap(l)
            PROVE  UnderSwap(l)' /\ ArrivalSlot(l)' = ArrivalSlot(l) /\ Partner(l)' = Partner(l)
        BY <1>1, <1>2, <1>3, <4>1, GrowthKeepsSlots
      <4>2. PICK l \in Line : l = h /\ UnderSwap(l)
        BY <2>1, <2>2
      <4>. QED BY <1>1, <4>1, <4>2
    <3>. QED BY <1>1, <2>1, <2>2, <3>1 DEF Located
  <2>3. CASE ~UnderSwap(h)
    <3>1. ASSUME UnderSwap(h)' PROVE ArrivalSlot(h)' \notin read /\ ArrivalSlot(h)' \notin write'
      <4>1. PICK l \in Line : l = h
        BY <2>1
      <4>2. ~UnderSwap(l) /\ UnderSwap(l)' /\ ArrivalSlot(h)' = ArrivalSlot(l)'
        BY <1>1, <2>3, <3>1, <4>1
      <4>3. ~(ArrivalSlot(l)'[1] < active_entry_number)
        BY <1>1, <1>3, <4>2, NewSlots
      <4>4. \A s \in read : s[1] < active_entry_number
        BY DEF ControlInv, FlagOrder
      <4>5. \A s \in write' : s \in read
        BY <1>1, IssuedFacts
      <4>. QED BY <4>2, <4>3, <4>4, <4>5
    <3>. QED BY <1>1, <2>1, <2>3, <3>1 DEF Located
  <2>. QED BY <2>2, <2>3
<1>. QED BY <1>1, <1>4, <1>5 DEF DataInv

\* When the swap ends every slot has been written, so every value is where the
\* remapping table now sends its line.
LEMMA FinishSwapData ==
    ASSUME ControlInv, DataInv, NEW ar \in SUBSET ReadsToIssue, NEW aw \in SUBSET WritesToIssue,
           FinishSwap(ar, aw), FinishRemappingRequest
    PROVE  DataInv'
<1>1. /\ active_entry_number' = 0 /\ absorbed' = absorbed
      /\ memory' = MemoryAfter(aw)
      /\ h_address' = [p \in Line |-> Partner(h_address[p])]
      /\ FinishNumberAfter(aw) = active_entry_number
  BY DEF FinishSwap, IssueRequests, FinishRemappingRequest
<1>2. TypeOK /\ Geometry /\ TypeOK'
  BY FinishSwapControl DEF ControlInv
<1>3. Injective'
  <2>. SUFFICES ASSUME NEW p \in Line, NEW q \in Line, Partner(h_address[p]) = Partner(h_address[q])
                PROVE  p = q
    BY <1>1 DEF Injective
  <2>1. h_address[p] \in Line /\ h_address[q] \in Line
    BY <1>2 DEF TypeOK
  <2>2. h_address[p] = h_address[q]
    BY <1>2, <2>1, PartnerInjective
  <2>. QED BY <2>2 DEF DataInv, Injective
<1>4. ASSUME NEW p \in Tracked, p \notin absorbed PROVE Located(p)'
  <2>. DEFINE h == h_address[p]
              t == ArrivalSlot(h)
  <2>1. h \in Line /\ h_address'[p] = Partner(h) /\ h_address'[p] \in Line
    BY <1>1, <1>2, ConstantFacts DEF TypeOK
  <2>2. memory'[Partner(h)] = p
    <3>1. CASE ~UnderSwap(h)
      BY <1>1, <1>4, <3>1, WrittenMemory DEF Partner
    <3>2. CASE UnderSwap(h)
      <4>1. PICK i \in Entry, j \in Segment : i < active_entry_number /\ t = <<i, 1 - j>>
        BY <1>2, <2>1, <3>2, LineUnderSwap
      <4>2. active_entry_number \in Nat /\ (1 - j = 0 \/ 1 - j = 1)
        BY <1>2, ConstantFacts DEF TypeOK
      <4>3. finish \cup Completed(aw) = 0 .. active_entry_number - 1
        BY <1>1, FinishNumberFacts DEF ControlInv
      <4>4. i \in finish \cup Completed(aw)
        BY <4>1, <4>2, <4>3, ConstantFacts
      <4>5. <<i, 0>> \in write \cup aw /\ <<i, 1>> \in write \cup aw
        BY <4>4, IssuedFacts
      <4>6. t \in write \cup aw
        BY <4>1, <4>2, <4>5
      <4>. QED BY <1>1, <1>4, <3>2, <4>6, WrittenMemory
    <3>. QED BY <3>1, <3>2
  <2>3. ~UnderSwap(h_address[p])'
    <3>1. ASSUME NEW l \in Line PROVE ~UnderSwap(l)'
      <4>1. base_address'[0] \in Nat /\ base_address'[1] \in Nat /\ l \in Nat
        BY <1>2, ConstantFacts DEF TypeOK
      <4>2. ASSUME NEW j \in Segment PROVE ~InSegment(l, j)'
        <5>1. base_address'[j] \in Nat
          BY <4>1, ConstantFacts
        <5>. QED BY <1>1, <4>1, <5>1 DEF InSegment
      <4>. QED BY <4>2 DEF UnderSwap
    <3>2. PICK l \in Line : l = h_address'[p]
      BY <2>1
    <3>. QED BY <3>1, <3>2
  <2>. QED BY <2>1, <2>2, <2>3 DEF Located
<1>. QED BY <1>1, <1>3, <1>4 DEF DataInv

LEMMA ReturnReadsData ==
    ASSUME ControlInv, DataInv, NEW ls \in SUBSET reads, ReturnReads(ls), UNCHANGED queue
    PROVE  DataInv'
<1>1. UNCHANGED <<active_entry_number, base_address, write, memory, absorbed, h_address>>
  BY DEF ReturnReads, unit, queue
<1>2. /\ read' = read \cup {ArrivalSlot(l) : l \in ls}
      /\ \A l \in ls : data'[ArrivalSlot(l)] = memory[l]
      /\ \A s \in Slot \ {ArrivalSlot(l) : l \in ls} : data'[s] = data[s]
  BY ReturnReadsControl
<1>3. \A l \in ls : l \in Line /\ UnderSwap(l) /\ ArrivalSlot(l) \notin read
  BY ReturnFacts
<1>4. Injective'
  BY <1>1 DEF DataInv, Injective
<1>5. ASSUME NEW p \in Tracked, p \notin absorbed PROVE Located(p)'
  <2>. DEFINE h == h_address[p]
              t == ArrivalSlot(h)
  <2>1. h \in Line /\ Located(p)
    BY <1>5, ConstantFacts DEF ControlInv, TypeOK, DataInv
  <2>2. UnderSwap(h)' = UnderSwap(h) /\ ArrivalSlot(h)' = t /\ Partner(h)' = Partner(h) /\ h' = h
    BY <1>1 DEF UnderSwap, InSegment, ArrivalSlot, SlotOf, Partner
  <2>3. CASE ~UnderSwap(h)
    BY <1>1, <2>1, <2>2, <2>3 DEF Located
  <2>4. CASE UnderSwap(h)
    <3>1. t \in Slot
      BY <2>1, <2>4, LineUnderSwap, SlotParts, ConstantFacts DEF ControlInv
    <3>2. CASE t \in {ArrivalSlot(l) : l \in ls}
      <4>1. PICK l \in ls : ArrivalSlot(l) = t
        BY <3>2
      <4>2. l = h
        BY <1>3, <2>1, <2>4, <4>1, ArrivalInjective DEF ControlInv
      <4>3. data'[t] = p
        BY <1>2, <1>3, <2>1, <2>4, <4>1, <4>2 DEF Located
      <4>. QED BY <1>1, <1>2, <2>1, <2>2, <2>4, <3>2, <4>3 DEF Located
    <3>3. CASE t \notin {ArrivalSlot(l) : l \in ls}
      <4>1. data'[t] = data[t] /\ (t \in read' <=> t \in read)
        BY <1>2, <3>1, <3>3
      <4>. QED BY <1>1, <2>1, <2>2, <2>4, <4>1 DEF Located
    <3>. QED BY <3>2, <3>3
  <2>. QED BY <2>3, <2>4
<1>. QED BY <1>1, <1>4, <1>5 DEF DataInv

LEMMA NextData == ControlInv /\ DataInv /\ [Next]_vars => DataInv'
<1>. SUFFICES ASSUME ControlInv, DataInv, [Next]_vars PROVE DataInv'
  OBVIOUS
<1>1. CASE LlcRequest
  BY <1>1, OtherAccessData, AbsorbWriteData, WriteMemoryData DEF LlcRequest
<1>2. CASE UnitCycle
  BY <1>2, StartSwapData, ContinueSwapData, FinishSwapData DEF UnitCycle, Transfer
<1>3. CASE Tick
  BY <1>3, ReturnReadsData DEF Tick
<1>4. CASE UNCHANGED vars
  BY <1>4 DEF vars, unit, flags, DataInv, Injective, Located, UnderSwap, InSegment, ArrivalSlot,
              SlotOf, Partner
<1>. QED BY <1>1, <1>2, <1>3, <1>4 DEF Next

THEOREM DataInvariant == Spec => []DataInv
<1>. QED BY InitData, ControlInvariant, NextData, PTL DEF Spec

\* A swap of any length loses or duplicates no value: every line that no write
\* touched in the buffer is found where the remapping table sends it.
THEOREM SwapsPreserveData == Spec => []UntouchedDataPreserved
<1>1. DataInv => UntouchedDataPreserved
  BY DEF DataInv, Located, UntouchedDataPreserved
<1>. QED BY <1>1, DataInvariant, PTL

=============================================================================
