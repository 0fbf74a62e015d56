------------------------- MODULE CameoSystem_proofs -------------------------
(***************************************************************************)
(* Proofs about CAMEO for every number of groups and members, every queue  *)
(* length, counter width and threshold: its table and queue by themselves  *)
(* (module Cameo), and with the swapping unit, where CAMEO implements the  *)
(* unit's view of a management (module SwappingUnit). The queue's front    *)
(* and the table are mapped to the request and the translation the unit    *)
(* knows.                                                                  *)
(***************************************************************************)
EXTENDS CameoSystem, TLAPS

\* Some member of every group holds the fast location, so FastMember(g) exists.
FastLocationTaken == \A g \in Group : \E m \in Location : line_location_table[g][m] = 0

\* The inductive invariant: RequestsCurrent is kept by FinishRemapping only
\* because no other request is for the same group, and LinesDistinct only
\* because the exchanged members are different ones.
CameoInv == TypeOK /\ LinesDistinct /\ FastLocationTaken /\ OneRequestPerGroup /\ RequestsCurrent
-----------------------------------------------------------------------------
LEMMA LocationZero == 0 \in Location
BY CameoAssumption DEF Location

LEMMA FastMemberFound ==
    ASSUME TypeOK, FastLocationTaken, LinesDistinct, NEW g \in Group
    PROVE  FastMember(g) \in Location /\ line_location_table[g][FastMember(g)] = 0
<1>1. PICK m \in Location : line_location_table[g][m] = 0
  BY DEF FastLocationTaken
<1>2. \A n \in Location : line_location_table[g][n] = 0 => m <= n
  BY <1>1, CameoAssumption DEF LinesDistinct, Location
<1>. QED BY <1>1, <1>2 DEF FastMember

\* What memory_activity_tracking() may do to the queue: nothing, or append a
\* request that is current, for a group that has none.
LEMMA QueueAfterCases ==
    ASSUME CameoInv, NEW b \in Block, NEW busy \in BOOLEAN
    PROVE  \/ QueueAfter(b, busy) = remapping_request_queue
           \/ /\ QueueAfter(b, busy) = Append(remapping_request_queue, RequestFor(b))
              /\ ~IsQueued(b[1])
              /\ Len(remapping_request_queue) < QueueLength
              /\ RequestFor(b) \in Request
              /\ RequestFor(b).group = b[1]
              /\ RequestFor(b).address_in_fm = 0
              /\ RequestFor(b).address_in_sm # 0
              /\ line_location_table[b[1]][RequestFor(b).fm_location] = 0
              /\ line_location_table[b[1]][RequestFor(b).sm_location] = RequestFor(b).address_in_sm
<1>1. b[1] \in Group /\ b[2] \in Location
  BY DEF Block
<1>2. FastMember(b[1]) \in Location /\ line_location_table[b[1]][FastMember(b[1])] = 0
  BY <1>1, FastMemberFound DEF CameoInv
<1>3. line_location_table[b[1]][b[2]] \in Location
  BY <1>1 DEF CameoInv, TypeOK
<1>. QED BY <1>1, <1>2, <1>3, LocationZero DEF QueueAfter, RequestFor, Request

LEMMA CountInRange ==
    ASSUME TypeOK, NEW b \in Block
    PROVE  CountAfter(b) \in 0 .. CounterMax
BY CameoAssumption DEF TypeOK, CountAfter

LEMMA InitInv == Init => CameoInv
<1>. SUFFICES ASSUME Init PROVE CameoInv
  OBVIOUS
<1>. USE CameoAssumption, LocationZero DEF Init
<1>1. TypeOK
  <2>1. remapping_request_queue \in Seq(Request) /\ Len(remapping_request_queue) <= QueueLength
    OBVIOUS
  <2>. QED BY <2>1 DEF TypeOK
<1>2. LinesDistinct BY DEF LinesDistinct
<1>3. FastLocationTaken BY DEF FastLocationTaken
<1>4. OneRequestPerGroup /\ RequestsCurrent BY DEF OneRequestPerGroup, RequestsCurrent
<1>. QED BY <1>1, <1>2, <1>3, <1>4 DEF CameoInv

LEMMA TrackActivityInv ==
    ASSUME CameoInv, NEW b \in Block, NEW busy \in BOOLEAN, TrackActivity(b, busy)
    PROVE  CameoInv'
<1>. DEFINE q == remapping_request_queue
            r == RequestFor(b)
<1>0. q \in Seq(Request) /\ Len(q) \in Nat /\ Len(q) <= QueueLength
  BY DEF CameoInv, TypeOK
<1>1. UNCHANGED line_location_table
  BY DEF TrackActivity
<1>2. LinesDistinct' /\ FastLocationTaken'
  BY <1>1 DEF CameoInv, LinesDistinct, FastLocationTaken
<1>3. counter_table' \in [Block -> 0 .. CounterMax] /\ hotness_table' \subseteq Block
  BY CountInRange DEF TrackActivity, CameoInv, TypeOK
<1>4. CASE q' = q
  BY <1>1, <1>2, <1>3, <1>4 DEF CameoInv, TypeOK, OneRequestPerGroup, RequestsCurrent
<1>5. CASE q' # q
  <2>1. /\ q' = Append(q, r)
        /\ ~IsQueued(b[1])
        /\ Len(q) < QueueLength
        /\ r \in Request
        /\ r.group = b[1] /\ r.address_in_fm = 0 /\ r.address_in_sm # 0
        /\ line_location_table[b[1]][r.fm_location] = 0
        /\ line_location_table[b[1]][r.sm_location] = r.address_in_sm
    BY <1>5, QueueAfterCases DEF TrackActivity
  <2>. HIDE DEF r
  <2>2. /\ q' \in Seq(Request)
        /\ Len(q') = Len(q) + 1
        /\ \A i \in 1 .. Len(q) : q'[i] = q[i]
        /\ q'[Len(q) + 1] = r
    BY <1>0, <2>1
  <2>3. TypeOK'
    BY <1>0, <1>1, <1>3, <2>1, <2>2, CameoAssumption DEF CameoInv, TypeOK
  <2>4. OneRequestPerGroup'
    <3>. SUFFICES ASSUME NEW i \in 1 .. Len(q'), NEW j \in 1 .. Len(q'), q'[i].group = q'[j].group
                  PROVE  i = j
      BY DEF OneRequestPerGroup
    <3>1. \A k \in 1 .. Len(q) : q[k].group # b[1]
      BY <2>1 DEF IsQueued
    <3>. QED BY <1>0, <2>1, <2>2, <3>1 DEF CameoInv, OneRequestPerGroup
  <2>5. RequestsCurrent'
    <3>. SUFFICES ASSUME NEW i \in 1 .. Len(q')
                  PROVE  /\ q'[i].address_in_fm = 0
                         /\ q'[i].address_in_sm # 0
                         /\ line_location_table[q'[i].group][q'[i].fm_location] = q'[i].address_in_fm
                         /\ line_location_table[q'[i].group][q'[i].sm_location] = q'[i].address_in_sm
      BY <1>1 DEF RequestsCurrent
    <3>. QED BY <1>0, <2>1, <2>2 DEF CameoInv, RequestsCurrent
  <2>. QED BY <1>2, <2>3, <2>4, <2>5 DEF CameoInv
<1>. QED BY <1>4, <1>5

LEMMA FinishRemappingInv ==
    ASSUME CameoInv, FinishRemapping
    PROVE  CameoInv'
<1>. DEFINE q == remapping_request_queue
            llt == line_location_table
            r == Head(q)
<1>0. /\ q \in Seq(Request) /\ q # << >> /\ Len(q) \in Nat \ {0} /\ Len(q) <= QueueLength
      /\ r = q[1] /\ r \in Request
  BY DEF CameoInv, TypeOK, FinishRemapping
<1>1. /\ r.group \in Group /\ r.fm_location \in Location /\ r.sm_location \in Location
      /\ llt[r.group][r.fm_location] = 0
      /\ llt[r.group][r.sm_location] # 0
  <2>1. 1 \in 1 .. Len(q) BY <1>0
  <2>. QED BY <1>0, <2>1 DEF CameoInv, RequestsCurrent, Request
<1>2. llt \in [Group -> [Location -> Location]]
  BY DEF CameoInv, TypeOK
<1>3. /\ llt' \in [Group -> [Location -> Location]]
      /\ \A g \in Group : g # r.group => llt'[g] = llt[g]
      /\ \A m \in Location :
            llt'[r.group][m] = IF m = r.fm_location THEN llt[r.group][r.sm_location]
                               ELSE IF m = r.sm_location THEN llt[r.group][r.fm_location]
                               ELSE llt[r.group][m]
  <2>1. llt' = [llt EXCEPT ![r.group] = Exchanged(llt[r.group], r.fm_location, r.sm_location)]
    BY DEF FinishRemapping
  <2>2. llt[r.group] \in [Location -> Location]
    BY <1>1, <1>2
  <2>3. Exchanged(llt[r.group], r.fm_location, r.sm_location) =
          [m \in Location |-> IF m = r.fm_location THEN llt[r.group][r.sm_location]
                              ELSE IF m = r.sm_location THEN llt[r.group][r.fm_location]
                              ELSE llt[r.group][m]]
    BY <1>1, <2>2 DEF Exchanged
  <2>4. llt'[r.group] = Exchanged(llt[r.group], r.fm_location, r.sm_location)
    BY <1>1, <1>2, <2>1
  <2>5. llt'[r.group] \in [Location -> Location]
    BY <1>1, <2>2, <2>3, <2>4
  <2>6. \A g \in Group : g # r.group => llt'[g] = llt[g]
    BY <1>2, <2>1
  <2>7. llt' \in [Group -> [Location -> Location]]
    BY <1>1, <1>2, <2>1, <2>4, <2>5
  <2>. QED BY <2>3, <2>4, <2>6, <2>7
<1>. HIDE DEF r, llt, q
<1>4. LinesDistinct'
  <2>. SUFFICES ASSUME NEW g \in Group, NEW m \in Location, NEW n \in Location,
                       llt'[g][m] = llt'[g][n]
                PROVE  m = n
    BY DEF LinesDistinct, llt
  <2>1. \A i, j \in Location : llt[g][i] = llt[g][j] => i = j
    BY DEF CameoInv, LinesDistinct, llt
  <2>2. CASE g # r.group
    BY <2>1, <2>2, <1>3
  <2>3. CASE g = r.group
    BY <2>1, <2>3, <1>1, <1>3
  <2>. QED BY <2>2, <2>3
<1>5. FastLocationTaken'
  <2>. SUFFICES ASSUME NEW g \in Group PROVE \E m \in Location : llt'[g][m] = 0
    BY DEF FastLocationTaken, llt
  <2>1. CASE g = r.group
    BY <2>1, <1>1, <1>3
  <2>2. CASE g # r.group
    BY <2>2, <1>3 DEF CameoInv, FastLocationTaken, llt
  <2>. QED BY <2>1, <2>2
<1>6. /\ q' \in Seq(Request) /\ Len(q') = Len(q) - 1
      /\ \A i \in 1 .. Len(q') : q'[i] = q[i + 1] /\ i + 1 \in 1 .. Len(q)
  <2>1. q' = Tail(q)
    BY DEF FinishRemapping, q
  <2>. QED BY <1>0, <2>1
<1>7. TypeOK'
  <2>1. UNCHANGED <<counter_table, hotness_table>>
    BY DEF FinishRemapping
  <2>2. Len(q') <= QueueLength
    BY <1>0, <1>6, CameoAssumption
  <2>. QED BY <1>3, <1>6, <2>1, <2>2 DEF CameoInv, TypeOK, q, llt
<1>8. \A i \in 1 .. Len(q') : q'[i].group # r.group
  <2>. TAKE i \in 1 .. Len(q')
  <2>1. i + 1 \in 1 .. Len(q) /\ 1 \in 1 .. Len(q) /\ i + 1 # 1
    BY <1>0, <1>6
  <2>. QED BY <1>0, <1>6, <2>1 DEF CameoInv, OneRequestPerGroup, q
<1>9. OneRequestPerGroup'
  <2>. SUFFICES ASSUME NEW i \in 1 .. Len(q'), NEW j \in 1 .. Len(q'), q'[i].group = q'[j].group
                PROVE  i = j
    BY DEF OneRequestPerGroup, q
  <2>1. i + 1 = j + 1
    BY <1>6 DEF CameoInv, OneRequestPerGroup, q
  <2>. QED BY <2>1
<1>10. RequestsCurrent'
  <2>. SUFFICES ASSUME NEW i \in 1 .. Len(q')
                PROVE  /\ q'[i].address_in_fm = 0
                       /\ q'[i].address_in_sm # 0
                       /\ llt'[q'[i].group][q'[i].fm_location] = q'[i].address_in_fm
                       /\ llt'[q'[i].group][q'[i].sm_location] = q'[i].address_in_sm
    BY DEF RequestsCurrent, q, llt
  <2>1. q'[i] = q[i + 1] /\ i + 1 \in 1 .. Len(q)
    BY <1>6
  <2>2. q[i + 1] \in Request
    BY <1>0, <2>1
  <2>3. llt'[q'[i].group] = llt[q'[i].group]
    BY <1>3, <1>8, <2>1, <2>2 DEF Request
  <2>. QED BY <2>1, <2>3 DEF CameoInv, RequestsCurrent, q, llt
<1>. QED BY <1>4, <1>5, <1>7, <1>9, <1>10 DEF CameoInv

LEMMA StutterInv == CameoInv /\ UNCHANGED cameoVars => CameoInv'
BY DEF cameoVars, CameoInv, TypeOK, LinesDistinct, FastLocationTaken, OneRequestPerGroup,
       RequestsCurrent

\* The invariant holds in every state of CAMEO, with any interleaving of
\* tracked accesses and finished remappings.
THEOREM CameoInvariant == Spec => []CameoInv
<1>1. Init => CameoInv
  BY InitInv
<1>2. CameoInv /\ [Next]_cameoVars => CameoInv'
  BY TrackActivityInv, FinishRemappingInv, StutterInv DEF Next
<1>. QED BY <1>1, <1>2, PTL DEF Spec

\* The counters, locations and requests have their ranges, and the queue is
\* never longer than its limit (memory_activity_tracking, enqueue).
THEOREM TypeCorrect == Spec => []TypeOK
BY CameoInvariant, PTL DEF CameoInv

\* No two members of a congruence group share a location
\* (finish_remapping_request).
THEOREM TableIsInjective == Spec => []LinesDistinct
BY CameoInvariant, PTL DEF CameoInv

\* There is one request per group, and it names where its members are, however
\* long it waits (enqueue_remapping_request, finish_remapping_request).
THEOREM QueueIsCurrent == Spec => []QueueCurrent
BY CameoInvariant, PTL DEF CameoInv, QueueCurrent
-----------------------------------------------------------------------------
\* The block a request brings to fast memory is hot.
QueuedBlocksHot ==
    \A i \in 1 .. Len(remapping_request_queue) :
        <<remapping_request_queue[i].group, remapping_request_queue[i].sm_location>> \in hotness_table

LEMMA QueuedBlocksHotStep ==
    ASSUME CameoInv, QueuedBlocksHot, [Next]_cameoVars
    PROVE  QueuedBlocksHot'
<1>. DEFINE q == remapping_request_queue
<1>0. q \in Seq(Request) /\ Len(q) \in Nat
  BY DEF CameoInv, TypeOK
<1>1. CASE UNCHANGED cameoVars
  BY <1>1 DEF cameoVars, QueuedBlocksHot
<1>2. ASSUME NEW b \in Block, NEW busy \in BOOLEAN, TrackActivity(b, busy)
      PROVE  QueuedBlocksHot'
  <2>1. hotness_table \subseteq hotness_table'
    BY <1>2 DEF TrackActivity
  <2>2. CASE q' = q
    BY <2>1, <2>2 DEF QueuedBlocksHot
  <2>3. CASE q' # q
    <3>1. q' = Append(q, RequestFor(b)) /\ IsHotAfter(b)
      BY <1>2, <2>3 DEF TrackActivity, QueueAfter
    <3>2. b \in hotness_table'
      BY <1>2, <3>1 DEF TrackActivity, IsHotAfter
    <3>3. <<RequestFor(b).group, RequestFor(b).sm_location>> = b
      BY DEF RequestFor, Block
    <3>4. /\ Len(q') = Len(q) + 1
          /\ \A i \in 1 .. Len(q) : q'[i] = q[i]
          /\ q'[Len(q) + 1] = RequestFor(b)
      BY <1>0, <3>1, <1>2, <2>3, QueueAfterCases DEF TrackActivity
    <3>5. ASSUME NEW i \in 1 .. Len(q')
          PROVE  <<q'[i].group, q'[i].sm_location>> \in hotness_table'
      BY <1>0, <2>1, <3>2, <3>3, <3>4, <3>5 DEF QueuedBlocksHot
    <3>. QED BY <3>5 DEF QueuedBlocksHot
  <2>. QED BY <2>2, <2>3
<1>3. CASE FinishRemapping
  <2>1. /\ hotness_table' = hotness_table
        /\ Len(q') = Len(q) - 1
        /\ \A i \in 1 .. Len(q') : q'[i] = q[i + 1] /\ i + 1 \in 1 .. Len(q)
    BY <1>0, <1>3 DEF FinishRemapping
  <2>. QED BY <2>1 DEF QueuedBlocksHot
<1>. QED BY <1>1, <1>2, <1>3 DEF Next

LEMMA PromotionStep ==
    ASSUME CameoInv, QueuedBlocksHot, [Next]_cameoVars, NEW b \in Block,
           line_location_table[b[1]][b[2]] # 0,
           line_location_table'[b[1]][b[2]] = 0
    PROVE  /\ b \in hotness_table
           /\ line_location_table'[b[1]][FastMember(b[1])] = line_location_table[b[1]][b[2]]
<1>. DEFINE q == remapping_request_queue
            llt == line_location_table
            r == Head(q)
<1>1. FinishRemapping
  BY DEF Next, TrackActivity, cameoVars
<1>2. /\ q \in Seq(Request) /\ 1 \in 1 .. Len(q) /\ r = q[1]
      /\ llt \in [Group -> [Location -> Location]]
      /\ llt' = [llt EXCEPT ![r.group] = Exchanged(llt[r.group], r.fm_location, r.sm_location)]
  BY <1>1 DEF CameoInv, TypeOK, FinishRemapping
<1>3. /\ r.group \in Group /\ r.fm_location \in Location /\ r.sm_location \in Location
      /\ llt[r.group][r.fm_location] = 0 /\ llt[r.group][r.sm_location] # 0
      /\ <<r.group, r.sm_location>> \in hotness_table
  <2>1. q[1] \in Request
    BY <1>2
  <2>2. <<q[1].group, q[1].sm_location>> \in hotness_table
    BY <1>2 DEF QueuedBlocksHot
  <2>3. llt[q[1].group][q[1].fm_location] = 0 /\ llt[q[1].group][q[1].sm_location] # 0
    BY <1>2 DEF CameoInv, RequestsCurrent
  <2>. QED BY <1>2, <2>1, <2>2, <2>3 DEF Request
<1>4. b[1] \in Group /\ b[2] \in Location /\ b = <<b[1], b[2]>>
  BY DEF Block
<1>. HIDE DEF llt, r
<1>5. llt[b[1]][b[2]] # 0 /\ llt'[b[1]][b[2]] = 0
  BY DEF llt
<1>6. b[1] = r.group
  BY <1>2, <1>3, <1>4, <1>5
<1>7. llt'[r.group] = [llt[r.group] EXCEPT ![r.sm_location] = llt[r.group][r.fm_location],
                                           ![r.fm_location] = llt[r.group][r.sm_location]]
  BY <1>2, <1>3 DEF Exchanged
<1>8. b[2] = r.sm_location
  BY <1>2, <1>3, <1>4, <1>5, <1>6, <1>7
<1>9. FastMember(b[1]) = r.fm_location
  BY <1>3, <1>4, <1>6, FastMemberFound DEF CameoInv, LinesDistinct, llt
<1>10. llt'[b[1]][r.fm_location] = llt[b[1]][b[2]]
  BY <1>2, <1>3, <1>6, <1>7, <1>8
<1>. QED BY <1>3, <1>4, <1>6, <1>8, <1>9, <1>10 DEF llt

\* Only hot blocks enter fast memory, and the member they displace takes
\* exactly their place (memory_activity_tracking, finish_remapping_request).
THEOREM PromotionsAreHot == Spec => OnlyHotBlocksPromoted
<1>1. Init => QueuedBlocksHot
  BY DEF Init, QueuedBlocksHot
<1>2. CameoInv /\ QueuedBlocksHot /\ [Next]_cameoVars => QueuedBlocksHot'
  BY QueuedBlocksHotStep
<1>3. CameoInv /\ QueuedBlocksHot /\ [Next]_cameoVars =>
        [\A b \in Block :
          line_location_table[b[1]][b[2]] # 0 /\ line_location_table'[b[1]][b[2]] = 0 =>
              /\ b \in hotness_table
              /\ line_location_table'[b[1]][FastMember(b[1])] = line_location_table[b[1]][b[2]]
        ]_cameoVars
  BY PromotionStep
<1>. QED BY <1>1, <1>2, <1>3, CameoInvariant, PTL DEF Spec, OnlyHotBlocksPromoted
-----------------------------------------------------------------------------
(* CAMEO with the swapping unit *)

\* The number of lines of both memories.
LineNumber == GroupNumber * MemberNumber

\* While the unit swaps, it swaps the two lines of the request in front.
SwapsFront ==
    \/ states = "Idle"
    \/ /\ states = "Swapping"
       /\ remapping_request_queue # <<>>
       /\ base_address[0] = Front.fm
       /\ base_address[1] = Front.sm
       /\ active_entry_number = 1

SystemInv == CameoInv /\ SwapsFront
-----------------------------------------------------------------------------
(* Hardware lines: a location above the index of a group *)

LEMMA MultipleNotLess ==
    ASSUME NEW n \in Nat \ {0}, NEW d \in Nat \ {0}
    PROVE  n * d >= n
<1>1. PICK e \in Nat : d = e + 1
  <2>1. d - 1 \in Nat /\ d = (d - 1) + 1
    OBVIOUS
  <2>. QED BY <2>1
<1>2. n * d = n * e + n /\ n * e \in Nat
  BY <1>1
<1>. QED BY <1>2

LEMMA ProductMonotonic ==
    ASSUME NEW n \in Nat \ {0}, NEW i \in Nat, NEW j \in Nat, i < j
    PROVE  i * n + n <= j * n
<1>1. j - i \in Nat \ {0}
  OBVIOUS
<1>2. n * (j - i) >= n
  BY <1>1, MultipleNotLess
<1>3. n * (j - i) = j * n - i * n /\ i * n \in Int /\ j * n \in Int
  OBVIOUS
<1>. QED BY <1>2, <1>3

\* Different members of a group, and members of different groups, are on
\* different hardware lines.
LEMMA HardwareLineInjective ==
    ASSUME NEW g \in Group, NEW h \in Group, NEW i \in Location, NEW j \in Location,
           HardwareLine(g, i) = HardwareLine(h, j)
    PROVE  g = h /\ i = j
<1>0. /\ GroupNumber \in Nat \ {0} /\ i \in Nat /\ j \in Nat
      /\ g \in Nat /\ g < GroupNumber /\ h \in Nat /\ h < GroupNumber
  BY CameoAssumption DEF Group, Location
<1>1. g + i * GroupNumber = h + j * GroupNumber
  BY DEF HardwareLine
<1>2. i * GroupNumber \in Nat /\ j * GroupNumber \in Nat
  BY <1>0
<1>3. ~(i < j)
  <2>. SUFFICES ASSUME i < j PROVE FALSE
    OBVIOUS
  <2>1. i * GroupNumber + GroupNumber <= j * GroupNumber
    BY <1>0, ProductMonotonic
  <2>. QED BY <1>0, <1>1, <1>2, <2>1
<1>4. ~(j < i)
  <2>. SUFFICES ASSUME j < i PROVE FALSE
    OBVIOUS
  <2>1. j * GroupNumber + GroupNumber <= i * GroupNumber
    BY <1>0, ProductMonotonic
  <2>. QED BY <1>0, <1>1, <1>2, <2>1
<1>. QED BY <1>0, <1>1, <1>2, <1>3, <1>4

\* A hardware line is one of the two memories', and the fast one exactly in
\* location 0.
LEMMA HardwareLineRange ==
    ASSUME NEW g \in Group, NEW i \in Location
    PROVE  /\ HardwareLine(g, i) \in 0 .. LineNumber - 1
           /\ HardwareLine(g, 0) = g
           /\ i # 0 => HardwareLine(g, i) >= GroupNumber
<1>0. /\ GroupNumber \in Nat \ {0} /\ MemberNumber \in Nat \ {0}
      /\ i \in Nat /\ i < MemberNumber /\ g \in Nat /\ g < GroupNumber
  BY CameoAssumption DEF Group, Location
<1>1. i * GroupNumber \in Nat
  BY <1>0
<1>2. i * GroupNumber + GroupNumber <= MemberNumber * GroupNumber
  BY <1>0, ProductMonotonic
<1>3. MemberNumber * GroupNumber = GroupNumber * MemberNumber /\ LineNumber \in Nat
  BY <1>0 DEF LineNumber
<1>4. HardwareLine(g, i) \in 0 .. LineNumber - 1
  BY <1>0, <1>1, <1>2, <1>3 DEF HardwareLine, LineNumber
<1>5. i # 0 => i * GroupNumber >= GroupNumber
  BY <1>0, MultipleNotLess
<1>. QED BY <1>0, <1>1, <1>4, <1>5 DEF HardwareLine

LEMMA LinesOfBothMemories == Unit!Line = 0 .. LineNumber - 1
<1>1. GroupNumber + GroupNumber * (MemberNumber - 1) = LineNumber
  BY CameoAssumption DEF LineNumber
<1>2. /\ LineNumber \in Int
      /\ GroupNumber \in Int
      /\ GroupNumber * (MemberNumber - 1) \in Int
  BY CameoAssumption DEF LineNumber
<1>. QED BY <1>1, <1>2 DEF Unit!Line

\* Every line is a member of a group.
LEMMA LineIsMember ==
    ASSUME NEW p \in 0 .. LineNumber - 1
    PROVE  p % GroupNumber \in Group /\ p \div GroupNumber \in Location
<1>0. GroupNumber \in Nat \ {0} /\ MemberNumber \in Nat \ {0} /\ p \in Nat /\ p < GroupNumber * MemberNumber
  BY CameoAssumption DEF LineNumber
<1>1. /\ p % GroupNumber \in Nat /\ p % GroupNumber < GroupNumber
      /\ p \div GroupNumber \in Nat
      /\ p = GroupNumber * (p \div GroupNumber) + (p % GroupNumber)
  BY <1>0
<1>2. p \div GroupNumber < MemberNumber
  <2>. DEFINE q == p \div GroupNumber
  <2>. SUFFICES ASSUME MemberNumber <= q PROVE FALSE
    BY <1>0, <1>1
  <2>. HIDE DEF q
  <2>1. q \in Nat /\ GroupNumber * q <= p
    BY <1>0, <1>1 DEF q
  <2>2. MemberNumber * GroupNumber <= q * GroupNumber
    BY <1>0, <2>1, ProductMonotonic
  <2>. QED BY <1>0, <2>1, <2>2
<1>. QED BY <1>0, <1>1, <1>2 DEF Group, Location
-----------------------------------------------------------------------------
(* What the unit sees of CAMEO *)

\* The front of the queue is a request the unit can serve.
FrontAllowed == Front \in Unit!Requests \cup {Unit!NoRequest}

LEMMA FrontInRequests == CameoInv => FrontAllowed
<1>. SUFFICES ASSUME CameoInv PROVE Front \in Unit!Requests \cup {Unit!NoRequest}
  BY DEF FrontAllowed
<1>. DEFINE r == Head(remapping_request_queue)
<1>1. CASE remapping_request_queue = <<>>
  BY <1>1 DEF Front, Unit!NoRequest
<1>2. CASE remapping_request_queue # <<>>
  <2>1. /\ r.group \in Group /\ r.address_in_sm \in Location
        /\ r.address_in_fm = 0 /\ r.address_in_sm # 0
    <3>1. /\ 1 \in 1 .. Len(remapping_request_queue)
          /\ r = remapping_request_queue[1] /\ r \in Request
      BY <1>2 DEF CameoInv, TypeOK
    <3>. QED BY <3>1 DEF CameoInv, RequestsCurrent, Request
  <2>. HIDE DEF r
  <2>2. Front = [fm |-> HardwareLine(r.group, r.address_in_fm),
                 sm |-> HardwareLine(r.group, r.address_in_sm), size |-> 1]
    BY <1>2 DEF Front, r
  <2>3. /\ HardwareLine(r.group, r.address_in_fm) = r.group
        /\ HardwareLine(r.group, r.address_in_sm) \in GroupNumber .. LineNumber - 1
    BY <2>1, HardwareLineRange, CameoAssumption DEF LineNumber
  <2>4. GroupNumber + GroupNumber * (MemberNumber - 1) = LineNumber
    BY CameoAssumption DEF LineNumber
  <2>5. PICK f \in 0 .. GroupNumber - 1, t \in GroupNumber .. LineNumber - 1 :
                Front = [fm |-> f, sm |-> t, size |-> 1]
    BY <2>1, <2>2, <2>3 DEF Group
  <2>6. /\ f + 1 <= GroupNumber
        /\ t \in GroupNumber .. GroupNumber + GroupNumber * (MemberNumber - 1) - 1
        /\ t + 1 <= GroupNumber + GroupNumber * (MemberNumber - 1)
    BY <2>4, CameoAssumption DEF LineNumber
  <2>. QED BY <2>5, <2>6 DEF Unit!Requests
<1>. QED BY <1>1, <1>2

\* Tracking an access leaves the front of a queue that has one.
LEMMA TrackingKeepsFront ==
    ASSUME CameoInv, NEW b \in Block, NEW busy \in BOOLEAN, TrackActivity(b, busy)
    PROVE  /\ Translation' = Translation
           /\ Front' = Front \/ (Front = Unit!NoRequest /\ Front' \in Unit!Requests)
           /\ remapping_request_queue # <<>> =>
                 remapping_request_queue' # <<>> /\ Front' = Front
<1>. DEFINE q == remapping_request_queue
<1>1. q \in Seq(Request)
  BY DEF CameoInv, TypeOK
<1>2. Translation' = Translation
  BY DEF TrackActivity, Translation
<1>3. q' = q \/ (q' = Append(q, RequestFor(b)) /\ RequestFor(b) \in Request)
  BY QueueAfterCases DEF TrackActivity
<1>4. CASE q # <<>>
  <2>1. q' # <<>> /\ Head(q') = Head(q)
    BY <1>1, <1>3, <1>4
  <2>. QED BY <1>2, <1>4, <2>1 DEF Front
<1>5. CASE q = <<>> /\ q' = q
  BY <1>2, <1>5 DEF Front
<1>6. CASE q = <<>> /\ q' # q
  <2>1. Front = Unit!NoRequest
    BY <1>6 DEF Front, Unit!NoRequest
  <2>2. Front' \in Unit!Requests \cup {Unit!NoRequest}
    <3>1. CameoInv'
      BY TrackActivityInv
    <3>2. CameoInv' => FrontAllowed'
      BY FrontInRequests, PTL
    <3>. QED BY <3>1, <3>2 DEF FrontAllowed
  <2>3. Front'.size = 1
    BY <1>6 DEF Front
  <2>4. Front' # Unit!NoRequest
    BY <2>3 DEF Unit!NoRequest
  <2>. QED BY <1>2, <1>6, <2>1, <2>2, <2>4
<1>. QED BY <1>4, <1>5, <1>6

\* The unit's partner of a line, when it swaps one line f of fast memory with
\* one line t of slow memory.
LEMMA PartnerIsExchange ==
    ASSUME NEW f \in Int, NEW t \in Int, NEW l \in Int,
           base_address[0] = f, base_address[1] = t, active_entry_number = 1
    PROVE  Unit!Partner(l) = IF l = f THEN t ELSE IF l = t THEN f ELSE l
<1>1. /\ Unit!InSegment(l, 0) <=> l = f
      /\ Unit!InSegment(l, 1) <=> l = t
  BY DEF Unit!InSegment
<1>2. Unit!UnderSwap(l) <=> l = f \/ l = t
  BY <1>1 DEF Unit!UnderSwap, Unit!Segment
<1>3. CASE l = f
  <2>1. Unit!SlotOf(l) = <<0, 0>>
    BY <1>1, <1>3 DEF Unit!SlotOf
  <2>. QED BY <1>2, <1>3, <2>1 DEF Unit!Partner
<1>4. CASE l = t /\ l # f
  <2>1. Unit!SlotOf(l) = <<0, 1>>
    BY <1>1, <1>4 DEF Unit!SlotOf
  <2>. QED BY <1>2, <1>4, <2>1 DEF Unit!Partner
<1>5. CASE l # t /\ l # f
  BY <1>2, <1>5 DEF Unit!Partner
<1>. QED BY <1>3, <1>4, <1>5

\* finish_remapping_request() changes the translation of exactly the lines that
\* the unit exchanged.
LEMMA FinishExchangesTranslation ==
    ASSUME CameoInv, SwapsFront, states = "Swapping", FinishRemapping
    PROVE  Translation' = [p \in Unit!Line |-> Unit!Partner(Translation[p])]
<1>. DEFINE q == remapping_request_queue
            llt == line_location_table
            r == Head(q)
            N == GroupNumber
<1>1. /\ q # <<>> /\ r = q[1] /\ r \in Request /\ 1 \in 1 .. Len(q)
      /\ llt \in [Group -> [Location -> Location]]
      /\ llt' = [llt EXCEPT ![r.group] = Exchanged(llt[r.group], r.fm_location, r.sm_location)]
  BY DEF CameoInv, TypeOK, FinishRemapping
<1>2. /\ r.group \in Group /\ r.fm_location \in Location /\ r.sm_location \in Location
      /\ r.address_in_sm \in Location
      /\ r.address_in_fm = 0
      /\ llt[r.group][r.fm_location] = 0
      /\ llt[r.group][r.sm_location] = r.address_in_sm
  BY <1>1 DEF CameoInv, RequestsCurrent, Request
<1>3. /\ base_address[0] = HardwareLine(r.group, 0)
      /\ base_address[1] = HardwareLine(r.group, r.address_in_sm)
      /\ active_entry_number = 1
  BY <1>1, <1>2 DEF SwapsFront, Front
<1>4. \A g \in Group, m \in Location :
        /\ llt[g][m] \in Location
        /\ \A n \in Location : llt[g][m] = llt[g][n] => m = n
        /\ llt'[g][m] = IF g # r.group THEN llt[g][m]
                        ELSE IF m = r.fm_location THEN llt[g][r.sm_location]
                        ELSE IF m = r.sm_location THEN llt[g][r.fm_location]
                        ELSE llt[g][m]
  <2>. TAKE g \in Group, m \in Location
  <2>1. llt[g] \in [Location -> Location] /\ llt[r.group] \in [Location -> Location]
    BY <1>1, <1>2
  <2>2. \A n \in Location : llt[g][m] = llt[g][n] => m = n
    BY DEF CameoInv, LinesDistinct
  <2>. HIDE DEF llt, r
  <2>3. CASE g # r.group
    BY <1>1, <2>1, <2>2, <2>3
  <2>4. CASE g = r.group
    <3>1. llt'[g] = [llt[g] EXCEPT ![r.sm_location] = llt[g][r.fm_location],
                                   ![r.fm_location] = llt[g][r.sm_location]]
      BY <1>1, <2>4 DEF Exchanged
    <3>. QED BY <1>2, <2>1, <2>2, <2>4, <3>1
  <2>. QED BY <2>3, <2>4
<1>. HIDE DEF q, r, llt
<1>5. ASSUME NEW g \in Group, NEW m \in Location
      PROVE  HardwareLine(g, llt'[g][m]) = Unit!Partner(HardwareLine(g, llt[g][m]))
  <2>. DEFINE l == HardwareLine(g, llt[g][m])
              f == HardwareLine(r.group, 0)
              t == HardwareLine(r.group, r.address_in_sm)
  <2>1. llt[g][m] \in Location /\ 0 \in Location
    BY <1>4, LocationZero
  <2>2. l \in Int /\ f \in Int /\ t \in Int
    BY <1>2, <2>1, HardwareLineRange
  <2>3. /\ l = f <=> g = r.group /\ llt[g][m] = 0
        /\ l = t <=> g = r.group /\ llt[g][m] = r.address_in_sm
    BY <1>2, <2>1, HardwareLineInjective
  <2>4. Unit!Partner(l) = IF l = f THEN t ELSE IF l = t THEN f ELSE l
    BY <1>3, <2>2, PartnerIsExchange
  <2>. HIDE DEF l, f, t
  <2>5. /\ l = f <=> g = r.group /\ m = r.fm_location
        /\ l = t <=> g = r.group /\ m = r.sm_location
    BY <1>2, <1>4, <2>3
  <2>6. CASE l = f
    BY <1>2, <1>4, <2>4, <2>5, <2>6 DEF l, f, t
  <2>7. CASE l # f /\ l = t
    BY <1>2, <1>4, <2>4, <2>5, <2>7 DEF l, f, t
  <2>8. CASE l # f /\ l # t
    BY <1>2, <1>4, <2>4, <2>5, <2>8 DEF l
  <2>. QED BY <2>6, <2>7, <2>8 DEF l
<1>6. Unit!Line = 0 .. LineNumber - 1
  BY LinesOfBothMemories
<1>7. ASSUME NEW p \in 0 .. LineNumber - 1
      PROVE  /\ Translation[p] = HardwareLine(p % N, llt[p % N][p \div N])
             /\ Translation'[p] = HardwareLine(p % N, llt'[p % N][p \div N])
             /\ Translation'[p] = Unit!Partner(Translation[p])
  <2>1. /\ Translation[p] = HardwareLine(p % N, llt[p % N][p \div N])
        /\ Translation'[p] = HardwareLine(p % N, llt'[p % N][p \div N])
    BY DEF Translation, LineNumber, llt
  <2>2. p % N \in Group /\ p \div N \in Location
    BY LineIsMember
  <2>. QED BY <1>5, <2>1, <2>2
<1>8. Translation' = [p \in 0 .. LineNumber - 1 |-> Translation'[p]]
  BY DEF Translation, LineNumber
<1>. QED BY <1>6, <1>7, <1>8
-----------------------------------------------------------------------------
LEMMA SystemInitInv == SystemInit => SystemInv
BY InitInv DEF SystemInit, SystemInv, SwapsFront, Unit!Init

\* Every step of the system keeps the invariant and is a step of the unit with
\* a management it may rely on, or leaves all the unit sees unchanged.
LEMMA AccessStep ==
    ASSUME SystemInv, NEW b \in Block, NEW busy \in BOOLEAN, Access(b, busy)
    PROVE  SystemInv' /\ Unit!LlcRequest
<1>1. CameoInv /\ TrackActivity(b, busy)
  BY DEF SystemInv, Access
<1>2. CameoInv'
  BY <1>1, TrackActivityInv
<1>3. UNCHANGED <<states, base_address, active_entry_number>>
  BY DEF Access, Unit!OtherAccess, Unit!AbsorbWrite, Unit!WriteMemory, Unit!unit
<1>4. SwapsFront'
  BY <1>1, <1>3, TrackingKeepsFront DEF SystemInv, SwapsFront
<1>5. Unit!TrackActivity
  BY <1>1, TrackingKeepsFront DEF Unit!TrackActivity
<1>6. HardwareLine(b[1], b[2]) \in Unit!Line
  <2>1. HardwareLine(b[1], b[2]) \in 0 .. LineNumber - 1
    BY HardwareLineRange DEF Block
  <2>. QED BY <2>1, LinesOfBothMemories
<1>. QED BY <1>2, <1>4, <1>5, <1>6 DEF SystemInv, Access, Unit!LlcRequest

LEMMA OperateStep ==
    ASSUME SystemInv, Operate
    PROVE  SystemInv' /\ Unit!UnitCycle
<1>1. CASE (Unit!IdleCycle \/ Unit!StartSwap) /\ UNCHANGED cameoVars
  <2>1. CameoInv' /\ UNCHANGED <<Front, Translation>>
    BY <1>1, StutterInv DEF SystemInv, cameoVars, Front, Translation
  <2>2. SwapsFront'
    <3>1. CASE Unit!IdleCycle
      BY <3>1 DEF Unit!IdleCycle, SwapsFront, Unit!unit
    <3>2. CASE Unit!StartSwap
      <4>1. remapping_request_queue # <<>> /\ Front.size = 1
        BY <3>2 DEF Unit!StartSwap, Front, Unit!NoRequest
      <4>. QED BY <1>1, <2>1, <3>2, <4>1 DEF Unit!StartSwap, SwapsFront, Unit!Segment, cameoVars
    <3>. QED BY <1>1, <3>1, <3>2
  <2>. QED BY <1>1, <2>1, <2>2 DEF SystemInv, Unit!UnitCycle, Unit!queue
<1>2. ASSUME NEW ar \in SUBSET Unit!ReadsToIssue, NEW aw \in SUBSET Unit!WritesToIssue,
             Unit!ContinueSwap(ar, aw), UNCHANGED cameoVars
      PROVE  SystemInv' /\ Unit!UnitCycle
  <2>1. CameoInv' /\ UNCHANGED <<Front, Translation>>
    BY <1>2, StutterInv DEF SystemInv, cameoVars, Front, Translation
  <2>2. SwapsFront'
    BY <1>2, <2>1 DEF SystemInv, SwapsFront, Front, Unit!ContinueSwap, Unit!IssueRequests,
                      Unit!RequestHasGrown, cameoVars
  <2>. QED BY <1>2, <2>1, <2>2 DEF SystemInv, Unit!UnitCycle, Unit!Transfer, Unit!queue
<1>3. ASSUME NEW ar \in SUBSET Unit!ReadsToIssue, NEW aw \in SUBSET Unit!WritesToIssue,
             Unit!FinishSwap(ar, aw), FinishRemapping
      PROVE  SystemInv' /\ Unit!UnitCycle
  <2>1. CameoInv' /\ FrontAllowed'
    <3>1. CameoInv'
      BY <1>3, FinishRemappingInv DEF SystemInv
    <3>2. CameoInv' => FrontAllowed'
      BY FrontInRequests, PTL
    <3>. QED BY <3>1, <3>2
  <2>2. SwapsFront'
    BY <1>3 DEF SwapsFront, Unit!FinishSwap
  <2>3. Unit!FinishRemappingRequest
    <3>1. states = "Swapping"
      BY <1>3 DEF Unit!FinishSwap, Unit!IssueRequests
    <3>. QED BY <1>3, <2>1, <3>1, FinishExchangesTranslation
             DEF SystemInv, FrontAllowed, Unit!FinishRemappingRequest
  <2>. QED BY <1>3, <2>1, <2>2, <2>3 DEF SystemInv, Unit!UnitCycle, Unit!Transfer
<1>. QED BY <1>1, <1>2, <1>3 DEF Operate

LEMMA TickStep ==
    ASSUME SystemInv, Tick
    PROVE  SystemInv' /\ Unit!Tick
<1>1. CameoInv' /\ UNCHANGED <<Front, Translation, remapping_request_queue>>
  BY StutterInv DEF Tick, SystemInv, cameoVars, Front, Translation
<1>2. UNCHANGED <<states, base_address, active_entry_number>>
  BY DEF Tick, Unit!ReturnReads, Unit!unit
<1>. QED BY <1>1, <1>2 DEF Tick, SystemInv, SwapsFront, Unit!Tick, Unit!queue

LEMMA SystemStep ==
    ASSUME SystemInv, [SystemNext]_systemVars
    PROVE  SystemInv' /\ [Unit!Next]_(Unit!vars)
<1>1. CASE UNCHANGED systemVars
  <2>1. CameoInv' /\ UNCHANGED <<Front, Translation, remapping_request_queue>>
    BY <1>1, StutterInv DEF SystemInv, systemVars, cameoVars, Front, Translation
  <2>. QED BY <1>1, <2>1 DEF SystemInv, SwapsFront, systemVars, unitVars, Unit!vars, Unit!unit,
                             Unit!flags
<1>2. CASE SystemNext
  BY <1>2, AccessStep, OperateStep, TickStep DEF SystemNext, Unit!Next
<1>. QED BY <1>1, <1>2

\* The unit always swaps the two lines of CAMEO's front request
\* (start_swapping_segments, finish_remapping_request).
THEOREM SystemInvariant == SystemSpec => []SystemInv
BY SystemInitInv, SystemStep, PTL DEF SystemSpec

\* CAMEO keeps what the swapping unit relies on: the front of the queue is never
\* replaced or withdrawn during a swap, and the translation changes exactly when
\* a swap ends, for exactly the lines whose data was exchanged
\* (issue_remapping_request, finish_remapping_request).
THEOREM ImplementsUnit == SystemSpec => ImplementsSwappingUnit
<1>1. SystemInit => Unit!Init
  BY DEF SystemInit
<1>2. SystemInv /\ [SystemNext]_systemVars => [Unit!Next]_(Unit!vars)
  BY SystemStep
<1>. QED BY <1>1, <1>2, SystemInvariant, PTL DEF SystemSpec, ImplementsSwappingUnit, Unit!Spec

\* In the initial states the unit sees no request and the translation that is
\* the identity, so that Unit!Init constrains only the unit's own variables.
THEOREM InitialView ==
    Init => Front = Unit!NoRequest /\ Translation = [l \in Unit!Line |-> l]
<1>. SUFFICES ASSUME Init
              PROVE  Front = Unit!NoRequest /\ Translation = [l \in Unit!Line |-> l]
  OBVIOUS
<1>1. Front = Unit!NoRequest
  BY DEF Init, Front, Unit!NoRequest
<1>2. ASSUME NEW p \in 0 .. LineNumber - 1
      PROVE  Translation[p] = p
  <2>1. p % GroupNumber \in Group /\ p \div GroupNumber \in Location
    BY LineIsMember
  <2>2. Translation[p] = (p % GroupNumber) + (p \div GroupNumber) * GroupNumber
    BY <2>1 DEF Init, Translation, HardwareLine, LineNumber
  <2>. QED BY <2>2, CameoAssumption DEF LineNumber
<1>3. Translation = [l \in 0 .. LineNumber - 1 |-> Translation[l]]
  BY DEF Translation, LineNumber
<1>. QED BY <1>1, <1>2, <1>3, LinesOfBothMemories
-----------------------------------------------------------------------------
(* What is proved of the unit with any management holds of it with CAMEO *)

Proved == INSTANCE SwappingUnit_proofs WITH
              FastSize <- GroupNumber, SlowSize <- GroupNumber * (MemberNumber - 1),
              EntryNumber <- 1, Tracked <- 0 .. GroupNumber * MemberNumber - 1,
              request <- Front, h_address <- Translation

LEMMA SameInit == Unit!Init => Proved!Init
BY Zenon
   DEF Unit!Init, Proved!Init, Unit!Line, Proved!Line, Unit!Entry, Proved!Entry, Unit!Segment,
       Proved!Segment, Unit!Slot, Proved!Slot, Unit!Stale, Proved!Stale, Unit!Value,
       Proved!Value, Unit!NoRequest, Proved!NoRequest

LEMMA SameVars == Unit!vars = Proved!vars
BY DEF Unit!vars, Proved!vars, Unit!unit, Proved!unit, Unit!flags, Proved!flags

LEMMA SameSets ==
    /\ Unit!Line = Proved!Line /\ Unit!Slot = Proved!Slot /\ Unit!Entry = Proved!Entry
    /\ Unit!ReadsToIssue = Proved!ReadsToIssue
    /\ Unit!WritesToIssue = Proved!WritesToIssue
BY DEF Unit!Line, Proved!Line, Unit!Entry, Proved!Entry, Unit!Segment, Proved!Segment,
       Unit!Slot, Proved!Slot, Unit!ReadsToIssue, Proved!ReadsToIssue, Unit!WritesToIssue,
       Proved!WritesToIssue, Unit!Arrived, Proved!Arrived

LEMMA SameAbsorbWrite == \A p : Unit!AbsorbWrite(p) => Proved!AbsorbWrite(p)
BY DEF Unit!AbsorbWrite, Proved!AbsorbWrite, Unit!Line, Proved!Line, Unit!Entry, Proved!Entry,
       Unit!Slot, Proved!Slot, Unit!Stale, Proved!Stale, Unit!Value, Proved!Value,
       Unit!Partner, Proved!Partner, Unit!Arrived, Proved!Arrived, Unit!Aged, Proved!Aged,
       Unit!ReopenedCount, Proved!ReopenedCount, Unit!Segment, Proved!Segment, Unit!InSegment,
       Proved!InSegment, Unit!UnderSwap, Proved!UnderSwap, Unit!SlotOf, Proved!SlotOf

LEMMA SameWriteMemory == \A p : Unit!WriteMemory(p) => Proved!WriteMemory(p)
BY DEF Unit!WriteMemory, Proved!WriteMemory, Unit!Line, Proved!Line, Unit!Entry, Proved!Entry,
       Unit!Slot, Proved!Slot, Unit!Stale, Proved!Stale, Unit!Value, Proved!Value, Unit!Aged,
       Proved!Aged, Unit!unit, Proved!unit, Unit!flags, Proved!flags, Unit!Segment,
       Proved!Segment, Unit!InSegment, Proved!InSegment, Unit!UnderSwap, Proved!UnderSwap,
       Unit!SlotOf, Proved!SlotOf

LEMMA SameTrackActivity == Unit!TrackActivity => Proved!TrackActivity
BY DEF Unit!TrackActivity, Proved!TrackActivity, Unit!Requests, Proved!Requests,
       Unit!NoRequest, Proved!NoRequest

LEMMA SameLlcRequest == Unit!LlcRequest => Proved!LlcRequest
BY SameSets, SameAbsorbWrite, SameWriteMemory, SameTrackActivity
   DEF Unit!LlcRequest, Proved!LlcRequest, Unit!OtherAccess, Proved!OtherAccess, Unit!unit,
       Proved!unit, Unit!flags, Proved!flags

LEMMA SameIdle == Unit!IdleCycle \/ Unit!StartSwap => Proved!IdleCycle \/ Proved!StartSwap
BY DEF Unit!IdleCycle, Proved!IdleCycle, Unit!StartSwap, Proved!StartSwap, Unit!NoRequest,
       Proved!NoRequest, Unit!Segment, Proved!Segment, Unit!unit, Proved!unit, Unit!flags,
       Proved!flags

LEMMA SameCompleted ==
    \A aw : /\ Unit!Completed(aw) = Proved!Completed(aw)
            /\ Unit!FinishNumberAfter(aw) = Proved!FinishNumberAfter(aw)
BY DEF Unit!Completed, Proved!Completed, Unit!FinishNumberAfter, Proved!FinishNumberAfter,
       Unit!Entry, Proved!Entry, Unit!Cardinality, Proved!Cardinality

LEMMA SameMemoryAfter == \A aw : Unit!MemoryAfter(aw) = Proved!MemoryAfter(aw)
BY DEF Unit!MemoryAfter, Proved!MemoryAfter, Unit!Line, Proved!Line, Unit!Segment,
       Proved!Segment, Unit!InSegment, Proved!InSegment, Unit!UnderSwap, Proved!UnderSwap,
       Unit!SlotOf, Proved!SlotOf

LEMMA SameIssueRequests == \A ar, aw : Unit!IssueRequests(ar, aw) => Proved!IssueRequests(ar, aw)
BY SameSets, SameMemoryAfter DEF Unit!IssueRequests, Proved!IssueRequests, Unit!Home, Proved!Home

LEMMA SameContinueSwap == \A ar, aw : Unit!ContinueSwap(ar, aw) => Proved!ContinueSwap(ar, aw)
BY SameIssueRequests, SameCompleted DEF Unit!ContinueSwap, Proved!ContinueSwap, Unit!RequestHasGrown, Proved!RequestHasGrown

LEMMA SameFinishSwap == \A ar, aw : Unit!FinishSwap(ar, aw) => Proved!FinishSwap(ar, aw)
BY SameIssueRequests, SameCompleted, SameSets
   DEF Unit!FinishSwap, Proved!FinishSwap, Unit!RequestHasGrown, Proved!RequestHasGrown,
       Unit!Stale, Proved!Stale, Unit!Segment, Proved!Segment

LEMMA SameFinishRemappingRequest == Unit!FinishRemappingRequest => Proved!FinishRemappingRequest
BY DEF Unit!FinishRemappingRequest, Proved!FinishRemappingRequest, Unit!Requests,
       Proved!Requests, Unit!NoRequest, Proved!NoRequest, Unit!Line, Proved!Line, Unit!Partner,
       Proved!Partner, Unit!Segment, Proved!Segment, Unit!InSegment, Proved!InSegment,
       Unit!UnderSwap, Proved!UnderSwap, Unit!SlotOf, Proved!SlotOf

LEMMA SameUnitCycle == Unit!UnitCycle => Proved!UnitCycle
BY SameSets, SameIdle, SameContinueSwap, SameFinishSwap, SameFinishRemappingRequest
   DEF Unit!UnitCycle, Proved!UnitCycle, Unit!Transfer, Proved!Transfer, Unit!queue,
       Proved!queue

LEMMA SameTick == Unit!Tick => Proved!Tick
BY DEF Unit!Entry, Proved!Entry, Unit!Segment, Proved!Segment, Unit!Slot, Proved!Slot,
       Unit!unit, Proved!unit, Unit!queue, Proved!queue, Unit!InSegment, Proved!InSegment,
       Unit!SlotOf, Proved!SlotOf, Unit!ArrivalSlot, Proved!ArrivalSlot, Unit!ReturnReads,
       Proved!ReturnReads, Unit!Tick, Proved!Tick

LEMMA SameNext == Unit!Next => Proved!Next
BY SameLlcRequest, SameUnitCycle, SameTick DEF Unit!Next, Proved!Next

LEMMA SameDataProperty == Proved!UntouchedDataPreserved => Unit!UntouchedDataPreserved
BY DEF Unit!UntouchedDataPreserved, Proved!UntouchedDataPreserved,
       Unit!UnderSwap, Proved!UnderSwap,
       Unit!InSegment, Proved!InSegment,
       Unit!Segment, Proved!Segment

LEMMA SameReadProperty == Proved!NoStrayRead => Unit!NoStrayRead
BY DEF Unit!NoStrayRead, Proved!NoStrayRead,
       Unit!UnderSwap, Proved!UnderSwap,
       Unit!InSegment, Proved!InSegment,
       Unit!Segment, Proved!Segment,
       Unit!SlotOf, Proved!SlotOf,
       Unit!ArrivalSlot, Proved!ArrivalSlot

\* The sizes the unit gets from CAMEO are the sizes it may have.
LEMMA UnitSizes ==
    ASSUME MemberNumber > 1
    PROVE  /\ GroupNumber \in Nat \ {0}
           /\ GroupNumber * (MemberNumber - 1) \in Nat \ {0}
           /\ 1 \in Nat \ {0}
           /\ 0 .. GroupNumber * MemberNumber - 1
                 \subseteq 0 .. GroupNumber + GroupNumber * (MemberNumber - 1) - 1
BY CameoAssumption

LEMMA SystemImplementsProved == SystemSpec => Proved!Spec
<1>1. SystemInit => Proved!Init
  BY SameInit DEF SystemInit
<1>2. SystemInv /\ [SystemNext]_systemVars => [Proved!Next]_(Proved!vars)
  <2>. SUFFICES ASSUME SystemInv, [SystemNext]_systemVars
                PROVE  [Proved!Next]_(Proved!vars)
    OBVIOUS
  <2>1. [Unit!Next]_(Unit!vars)
    BY SystemStep
  <2>2. Unit!vars' = Proved!vars'
    BY DEF Unit!vars, Proved!vars,
       Unit!unit, Proved!unit,
       Unit!flags, Proved!flags
  <2>. QED BY <2>1, <2>2, SameNext, SameVars
<1>. QED BY <1>1, <1>2, SystemInvariant, PTL DEF SystemSpec, Proved!Spec

\* With more than one line in a group: however accesses, growing counters, swaps
\* and table updates interleave, a line that no write touched in the buffer is
\* found where CAMEO's table sends it (physical_to_hardware_address,
\* finish_remapping_request).
THEOREM SystemKeepsData ==
    ASSUME MemberNumber > 1
    PROVE  SystemSpec => []Unit!UntouchedDataPreserved
<1>1. Proved!Spec => []Proved!UntouchedDataPreserved
  BY UnitSizes, Proved!SwapsPreserveData
<1>. QED BY <1>1, SystemImplementsProved, SameDataProperty, PTL

\* With CAMEO, too, every read of the unit that a memory answers is one the unit
\* waits for (return_swapping_data).
THEOREM SystemExpectsReads ==
    ASSUME MemberNumber > 1
    PROVE  SystemSpec => []Unit!NoStrayRead
<1>1. Proved!Spec => []Proved!NoStrayRead
  BY UnitSizes, Proved!ReadsAreExpected
<1>. QED BY <1>1, SystemImplementsProved, SameReadProperty, PTL
=============================================================================
