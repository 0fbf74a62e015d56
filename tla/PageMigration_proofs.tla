------------------------ MODULE PageMigration_proofs ------------------------
(***************************************************************************)
(* Proofs about page selection and migration for every number of pages,    *)
(* every threshold, every epoch length and every queue length.             *)
(***************************************************************************)
EXTENDS PageMigration, SequenceTheorems, TLAPS

Threshold == IF gc THEN HotWithGc ELSE Hot

\* An accessed page is marked as accessed.
CountedPagesMarked == \A p \in Page : counter_table[p] > 0 => mark[p] > 0

\* While the loops run, the pages left to promote are distinct, have reached
\* the threshold, and are in no request yet.
SelectionInv ==
    phase \in {"unaccessed", "cold"} =>
        /\ \A i, j \in DOMAIN hot_queue : hot_queue[i] = hot_queue[j] => i = j
        /\ \A i \in DOMAIN hot_queue : counter_table[hot_queue[i]] >= Threshold
        /\ \A i \in DOMAIN remapping_request_queue, j \in DOMAIN hot_queue :
              remapping_request_queue[i].address_in_sm # hot_queue[j]
        /\ since_migration = 0

\* The queue is empty when an epoch ends, requests wait for the controller only
\* in the cycle in which they were made, and a collection is over before that.
QueueDrained ==
    /\ phase = "retire" => remapping_request_queue = <<>>
    /\ phase = "execute" => remapping_request_queue = <<>> \/ since_migration = 0
    /\ gc => phase \in {"unaccessed", "cold", "migrate"}

\* The inductive invariant.
MigrationInv ==
    /\ TypeOK /\ CountedPagesMarked /\ SelectionInv /\ QueueDrained
    /\ RequestsInPlace /\ QueuedPagesDistinct /\ QueuedPageAccessed /\ PromotionsImprove
-----------------------------------------------------------------------------
LEMMA PageFacts == PageNumber \in Nat /\ Page \subseteq Nat /\ \A p \in Nat : p < PageNumber => p \in Page
BY PageAssumption DEF PageNumber, Page

LEMMA ConstantFacts ==
    /\ CounterMax \in Nat /\ Hot \in Nat \ {0} /\ HotWithGc \in Nat \ {0}
    /\ Cold \in Nat /\ ColdWithGc \in Nat /\ Cold <= Hot /\ ColdWithGc <= HotWithGc
    /\ EpochLength \in Nat /\ MigrationDistance \in Nat /\ RetireWidth \in Nat
    /\ FastPages \in Nat /\ QueueLength \in Nat
BY PageAssumption

LEMMA AllZeroType == AllZero \in [Page -> 0 .. CounterMax]
BY ConstantFacts DEF AllZero

LEMMA HotQueuesProperties ==
    ASSUME NEW count, NEW threshold, NEW limit, NEW s \in HotQueues(count, threshold, limit)
    PROVE  /\ s \in Seq(Page)
           /\ \A i, j \in DOMAIN s : s[i] = s[j] => i = j
           /\ \A i \in DOMAIN s : count[s[i]] >= threshold
<1>1. PICK n \in 0 .. FastPages : s \in [1 .. n -> Page]
  BY DEF HotQueues
<1>2. s \in Seq(Page)
  BY <1>1, ConstantFacts, IsASeq
<1>. QED BY <1>2 DEF HotQueues

LEMMA EnqueueProperties ==
    ASSUME TypeOK, NEW r \in Request
    PROVE  \/ Enqueue(r) = remapping_request_queue
           \/ /\ Enqueue(r) = Append(remapping_request_queue, r)
              /\ \A i \in DOMAIN remapping_request_queue :
                    remapping_request_queue[i].address_in_fm # r.address_in_fm
BY DEF Enqueue, TypeOK
-----------------------------------------------------------------------------
LEMMA InitTypeOK == Init => TypeOK
<1>. SUFFICES ASSUME Init PROVE TypeOK
  OBVIOUS
<1>1. hot_queue \in Seq(Page) /\ remapping_request_queue \in Seq(Request)
  BY DEF Init
<1>2. counter_table \in [Page -> 0 .. CounterMax]
  BY ConstantFacts DEF Init
<1>3. hardware \in [Page -> Page] /\ mark \in [Page -> 0 .. 3]
  BY DEF Init
<1>4. victim \in 0 .. PageNumber /\ since_epoch \in 0 .. EpochLength + 1
  BY PageFacts, ConstantFacts DEF Init
<1>5. since_migration \in 0 .. MigrationDistance + 1 /\ migration_count \in Nat
  BY PageFacts, ConstantFacts DEF Init
<1>. QED BY <1>1, <1>2, <1>3, <1>4, <1>5 DEF Init, TypeOK

LEMMA TypeOKStep ==
    ASSUME TypeOK, [Next]_vars
    PROVE  TypeOK'
<1>. USE PageFacts, ConstantFacts
<1>1. ASSUME NEW p \in Page, Access(p)
      PROVE  TypeOK'
  BY <1>1 DEF TypeOK, Access, Counted, selection, distances
<1>2. ASSUME NEW n \in 0 .. RetireWidth, Retire(n)
      PROVE  TypeOK'
  <2>1. hot_queue' \in Seq(Page) /\ hotness_table' \subseteq Page
    <3>1. CASE UNCHANGED <<hot_queue, hotness_table>>
      BY <3>1 DEF TypeOK
    <3>2. CASE /\ hot_queue' \in HotQueues(counter_table, Hot, MaxPages)
               /\ hotness_table' = {hot_queue'[i] : i \in DOMAIN hot_queue'}
      <4>1. hot_queue' \in Seq(Page)
        BY <3>2, HotQueuesProperties
      <4>. QED BY <3>2, <4>1
    <3>. QED BY <1>2, <3>1, <3>2 DEF Retire
  <2>2. victim' \in 0 .. PageNumber /\ phase' \in {"execute", "unaccessed"}
    BY <1>2 DEF TypeOK, Retire
  <2>3. since_epoch' \in 0 .. EpochLength + 1 /\ since_migration' \in 0 .. MigrationDistance + 1
    BY <1>2 DEF TypeOK, Retire
  <2>. QED BY <1>2, <2>1, <2>2, <2>3 DEF TypeOK, Retire, table
<1>3. ASSUME NEW us \in SUBSET Page, NEW full \in BOOLEAN, StartGc(us, full)
      PROVE  TypeOK'
  <2>. DEFINE count == [p \in Page |-> IF p \in us THEN 0 ELSE counter_table[p]]
  <2>1. /\ remapping_request_queue' = << >> /\ since_migration' = 0
        /\ UNCHANGED <<table, migration_count, since_epoch>>
    BY <1>3 DEF StartGc
  <2>2. << >> \in Seq(Page) /\ << >> \in Seq(Request)
    OBVIOUS
  <2>3. count \in [Page -> 0 .. CounterMax]
    BY DEF TypeOK
  <2>4. CASE full
    <3>1. /\ hot_queue' = << >> /\ counter_table' = AllZero
          /\ UNCHANGED <<phase, gc, hotness_table, unmarked, victim>>
      BY <1>3, <2>4 DEF StartGc
    <3>2. since_migration' \in 0 .. MigrationDistance + 1
      BY <2>1
    <3>. QED BY <2>1, <2>2, <3>1, <3>2, AllZeroType DEF TypeOK, table
  <2>5. CASE ~full
    <3>1. /\ hot_queue' \in HotQueues(count, HotWithGc, MaxPagesWithGc)
          /\ hotness_table' = {hot_queue'[i] : i \in DOMAIN hot_queue'}
          /\ counter_table' = count /\ unmarked' = us /\ victim' = 0 /\ gc' = TRUE
          /\ phase' = "unaccessed"
      BY <1>3, <2>5 DEF StartGc
    <3>2. hot_queue' \in Seq(Page)
      BY <3>1, HotQueuesProperties
    <3>3. hotness_table' \subseteq Page
      BY <3>1, <3>2
    <3>. HIDE DEF count
    <3>. QED BY <2>1, <2>2, <2>3, <3>1, <3>2, <3>3 DEF TypeOK, table
  <2>. QED BY <2>4, <2>5
<1>4. CASE EndCpuCycle
  BY <1>4 DEF TypeOK, EndCpuCycle, table, selection, distances
<1>5. CASE SkipPage
  BY <1>5 DEF TypeOK, SkipPage, Searching, loopVars, table, distances
<1>6. CASE DropFastPage
  BY <1>6 DEF TypeOK, DropFastPage, Searching, loopVars, table, distances
<1>7. CASE PairVictim
  <2>1. /\ hot_queue \in Seq(Page) /\ hot_queue # << >> /\ hot_queue' = Tail(hot_queue)
        /\ victim \in Nat /\ victim < PageNumber /\ victim' = victim + 1
    BY <1>7 DEF TypeOK, PairVictim, Searching
  <2>2. Head(hot_queue) \in Page /\ hot_queue' \in Seq(Page)
    BY <2>1
  <2>3. [address_in_fm |-> victim, address_in_sm |-> Head(hot_queue)] \in Request
    BY <2>1, <2>2 DEF Request
  <2>4. remapping_request_queue' \in Seq(Request)
    <3>. DEFINE r == [address_in_fm |-> victim, address_in_sm |-> Head(hot_queue)]
    <3>1. remapping_request_queue' = Enqueue(r) /\ remapping_request_queue \in Seq(Request)
      BY <1>7 DEF PairVictim, TypeOK
    <3>2. r \in Request
      BY <2>3
    <3>. HIDE DEF r
    <3>. QED BY <3>1, <3>2, EnqueueProperties
  <2>. QED BY <1>7, <2>1, <2>2, <2>4 DEF TypeOK, PairVictim, loopVars, table, distances
<1>8. CASE BeginColdLoop
  BY <1>8 DEF TypeOK, BeginColdLoop, table, distances
<1>9. CASE EndSelection
  <2>1. << >> \in Seq(Page)
    OBVIOUS
  <2>. QED BY <1>9, <2>1, AllZeroType DEF TypeOK, EndSelection, table, distances
<1>10. CASE OperateController
  BY <1>10 DEF TypeOK, OperateController, table, selection, distances
<1>11. CASE MigrateFront
  <2>1. /\ remapping_request_queue \in Seq(Request) /\ remapping_request_queue # << >>
        /\ remapping_request_queue' = Tail(remapping_request_queue)
    BY <1>11 DEF TypeOK, MigrateFront
  <2>2. Head(remapping_request_queue) \in Request /\ remapping_request_queue' \in Seq(Request)
    BY <2>1
  <2>3. /\ Head(remapping_request_queue).address_in_fm \in Page
        /\ Head(remapping_request_queue).address_in_sm \in Page
    BY <2>2 DEF Request
  <2>4. hardware' \in [Page -> Page]
    BY <1>11, <2>3 DEF TypeOK, MigrateFront, Exchanged
  <2>5. mark' \in [Page -> 0 .. 3]
    <3>1. (IF gc THEN 3 ELSE 2) \in 0 .. 3
      OBVIOUS
    <3>. QED BY <1>11, <2>3, <3>1 DEF TypeOK, MigrateFront
  <2>6. migration_count' \in Nat
    BY <1>11 DEF TypeOK, MigrateFront
  <2>. QED BY <1>11, <2>2, <2>4, <2>5, <2>6 DEF TypeOK, MigrateFront, selection, distances
<1>12. CASE EndMigration
  BY <1>12, AllZeroType DEF TypeOK, EndMigration, table, selection, distances
<1>13. CASE UNCHANGED vars
  BY <1>13 DEF TypeOK, vars, table, selection, distances
<1>. QED BY <1>1, <1>2, <1>3, <1>4, <1>5, <1>6, <1>7, <1>8, <1>9, <1>10, <1>11, <1>12, <1>13
         DEF Next

\* The tables, queues and counters have their ranges.
THEOREM TypeCorrect == Spec => []TypeOK
BY InitTypeOK, TypeOKStep, PTL DEF Spec
-----------------------------------------------------------------------------
LEMMA PagesDistinctStep ==
    ASSUME TypeOK, PagesDistinct, [Next]_vars
    PROVE  PagesDistinct'
<1>1. CASE UNCHANGED hardware
  BY <1>1 DEF PagesDistinct
<1>2. CASE MigrateFront
  <2>. DEFINE r == Head(remapping_request_queue)
  <2>1. r \in Request
    BY <1>2 DEF TypeOK, MigrateFront
  <2>2. r.address_in_fm \in Page /\ r.address_in_sm \in Page
    BY <2>1 DEF Request
  <2>3. hardware' = [hardware EXCEPT ![r.address_in_fm] = hardware[r.address_in_sm],
                                     ![r.address_in_sm] = hardware[r.address_in_fm]]
    BY <1>2 DEF MigrateFront, Exchanged
  <2>. HIDE DEF r
  <2>. QED BY <2>2, <2>3 DEF TypeOK, PagesDistinct
<1>3. ~MigrateFront => UNCHANGED hardware
  BY DEF Next, Access, Retire, StartGc, EndCpuCycle, SkipPage, DropFastPage, PairVictim,
         BeginColdLoop, EndSelection, OperateController, EndMigration, loopVars, table, vars
<1>. QED BY <1>1, <1>2, <1>3

\* After any sequence of epochs and collections the page table is injective:
\* no two pages of the program share a hardware page
\* (finish_remapping_request).
THEOREM PageTableInjective == Spec => []PagesDistinct
<1>1. Init => PagesDistinct
  BY DEF Init, PagesDistinct
<1>2. TypeOK /\ PagesDistinct /\ [Next]_vars => PagesDistinct'
  BY PagesDistinctStep
<1>. QED BY <1>1, <1>2, TypeCorrect, PTL DEF Spec
-----------------------------------------------------------------------------
LEMMA InitInv == Init => MigrationInv
<1>. SUFFICES ASSUME Init PROVE MigrationInv
  OBVIOUS
<1>1. TypeOK
  BY InitTypeOK
<1>2. CountedPagesMarked
  BY DEF Init, CountedPagesMarked
<1>3. SelectionInv /\ QueueDrained /\ PromotionsImprove
  BY DEF Init, SelectionInv, QueueDrained, PromotionsImprove
<1>4. DOMAIN remapping_request_queue = {}
  BY DEF Init
<1>. QED BY <1>1, <1>2, <1>3, <1>4
         DEF MigrationInv, RequestsInPlace, QueuedPagesDistinct, QueuedPageAccessed

\* The parts of the invariant that speak of the requests and not of phases.
QueueParts == RequestsInPlace /\ QueuedPagesDistinct /\ QueuedPageAccessed

LEMMA QueueUnchanged ==
    ASSUME QueueParts, UNCHANGED <<hardware, mark, remapping_request_queue>>
    PROVE  QueueParts'
BY DEF QueueParts, RequestsInPlace, QueuedPagesDistinct, QueuedPageAccessed, InFast

LEMMA QueueEmptied ==
    ASSUME remapping_request_queue' = << >>
    PROVE  QueueParts' /\ PromotionsImprove'
BY DEF QueueParts, RequestsInPlace, QueuedPagesDistinct, QueuedPageAccessed, PromotionsImprove

LEMMA AccessInv ==
    ASSUME MigrationInv, TypeOK', NEW p \in Page, Access(p)
    PROVE  MigrationInv'
<1>1. CountedPagesMarked'
  BY ConstantFacts DEF MigrationInv, TypeOK, CountedPagesMarked, Access, Counted
<1>2. SelectionInv' /\ QueueDrained' /\ PromotionsImprove'
  BY DEF MigrationInv, Access, SelectionInv, QueueDrained, PromotionsImprove
<1>3. RequestsInPlace' /\ QueuedPagesDistinct'
  BY DEF MigrationInv, Access, RequestsInPlace, QueuedPagesDistinct, InFast
<1>4. QueuedPageAccessed'
  <2>1. \A q \in Page : mark[q] > 0 => mark'[q] > 0
    BY DEF MigrationInv, TypeOK, Access
  <2>2. \A i \in DOMAIN remapping_request_queue : remapping_request_queue[i].address_in_sm \in Page
    <3>1. remapping_request_queue \in Seq(Request)
      BY DEF MigrationInv, TypeOK
    <3>2. \A i \in DOMAIN remapping_request_queue : remapping_request_queue[i] \in Request
      BY <3>1
    <3>. QED BY <3>2 DEF Request
  <2>. QED BY <2>1, <2>2 DEF MigrationInv, QueuedPageAccessed, Access
<1>. QED BY <1>1, <1>2, <1>3, <1>4 DEF MigrationInv

LEMMA RetireInv ==
    ASSUME MigrationInv, TypeOK', NEW n \in 0 .. RetireWidth, Retire(n)
    PROVE  MigrationInv'
<1>1. /\ remapping_request_queue = << >>
      /\ UNCHANGED <<gc, hardware, mark, counter_table, remapping_request_queue>>
  BY DEF MigrationInv, QueueDrained, Retire, table
<1>2. CountedPagesMarked' /\ QueueParts' /\ PromotionsImprove' /\ QueueDrained' /\ ~gc
  BY <1>1, QueueEmptied DEF MigrationInv, CountedPagesMarked, QueueDrained, Retire
<1>3. gc = FALSE => SelectionInv'
  <2>1. CASE phase' = "execute"
    BY <2>1 DEF SelectionInv
  <2>2. CASE /\ hot_queue' \in HotQueues(counter_table, Hot, MaxPages)
             /\ since_migration' = 0
    BY <1>1, <2>2, HotQueuesProperties DEF SelectionInv, Threshold
  <2>. QED BY <2>1, <2>2 DEF Retire
<1>. QED BY <1>2, <1>3 DEF MigrationInv, QueueParts


LEMMA StartGcInv ==
    ASSUME MigrationInv, TypeOK', NEW us \in SUBSET Page, NEW full \in BOOLEAN, StartGc(us, full)
    PROVE  MigrationInv'
<1>. DEFINE count == [p \in Page |-> IF p \in us THEN 0 ELSE counter_table[p]]
<1>1. /\ phase = "execute" /\ remapping_request_queue' = << >> /\ since_migration' = 0
      /\ UNCHANGED mark
  BY DEF StartGc, table
<1>2. QueueParts' /\ PromotionsImprove'
  BY <1>1, QueueEmptied
<1>3. CASE full
  <2>1. counter_table' = AllZero /\ UNCHANGED <<phase, gc>>
    BY <1>3 DEF StartGc
  <2>2. CountedPagesMarked' /\ SelectionInv' /\ QueueDrained'
    BY <1>1, <2>1 DEF MigrationInv, CountedPagesMarked, SelectionInv, QueueDrained, AllZero
  <2>. QED BY <1>2, <2>2 DEF MigrationInv, QueueParts
<1>4. CASE ~full
  <2>1. /\ hot_queue' \in HotQueues(count, HotWithGc, MaxPagesWithGc)
        /\ counter_table' = count /\ gc' = TRUE /\ phase' = "unaccessed"
    BY <1>4 DEF StartGc
  <2>2. \A p \in Page : count[p] > 0 => counter_table[p] > 0
    OBVIOUS
  <2>. HIDE DEF count
  <2>3. CountedPagesMarked'
    BY <1>1, <2>1, <2>2 DEF MigrationInv, CountedPagesMarked
  <2>4. SelectionInv'
    BY <1>1, <2>1, HotQueuesProperties DEF SelectionInv, Threshold
  <2>5. QueueDrained'
    BY <2>1 DEF QueueDrained
  <2>. QED BY <1>2, <2>3, <2>4, <2>5 DEF MigrationInv, QueueParts
<1>. QED BY <1>3, <1>4

LEMMA SkipPageInv ==
    ASSUME MigrationInv, TypeOK', SkipPage \/ DropFastPage
    PROVE  MigrationInv'
<1>1. /\ UNCHANGED <<phase, gc, hardware, mark, counter_table, since_migration, remapping_request_queue>>
      /\ hot_queue' = hot_queue \/ hot_queue' = Tail(hot_queue)
      /\ hot_queue # << >>
      /\ phase \in {"unaccessed", "cold"}
  BY DEF SkipPage, DropFastPage, Searching, loopVars, table, distances
<1>2. QueueParts'
  BY <1>1, QueueUnchanged DEF MigrationInv, QueueParts
<1>3. CountedPagesMarked' /\ QueueDrained' /\ PromotionsImprove'
  BY <1>1 DEF MigrationInv, CountedPagesMarked, QueueDrained, PromotionsImprove
<1>4. SelectionInv'
  <2>1. CASE hot_queue' = hot_queue
    BY <1>1, <2>1 DEF MigrationInv, SelectionInv, Threshold
  <2>2. CASE hot_queue' = Tail(hot_queue)
    <3>1. /\ DOMAIN hot_queue' = 1 .. Len(hot_queue) - 1
          /\ \A i \in DOMAIN hot_queue' : /\ i + 1 \in DOMAIN hot_queue
                                         /\ hot_queue'[i] = hot_queue[i + 1]
      BY <1>1, <2>2 DEF MigrationInv, TypeOK
    <3>. QED BY <1>1, <3>1 DEF MigrationInv, SelectionInv, Threshold
  <2>. QED BY <1>1, <2>1, <2>2
<1>. QED BY <1>2, <1>3, <1>4 DEF MigrationInv, QueueParts

LEMMA PairVictimInv ==
    ASSUME MigrationInv, TypeOK', PairVictim
    PROVE  MigrationInv'
<1>. DEFINE q == remapping_request_queue
            p == Head(hot_queue)
            r == [address_in_fm |-> victim, address_in_sm |-> p]
<1>1. /\ UNCHANGED <<phase, gc, hardware, mark, counter_table, since_migration>>
      /\ hot_queue' = Tail(hot_queue) /\ hot_queue # << >>
      /\ q' = Enqueue(r) /\ phase \in {"unaccessed", "cold"}
      /\ victim < PageNumber /\ IsVictim(victim) /\ ~InFast(p)
  BY DEF PairVictim, Searching, loopVars, table, distances
<1>2. /\ hot_queue \in Seq(Page) /\ q \in Seq(Request) /\ victim \in Page
      /\ counter_table \in [Page -> 0 .. CounterMax] /\ mark \in [Page -> 0 .. 3]
  BY <1>1, PageFacts DEF MigrationInv, TypeOK
<1>3. /\ p \in Page /\ r \in Request /\ p = hot_queue[1] /\ 1 \in DOMAIN hot_queue
      /\ r.address_in_fm = victim /\ r.address_in_sm = p
  BY <1>1, <1>2 DEF Request
<1>4. /\ DOMAIN hot_queue' = 1 .. Len(hot_queue) - 1
      /\ \A i \in DOMAIN hot_queue' : /\ i + 1 \in DOMAIN hot_queue
                                     /\ hot_queue'[i] = hot_queue[i + 1]
                                     /\ hot_queue'[i] # p
  BY <1>1, <1>2, <1>3 DEF MigrationInv, SelectionInv
<1>5. InFast(victim) /\ counter_table[victim] < counter_table[p] /\ mark[p] > 0
  <2>1. counter_table[p] >= Threshold
    BY <1>1, <1>3 DEF MigrationInv, SelectionInv
  <2>2. Threshold \in Nat /\ Threshold > 0
    BY ConstantFacts DEF Threshold, MigrationInv, TypeOK
  <2>3. counter_table[victim] < Threshold
    <3>1. CASE phase = "unaccessed"
      <4>1. mark[victim] = 0
        BY <1>1, <3>1 DEF IsVictim
      <4>2. counter_table[victim] = 0
        BY <1>2, <4>1, ConstantFacts DEF MigrationInv, CountedPagesMarked
      <4>. QED BY <2>2, <4>2
    <3>2. CASE phase = "cold"
      BY <1>1, <1>2, <3>2, ConstantFacts DEF IsVictim, Threshold
    <3>. QED BY <1>1, <3>1, <3>2
  <2>4. counter_table[p] \in 0 .. CounterMax /\ counter_table[victim] \in 0 .. CounterMax
    BY <1>2, <1>3
  <2>5. counter_table[victim] < counter_table[p] /\ counter_table[p] > 0
    BY <2>1, <2>2, <2>3, <2>4, ConstantFacts
  <2>. QED BY <1>1, <1>3, <2>5 DEF IsVictim, MigrationInv, CountedPagesMarked
<1>6. \/ q' = q
      \/ /\ DOMAIN q' = 1 .. Len(q) + 1
         /\ \A i \in 1 .. Len(q) : q'[i] = q[i] /\ q[i].address_in_fm # victim
         /\ q'[Len(q) + 1] = r
  <2>. HIDE DEF r
  <2>. QED BY <1>1, <1>2, <1>3, EnqueueProperties DEF MigrationInv
<1>7. \A i \in 1 .. Len(q) : q[i].address_in_sm # p
  BY <1>1, <1>2, <1>3 DEF MigrationInv, SelectionInv
<1>. HIDE DEF r, p, q
<1>8. Len(q) \in Nat /\ DOMAIN q = 1 .. Len(q)
  BY <1>2
<1>9. RequestsInPlace'
  BY <1>1, <1>3, <1>5, <1>6, <1>8 DEF MigrationInv, RequestsInPlace, InFast, q
<1>10. QueuedPagesDistinct'
  BY <1>3, <1>6, <1>7, <1>8 DEF MigrationInv, QueuedPagesDistinct, q
<1>11. QueuedPageAccessed'
  BY <1>1, <1>3, <1>5, <1>6, <1>8 DEF MigrationInv, QueuedPageAccessed, q
<1>12. PromotionsImprove'
  BY <1>1, <1>3, <1>5, <1>6, <1>8 DEF MigrationInv, PromotionsImprove, q
<1>13. SelectionInv'
  <2>1. \A i, j \in DOMAIN hot_queue' : hot_queue'[i] = hot_queue'[j] => i = j
    <3>. SUFFICES ASSUME NEW i \in DOMAIN hot_queue', NEW j \in DOMAIN hot_queue',
                         hot_queue'[i] = hot_queue'[j]
                  PROVE  i = j
      OBVIOUS
    <3>1. i + 1 = j + 1
      BY <1>1, <1>4 DEF MigrationInv, SelectionInv
    <3>. QED BY <1>4, <3>1
  <2>2. \A i \in DOMAIN hot_queue' : counter_table'[hot_queue'[i]] >= Threshold'
    BY <1>1, <1>4 DEF MigrationInv, SelectionInv, Threshold
  <2>3. \A i \in DOMAIN q', j \in DOMAIN hot_queue' : q'[i].address_in_sm # hot_queue'[j]
    <3>. SUFFICES ASSUME NEW i \in DOMAIN q', NEW j \in DOMAIN hot_queue'
                  PROVE  q'[i].address_in_sm # hot_queue'[j]
      OBVIOUS
    <3>1. j + 1 \in DOMAIN hot_queue /\ hot_queue'[j] = hot_queue[j + 1] /\ hot_queue'[j] # p
      BY <1>4
    <3>2. \A k \in 1 .. Len(q) : q[k].address_in_sm # hot_queue[j + 1]
      BY <1>1, <1>8, <3>1 DEF MigrationInv, SelectionInv, q
    <3>. QED BY <1>3, <1>6, <1>8, <3>1, <3>2
  <2>. QED BY <1>1, <2>1, <2>2, <2>3 DEF MigrationInv, SelectionInv, q
<1>14. CountedPagesMarked' /\ QueueDrained'
  BY <1>1 DEF MigrationInv, CountedPagesMarked, QueueDrained
<1>. QED BY <1>9, <1>10, <1>11, <1>12, <1>13, <1>14 DEF MigrationInv


LEMMA MigrateFrontInv ==
    ASSUME MigrationInv, TypeOK', MigrateFront
    PROVE  MigrationInv'
<1>. DEFINE q == remapping_request_queue
            r == Head(q)
<1>1. /\ phase = "migrate" /\ q # << >> /\ q' = Tail(q)
      /\ mark' = [mark EXCEPT ![r.address_in_fm] = IF gc THEN 3 ELSE 2,
                              ![r.address_in_sm] = IF gc THEN 3 ELSE 2]
      /\ hardware' = [hardware EXCEPT ![r.address_in_fm] = hardware[r.address_in_sm],
                                      ![r.address_in_sm] = hardware[r.address_in_fm]]
      /\ UNCHANGED <<phase, gc, counter_table>>
  BY DEF MigrateFront, Exchanged
<1>2. /\ q \in Seq(Request) /\ hardware \in [Page -> Page] /\ mark \in [Page -> 0 .. 3]
  BY DEF MigrationInv, TypeOK
<1>3. /\ r \in Request /\ r = q[1] /\ 1 \in DOMAIN q
      /\ DOMAIN q' = 1 .. Len(q) - 1
      /\ \A i \in DOMAIN q' : i + 1 \in DOMAIN q /\ q'[i] = q[i + 1] /\ q[i + 1] \in Request
  BY <1>1, <1>2
<1>4. r.address_in_fm \in Page /\ r.address_in_sm \in Page
  BY <1>3 DEF Request
<1>5. \A p \in Page : mark[p] > 0 => mark'[p] > 0
  BY <1>1, <1>2, <1>4
<1>6. CountedPagesMarked' /\ SelectionInv' /\ QueueDrained' /\ PromotionsImprove'
  BY <1>1, <1>5 DEF MigrationInv, CountedPagesMarked, SelectionInv, QueueDrained, PromotionsImprove
<1>. HIDE DEF r
<1>7. \A i \in DOMAIN q' : /\ q'[i].address_in_fm \in Page /\ q'[i].address_in_sm \in Page
                          /\ q'[i].address_in_fm # r.address_in_fm
                          /\ q'[i].address_in_sm # r.address_in_sm
  <2>. TAKE i \in DOMAIN q'
  <2>1. i + 1 \in DOMAIN q /\ i + 1 # 1 /\ q'[i] = q[i + 1] /\ q[i + 1] \in Request
    BY <1>3
  <2>. QED BY <1>3, <2>1 DEF MigrationInv, QueuedPagesDistinct, Request
<1>8. RequestsInPlace'
  <2>. SUFFICES ASSUME NEW i \in DOMAIN q'
                PROVE  /\ hardware'[q'[i].address_in_fm] < FastPages
                       /\ ~(hardware'[q'[i].address_in_sm] < FastPages)
    BY DEF RequestsInPlace, InFast
  <2>1. /\ hardware[q'[i].address_in_fm] < FastPages
        /\ ~(hardware[q'[i].address_in_sm] < FastPages)
        /\ hardware[r.address_in_fm] < FastPages
        /\ ~(hardware[r.address_in_sm] < FastPages)
    BY <1>3 DEF MigrationInv, RequestsInPlace, InFast
  <2>2. q'[i].address_in_fm # r.address_in_sm /\ q'[i].address_in_sm # r.address_in_fm
    BY <2>1
  <2>3. /\ hardware'[q'[i].address_in_fm] = hardware[q'[i].address_in_fm]
        /\ hardware'[q'[i].address_in_sm] = hardware[q'[i].address_in_sm]
    BY <1>1, <1>2, <1>4, <1>7, <2>2
  <2>. QED BY <2>1, <2>3
<1>9. QueuedPagesDistinct'
  <2>. SUFFICES ASSUME NEW i \in DOMAIN q', NEW j \in DOMAIN q',
                       \/ q'[i].address_in_fm = q'[j].address_in_fm
                       \/ q'[i].address_in_sm = q'[j].address_in_sm
                PROVE  i = j
    BY DEF QueuedPagesDistinct
  <2>1. i + 1 = j + 1
    BY <1>3 DEF MigrationInv, QueuedPagesDistinct
  <2>. QED BY <1>3, <2>1
<1>10. QueuedPageAccessed'
  <2>. SUFFICES ASSUME NEW i \in DOMAIN q' PROVE mark'[q'[i].address_in_sm] > 0
    BY DEF QueuedPageAccessed
  <2>1. mark[q'[i].address_in_sm] > 0
    BY <1>3 DEF MigrationInv, QueuedPageAccessed
  <2>. QED BY <1>5, <1>7, <2>1
<1>. QED BY <1>6, <1>8, <1>9, <1>10 DEF MigrationInv

LEMMA OtherInv ==
    ASSUME MigrationInv, TypeOK',
           \/ EndCpuCycle \/ BeginColdLoop \/ EndSelection \/ OperateController \/ EndMigration
           \/ UNCHANGED vars
    PROVE  MigrationInv'
<1>1. UNCHANGED <<hardware, mark, remapping_request_queue>>
  BY DEF EndCpuCycle, BeginColdLoop, EndSelection, OperateController, EndMigration, vars, table
<1>2. QueueParts'
  BY <1>1, QueueUnchanged DEF MigrationInv, QueueParts
<1>3. counter_table' = counter_table \/ counter_table' = AllZero
  BY DEF EndCpuCycle, BeginColdLoop, EndSelection, OperateController, EndMigration, vars
<1>4. CountedPagesMarked'
  BY <1>1, <1>3 DEF MigrationInv, CountedPagesMarked, AllZero
<1>5. CASE BeginColdLoop
  <2>1. /\ UNCHANGED <<gc, counter_table, hot_queue, since_migration>>
        /\ phase = "unaccessed" /\ phase' = "cold"
    BY <1>5 DEF BeginColdLoop, distances
  <2>2. SelectionInv' /\ PromotionsImprove' /\ QueueDrained'
    BY <1>1, <2>1 DEF MigrationInv, SelectionInv, PromotionsImprove, QueueDrained, Threshold
  <2>. QED BY <1>2, <1>4, <2>2 DEF MigrationInv, QueueParts
<1>6. CASE UNCHANGED vars
  BY <1>1, <1>2, <1>4, <1>6 DEF MigrationInv, QueueParts, SelectionInv, PromotionsImprove,
     QueueDrained, Threshold, vars, selection, distances
<1>7. CASE EndCpuCycle \/ EndSelection \/ OperateController \/ EndMigration
  <2>1. phase' \notin {"unaccessed", "cold"}
    BY <1>7 DEF EndCpuCycle, EndSelection, OperateController, EndMigration
  <2>2. SelectionInv' /\ PromotionsImprove'
    BY <2>1 DEF SelectionInv, PromotionsImprove
  <2>3. QueueDrained'
    BY <1>1, <1>7 DEF MigrationInv, SelectionInv, QueueDrained, EndCpuCycle, EndSelection,
       OperateController, EndMigration, distances
  <2>. QED BY <1>2, <1>4, <2>2, <2>3 DEF MigrationInv, QueueParts
<1>. QED BY <1>5, <1>6, <1>7

\* The invariant of page selection and migration, through epochs, collections
\* and the cycles of the controller.
THEOREM MigrationInvariant == Spec => []MigrationInv
<1>1. MigrationInv /\ [Next]_vars => MigrationInv'
  <2>. SUFFICES ASSUME MigrationInv, [Next]_vars PROVE MigrationInv'
    OBVIOUS
  <2>1. TypeOK'
    BY TypeOKStep DEF MigrationInv
  <2>. QED BY <2>1, AccessInv, RetireInv, StartGcInv, SkipPageInv, PairVictimInv, MigrateFrontInv,
              OtherInv DEF Next
<1>. QED BY <1>1, InitInv, PTL DEF Spec

\* Requests made against one table and carried out one after the other each
\* find a page of fast and an accessed page of slow memory: no abort() or
\* exit() on the way is reached (enqueue_remapping_request,
\* migration_all_start_with_gc, finish_remapping_request).
THEOREM QueueStaysMigratable == Spec => []QueueMigratable
BY MigrationInvariant, PTL DEF MigrationInv, QueueMigratable

\* A page never loses its place to one with no more accesses
\* (add_new_remapping_request_to_queue and its GC version).
THEOREM PromotionsAreUseful == Spec => []PromotionsImprove
BY MigrationInvariant, PTL DEF MigrationInv

\* A collection never throws queued migrations away (do_execution).
THEOREM CollectionsDiscardNothing == Spec => GcDiscardsNothing
<1>1. MigrationInv /\ [Next]_vars => [phase = "execute" => UNCHANGED remapping_request_queue]_vars
  <2>. SUFFICES ASSUME MigrationInv, Next, phase = "execute" PROVE UNCHANGED remapping_request_queue
    OBVIOUS
  <2>1. ASSUME NEW us \in SUBSET Page, NEW full \in BOOLEAN, StartGc(us, full)
        PROVE  UNCHANGED remapping_request_queue
    <3>1. since_migration # 0 /\ remapping_request_queue' = << >>
      BY <2>1, ConstantFacts DEF StartGc, MigrationIsFar
    <3>. QED BY <3>1 DEF MigrationInv, QueueDrained
  <2>. QED BY <2>1 DEF Next, Access, Retire, EndCpuCycle, SkipPage, DropFastPage, PairVictim,
              Searching, BeginColdLoop, EndSelection, OperateController, MigrateFront, EndMigration
<1>. QED BY <1>1, MigrationInvariant, PTL DEF Spec, GcDiscardsNothing

=============================================================================
