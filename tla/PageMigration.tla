---------------------------- MODULE PageMigration ----------------------------
(***************************************************************************)
(* History-based page selection with migration during garbage collection   *)
(* (source/history_based_page_selection.cc, its callers in                 *)
(* source/ChampSim/ooo_cpu.cc, and migration_all_start() in                *)
(* include/ChampSim/dram_controller.h): the configuration that is built.   *)
(*                                                                         *)
(* Pages are counted as they are accessed. At the end of an epoch the CPU  *)
(* lists the hot pages and pairs those in slow memory with pages of fast   *)
(* memory that were never accessed, then with cold ones; the memory        *)
(* controller carries out the queued pairs in its next cycle. When a       *)
(* garbage collection starts the CPU does the same with other thresholds   *)
(* and carries the pairs out itself.                                       *)
(*                                                                         *)
(* A cycle is "retire", "execute", "initiate"; the loops over the pages    *)
(* ("unaccessed" then "cold") and over the queue ("migrate") take one step *)
(* for each turn, and nothing else happens until they are over: the        *)
(* threads that run them are joined at once.                               *)
(***************************************************************************)
EXTENDS Integers, Sequences, FiniteSets

CONSTANTS
    FastPages,          \* pages 0 .. FastPages-1 of the hardware are fast
    SlowPages,
    QueueLength,        \* REMAPPING_REQUEST_QUEUE_LENGTH
    CounterMax,         \* COUNTER_MAX_VALUE
    Hot, Cold,          \* HOTNESS_THRESHOLD, COLDNESS_THRESHOLD
    HotWithGc, ColdWithGc,
    MaxPages,           \* MAX_PAGES_MIG
    MaxPagesWithGc,     \* MAX_PAGES_GCM
    EpochLength,        \* EPOCH_LENGTH, in retired instructions
    MigrationDistance,  \* DISTANCE_MIGRATION
    RetireWidth         \* most instructions retired between two cycles of the controller

ASSUME PageAssumption ==
    /\ FastPages \in Nat \ {0}
    /\ SlowPages \in Nat \ {0}
    /\ QueueLength \in Nat \ {0}
    /\ {CounterMax, Hot, Cold, HotWithGc, ColdWithGc, MaxPages, MaxPagesWithGc} \subseteq Nat
    /\ Hot > 0 /\ HotWithGc > 0
    /\ Cold <= Hot /\ ColdWithGc <= HotWithGc
    /\ {EpochLength, MigrationDistance, RetireWidth} \subseteq Nat

PageNumber == FastPages + SlowPages
Page == 0 .. PageNumber - 1

\* The two addresses of a request are those of physical pages.
Request == [address_in_fm : Page, address_in_sm : Page]

VARIABLES
    phase,
    gc,                \* the loop that is running belongs to a garbage collection
    hardware,          \* remapping_data_block_table[p].first
    mark,              \* remapping_data_block_table[p].second: 0 never accessed, 1 accessed,
                       \* 2 migrated, 3 migrated with a garbage collection
    counter_table,
    hotness_table,     \* the hot pages
    hot_queue,         \* hotness_data_block_address_queue, hottest first
    unmarked,          \* the pages the collection found unmarked
    victim,            \* p_data_block_address, the index of the loop over the pages
    remapping_request_queue,
    migration_count,   \* migrations counted by the loop over the queue
    since_epoch,       \* num_retired - pre_instr, up to EpochLength + 1
    since_migration    \* num_retired - pre_migration_instr, up to MigrationDistance + 1

table == <<hardware, mark>>
selection == <<hotness_table, hot_queue, unmarked, victim>>
distances == <<since_epoch, since_migration>>
vars == <<phase, gc, table, counter_table, selection, remapping_request_queue,
          migration_count, distances>>
-----------------------------------------------------------------------------
TypeOK ==
    /\ phase \in {"retire", "execute", "initiate", "unaccessed", "cold", "migrate"}
    /\ gc \in BOOLEAN
    /\ hardware \in [Page -> Page]
    /\ mark \in [Page -> 0 .. 3]
    /\ counter_table \in [Page -> 0 .. CounterMax]
    /\ hotness_table \subseteq Page
    /\ hot_queue \in Seq(Page)
    /\ unmarked \subseteq Page
    /\ victim \in 0 .. PageNumber
    /\ remapping_request_queue \in Seq(Request)
    /\ migration_count \in Nat
    /\ since_epoch \in 0 .. EpochLength + 1
    /\ since_migration \in 0 .. MigrationDistance + 1

Init ==
    /\ phase = "retire"
    /\ gc = FALSE
    /\ hardware = [p \in Page |-> p]
    /\ mark = [p \in Page |-> 0]
    /\ counter_table = [p \in Page |-> 0]
    /\ hotness_table = {}
    /\ hot_queue = <<>>
    /\ unmarked = {}
    /\ victim = 0
    /\ remapping_request_queue = <<>>
    /\ migration_count = 0
    /\ since_epoch = 0
    /\ since_migration = 0

InFast(p) == hardware[p] < FastPages

AllZero == [p \in Page |-> 0]
-----------------------------------------------------------------------------
(* Requests of the last-level cache *)

\* A mutant of Counted: the counter does not saturate.
Incremented(c) == c + 1

Counted(c) == IF c < CounterMax THEN c + 1 ELSE c

\* add_rq() and add_wq(): physical_to_hardware_address() marks the page as
\* accessed, then memory_activity_tracking() counts it.
Access(p) ==
    /\ phase = "initiate"
    /\ mark' = [mark EXCEPT ![p] = IF @ = 0 THEN 1 ELSE @]
    /\ counter_table' = [counter_table EXCEPT ![p] = Counted(@)]
    /\ UNCHANGED <<phase, gc, hardware, selection, remapping_request_queue,
                   migration_count, distances>>
-----------------------------------------------------------------------------
(* Selection of the hot pages *)

SlowAmong(s) == Cardinality({i \in DOMAIN s : ~InFast(s[i])})

\* choose_hotpage_with_sort(): a prefix of the pages in falling order of their
\* counters (std::sort leaves the order of equal ones open), at most as many as
\* there are fast pages, each at least threshold; the page after which more
\* than limit of them are in slow memory is the last.
HotQueues(count, threshold, limit) ==
    {s \in UNION {[1 .. n -> Page] : n \in 0 .. FastPages} :
        LET chosen == {s[i] : i \in DOMAIN s} IN
        /\ \A i, j \in DOMAIN s : i # j => s[i] # s[j]
        /\ \A i \in DOMAIN s : count[s[i]] >= threshold
        /\ \A i, j \in DOMAIN s : i < j => count[s[i]] >= count[s[j]]
        /\ \A i \in DOMAIN s : \A p \in Page \ chosen : count[p] <= count[s[i]]
        /\ \A i \in DOMAIN s : SlowAmong(SubSeq(s, 1, i)) > limit => i = Len(s)
        /\ \/ Len(s) = FastPages
           \/ SlowAmong(s) > limit
           \/ \A p \in Page \ chosen : count[p] < threshold}

\* retire_rob(): when an epoch is over and no migration was made lately, the
\* hot pages are chosen and the loops of add_new_remapping_request_to_queue()
\* begin.
Retire(n) ==
    LET instructions == IF since_epoch + n > EpochLength THEN EpochLength + 1
                        ELSE since_epoch + n
        distance == IF since_migration + n > MigrationDistance THEN MigrationDistance + 1
                    ELSE since_migration + n
    IN
    /\ phase = "retire"
    /\ IF instructions > EpochLength /\ distance > MigrationDistance
       THEN /\ hot_queue' \in HotQueues(counter_table, Hot, MaxPages)
            /\ hotness_table' = {hot_queue'[i] : i \in DOMAIN hot_queue'}
            /\ victim' = 0
            /\ phase' = "unaccessed"
            /\ since_epoch' = 0
            /\ since_migration' = 0
       ELSE /\ phase' = "execute"
            /\ since_epoch' = instructions
            /\ since_migration' = distance
            /\ UNCHANGED <<hot_queue, hotness_table, victim>>
    /\ UNCHANGED <<gc, table, counter_table, unmarked, remapping_request_queue, migration_count>>

\* A mutant of MigrationIsFar: a collection starts whenever it likes.
Anytime == TRUE

MigrationIsFar == since_migration > MigrationDistance

\* do_execution() of the instruction that starts a collection: not too soon
\* after the last migration, both queues are emptied, the pages of the
\* collected objects (us) start from a count of zero, and the hot pages are
\* chosen. A full collection migrates nothing. The counters are cleared.
StartGc(us, full) ==
    LET count == [p \in Page |-> IF p \in us THEN 0 ELSE counter_table[p]] IN
    /\ phase = "execute"
    /\ MigrationIsFar
    /\ remapping_request_queue' = <<>>
    /\ since_migration' = 0
    /\ IF full
       THEN /\ hot_queue' = <<>>
            /\ counter_table' = AllZero
            /\ UNCHANGED <<phase, gc, hotness_table, unmarked, victim>>
       ELSE /\ hot_queue' \in HotQueues(count, HotWithGc, MaxPagesWithGc)
            /\ hotness_table' = {hot_queue'[i] : i \in DOMAIN hot_queue'}
            /\ counter_table' = count
            /\ unmarked' = us
            /\ victim' = 0
            /\ gc' = TRUE
            /\ phase' = "unaccessed"
    /\ UNCHANGED <<table, migration_count, since_epoch>>

\* The CPU has done its cycle; the memory controller is next.
EndCpuCycle ==
    /\ phase = "execute"
    /\ phase' = "initiate"
    /\ UNCHANGED <<gc, table, counter_table, selection, remapping_request_queue,
                   migration_count, distances>>
-----------------------------------------------------------------------------
(* The loops of add_new_remapping_request_to_queue() and its GC version *)

\* Mutants of IsVictim: hot pages are victims too; so are pages in slow memory.
IsFastPage(p) == (gc => p \notin unmarked) /\ InFast(p)
IsColdPage(p) ==
    /\ p \notin hotness_table
    /\ IF phase = "unaccessed" THEN mark[p] = 0
       ELSE counter_table[p] < (IF gc THEN ColdWithGc ELSE Cold)

\* What the loop that is running asks of a page that is to leave fast memory.
IsVictim(p) ==
    /\ p \notin hotness_table
    /\ gc => p \notin unmarked
    /\ IF phase = "unaccessed" THEN mark[p] = 0
       ELSE counter_table[p] < (IF gc THEN ColdWithGc ELSE Cold)
    /\ InFast(p)

\* enqueue_remapping_request(): one request per page of fast memory.
Enqueue(r) ==
    IF /\ \A i \in DOMAIN remapping_request_queue :
             remapping_request_queue[i].address_in_fm # r.address_in_fm
       /\ Len(remapping_request_queue) < QueueLength
    THEN Append(remapping_request_queue, r)
    ELSE remapping_request_queue

Searching == /\ phase \in {"unaccessed", "cold"}
             /\ victim < PageNumber
             /\ hot_queue # <<>>
loopVars == <<phase, gc, table, counter_table, hotness_table, unmarked, migration_count, distances>>

\* A turn of either loop whose page is to stay where it is.
SkipPage ==
    /\ Searching
    /\ ~IsVictim(victim)
    /\ victim' = victim + 1
    /\ UNCHANGED <<loopVars, hot_queue, remapping_request_queue>>

\* The page is to leave, and the hottest page left is in fast memory already.
DropFastPage ==
    /\ Searching
    /\ IsVictim(victim)
    /\ InFast(Head(hot_queue))
    /\ hot_queue' = Tail(hot_queue)
    /\ UNCHANGED <<loopVars, victim, remapping_request_queue>>

\* The page is to leave, and is paired with the hottest page left.
PairVictim ==
    /\ Searching
    /\ IsVictim(victim)
    /\ ~InFast(Head(hot_queue))
    /\ hot_queue' = Tail(hot_queue)
    /\ remapping_request_queue' = Enqueue([address_in_fm |-> victim,
                                           address_in_sm |-> Head(hot_queue)])
    /\ victim' = victim + 1
    /\ UNCHANGED loopVars

LoopIsOver == victim = PageNumber \/ hot_queue = <<>>

BeginColdLoop ==
    /\ phase = "unaccessed"
    /\ LoopIsOver
    /\ phase' = "cold"
    /\ victim' = 0
    /\ UNCHANGED <<gc, table, counter_table, hotness_table, hot_queue, unmarked,
                   remapping_request_queue, migration_count, distances>>

\* After an epoch the counters and the hotness table are cleared; a collection
\* goes on to migration_all_start_with_gc() first.
EndSelection ==
    /\ phase = "cold"
    /\ LoopIsOver
    /\ hot_queue' = <<>>
    /\ hotness_table' = {}
    /\ unmarked' = {}
    /\ victim' = 0
    /\ IF gc THEN /\ phase' = "migrate"
                  /\ migration_count' = 0
                  /\ UNCHANGED counter_table
             ELSE /\ phase' = "execute"
                  /\ counter_table' = AllZero
                  /\ UNCHANGED migration_count
    /\ UNCHANGED <<gc, table, remapping_request_queue, distances>>
-----------------------------------------------------------------------------
(* Migration *)

\* operate() of the memory controller, after the requests of the cache.
OperateController ==
    /\ phase = "initiate"
    /\ IF remapping_request_queue = <<>>
       THEN phase' = "retire" /\ UNCHANGED migration_count
       ELSE phase' = "migrate" /\ migration_count' = 0
    /\ UNCHANGED <<gc, table, counter_table, selection, remapping_request_queue, distances>>

\* A mutant of Exchanged: the page that leaves fast memory keeps its entry.
HalfExchanged(h, fm, sm) == [h EXCEPT ![sm] = h[fm]]

\* The hardware pages h with those of physical pages fm and sm exchanged.
Exchanged(h, fm, sm) == [h EXCEPT ![fm] = h[sm], ![sm] = h[fm]]

\* One turn of migration_all_start() or migration_all_start_with_gc(): the
\* migration is counted, both pages are marked, and finish_remapping_request()
\* pops the request and exchanges the hardware pages.
MigrateFront ==
    LET r  == Head(remapping_request_queue)
        fm == r.address_in_fm
        sm == r.address_in_sm
        both == IF gc THEN mark[fm] > 1 /\ mark[sm] > 1 ELSE mark[fm] > 0 /\ mark[sm] > 0
    IN
    /\ phase = "migrate"
    /\ remapping_request_queue # <<>>
    /\ migration_count' = migration_count + (IF both THEN 2 ELSE 1)
    /\ mark' = [mark EXCEPT ![fm] = IF gc THEN 3 ELSE 2, ![sm] = IF gc THEN 3 ELSE 2]
    /\ hardware' = Exchanged(hardware, fm, sm)
    /\ remapping_request_queue' = Tail(remapping_request_queue)
    /\ UNCHANGED <<phase, gc, counter_table, selection, distances>>

\* The queue is empty: the thread is joined.
EndMigration ==
    /\ phase = "migrate"
    /\ remapping_request_queue = <<>>
    /\ phase' = IF gc THEN "execute" ELSE "retire"
    /\ counter_table' = IF gc THEN AllZero ELSE counter_table
    /\ gc' = FALSE
    /\ migration_count' = 0
    /\ UNCHANGED <<table, selection, remapping_request_queue, distances>>

Next ==
    \/ \E p \in Page : Access(p)
    \/ \E n \in 0 .. RetireWidth : Retire(n)
    \/ \E us \in SUBSET Page, full \in BOOLEAN : StartGc(us, full)
    \/ EndCpuCycle
    \/ SkipPage \/ DropFastPage \/ PairVictim \/ BeginColdLoop \/ EndSelection
    \/ OperateController \/ MigrateFront \/ EndMigration

Spec == Init /\ [][Next]_vars
-----------------------------------------------------------------------------
(* Properties *)

\* No two physical pages share a hardware page, after any sequence of epochs
\* and collections.
PagesDistinct == \A p, q \in Page : hardware[p] = hardware[q] => p = q

\* The parts of QueueMigratable. A request still finds its first page in fast and its
\* second in slow memory.
RequestsInPlace ==
    \A i \in DOMAIN remapping_request_queue :
        /\ InFast(remapping_request_queue[i].address_in_fm)
        /\ ~InFast(remapping_request_queue[i].address_in_sm)

\* A page takes part in at most one of the queued migrations, although the
\* second loop looks again at the pages the first one used.
QueuedPagesDistinct ==
    \A i, j \in DOMAIN remapping_request_queue :
        \/ remapping_request_queue[i].address_in_fm = remapping_request_queue[j].address_in_fm
        \/ remapping_request_queue[i].address_in_sm = remapping_request_queue[j].address_in_sm
        => i = j

\* The page that is to enter fast memory has been accessed, also when counters
\* were cleared or zeroed in between.
QueuedPageAccessed ==
    \A i \in DOMAIN remapping_request_queue :
        mark[remapping_request_queue[i].address_in_sm] > 0

\* Requests are made against the table and the marks as they were when the loops ran and
\* are carried out one after the other: each still moves an accessed page of slow memory
\* to fast memory and no page of another one, so no abort() or exit() of
\* enqueue_remapping_request(), finish_remapping_request() and
\* migration_all_start_with_gc() is reached.
QueueMigratable == RequestsInPlace /\ QueuedPagesDistinct /\ QueuedPageAccessed

\* A migration never exchanges a page for one with no more accesses.
PromotionsImprove ==
    phase \in {"unaccessed", "cold"} =>
        \A i \in DOMAIN remapping_request_queue :
            counter_table[remapping_request_queue[i].address_in_fm]
                < counter_table[remapping_request_queue[i].address_in_sm]

\* A starting collection empties the remapping request queue, but never throws
\* an epoch's decisions away: migrations are far enough apart for the
\* controller to have carried them out.
GcDiscardsNothing == [][phase = "execute" => UNCHANGED remapping_request_queue]_vars

\* "issue a remapping_request to move the pages of the hotness queue to fast
\* memory" (add_new_remapping_request_to_queue): when the loops are over, a hot
\* page was left in slow memory only for want of a cold one in fast memory.
HotPagesServed ==
    [][EndSelection /\ Len(remapping_request_queue) < QueueLength =>
        \/ \A p \in hotness_table : \/ InFast(p)
                                    \/ \E i \in DOMAIN remapping_request_queue :
                                          remapping_request_queue[i].address_in_sm = p
        \/ \A p \in Page : IsVictim(p) =>
              \E i \in DOMAIN remapping_request_queue :
                  remapping_request_queue[i].address_in_fm = p]_vars
=============================================================================
