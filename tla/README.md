# A verification project for ChampSim-Ramulator

ChampSim-Ramulator is a trace-driven processor simulator (ChampSim) joined to a
DRAM simulator (a fork of Ramulator), extended with a hybrid memory: a fast
memory and a slow one behind one controller, a *swapping unit* that exchanges
data between them, and *OS-transparent managements* that decide what to
exchange. This directory holds TLA+ modules of its core logic, TLC
configurations that check them on small instances, and TLAPS proofs of their
main properties for every instance.

Source paths below are relative to the repository.

## 1. Inventory

### Parts and how they interact

Every cycle `do_phase()` (`source/ChampSim/champsim.cc`) calls the `operate()` of
every core, cache, page table walker and of the memory controller. They exchange
packets through channels (bounded read, write and prefetch queues and a queue of
answers). The memory controller translates a packet's physical address to a
hardware address through the table of the management, offers it to the swapping
unit, and otherwise sends it to one of two Ramulator memories, which calls
`return_data()` or `return_swapping_data()` back when a read is done. The
management is told of every attempt to send a request
(`memory_activity_tracking()`), keeps a queue of remapping requests, and its
table is changed (`finish_remapping_request()`) when the swap of the front
request is over.

The managements are alternatives chosen by macros in `champsim_constants.h`. The
committed choice is the history-based page selection with migration during
garbage collection; there the controller and the collecting core carry out whole
queues of migrations at once, and the cycle-by-cycle swapping unit is used by the
other managements.

| component | state | operations | what makes it correct |
|---|---|---|---|
| Swapping unit (`include/ChampSim/dram_controller.h`) | `states`, buffer entries with six flags and two data slots, `finish_number`, base addresses | start, issue reads and write-backs, take returned reads, forward reads, absorb writes, finish, clear | no line's data lost or misplaced, exact count of finished entries, each swap is that of the front request, swaps end |
| CAMEO (`source/cameo.cc`) | line location table, counters, hot lines, request queue | track, promote hot line, enqueue, finish | table is a permutation, queued requests stay current |
| History-based selection (`source/history_based_page_selection.cc`, driven by `source/ChampSim/ooo_cpu.cc`) | page table with marks, counters, hot pages, request queue | count, choose, two pairing loops, bulk migration, GC variant | table is a permutation, no `abort()` or `exit()`, promotions help, nothing queued is lost |
| MemPod (`source/ideal_single_mempod.cc`) | MEA counters, two inverse tables, queue of swaps | MEA update, interval, pair choice, cancel | the two tables stay inverse, pairs are one fast and one slow page |
| Variable granularity (`source/variable_granularity.cc`) | placement tables, start addresses, migrations of several sizes | promote, evict, shrink | data blocks do not overlap, tables agree |
| Ramulator controller (`include/Ramulator/Controller.h`) | readq, writeq, actq, otherq, pending, write mode, row table | `enqueue()`, `tick()` | each request finished once, bounded queues, order of one address, no starvation |
| Ramulator DRAM (`include/Ramulator/DRAM.h` and the fourteen standards) | tree of nodes with states, open rows and earliest times; row table of the scheduler | decode, check, update | commands legal and on time, data bus free, tree and row table agree |
| Refresh scheduling (`Refresh.h`, `source/Ramulator/Refresh.cpp`) | backlog of each bank, turns of banks and subarrays | refresh at a turn, early, ahead | no bank too far ahead or behind |
| ChampSim's own DRAM channel (`source/ChampSim/dram_controller.cc`) | bank requests, queues | schedule, swap write mode | used in builds without Ramulator |
| Caches and channels (`source/ChampSim/cache.cc`, `channel.cc`) | blocks, MSHR, queues | tag check, fill, write back, prefetch, merge | every request answered once, no lost write, no deadlock |
| Page walker and virtual memory (`ptw.cc`, `vmem.cc`) | walks in flight, page tables | step, finish, allocate | a walk ends with the allocated page, no page twice |
| Out-of-order core (`ooo_cpu.cc`) | ROB, queues, load-store queue | fetch to retire | in-order retirement, loads see older stores |
| Predictors, prefetchers, replacement | tables | predict, update | victims and counters in range; else accuracy only |
| Simulation loop, printers, tracers, configurations | - | - | stall detector; the rest is I/O |

`PROJECT.json` lists every component with its sources and status.

### What is hard

* **Interleaving and ordering.** While a swap runs, reads of two memories return
  in any order, requests of the cache for the same lines arrive, a memory may
  refuse any request, and the request being served may grow.
* **State used after it was read.** Remapping requests carry addresses that were
  looked up long before they are carried out.
* **Protocol sequences.** Page tables are permuted by two drivers, the controller
  and the core, with clearing of counters and queues in between; several
  `abort()`, `exit(1)` and `assert()` guard against sequences that must not occur.
* **Reordering by the scheduler.** Three queues and a first-ready policy may
  reorder requests of one address.
* **Progress.** A swap must end although writes keep reopening finished entries.

Nothing is persisted and no message is lost, so crash recovery and unreliable
delivery do not arise. The threads of the simulator are joined at once, so no two
run concurrently. The hazards are listed at their lines in `PROJECT.json`.

## 2. Modules and their correspondence to the code

### SwappingUnit

The unit for a management it knows only through a request and a translation
table. One `operate()` is the phases `initiate` (cache requests, one at a time,
then one cycle of the unit) and `tick` (the memories return reads).

| action | code in `dram_controller.h` |
|---|---|
| `OtherAccess`, `WriteMemory`, `AbsorbWrite` | `add_rq()`, `add_wq()`, `check_request()` |
| `IdleCycle`, `StartSwap` | `operate()` in state Idle, `start_swapping_segments()` |
| `ContinueSwap`, `FinishSwap` | `operate_swapping()`, `update_swapping_segments()`, `initialize_swapping()` |
| `ReturnReads` | `return_swapping_data()` |

`TrackActivity` is all that a management may do meanwhile, `FinishRemappingRequest`
what it must do when a swap ends. The flags of a buffer entry are sets of slots.
Data is abstracted to the physical line whose latest acknowledged write it is, or
`Stale`; only `Tracked` lines are followed. The memories are functions of lines
whose writes take effect when they are accepted; whether a request is accepted is
free, and so is the order in which reads return. The data of slots is crosswise,
as in the code.

### Cameo and CameoSystem

`Cameo` is the ideal line location table: `TrackActivity` is
`memory_activity_tracking()` with every call it makes (counting, hot detection,
enqueueing with its duplicate test), `FinishRemapping` is
`finish_remapping_request()`. `CameoSystem` puts it in the controller with the
swapping unit. `Unit!Spec` is thereby the **abstract specification** of what a
management promises, and `ImplementsSwappingUnit` is the refinement: the front of
CAMEO's queue is the unit's request, CAMEO's table its translation.

### PageMigration

The committed build. A cycle is `retire` (instructions retire and an epoch may
end), `execute` (a collection may start), `initiate` (accesses are counted and
the controller migrates what is queued). The loops over pages (`SkipPage`,
`DropFastPage`, `PairVictim`, `BeginColdLoop`, `EndSelection`) and over the queue
(`MigrateFront`, `EndMigration`) take a step for each turn. Marks keep the values
0 to 3 of the code.

### RamulatorController

One channel with one rank. `EnqueueRead` and `EnqueueWrite` are `enqueue()` after
the address mapping of `Memory::send()`; `Tick` is the whole of
`Controller::tick()`: the front of the completed reads, the refresh, the write
mode, the choice of a queue, `get_head()` with the policy FRFCFS_Cap, and the
command, with promotion to actq or completion. Bank states and row table, which
the code keeps separately and updates with the same commands, are one variable.
The tables of timing distances are abstracted to a free choice of the commands
that are ready among those `tick()` asks for, so the module covers every
standard with the usual ACT, PRE, RD, WR prerequisites (and timings no standard
has; properties that hold do so for all of them).

The module is checked as a part of `MCRamulator`.

The connection between `RamulatorController` and `SwappingUnit` is an assumption
so far: the unit's memories apply a write when they accept it. Finding 4 below
shows that the code meets it except where a read overtakes an activated write.

### DramTables, the standards and Dram

Each standard of Ramulator is a class that fills the same tables by hand: `DDR3`, `DDR4`,
`LPDDR3`, `LPDDR4`, `GDDR5`, `HBM`, `WideIO`, `WideIO2`, `PCM`, `STTMRAM`, `ALDRAM`, `TLDRAM`,
`DSARP` and `SALP` are modules of the same name with the same nine definitions.

| definition | code |
|---|---|
| `Class` | levels, scopes, translations, classes of commands in the header |
| `Orgs`, `Speeds`, `Speed` | `org_table`, `speed_table`, `init_speed()` |
| `Prereq`, `Effects`, `RowHit`, `RowOpen` | `init_prereq()`, `init_lambda()`, `init_rowhit()`, `init_rowopen()`, as rules named in `Dram` |
| `Timing` | `init_timing()`: level, earlier and later command, distance, cycles, sibling |

`DramTables` has the blocks that most of them repeat line by line; what is peculiar to a standard
stays in its module. `Dram` is the tree of `DRAM.h` driven by such tables: a node is the path of
its ids, `Decode`, `ReadyAt`, `RowHit` and `RowIsOpen` are `decode()`, `check()` with `get_next()`,
`check_row_hit()` and `check_row_open()`; `UpdateState` and `UpdateTiming` are `update()`, and `UpdateTable` is
`RowTable::update()`. The action `Issue` lets any request of a scenario be next and issues its next
command in the first cycle in which it is ready: what the scheduler does about the order is left
open, waiting longer than necessary is not, as a later command is only less constrained. `log` takes the place
of `DRAM::prev`. The tables of the modules were compared with those of the compiled classes,
for every organization and speed, and behaviours of the model with the compiled `DRAM<T>`.

The properties speak of the commands in `log`, through the *names* of the parameters, not of the
tables. `TimingsKept` says what nRCD, nRP, nRAS, nRC, nRRD, nWTR, nFAW, nRFC, nXP and their relatives mean:
`Gaps` has, for each later command, the distances it keeps from earlier ones, each between two addresses that are the same
up to a depth (the row buffer, the bank group, the rank), and `WindowKept` counts activations. `DataBusFree`
compares the bursts. That the tables hold an entry for each of these distances is `GapsAssumption` (section 5).

### DsarpRefresh

The scheduler of `Refresh.cpp` for one rank: `TickRef` is `tick_ref()` with `Ahead` for `wrp()`,
`Early` for `early_inject_refresh()` and `Injected` for `inject_refresh()`. `wrp()` means to look
for idle banks but compares a bank's number with 0, so that the first bank of its order is always
taken; the model does the same. The queues of the controller are free in each cycle.

### MCRamulator

The sum (as `MCParts` below) of `Dram`, `RamulatorController` and `DsarpRefresh`, which abstract from each
other: the controller from timing, the tree from the order of requests, the refresh scheduler from both.

### Channel, Cache and MCCache

`Channel` is `champsim::channel` as operators: collisions of the write, read and
prefetch queues, merging, and the answers a write queue forwards. The loop of `check_collision()`, which
erases what it merges or forwards, is given by its result: the positions kept (`Picked`), each with
the requests that joined it (`Checked`). `Cache` is one `CACHE` and its neighbours.

| action | code in `cache.cc`, `channel.cc` |
|---|---|
| `AddRead`, `WalkRead`, `AddWrite`, `AddPrefetch`, `PrefetchLine`, `TakeAnswers` | `channel::add_rq()` and its kin, `CACHE::prefetch_line()` |
| `CheckCollisions`, `FillFromMshr`, `FillFromWrites`, `StartStashed`, `StartQueued`, `StartPrefetch`, `IssueTranslation`, `StashLate`, `CheckTag` | the stages of `CACHE::operate()` in any pace the bandwidths and latencies allow |
| `FinishPacket`, `FinishTranslation` | answers of the lower level and of the translator |

A request stands for the set of those who wait for it; the victim of a fill is any
way, as no correctness depends on the replacement policy. `waiting` records who
asked and has no answer yet, `unwritten` which writes no lower level has taken.
`MCCache` gives the four caches that differ in what the code asks of them: the first-level data
cache, which compares whole addresses of writes; a level below, which gets
write-backs of whole blocks and prefetches; the instruction cache, which prefetches
virtual addresses; and a data cache with a single miss register.

### VirtualMemory and PageTableWalker

`VirtualMemory` is the allocation of frames and page table pages by `vmem.cc`;
`PageTableWalker` is `ptw.cc`: `BeginWalk`, `Continue`, `Answer` and `Return` are
`handle_read()`, `handle_fill()`, `finish_packet()` and the return of finished walks of
`operate()`. Page structure caches have one way, so that they forget. Walks of one block
join one read of the lower level, as the channel's merging does. Each entry of a page table is a
block of its own in the model; the code joins the eight entries of a 64-byte block as well.

### Core

The out-of-order core from the trace to retirement; each action is a stage of
`O3_CPU::operate()` for one instruction. An instruction is its number in the
program; buffers are the ranges between `num_retired`, `dispatched`, `decoded`,
`promoted` and `begun`, because every stage works in order. Branch prediction, hits in
the decoded instruction buffer and latencies are free. `seen` records which
store each load was served from.

### MemPod

`ideal_single_mempod.cc`: `Access` is `memory_activity_tracking()` with the
majority element algorithm; the `Operate...` actions are the interval check and the
front request of the queue, with the choice of pairs by `PairedInPlace` and `Paired` and
the cancelling of what an interval leaves. `contents` is where the data of each segment
is; `disturbed` records that an interval ended while the unit was swapping the front
request, where the code cancels a swap already running, or that the search for a victim
ran past the last fast frame, where it reads a key the table does not have. `SegmentsFound`
excludes these two cases and what follows from them; the steps themselves are in the model.

### VariableGranularity

`variable_granularity.cc` for one set of blocks: `TrackSlowBlock` and `TrackFastBlock`
are `memory_activity_tracking()` with counters, the search for a run of hot lines
(`Searched`, `AtLastGroup`), its widening and cutting to a granularity, and the rules of the
queue; `DetectColdData` evicts; `FinishRemapping` is both directions of
`finish_remapping_request()`. `memory` is where the data of each line is. `misplaced` records
that a group took over lines it did not bring (finding 6), or lines that another group of the
block holds already (a run that is cut and widened again, `:240`); `TranslationFindsData`
excludes these two cases and what follows from them.

### MCParts

The core, the page table walker, MemPod and variable granularity have no variables in
common that matter: the managements replace each other in a build, the other two meet only
through caches. `MCParts` is their *sum*: a behaviour chooses `part` at the start and is
then a behaviour of that part. Each of its properties speaks of one part; the run
checks every part completely.

## 3. Runs and what they show

| run | instance | shows |
|---|---|---|
| `swapping_unit` | 2 fast and 2 slow lines, 2 entries, a tracked line, 154k states | bookkeeping exact (`FinishCounted`), no read without a slot (`NoStrayRead`), the swap is that of the front request (`SwapMatchesRequest`), data of lines that no write was absorbed for is never lost (`UntouchedDataPreserved`), every swap ends (`SwapCompletes`) |
| `swapping_unit_dirty_write` | 2 entries | finding 1 |
| `swapping_unit_forwarding` | 2 entries | finding 2 |
| `cameo_system` | 2 groups of 2 members with the unit, 105k states | the table stays a permutation (`LinesDistinct`), one request for each group, and requests stay current while they wait (`QueueCurrent`), only hot lines are promoted (`OnlyHotBlocksPromoted`), and `ImplementsSwappingUnit` |
| `page_migration` | 2 fast, 2 slow pages, counters to 2, 4.2M states | permutation (`PagesDistinct`), every queued migration possible, of pages no other one names, and of an accessed page (`QueueMigratable`), useful promotions (`PromotionsImprove`), collections lose nothing (`GcDiscardsNothing`) |
| `page_migration_hot_pages` | as before | finding 3 |
| `ramulator` | fourteen standards in 287 configurations, a controller with 3 requests, 3 rows in 2 banks and a refresh, a refresh scheduler of 2 banks; 146k states | distances of commands and windows of activations (`TimingsKept`), the data bus (`DataBusFree`), tree and row table (`RowTableAgrees`), progress of every request from command to command (`PrerequisitesHelp`); the queue without a limit stays bounded (`ActqOnePerBank`), each request in one place (`RequestsOnce`), exact serving count (`ServingCounted`), requests of one address change places only around an activated write (`OvertakesOnlyActivated`); refreshes never too far ahead or behind (`RefreshDebtBounded`) |
| `ramulator_controller_coherence` | 3 requests | finding 4 |
| `cache` | four caches, 2 upper levels, 2 lines, 1 way, 427k states | finished miss registers and translated lookups stay in front of those that wait, as only a prefix is looked at (`ReadyFirst`), miss registers owe one answer for each line and each read has exactly one answer due (`AnsweredOnce`), write-backs are carried until a lower level has them (`WriteBacksKept`), and every read is answered (`ReadsAnswered`) |
| `cache_stores` | the data cache | finding 5 |
| `parts` | core (61k states), walker (21k), MemPod (94k), variable granularity (106k) | variables in range (`TypeOK`), and see the modules: `LoadsSeeStores`, `MemoryOpsCounted`, `OperandsReady`, `FetchResumes`, `InstructionsRetire`; `WalksAnswered`; `SegmentsFound`, `MajorityTracked`; `RequestsFit`, `TranslationFindsData` |
| `parts_expansion` | variable granularity | finding 6 |

**Bounds and why they are enough.** Two entries and two segments make every
relation between entries appear (one done, one reopened; growth by one); two lines
of each memory are the least that a two-entry swap needs, and three would only
add lines that no swap touches; one tracked line stands for each line alone, since the
properties of data speak of one line at a time. Two congruence groups are needed to see requests
of different groups in the queue. Two pages of each memory give every pair of choices of the two
pairing loops, counters to 2 give below, at and above the thresholds. In
`PageMigration` the distances are capped one above their thresholds, past which
only the comparison matters. For the memory controller three rows in two banks give
row hits, conflicts and independent banks; a cap of 0 makes one hit exceed it, so
that the capped case takes 4 requests, and `QueueMax` 2 with a high
watermark of 1 and a low one of 1 has full queues and both directions of the
write mode. Bounded counters: `RequestNumber`, `RefreshNumber` and `AddressNumber`
limit the behaviours of `RamulatorController`; `hits` saturates one above `Cap`,
after which comparisons with the cap do not change. The scenarios of `Dram` each ask for one kind of interplay: rows of one bank and of
its neighbours in the group or subarray (4 commands: a row opened, used, closed, and the next one), turnarounds for *every*
speed of a standard, refreshes for *every* organization, two ranks (5: one command more to open the second), the window of four activations
(5), power-down and self refresh. A timing entry joins two commands, or five in a window, so a pair that is too close shows
within these. The limits 8, -8 and -6 of DSARP's backlog are 2, -2 and 0 here, which keeps their order and
lets each be reached within 7 intervals. A cache of one way for two
lines evicts at every second fill, and two upper levels make requests merge in the channel
and in the miss register. A core of three or four instructions has an instruction in each of its
buffers; the walker's two virtual pages share their upper tables; MemPod has fewer MEA
counters than pages, so that counters are taken away; a set of variable granularity holds
groups of two sizes, and its blocks become hot at the second access, so that accesses of cold blocks
(which evict) and of hot ones (which promote) both happen. The proofs of section 5 remove the bounds for `SwappingUnit`, `Cameo`, `CameoSystem`,
`PageMigration`, `RamulatorController`, `DsarpRefresh` and `Core`.

**Fairness.** `do_phase()` calls `operate()` of every component in every cycle.
For the swapping unit this is weak fairness of `UnitCycle` and `Tick`; a
memory accepts an offered request, and answers an accepted read, infinitely often:
Ramulator's queues drain as long as the simulator ticks. These two are stated as
`[]<>` conditions on each slot and line (`Fairness` in the module). Nothing is
assumed of the requests of the cache: writes may reopen entries without end, and are absorbed only
while their line is under swap. For a cache each stage of `operate()` and each answer of a lower level is
weakly fair, the arrival of new requests is not. The walker has weak fairness of the
actions of its `operate()` and of its lower level. The core's actions are all stages of one `operate()`, so a core that can do
something does (`WF` of its next-state relation).

**Deadlock** is checked in the first four passing runs (a behaviour of `Dram` that has all its commands stays there by `Done`). `Cache.cfg` and `Parts.cfg` switch it off:
their requests and programs are finite and the system rests when all are served.

**History variables.** `misplaced`, `disturbed`, `unwritten`, `waiting` and `seen` record what
happened for the properties; no guard of a modelled handler reads them.

## 4. Findings

1. *A write absorbed between the two write-backs of an entry is lost*
   (`dram_controller.h:1550`): the entry is finished by its `write` flags without
   looking at `dirty`.
2. *A read forwarded from the buffer gets the data of the other line*
   (`dram_controller.h:1679`): the slots are filled crosswise and read straight.
3. *A hot page can be lost in the second pairing loop*
   (`history_based_page_selection.cc:396`): a page the first loop has paired is
   offered again and the new request dropped as a duplicate.
4. *A read can overtake an older write of its address*
   (`Controller.h:313`): the search for older writes skips actq.
5. *A store that misses is lost when a load of its line misses too* (`cache.cc:64`): the load turns
   the miss register of the store into one of a load, the line is filled clean and never written
   back.
6. *A group is extended by the last lines of a run, not by those next to it*
   (`variable_granularity.cc:354`): the block that is migrated leaves a gap and takes over
   lines that were never moved.

The simulator carries data only optionally, so 1, 2, 4 and 5 concern that data, not
timing results. The quoted lines are in `PROJECT.json`.

Seen while reading, without a run of their own: loads and stores may begin as soon as they are dispatched,
because `event_cycle` of a queue entry starts at 0 (`ooo_cpu.h:101`); `exec_bw` is never decremented
(`ooo_cpu.cc:429`); a missing read does not look at `inflight_writes` (`cache.cc:267`); `try_hit()`
ignores `valid` of a block; `operate()` of the memory controller returns at least 1
in every cycle, so that the stall detector of `do_phase()` never fires.

In Ramulator's tables, which the model has as they are: ALDRAM's timings are made of a row of `speed_table`
whose nRRD, nFAW, nRFC and nXS `init_speed()` never sets (`ALDRAM.cpp:60`), so refreshes and activations take no time;
HBM, GDDR5, PCM, ALDRAM and STTMRAM have no distance from an activation to a refresh; the density index
of HBM is shifted by one with `ADD_HBM_8MB`, so that HBM_4Gb reads past its table; the entry for
writes after writes of sibling ranks (`DDR3.cpp:387`) names reads first, in every standard copied from it; TLDRAM chooses the
kind of precharge by the row to come, not by the one that is open, and activations of different kinds escape nFAW; WideIO2 and
ALDRAM never call `init_rowopen()`, so `check_row_open()` is always false; DSARP's timings from an
activation to a refresh of the bank stand at a level where nobody looks. `TimingsKept` leaves these out:
it does not ask for the distance from activations to refreshes, counts activations of one kind, and names TLDRAM's two gaps.

## 5. Proofs

The theorems hold for all values of the constants under the `ASSUME`s of the
modules, which say no more than that sizes are positive and thresholds ordered. Four of `Dram` say more, of
the hand-written tables of the fourteen standards. `TablesAssumption` is what they have in common: ranks
are the first level, only ranks are powered down, every command a rule answers and a timing names is one
of the standard, distances count from 1. `GapsAssumption` says that they are complete: for every distance in `Gaps`
between commands that requests can lead to there is an entry at a node that both commands reach, for the window one that
looks back as far as the window is large, and for the data bus one that all bursts of a rank pass, with one between siblings where there
are several ranks. `StandInsAssumption` compares what TLDRAM's `tick()` asks about with what it issues. `RowsAssumption` says what the rules for rows have
in common: which commands open and close rows at which level, and where reads and writes look for them. They are about
constant tables and hold no variable; TLC evaluates them for every
standard, organization and speed at the start of the run `ramulator`.

**`SwappingUnit_proofs`.** `FinishCounted`, `NoStrayRead` and
`SwapMatchesRequest` are not inductive alone: that an outstanding read still
belongs to the swap that sent it depends on when the buffer was cleared. The
invariant `ControlInv` adds `Geometry` (the active entries lie inside the two
memories, so the segments are disjoint), `IdleIsClear` (an idle unit has no flags
set and nothing outstanding) and `FlagOrder` (a slot holds data only after the read
of its partner was issued, is written only after both slots of the entry arrived, and
an entry is finished only when both are written). `SwapsPreserveData` rests on `DataInv`: the translation is
injective, and the value of a tracked line is in its old place until its read
returns, then in its arrival slot, then in its new place once that slot is written.
Each action is one lemma, with one step for each conjunct it disturbs. The finding 1
is why the theorem excludes lines for which a write was absorbed.

**`PageMigration_proofs`.** `MigrationInv` adds that a page with a count has a
mark, what the running selection knows of its candidates (`SelectionInv`), and
when requests may wait (`QueueDrained`: none when instructions retire, and none when
a collection may start unless a migration was just chosen, in which case it is too
soon for the collection). The last one is why a collection that clears the queue
discards nothing.

**`CameoSystem_proofs`.** First CAMEO alone: `CameoInv` adds to the checked properties that some member of
each group is in fast memory, which the search in `enqueue_remapping_request()`
relies on. `RequestsCurrent` is preserved by `FinishRemapping` because of
`OneRequestPerGroup`, and that one because the front request still counts as
queued. `PromotionsAreHot` is an action property proved from the invariant.

Then the refinement that `cameo_system` checks: `ImplementsUnit` is
`SystemSpec => Unit!Spec` under the mapping *front of the queue is the request, CAMEO's table is the
translation*, for every number of groups and members. Its invariant `SystemInv` is `CameoInv` with
`SwapsFront`: the lines a running swap exchanges are those of the front request. Every step of CAMEO
maps to a step of the unit or of what it allows a management. The core of it is
`FinishExchangesTranslation`: an entry of CAMEO's table is a location within a group, the unit's translation is a function of
lines, and exchanging the two members of a group is exchanging the two lines of the request; it
needs that hardware lines of different members never coincide (`HardwareLineInjective`).
`InitialView` shows that the mapped initial state asks nothing of CAMEO. What is proved of the unit
then holds of CAMEO with the unit: `SystemKeepsData` and `SystemExpectsReads`, for groups of more than
one member (with one there is no slow memory, which `SizeAssumption` excludes).

**`RamulatorController_proofs`** and **`MCRamulator_proofs`.** The limits of actq and the serving count cannot
be shown without knowing that requests are moved and never copied. `CtrlInv` says of the *holding* (which
requests are in which place) that all numbers in it are different, that they are the accepted
numbers less the finished ones (`HoldInv`), that each place holds only its kind, that writeq is in
order of age, and that an older write of a queued read's address can only be in actq
(`OlderWritesActivated`, which `OvertakesOnlyActivated` rests on). `RestInv` bounds
arrival times by the clock, and `BanksApart` is `ActqOnePerBank` with the row that each activated request
finds open or closed again by a refresh. That `get_head()` returns the oldest of the requests it prefers is
a lemma of its own (`HeadIsOldest`). `MCRamulator_proofs` carries the theorems over to the behaviours that
`ramulator` checks, and proves `RefreshDebtBounded` there: the backlog of a bank is exactly its turns so far less
the refreshes issued for it (`Credited`), because the banks have their turns in a circle (`RefreshInv`).

For the memory it proves `TimingsKept` and `DataBusFree`, for every configuration and any number of
commands of its scenario (`CommandNumber` is a constant), in two steps. The first is
`CommandsKeepDistances`: every command keeps every distance of `init_timing()` from every
command before it. `DRAM` does not look at
those commands: it remembers for each node and command one time, `next`, which `update_timing()` raises by what the
dist-th last command of a name says, and `get_next()` takes the maximum on the path of the address. The
inductive invariant `DramInv` says that this is enough (`NextCovers`): whatever binds a node, by any entry of the
tables, as the dist-th last command or an older one, and at the node or at a sibling, is covered by `next`. A command that
is dist-th last now stays bound when others follow, and the lemma `NextCoversMore` shows that it was covered when it
became so, which needs the times of the log in order (`TreeTyped`) and `PastIs` for what `prev` holds. `RanksAwake` is
what keeps `decode()` to commands that requests lead to (`Issuable`). A TLDRAM asks whether ACT is ready and issues ACTM
(`Controller.cpp:166-174`): `decode()` goes the same way for a read and for a migration (`MigrationStandsIn`), and what it
issues is bound by nothing that the command it asked about is not (`BindsBoth`).

The second step goes from the entries to the meaning of the parameters (`GapsAssumption`). Two addresses that are the same up to
a depth pass one node at every level before it (`SameBefore`), where the entry for the distance is kept (`EnforcedIs`). For the window:
if four activations (two in WideIO) of a rank were too close to the present one, the first of the four would be at least the fourth last at
the rank's node, so the entry that looks back four keeps it away (`WindowHolds`). For the data bus: two bursts
of one rank are apart by an entry of that rank or above it, those of different ranks by the entry between siblings, and the
distance of the commands differs from that of the bursts by the two latencies (`BusHolds`). Where a table lacks an entry that one
would expect (section 4), `Gaps` does not ask for it.

Last, that the scheduler's table of open rows and the tree agree (`RowTableAlwaysAgrees`). What the tree answers for one node is not
inductive alone: a bank of DSARP follows its subarrays, and `decode()` looks at both. `RowsFollow` says at each level
how the state follows from the table: a lowest node has the row that the table has for its place, a bank the subarrays
that have one, and each is closed exactly if the table knows no place below it. That it is kept needs to know why a command is issued
(`Grounded`): `decode()` opens a row only where the table has none, accesses the row that the table has, and closes only where some row is open, which
is also why no assertion of `RowTable::update()` fails (`IssuedGrounded`, from `DecodeFrom` and what each rule answers). Then there is a lemma for each of the three
kinds of commands, `OpeningKeeps`, `ClosingKeeps` and `OthersKeep`.

`ControllerAssumption` and `RefreshAssumption` ask only for counts that are natural numbers, at least one bank and column, and limits
in the order of `Refresh.h:100-102` (8, -8, -6).

**`MCParts_proofs`.** The out-of-order core, for all programs and sizes of its buffers.
`CoreInv` says of the program order what the buffers do not hold: `Positions` (where every instruction is),
`Branches` (while fetching is stopped, the last instruction begun is a mispredicted branch that is not completed, and no
other one is), `Dependences` (the list of a register's writers is exactly its writers that are scheduled and not completed, in order; a scheduled
reader waits for the last writer of each source and counts what it waits for), `Operations` (finished and queued operations of an instruction add up to
all of them, and nothing is queued twice), `StoreOrder` (stores leave in order, and each dispatched one is
queued, or the L1D has it or a later one of its address) and `LoadOrder` (a load that waits for no store finds the last one
before it in the L1D). From these follow `FetchResumes`, `OperandsReady`, `MemoryOpsCounted` and `LoadsSeeStores`.
The last two conjuncts are needed together: a load that begins must know that no older store of its address is still
queued, and that needs the order of the queue. `CoreAssumption` says that a trace is a sequence of
instructions and that registers are finitely many (they are bytes in `instruction.h`).

**`MCParts_proofs`**, MemPod, for any number of segments, counters and queued swaps. `PodInv`: while no running swap was
cancelled, the remapping table leads to the data, the invert table is its inverse on fast memory (`TablesAgree`), and
the queued swaps name different frames and the segments that are in them (`QueueFits`), so that each can be carried out
whichever of those before it were. `QueueFits` is preserved by an interval's choice of pairs because of `Sweep`: the iterator
goes round fast memory at most once in an interval, as there are no more hot segments in slow memory than frames
without a hot one (`HotEnough`; it needs `NUMBER_MEA_COUNTER <= FastSegments`, 16 and thousands in the code), so it
never returns to a victim. `MeaInv` is the argument of the majority algorithm: `d` rounds each took one from all
NUMBER_MEA_COUNTER counters and one access that got none, so that `d * (NUMBER_MEA_COUNTER + 1)` and the counters add up to no more
than the accesses, and a segment is short by at most `d`. The folds of `AllPaired` and of sums are unfolded by
`FoldExists` and `FoldLeftExists`: a function on the subsets that satisfies the fold's equation exists, so the one the
definition chooses does; its least counterexample replaces the induction.

**`VariableGranularity_proofs`.** `SetInv`, for any power of two of lines and any number of blocks: the groups fit fast memory
and each its block (`GroupsFit`); a queued promotion is alone, begins at the first free line and has room there, and
queued evictions are of different groups at their places (`QueueOf`). That a later eviction still fits when an
earlier one is finished holds because `recover` leaves the group in place with tag 0, and `trim` drops such groups only at the end, where every
group still to be evicted is before the last that is kept (`Evicted`, `EvictionsStay`). That a promotion has room rests on the search:
each step of it keeps a run of lines that is a granularity or cut to the space left (`CandidateFits`, with
`RoundedIs` and `AtLastGroupIs` for the arithmetic). `MapInv` gives the places of the data: the lines of each group
have changed places with the lines of block 0 under it, and every other line is at home. Two groups of the same block
share no lines (`GroupsApart`), because `memory` has one value for a line; without it an eviction could not be
shown to leave the other groups alone. `TranslationFinds` then follows the code's search through the groups. `MapInv`
excludes what finding 6 leads to.
`PodAssumption` asks for natural numbers and for the relation of counters and frames above; `SetAssumption` for at least one
block, a greatest granularity of a whole block and touched lines that exist. The
definition of `Trimmed` was corrected for the proof: with no group left it chose from an empty set.

**`Cache_proofs`.** The cache and its channels, for any number of upper levels, lines and ways, every size of
the queues and every choice of a victim. `AnsweredOnce` is not inductive: that a read is owed one answer must be known while it is
moved from a queue to a lookup, to the stash, to a miss register and back into an answer, and that the
register an answer looks for exists must be known when the miss is sent. `CacheInv` is `TypeOK`, `ReadyFirst` and
`WriteBacksKept` with `Owed` (a read that waits is in exactly one queue, lookup, miss or answer, once
there, in no queue of another upper level, and what carries it returns to the level that waits), `Registers` (one register of a
line; an answer is owed for a line exactly while its register has no data) and `Kinds` (which requests can be where: only write
queues hold writes, a register none where writes are write-backs, the cache's own prefetches answer nobody). From
`Owed` and `Registers` follows `AnsweredOnce`. `ReadyFirst` is inductive with the types. The
lemmas they need are about sequences that are filtered, shortened at a position or merged:
what `Picked` keeps, what is found in it, that `check_collision()` loses no request and joins none twice
(`Checked`), and that `finish_translation` permutes the stash (`Restarted`). `CacheAssumption` asks for counts that are natural
numbers, a victim's line that is distinct from the lines, and word 0 in each line.

`PROJECT.json` lists the 52 theorems.

**Only model-checked.**

* Liveness (`SwapCompletes`, `ReadsAnswered`, `WalksAnswered`, `InstructionsRetire`): fairness and
  ENABLED are beyond this prover.
* That the tables have the entries `GapsAssumption` asks for and the rules `RowsAssumption` describes: TLC evaluates both for all
  of them, as any proof would.
* `PrerequisitesHelp` of `Dram`: the order in which commands prepare a request comes from the rules of each of fourteen
  standards, and TLC goes through all of them already.
* `TypeOK` of `MCParts`: those of MemPod and of variable granularity are proved (in `PodInv` and `SetInv`), and what
  `CoreInv` says of the core's buffers; the walker's outstanding pages and the latencies remain.

## 6. Not modelled, and why

* *CAMEO's co-located table* (`COLOCATED_LINE_LOCATION_TABLE`): a second variant of the same management
  with incomplete requests in two steps; planned.
* *ChampSim's own DRAM channel* (`dram_controller.cc`): only in builds without Ramulator, the committed one has it;
  planned after the parts that are used.
* *Simulation loop*: its fairness is what the liveness properties assume; its stall detector is a
  hazard without a property, as it needs all components together. Argument parsing and set-up are I/O.
* *Ramulator's processor, cache and trace front end*: only for its stand-alone modes.
* *Predictors, BTB and prefetchers* only decide what is guessed; the core and the caches are checked for every guess. *Replacement policies*: `Cache`
  is checked for every choice of a victim.
* *Ramulator's other schedulers, row policies and mapping files*: not chosen by the code (policies Opened and FRFCFS_Cap are fixed).
  That its queues drain is not checked: strong fairness for each command and bank is too slow for TLC on that module as it is.
* *Statistics, printers, tracers, configurations, vendored packages*: I/O, or not part of the simulator.

What the program never does is not reached in `Dram` either: with row policy Opened it issues no RDA and
WRA, and it requests power-down and self refresh never (the scenario *power* does, as the tables have rules for them).

## 7. Plan

Done: the swapping unit with CAMEO, page migration and their proofs; MemPod and variable granularity; channels, caches, page walks
and the core; Ramulator's controller, DRAM and refresh.

Next, the model: the co-located location table; `CollectionRecords`, the sequence of collections and page records whose counters come
apart when a collection is skipped; `RamulatorController` composed with `SwappingUnit` in place of its abstract memories, and its
progress on a smaller instance; the DRAM channel of builds without Ramulator; `do_phase()` with the stall detector.

Proved: the swapping unit, CAMEO and the refinement that joins them, page migration, MemPod and variable granularity, the
controller, the refresh scheduler, the timing of DRAM commands, the data bus and the table of open rows, the core and the
caches. Next: `PrerequisitesHelp`, from what `Grounded` says of each command.
