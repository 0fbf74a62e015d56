------------------------------ MODULE MCParts ------------------------------
(***************************************************************************)
(* Parts of the system that have no state in common, each at work alone:   *)
(* the out-of-order core, the page table walker, and the managements of    *)
(* variable granularity and MemPod, which a build has in place of CAMEO    *)
(* and which share the name and the interface of remapping_request_queue.  *)
(* A behaviour has one part; the variables of the others stay empty.       *)
(***************************************************************************)
EXTENDS Integers, Sequences

CONSTANTS
    Parts,              \* some of "granularity", "mempod", "walker" and "core"
    Lines, Blocks, NUMBER_OF_BLOCK, COUNTER_MAX_VALUE, HOTNESS_THRESHOLD,
    REMAPPING_REQUEST_QUEUE_LENGTH, Touched,
    FastSegments, Segments, NUMBER_MEA_COUNTER, MEA_COUNTER_MAX_VALUE, MaxAccesses,
    Fanout, VPages, Levels, LowerSize, MaxReads,
    Registers, Addresses, Programs, IFETCH_BUFFER_SIZE, DECODE_BUFFER_SIZE,
    DISPATCH_BUFFER_SIZE, ROB_SIZE, LQ_SIZE, SQ_SIZE, SCHEDULER_SIZE

VARIABLES
    part,
    remapping_request_queue, failed,
    placement, counter, hot, access, memory, misplaced,
    mea_counter_table, address_remapping_table, invert_address_remapping_table,
    swap_fm_address_itr, base_address, contents, accesses, disturbed,
    RQ, pscl, MSHR, finished, completed, outstanding, vmem, asked, returned,
    program, begun, promoted, decoded, dispatched, num_retired, dib_checked, fetched,
    l1iReads, fetchStopped, branch_mispredicted, scheduled, executed, reg_producers,
    registers_instrs_depend_on_me, num_reg_dependent, completed_mem_ops, LQ, SQ,
    l1dReads, written, seen

managementVars == <<remapping_request_queue, failed>>
setVars == <<placement, counter, hot, access, memory, misplaced>>
podOwnVars == <<mea_counter_table, address_remapping_table, invert_address_remapping_table,
                swap_fm_address_itr, base_address, contents, accesses, disturbed>>
walkerVars == <<RQ, pscl, MSHR, finished, completed, outstanding, vmem, asked, returned>>
cpuVars == <<program, begun, promoted, decoded, dispatched, num_retired, dib_checked,
             fetched, l1iReads, fetchStopped, branch_mispredicted, scheduled, executed,
             reg_producers, registers_instrs_depend_on_me, num_reg_dependent,
             completed_mem_ops, LQ, SQ, l1dReads, written, seen>>
allVars == <<part, managementVars, setVars, podOwnVars, walkerVars, cpuVars>>

Set    == INSTANCE VariableGranularity
Pod    == INSTANCE MemPod
Walker == INSTANCE PageTableWalker
Cpu    == INSTANCE Core

ASSUME CoreAssumption == Cpu!CoreParameters
ASSUME PodAssumption == Pod!PodParameters
ASSUME SetAssumption == Set!SetParameters

\* Lines of the slow blocks that make every case of the search for groups happen:
\* a block with a gap, and one with a run of lines.
TouchedLines == {<<1, 0>>, <<1, 1>>, <<1, 3>>, <<2, 1>>}

\* Instructions: where they are, whether they branch, registers they read and write, and
\* addresses they load and store.
Op(line, branch, sources, destinations, loads, stores) ==
    [line |-> line, branch |-> branch, sources |-> sources, destinations |-> destinations,
     loads |-> loads, stores |-> stores]
x == <<1, 0>>
y == <<1, 1>>
BlockOfTwo == {x, y}

\* Stores and loads of one block, writers and readers of registers, and branches.
Traces ==
    { <<Op(1, FALSE, {}, {}, <<>>, <<x>>), Op(1, FALSE, {}, {}, <<>>, <<x>>),
        Op(1, FALSE, {}, {}, <<x, y>>, <<>>), Op(1, FALSE, {}, {}, <<x>>, <<y>>),
        Op(1, FALSE, {}, {}, <<y>>, <<>>)>>,
      <<Op(1, FALSE, {}, {1}, <<x>>, <<>>), Op(1, FALSE, {}, {1}, <<>>, <<>>),
        Op(1, FALSE, {1}, {1, 2}, <<>>, <<>>), Op(1, FALSE, {1, 2}, {}, <<>>, <<>>),
        Op(1, FALSE, {1}, {}, <<>>, <<>>)>>,
      <<Op(1, TRUE, {}, {}, <<x>>, <<>>), Op(1, FALSE, {}, {1}, <<>>, <<>>),
        Op(2, TRUE, {1}, {}, <<>>, <<>>), Op(1, FALSE, {}, {}, <<>>, <<>>),
        Op(1, TRUE, {}, {}, <<>>, <<>>)>> }

SetOff == /\ placement = <<>> /\ counter = <<>> /\ hot = <<>> /\ access = <<>>
          /\ memory = <<>> /\ misplaced = <<>>
PodOff == /\ mea_counter_table = <<>> /\ address_remapping_table = <<>>
          /\ invert_address_remapping_table = <<>> /\ swap_fm_address_itr = <<>>
          /\ base_address = <<>> /\ contents = <<>> /\ accesses = <<>>
          /\ disturbed = <<>>
WalkerOff == /\ RQ = <<>> /\ pscl = <<>> /\ MSHR = {} /\ finished = <<>>
             /\ completed = <<>> /\ outstanding = <<>> /\ vmem = <<>> /\ asked = 0
             /\ returned = {}
ManagementOff == remapping_request_queue = <<>> /\ failed = FALSE
CpuOff == program = <<>> /\ Cpu!Empty

SumInit ==
    /\ part \in Parts
    /\ \/ part = "granularity" /\ Set!Init /\ PodOff /\ WalkerOff /\ CpuOff
       \/ part = "mempod" /\ Pod!Init /\ SetOff /\ WalkerOff /\ CpuOff
       \/ part = "walker" /\ Walker!Init /\ SetOff /\ PodOff /\ ManagementOff /\ CpuOff
       \/ part = "core" /\ Cpu!Init /\ SetOff /\ PodOff /\ WalkerOff /\ ManagementOff

SumNext ==
    \/ /\ part = "granularity" /\ Set!Next
       /\ UNCHANGED <<part, podOwnVars, walkerVars, cpuVars>>
    \/ /\ part = "mempod" /\ Pod!Next
       /\ UNCHANGED <<part, setVars, walkerVars, cpuVars>>
    \/ /\ part = "walker" /\ Walker!Next
       /\ UNCHANGED <<part, managementVars, setVars, podOwnVars, cpuVars>>
    \/ /\ part = "core" /\ Cpu!Next
       /\ UNCHANGED <<part, managementVars, setVars, podOwnVars, walkerVars>>

SumSpec == SumInit /\ [][SumNext]_allVars /\ Walker!Fairness /\ Cpu!Fairness
-----------------------------------------------------------------------------
(* The properties of the parts, each of the behaviours that part has *)

\* The types of each part.
TypeOK == /\ part = "granularity" => Set!TypeOK
          /\ part = "mempod" => Pod!TypeOK
          /\ part = "walker" => Walker!TypeOK
          /\ part = "core" => Cpu!TypeOK

\* Variable granularity: every queued request fits the groups, and no sanity check fails.
RequestsFit == part = "granularity" => Set!RequestsFit

\* Variable granularity: every line is found where its data is, unless groups overlap or
\* one was extended with a gap.
TranslationFindsData == part = "granularity" => Set!TranslationFindsData

\* Variable granularity: the comment at source/variable_granularity.cc:353, that lines
\* are added to a group right behind it.
ExpansionContiguous == part = "granularity" => Set!ExpansionContiguous

\* MemPod: tables and data agree, unless an interval ended on a swap or the search for
\* victims ran past fast memory.
SegmentsFound == part = "mempod" => Pod!SegmentsFound

\* MemPod: the counters find the segments with a large share of the accesses.
MajorityTracked == part = "mempod" => Pod!MajorityTracked

\* Page table walker: every read of the TLB is answered in the end.
WalksAnswered == Walker!WalksAnswered

\* Core: every load is served from the last store before it to its address.
LoadsSeeStores == part = "core" => Cpu!LoadsSeeStores

\* Core: every memory operation is finished once, or still in a queue.
MemoryOpsCounted == part = "core" => Cpu!MemoryOpsCounted

\* Core: instructions execute after the last writers of their sources.
OperandsReady == part = "core" => Cpu!OperandsReady

\* Core: a mispredicted branch that stops fetching resumes it, and no other does.
FetchResumes == part = "core" => Cpu!FetchResumes

\* Core: every instruction retires.
InstructionsRetire == Cpu!InstructionsRetire
=============================================================================
