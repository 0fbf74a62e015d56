-------------------------------- MODULE Core --------------------------------
(***************************************************************************)
(* The out-of-order core (source/ChampSim/ooo_cpu.cc): instructions are    *)
(* read from the trace, fetched, decoded and dispatched in order, executed *)
(* when their operands are there, and retired in order, while the load and *)
(* store queues deal with their memory operations.                         *)
(*                                                                         *)
(* The buffers hold consecutive instructions, so each is the difference of *)
(* two positions in the program. operate() lets every stage handle as many *)
(* instructions as its width allows and as are due (event_cycle); here     *)
(* each is a step of its own and when it is due is left open. One fetch is *)
(* begun and one answer of the L1I taken in a cycle (L1I_BANDWIDTH of the  *)
(* committed build is 1). An answer names at most FETCH_WIDTH instructions *)
(* in a cycle, but no more than that leave IFETCH_BUFFER in it, so that it *)
(* is a single step. Page migration by the core is in PageMigration.       *)
(***************************************************************************)
EXTENDS Integers, Sequences, SequencesExt, FiniteSets

CONSTANTS
    Registers,
    Addresses,          \* of loads and stores: <<block, place in the block>>
    Programs,           \* the traces, sequences of instructions, which are records of
                        \*   line      the block the instruction is in
                        \*   branch    is it a branch?
                        \*   sources, destinations  its registers
                        \*   loads, stores          sequences of addresses
    IFETCH_BUFFER_SIZE, DECODE_BUFFER_SIZE, DISPATCH_BUFFER_SIZE, ROB_SIZE,
    LQ_SIZE, SQ_SIZE, SCHEDULER_SIZE

VARIABLES
    program,
    begun,              \* the last instruction in IFETCH_BUFFER,
    promoted,           \*   in DECODE_BUFFER,
    decoded,            \*   in DISPATCH_BUFFER,
    dispatched,         \*   in ROB;
    num_retired,        \*   the last one that has left it
    dib_checked,        \* the last instruction looked up in the DIB
    fetched,
    l1iReads,           \* fetches the L1I has not answered: sets of instructions
    fetchStopped,       \* fetch_resume_cycle is never
    branch_mispredicted, \* where the misprediction of an instruction is detected, or "no"
    scheduled,          \* the last instruction that is scheduled
    executed,
    reg_producers,
    registers_instrs_depend_on_me,
    num_reg_dependent,
    completed_mem_ops,
    LQ, SQ,
    l1dReads,           \* block -> the answers the L1D owes
    written,            \* address -> the last store the L1D has taken, or 0
    seen                \* history: which store every load was served from, or 0

frontVars == <<begun, promoted, decoded, dib_checked, fetched, l1iReads>>
branchVars == <<fetchStopped, branch_mispredicted>>
registerVars == <<scheduled, reg_producers, registers_instrs_depend_on_me,
                  num_reg_dependent>>
memoryVars == <<completed_mem_ops, LQ, SQ, l1dReads, written, seen>>
coreVars == <<program, frontVars, branchVars, dispatched, num_retired, executed,
              registerVars, memoryVars>>

\* What a trace says of an instruction, and what traces there are.
Instruction == [line : Nat, branch : BOOLEAN, sources : SUBSET Registers,
                destinations : SUBSET Registers, loads : Seq(Addresses),
                stores : Seq(Addresses)]
CoreParameters == Programs \subseteq Seq(Instruction) /\ IsFiniteSet(Registers)

Id    == 1 .. Len(program)
Block == {a[1] : a \in Addresses}

IFETCH_BUFFER == promoted + 1 .. begun
ROB           == num_retired + 1 .. dispatched

num_mem_ops(i) == Len(program[i].loads) + Len(program[i].stores)

\* An empty core.
Empty ==
    /\ begun = 0 /\ promoted = 0 /\ decoded = 0 /\ dispatched = 0 /\ num_retired = 0
    /\ dib_checked = 0 /\ l1iReads = {} /\ scheduled = 0
    /\ fetched = [i \in Id |-> "no"]
    /\ executed = [i \in Id |-> "no"]
    /\ fetchStopped = FALSE
    /\ branch_mispredicted = [i \in Id |-> "no"]
    /\ reg_producers = [r \in Registers |-> <<>>]
    /\ registers_instrs_depend_on_me = [i \in Id |-> {}]
    /\ num_reg_dependent = [i \in Id |-> 0]
    /\ completed_mem_ops = [i \in Id |-> 0]
    /\ LQ = {} /\ SQ = <<>>
    /\ l1dReads = [b \in Block |-> 0]
    /\ written = [a \in Addresses |-> 0]
    /\ seen = {}

Init == program \in Programs /\ Empty
-----------------------------------------------------------------------------
(* Fetch and decode *)

\* initialize_instruction(): a mispredicted branch stops it.
InitializeInstruction ==
    /\ ~fetchStopped
    /\ begun < Len(program) /\ begun - promoted < IFETCH_BUFFER_SIZE
    /\ begun' = begun + 1
    /\ \E where \in IF program[begun'].branch THEN {"no", "decode", "execute"} ELSE {"no"} :
          /\ branch_mispredicted' = [branch_mispredicted EXCEPT ![begun'] = where]
          /\ fetchStopped' = (where # "no")
    /\ UNCHANGED <<program, promoted, decoded, dib_checked, fetched, l1iReads, dispatched,
                   num_retired, executed, registerVars, memoryVars>>

\* check_dib(): an instruction in the decoded instruction buffer need not be fetched.
CheckDib ==
    /\ dib_checked < begun
    /\ dib_checked' = dib_checked + 1
    /\ fetched' \in {fetched, [fetched EXCEPT ![dib_checked'] = "completed"]}
    /\ UNCHANGED <<program, begun, promoted, decoded, l1iReads, branchVars, dispatched,
                   num_retired, executed, registerVars, memoryVars>>

\* fetch_instruction(): the L1I takes the read for the first instruction that needs one
\* and all that follow it in its block, looked up or not.
FetchInstruction ==
    LET ready == {i \in IFETCH_BUFFER : i <= dib_checked /\ fetched[i] = "no"}
        first == CHOOSE i \in ready : \A j \in ready : i <= j
        chunk == {i \in first .. begun :
                     \A j \in first .. i : program[j].line = program[first].line}
    IN  /\ ready # {}
        /\ l1iReads' = l1iReads \cup {chunk}
        /\ fetched' = [i \in Id |-> IF i \in chunk THEN "inflight" ELSE fetched[i]]
        /\ UNCHANGED <<program, begun, promoted, decoded, dib_checked, branchVars,
                       dispatched, num_retired, executed, registerVars, memoryVars>>

\* handle_memory_return(), an answer of the L1I. It comes after check_dib() of the cycle
\* in which the fetch was sent.
FetchReturn ==
    \E chunk \in l1iReads :
        /\ \A i \in chunk : i <= dib_checked
        /\ l1iReads' = l1iReads \ {chunk}
        /\ fetched' = [i \in Id |-> IF i \in chunk THEN "completed" ELSE fetched[i]]
        /\ UNCHANGED <<program, begun, promoted, decoded, dib_checked, branchVars,
                       dispatched, num_retired, executed, registerVars, memoryVars>>

PromoteToDecode ==
    /\ promoted < begun /\ fetched[promoted + 1] = "completed"
    /\ promoted - decoded < DECODE_BUFFER_SIZE
    /\ promoted' = promoted + 1
    /\ UNCHANGED <<program, begun, decoded, dib_checked, fetched, l1iReads, branchVars,
                   dispatched, num_retired, executed, registerVars, memoryVars>>

\* A mutant of AfterDecode: the branch is still taken for mispredicted.
StillMispredicted(i) == branch_mispredicted

\* The mark of a misprediction that is detected at decode is removed.
AfterDecode(i) ==
    [branch_mispredicted EXCEPT ![i] = IF @ = "decode" THEN "no" ELSE @]

\* decode_instruction()
DecodeInstruction ==
    /\ decoded < promoted /\ decoded - dispatched < DISPATCH_BUFFER_SIZE
    /\ decoded' = decoded + 1
    /\ branch_mispredicted' = AfterDecode(decoded')
    /\ fetchStopped' = (fetchStopped /\ branch_mispredicted[decoded'] # "decode")
    /\ UNCHANGED <<program, begun, promoted, dib_checked, fetched, l1iReads, dispatched,
                   num_retired, executed, registerVars, memoryVars>>
-----------------------------------------------------------------------------
(* Dispatch, with do_memory_scheduling() *)

StoresTo(a) == {n \in 1 .. Len(SQ) : SQ[n].addr = a}

\* A mutant of Youngest: the load takes the oldest store to its address.
Oldest(a) == SQ[CHOOSE n \in StoresTo(a) : \A m \in StoresTo(a) : n <= m]

Youngest(a) == SQ[CHOOSE n \in StoresTo(a) : \A m \in StoresTo(a) : SQ[m].id <= SQ[n].id]

\* The loads of instruction i that are served by a store that is finished.
Forwarded(i) == {k \in DOMAIN program[i].loads :
                    /\ StoresTo(program[i].loads[k]) # {}
                    /\ Youngest(program[i].loads[k]).finished}

\* The others wait in LQ, for a store or for the L1D.
LoadEntry(i, k) ==
    LET a == program[i].loads[k]
    IN  [id |-> i, op |-> k, addr |-> a, issued |-> FALSE,
         producer |-> IF StoresTo(a) = {} THEN 0 ELSE Youngest(a).id]

StoreEntry(i, k) == [id |-> i, addr |-> program[i].stores[k], finished |-> FALSE]

\* dispatch_instruction()
DispatchInstruction ==
    LET i == dispatched + 1
        loads == DOMAIN program[i].loads
        stores == [k \in DOMAIN program[i].stores |-> StoreEntry(i, k)]
    IN  /\ i <= decoded
        /\ Cardinality(ROB) # ROB_SIZE
        /\ LQ_SIZE - Cardinality(LQ) >= Cardinality(loads)
        /\ Len(stores) + Len(SQ) <= SQ_SIZE
        /\ dispatched' = i
        /\ LQ' = LQ \cup {LoadEntry(i, k) : k \in loads \ Forwarded(i)}
        /\ SQ' = SQ \o stores
        /\ completed_mem_ops' = [completed_mem_ops EXCEPT ![i] = @ + Cardinality(Forwarded(i))]
        /\ seen' = seen \cup {<<i, k, Youngest(program[i].loads[k]).id>> : k \in Forwarded(i)}
        /\ UNCHANGED <<program, frontVars, branchVars, num_retired, executed, registerVars,
                       l1dReads, written>>
-----------------------------------------------------------------------------
(* Scheduling, execution and retirement *)

\* A mutant of Producers: an instruction waits for the oldest writer of a register.
OldestProducers(i) == {Head(reg_producers[r]) : r \in {q \in program[i].sources : reg_producers[q] # <<>>}}

\* The instructions that i waits for: the last to write each of its sources.
Producers(i) == {reg_producers[r][Len(reg_producers[r])] :
                    r \in {q \in program[i].sources : reg_producers[q] # <<>>}}

\* schedule_instruction(): the next one, if it is among the first SCHEDULER_SIZE that
\* are not executed.
ScheduleInstruction ==
    LET i == scheduled + 1
        waiting == {j \in num_retired + 1 .. i - 1 : executed[j] = "no"}
    IN  /\ i <= dispatched
        /\ Cardinality(waiting) < SCHEDULER_SIZE
        /\ scheduled' = i
        /\ num_reg_dependent' = [num_reg_dependent EXCEPT ![i] = @ + Cardinality(Producers(i))]
        /\ registers_instrs_depend_on_me' =
              [j \in Id |-> registers_instrs_depend_on_me[j]
                               \cup (IF j \in Producers(i) THEN {i} ELSE {})]
        /\ reg_producers' = [r \in Registers |->
              IF r \in program[i].destinations THEN Append(reg_producers[r], i)
              ELSE reg_producers[r]]
        /\ UNCHANGED <<program, frontVars, branchVars, dispatched, num_retired, executed,
                       memoryVars>>

\* execute_instruction(). Its loads and stores need not wait for it: they are due from
\* dispatch on, as the event_cycle of an LSQ_ENTRY begins with 0.
ExecuteInstruction ==
    \E i \in num_retired + 1 .. scheduled :
        /\ executed[i] = "no" /\ num_reg_dependent[i] = 0
        /\ executed' = [executed EXCEPT ![i] = "inflight"]
        /\ UNCHANGED <<program, frontVars, branchVars, dispatched, num_retired,
                       registerVars, memoryVars>>

\* A mutant of Resumes: fetching is resumed for branches that are detected at decode.
ResumesAtDecode(i) == branch_mispredicted[i] = "decode"

Resumes(i) == branch_mispredicted[i] # "no"

\* The sequence without instruction i, which do_complete_execution() asserts is in it.
Without(s, i) == RemoveAt(s, CHOOSE n \in DOMAIN s : s[n] = i)

\* complete_inflight_instruction(), do_complete_execution()
CompleteInflightInstruction ==
    \E i \in ROB :
        /\ executed[i] = "inflight" /\ completed_mem_ops[i] = num_mem_ops(i)
        /\ executed' = [executed EXCEPT ![i] = "completed"]
        /\ reg_producers' = [r \in Registers |->
              IF r \in program[i].destinations THEN Without(reg_producers[r], i)
              ELSE reg_producers[r]]
        /\ num_reg_dependent' = [j \in Id |->
              IF j \in registers_instrs_depend_on_me[i] THEN num_reg_dependent[j] - 1
              ELSE num_reg_dependent[j]]
        /\ fetchStopped' = (fetchStopped /\ ~Resumes(i))
        /\ UNCHANGED <<program, frontVars, branch_mispredicted, dispatched, num_retired,
                       scheduled, registers_instrs_depend_on_me, memoryVars>>

RetireRob ==
    /\ ROB # {} /\ executed[num_retired + 1] = "completed"
    /\ num_retired' = num_retired + 1
    /\ UNCHANGED <<program, frontVars, branchVars, dispatched, executed, registerVars,
                   memoryVars>>
-----------------------------------------------------------------------------
(* Load and store queues *)

\* LSQ_ENTRY::finish() of the loads in served and of the entry of instruction i, if any.
Finished(served, i) ==
    [j \in Id |-> completed_mem_ops[j] + Cardinality({e \in served : e.id = j})
                     + IF j = i THEN 1 ELSE 0]

\* A mutant of Kept: the loads a store has released stay in LQ.
KeptAll(served) == LQ

Kept(served) == LQ \ served

\* operate_lsq(): the first store that is not finished is, and the loads that wait for
\* it with it.
FinishStore ==
    LET open == {n \in 1 .. Len(SQ) : ~SQ[n].finished}
        n == CHOOSE n \in open : \A m \in open : n <= m
        released == {e \in LQ : e.producer = SQ[n].id /\ e.addr = SQ[n].addr}
    IN  /\ open # {}
        /\ SQ' = [SQ EXCEPT ![n].finished = TRUE]
        /\ LQ' = Kept(released)
        /\ completed_mem_ops' = Finished(released, SQ[n].id)
        /\ seen' = seen \cup {<<e.id, e.op, SQ[n].id>> : e \in released}
        /\ UNCHANGED <<program, frontVars, branchVars, dispatched, num_retired, executed,
                       registerVars, l1dReads, written>>

\* operate_lsq(): the L1D takes the first store, if its instruction has retired.
CompleteStore ==
    /\ SQ # <<>> /\ SQ[1].id <= num_retired
    /\ SQ' = Tail(SQ)
    /\ written' = [written EXCEPT ![SQ[1].addr] = SQ[1].id]
    /\ UNCHANGED <<program, frontVars, branchVars, dispatched, num_retired, executed,
                   registerVars, completed_mem_ops, LQ, l1dReads, seen>>

\* execute_load(): the L1D takes a load that waits for no store. It answers it with the
\* reads of the block it has not answered, or apart.
ExecuteLoad ==
    \E e \in LQ, joined \in BOOLEAN :
        /\ e.producer = 0 /\ ~e.issued
        /\ joined => l1dReads[e.addr[1]] > 0
        /\ LQ' = (LQ \ {e}) \cup {[e EXCEPT !.issued = TRUE]}
        /\ l1dReads' = IF joined THEN l1dReads ELSE [l1dReads EXCEPT ![e.addr[1]] = @ + 1]
        /\ seen' = seen \cup {<<e.id, e.op, written[e.addr]>>}
        /\ UNCHANGED <<program, frontVars, branchVars, dispatched, num_retired, executed,
                       registerVars, completed_mem_ops, SQ, written>>

\* handle_memory_return(), an answer of the L1D: it serves every load of the block that
\* was issued, also after the read it belongs to.
LoadReturn ==
    \E b \in Block :
        LET served == {e \in LQ : e.issued /\ e.addr[1] = b}
        IN  /\ l1dReads[b] > 0
            /\ l1dReads' = [l1dReads EXCEPT ![b] = @ - 1]
            /\ LQ' = LQ \ served
            /\ completed_mem_ops' = Finished(served, 0)
            /\ UNCHANGED <<program, frontVars, branchVars, dispatched, num_retired,
                           executed, registerVars, SQ, written, seen>>
-----------------------------------------------------------------------------
Next ==
    \/ InitializeInstruction \/ CheckDib \/ FetchInstruction \/ FetchReturn
    \/ PromoteToDecode \/ DecodeInstruction \/ DispatchInstruction
    \/ ScheduleInstruction \/ ExecuteInstruction \/ CompleteInflightInstruction \/ RetireRob
    \/ FinishStore \/ CompleteStore \/ ExecuteLoad \/ LoadReturn

\* operate() runs every stage in every cycle, and the first-level caches take and answer
\* what they are sent. No step can be taken for ever, so that it is enough that some step
\* is taken while any can be.
Fairness == WF_coreVars(Next)

Spec == Init /\ [][Next]_coreVars /\ Fairness
-----------------------------------------------------------------------------
(* Properties *)

TypeOK ==
    /\ program \in Programs
    /\ 0 <= num_retired /\ num_retired <= dispatched /\ dispatched <= decoded
    /\ decoded <= promoted /\ promoted <= dib_checked /\ dib_checked <= begun
    /\ num_retired <= scheduled /\ scheduled <= dispatched
    /\ begun - promoted <= IFETCH_BUFFER_SIZE /\ Cardinality(ROB) <= ROB_SIZE
    /\ fetched \in [Id -> {"no", "inflight", "completed"}]
    /\ executed \in [Id -> {"no", "inflight", "completed"}]
    /\ branch_mispredicted \in [Id -> {"no", "decode", "execute"}]
    /\ fetchStopped \in BOOLEAN
    /\ l1iReads \subseteq SUBSET Id
    /\ reg_producers \in [Registers -> Seq(Id)]
    /\ registers_instrs_depend_on_me \in [Id -> SUBSET Id]
    /\ num_reg_dependent \in [Id -> 0 .. Cardinality(Registers)]
    /\ completed_mem_ops \in [Id -> Nat]
    /\ LQ \subseteq [id : ROB, op : Nat, addr : Addresses, issued : BOOLEAN,
                     producer : Id \cup {0}]
    /\ Cardinality(LQ) <= LQ_SIZE
    /\ SQ \in Seq([id : Id, addr : Addresses, finished : BOOLEAN]) /\ Len(SQ) <= SQ_SIZE
    /\ l1dReads \in [Block -> Nat]
    /\ written \in [Addresses -> Id \cup {0}]

\* The last store before instruction i to address a, or 0.
LastStore(i, a) ==
    LET stores == {j \in 1 .. i - 1 : a \in Range(program[j].stores)}
    IN  IF stores = {} THEN 0 ELSE CHOOSE j \in stores : \A k \in stores : k <= j

\* A load is served from the last store before it in the program to its address: forwarded
\* from SQ, released when that store finishes, or sent to the L1D after that store, and
\* after none that follows the load.
LoadsSeeStores == \A s \in seen : s[3] = LastStore(s[1], program[s[1]].loads[s[2]])

\* Every memory operation of a dispatched instruction is finished exactly once, by its own
\* store, the store it waits for, or an answer of the L1D that may be another load's: what
\* is not counted is still in a queue. The assertions of LSQ_ENTRY::finish() and
\* do_finish_store() rest on this, as an instruction only leaves ROB when all are counted.
MemoryOpsCounted ==
    \A i \in 1 .. dispatched :
        completed_mem_ops[i] + Cardinality({e \in LQ : e.id = i})
            + Cardinality({n \in DOMAIN SQ : SQ[n].id = i /\ ~SQ[n].finished}) = num_mem_ops(i)

\* The last instruction before i that writes register r, or 0.
LastWriter(i, r) ==
    LET writers == {j \in 1 .. i - 1 : r \in program[j].destinations}
    IN  IF writers = {} THEN 0 ELSE CHOOSE j \in writers : \A k \in writers : k <= j

\* An instruction executes only when the last writer of each of its sources has completed,
\* although writers leave reg_producers in any order.
OperandsReady ==
    \A i \in Id : executed[i] # "no" =>
        \A r \in program[i].sources :
            LastWriter(i, r) # 0 => executed[LastWriter(i, r)] = "completed"

\* While fetching is stopped, one branch that will resume it is on its way, and while it
\* is not, none is: it is resumed for the branch that stopped it, and once.
FetchResumes ==
    Cardinality({i \in 1 .. begun : branch_mispredicted[i] # "no" /\ executed[i] # "completed"})
        = IF fetchStopped THEN 1 ELSE 0

\* Every instruction of the program retires.
InstructionsRetire == <>(num_retired = Len(program))
=============================================================================
