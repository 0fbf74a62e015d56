---------------------------- MODULE SwappingUnit ----------------------------
(***************************************************************************)
(* The swapping unit of the hybrid memory controller                       *)
(* (include/ChampSim/dram_controller.h), which exchanges the contents of   *)
(* two equally long runs of cache lines, one in fast and one in slow       *)
(* memory, while requests of the last-level cache keep arriving.           *)
(*                                                                         *)
(* One call of MEMORY_CONTROLLER::operate() is two phases here:            *)
(*   "initiate": the requests of the LLC are admitted one at a time, then  *)
(*               the unit does one cycle (operate_swapping and the switch  *)
(*               of operate() on its result);                              *)
(*   "tick":     the memories may return outstanding reads of the unit.    *)
(* Whether a memory accepts a request (its queue is not full) is a free    *)
(* choice for every request.                                               *)
(*                                                                         *)
(* The flags of BUFFER_ENTRY are kept as sets of slots <<entry, segment>>. *)
(* A value is named by the physical line whose latest acknowledged write   *)
(* it is; every older or meaningless value is Stale. Only the values of    *)
(* the Tracked lines are told apart from Stale: the unit moves data        *)
(* without looking at it, so a run may follow as few lines as it likes.    *)
(***************************************************************************)
EXTENDS Integers, FiniteSets

CONSTANTS
    FastSize,       \* lines of fast memory: 0 .. FastSize-1
    SlowSize,       \* lines of slow memory: FastSize .. FastSize+SlowSize-1
    EntryNumber,    \* SWAPPING_BUFFER_ENTRY_NUMBER
    Tracked         \* the physical lines whose values are followed

ASSUME SizeAssumption ==
    /\ FastSize \in Nat \ {0}
    /\ SlowSize \in Nat \ {0}
    /\ EntryNumber \in Nat \ {0}
    /\ Tracked \subseteq 0 .. FastSize + SlowSize - 1

Line    == 0 .. FastSize + SlowSize - 1
Entry   == 0 .. EntryNumber - 1
Segment == {0, 1}                  \* SWAPPING_SEGMENT_ONE, SWAPPING_SEGMENT_TWO
Slot    == Entry \X Segment
Stale   == -1
Data    == Tracked \cup {Stale}

\* What the latest write to physical line p wrote.
Value(p) == IF p \in Tracked THEN p ELSE Stale

Requests == {r \in [fm : 0 .. FastSize - 1, sm : FastSize .. FastSize + SlowSize - 1,
                    size : 1 .. EntryNumber] :
                /\ r.fm + r.size <= FastSize
                /\ r.sm + r.size <= FastSize + SlowSize}
NoRequest == [fm |-> 0, sm |-> 0, size |-> 0]

VARIABLES
    phase,               \* where in operate() the controller is
    states,              \* "Idle" or "Swapping"
    active_entry_number,
    finish_number,
    base_address,        \* hardware line at which each segment starts
    finish,              \* the entries with finish set
    read_issue,          \* the slots with read_issue, read, write, dirty set
    read,
    write,
    dirty,
    data,                \* what each slot holds
    reads,               \* lines whose swap read a memory has not returned yet
    memory,              \* contents of every hardware line
    request,             \* front of the remapping request queue
    h_address,           \* physical line -> hardware line
    absorbed             \* history: physical lines whose value a write into the
                         \* buffer touched, until the next write to memory

unit == <<states, active_entry_number, finish_number, base_address>>
flags == <<finish, read_issue, read, write, dirty>>
vars == <<phase, unit, flags, data, reads, memory, request, h_address, absorbed>>
-----------------------------------------------------------------------------
(* Address arithmetic *)

\* The line a slot is read from and, for the other data, written to.
Home(s) == base_address[s[2]] + s[1]

InSegment(l, j) == base_address[j] <= l /\ l < base_address[j] + active_entry_number
UnderSwap(l) == \E j \in Segment : InSegment(l, j)

\* The slot check_request() consults for hardware line l.
SlotOf(l) == LET j == IF InSegment(l, 0) THEN 0 ELSE 1
             IN  <<l - base_address[j], j>>

\* A mutant of ArrivalSlot: the slot of the line's own segment.
OwnSlot(l) == SlotOf(l)

\* The slot return_swapping_data() fills when line l arrives: the segment is
\* the other one, where the data is going to.
ArrivalSlot(l) == LET s == SlotOf(l) IN <<s[1], 1 - s[2]>>

\* The line that trades places with line l.
Partner(l) == IF UnderSwap(l)
              THEN LET s == SlotOf(l) IN base_address[1 - s[2]] + s[1]
              ELSE l

Arrived(i) == <<i, 0>> \in read /\ <<i, 1>> \in read
-----------------------------------------------------------------------------
TypeOK ==
    /\ phase \in {"initiate", "tick"}
    /\ states \in {"Idle", "Swapping"}
    /\ active_entry_number \in 0 .. EntryNumber
    /\ finish_number \in 0 .. EntryNumber
    /\ base_address \in [Segment -> Line]
    /\ finish \subseteq Entry
    /\ read_issue \subseteq Slot
    /\ read \subseteq Slot
    /\ write \subseteq Slot
    /\ dirty \subseteq Slot
    /\ data \in [Slot -> Data]
    /\ reads \subseteq Line
    /\ memory \in [Line -> Data]
    /\ request \in Requests \cup {NoRequest}
    /\ h_address \in [Line -> Line]
    /\ absorbed \subseteq Tracked

\* The values initialize_swapping() gives the unit.
Init ==
    /\ phase = "initiate"
    /\ states = "Idle"
    /\ active_entry_number = 0
    /\ finish_number = 0
    /\ base_address = [j \in Segment |-> 0]
    /\ finish = {}
    /\ read_issue = {}
    /\ read = {}
    /\ write = {}
    /\ dirty = {}
    /\ data = [s \in Slot |-> Stale]
    /\ reads = {}
    /\ memory = [l \in Line |-> Value(l)]
    /\ request = NoRequest
    /\ h_address = [l \in Line |-> l]
    /\ absorbed = {}
-----------------------------------------------------------------------------
(* Requests of the last-level cache *)

\* add_rq() of a physical line: check_request() finds its data in the buffer,
\* and the response carries the data of the line's own slot. A read changes
\* nothing in the unit; one of a line under swapping that is not in the buffer
\* is refused and retried.
ForwardsRead(p) ==
    LET h == h_address[p] IN
    /\ UnderSwap(h)
    /\ \/ SlotOf(h)[1] \in finish
       \/ SlotOf(h) \in read \cup write \cup dirty
ForwardedData(p) == data[SlotOf(h_address[p])]

\* What an older copy of line p is after a new write to p.
Aged(d, p) == IF d = p THEN Stale ELSE d

\* A mutant of ReopenedCount: reopening an entry is not counted.
UnchangedCount(i) == finish_number

\* finish_number when entry i is open again.
ReopenedCount(i) == finish_number - (IF i \in finish THEN 1 ELSE 0)

\* add_wq() of a physical line whose entry has both lines in the buffer.
\* A finished entry is opened again.
AbsorbWrite(p) ==
    LET h == h_address[p]
        s == SlotOf(h)
    IN
    /\ phase = "initiate"
    /\ UnderSwap(h)
    /\ Arrived(s[1])
    /\ data' = [t \in Slot |-> IF t = s THEN Value(p) ELSE Aged(data[t], p)]
    /\ memory' = [l \in Line |-> Aged(memory[l], p)]
    /\ dirty' = dirty \cup {s}
    /\ finish_number' = ReopenedCount(s[1])
    /\ finish' = finish \ {s[1]}
    /\ absorbed' = absorbed \cup {q \in Tracked : h_address[q] \in {h, Partner(h)}}
    /\ UNCHANGED <<phase, states, active_entry_number, base_address, read_issue,
                   read, write, reads>>

\* add_wq() of a line that is not under swapping, accepted by its memory.
WriteMemory(p) ==
    /\ phase = "initiate"
    /\ ~UnderSwap(h_address[p])
    /\ memory' = [l \in Line |-> IF l = h_address[p] THEN Value(p) ELSE Aged(memory[l], p)]
    /\ data' = [s \in Slot |-> Aged(data[s], p)]
    /\ absorbed' = absorbed \ {p}
    /\ UNCHANGED <<phase, unit, flags, reads>>

\* A read, and a write that is refused: the unit and the memories keep their
\* state. A refused request is retried.
OtherAccess ==
    /\ phase = "initiate"
    /\ UNCHANGED <<phase, unit, flags, data, reads, memory, absorbed>>
-----------------------------------------------------------------------------
(* One cycle of the unit: what changes in the unit and in the memories.    *)
(* The front of the remapping request queue is read here and changed below.*)

ReadsToIssue == {s \in Slot : /\ s[1] < active_entry_number
                              /\ s[1] \notin finish
                              /\ s \notin read_issue}

\* A mutant of WritesToIssue: a write does not wait for the data.
EarlyWrites == {s \in Slot : /\ s[1] < active_entry_number
                             /\ s[1] \notin finish
                             /\ s \notin write \/ s \in dirty}

WritesToIssue == {s \in Slot : /\ s[1] < active_entry_number
                               /\ s[1] \notin finish
                               /\ Arrived(s[1])
                               /\ s \notin write \/ s \in dirty}

\* Entries that finish in a cycle whose accepted writes are aw.
Completed(aw) == {i \in Entry : /\ i < active_entry_number
                                /\ i \notin finish
                                /\ <<i, 0>> \in write \cup aw
                                /\ <<i, 1>> \in write \cup aw}

FinishNumberAfter(aw) == finish_number + Cardinality(Completed(aw))

MemoryAfter(aw) ==
    [l \in Line |-> IF UnderSwap(l) /\ SlotOf(l) \in aw THEN data[SlotOf(l)] ELSE memory[l]]

\* update_swapping_segments(): the request at the front is the one being served
\* and has grown.
RequestHasGrown ==
    /\ request.fm = base_address[0]
    /\ request.sm = base_address[1]
    /\ request.size > active_entry_number

\* operate_swapping() returns 0 and there is nothing to start.
IdleCycle ==
    /\ phase = "initiate"
    /\ states = "Idle"
    /\ request = NoRequest
    /\ phase' = "tick"
    /\ UNCHANGED <<unit, flags, data, reads, memory, absorbed>>

\* operate_swapping() returns 0 and start_swapping_segments() is called.
StartSwap ==
    /\ phase = "initiate"
    /\ states = "Idle"
    /\ request # NoRequest
    /\ states' = "Swapping"
    /\ base_address' = [j \in Segment |-> IF j = 0 THEN request.fm ELSE request.sm]
    /\ active_entry_number' = request.size
    /\ phase' = "tick"
    /\ UNCHANGED <<finish_number, flags, data, reads, memory, absorbed>>

\* The loops of operate_swapping(): the reads ar and the writes aw are accepted.
IssueRequests(ar, aw) ==
    /\ phase = "initiate"
    /\ states = "Swapping"
    /\ ar \subseteq ReadsToIssue
    /\ aw \subseteq WritesToIssue
    /\ reads' = reads \cup {Home(s) : s \in ar}
    /\ memory' = MemoryAfter(aw)
    /\ phase' = "tick"
    /\ UNCHANGED absorbed

\* operate_swapping() returns 1, or returns 2 and the request has grown.
ContinueSwap(ar, aw) ==
    /\ IssueRequests(ar, aw)
    /\ FinishNumberAfter(aw) # active_entry_number \/ RequestHasGrown
    /\ read_issue' = read_issue \cup ar
    /\ write' = write \cup aw
    /\ dirty' = dirty \ aw
    /\ finish' = finish \cup Completed(aw)
    /\ finish_number' = FinishNumberAfter(aw)
    /\ active_entry_number' = IF RequestHasGrown THEN request.size ELSE active_entry_number
    /\ UNCHANGED <<states, base_address, read, data>>

\* operate_swapping() returns 2 and initialize_swapping() clears the unit.
FinishSwap(ar, aw) ==
    /\ IssueRequests(ar, aw)
    /\ FinishNumberAfter(aw) = active_entry_number
    /\ ~RequestHasGrown
    /\ states' = "Idle"
    /\ active_entry_number' = 0
    /\ finish_number' = 0
    /\ base_address' = [j \in Segment |-> 0]
    /\ finish' = {}
    /\ read_issue' = {}
    /\ read' = {}
    /\ write' = {}
    /\ dirty' = {}
    /\ data' = [s \in Slot |-> Stale]

\* memory.tick() and memory2.tick(): return_swapping_data() for the lines ls.
\* A line that arrives for a slot already written or dirtied is dropped.
ReturnReads(ls) ==
    LET arriving == {ArrivalSlot(l) : l \in ls}
        kept == {s \in arriving : /\ states = "Swapping"
                                  /\ s[1] \notin finish
                                  /\ s \notin write \cup dirty}
    IN
    /\ phase = "tick"
    /\ reads' = reads \ ls
    /\ read' = read \cup kept
    /\ data' = [s \in Slot |-> IF s \in kept
                               THEN memory[CHOOSE l \in ls : ArrivalSlot(l) = s] ELSE data[s]]
    /\ phase' = "initiate"
    /\ UNCHANGED <<unit, finish, read_issue, write, dirty, memory, absorbed>>
-----------------------------------------------------------------------------
(* The remapping request queue and table, as far as the unit relies on     *)
(* them. The table changes only when the request at the front is finished: *)
(* its two runs of lines are exchanged and the next request is in front.   *)

\* A mutant of TrackActivity: a new request goes to the front of the queue.
PushFront == request' \in Requests /\ UNCHANGED h_address

\* memory_activity_tracking(), which every add_rq() and add_wq() calls, leaves
\* the front alone, enqueues a request in an empty queue, or enlarges the front.
TrackActivity ==
    /\ \/ request' = request
       \/ request = NoRequest /\ request' \in Requests
       \/ /\ request # NoRequest
          /\ \E n \in request.size + 1 .. EntryNumber : request' = [request EXCEPT !.size = n]
          /\ request' \in Requests
    /\ UNCHANGED h_address

\* finish_remapping_request(), called before initialize_swapping().
FinishRemappingRequest ==
    /\ request' \in Requests \cup {NoRequest}
    /\ h_address' = [p \in Line |-> Partner(h_address[p])]
-----------------------------------------------------------------------------
queue == <<request, h_address>>

LlcRequest == (OtherAccess \/ \E p \in Line : AbsorbWrite(p) \/ WriteMemory(p)) /\ TrackActivity

Transfer(ar, aw) == \/ ContinueSwap(ar, aw) /\ UNCHANGED queue
                    \/ FinishSwap(ar, aw) /\ FinishRemappingRequest

UnitCycle == \/ (IdleCycle \/ StartSwap) /\ UNCHANGED queue
             \/ \E ar \in SUBSET ReadsToIssue, aw \in SUBSET WritesToIssue : Transfer(ar, aw)

Tick == (\E ls \in SUBSET reads : ReturnReads(ls)) /\ UNCHANGED queue

Next == LlcRequest \/ UnitCycle \/ Tick

Spec == Init /\ [][Next]_vars
-----------------------------------------------------------------------------
(* Fairness: operate() is called every cycle, a memory does not refuse an  *)
(* offered request forever, and it answers every read.                     *)

Fairness == /\ WF_vars(UnitCycle)
            /\ WF_vars(Tick)
            /\ \A s \in Slot : []<>(s \notin ReadsToIssue \cup WritesToIssue)
            /\ \A l \in Line : []<>(l \notin reads)

FairSpec == Spec /\ Fairness
-----------------------------------------------------------------------------
(* Properties *)

\* finish_number is the number of finished entries although entries are
\* finished by the unit and reopened by absorbed writes: the comparison with
\* active_entry_number in operate_swapping() sees exactly when all are done.
FinishCounted ==
    /\ finish_number = Cardinality(finish)
    /\ \A i \in finish : i < active_entry_number /\ Arrived(i)

\* No read of the unit is outstanding when it goes idle, and each outstanding
\* one is of a line being swapped whose slot still waits for it: the message
\* "data is returned while swapping is already finished" and the
\* assert(false) of return_swapping_data() are unreachable.
NoStrayRead ==
    \A l \in reads : /\ states = "Swapping"
                     /\ UnderSwap(l)
                     /\ SlotOf(l) \in read_issue
                     /\ ArrivalSlot(l) \notin read \cup write \cup dirty

\* The request at the front of the queue is the one being swapped until it is
\* finished, so the two assert(false) of operate() are unreachable and
\* finish_remapping_request() pops the request whose lines were exchanged.
SwapMatchesRequest ==
    states = "Swapping" => /\ request # NoRequest
                           /\ base_address[0] = request.fm
                           /\ base_address[1] = request.sm
                           /\ active_entry_number \in 1 .. request.size

\* A swap, however its reads, writes, growth and reopened entries interleave,
\* moves every line no write touched in the buffer to where the remapping
\* table sends its physical address afterwards.
UntouchedDataPreserved ==
    \A p \in Tracked \ absorbed :
        ~UnderSwap(h_address[p]) => memory[h_address[p]] = p

\* A swap that has started comes to an end, also when writes keep reopening
\* finished entries.
SwapCompletes == states = "Swapping" ~> states = "Idle"

\* Claimed by "we can service its request because the data is in the swapping
\* buffer" (check_request): a read served from the buffer gets the data of
\* its own line.
ForwardedReadIsCurrent ==
    \A p \in Tracked : ForwardsRead(p) => ForwardedData(p) = p

\* dirty is "Whether a "new" write request is received" and finish "Whether a
\* swapping of this entry is completed": a swap is not completed while a new
\* write waits in the buffer.
NoDirtyDataDropped ==
    [][states = "Swapping" /\ states' = "Idle" =>
          \A s \in dirty : memory'[Home(s)] = data[s]]_vars
=============================================================================
