------------------------------- MODULE MemPod -------------------------------
(***************************************************************************)
(* MemPod (source/ideal_single_mempod.cc, include/ideal_single_mempod.h):  *)
(* MEA counters find the hot segments of an interval; at its end each hot  *)
(* segment in slow memory is paired with the next fast frame that holds no *)
(* hot one, and the memory controller swaps the pairs during the interval  *)
(* that follows. check_interval_swap() runs in every cycle after the       *)
(* controller has dealt with its swapping unit (operate() of               *)
(* include/ChampSim/dram_controller.h), of which only the pair being       *)
(* swapped is kept here. The counters are not reset between intervals      *)
(* (MEA_COUNTER_RESET_EVERY_EPOCH).                                        *)
(*                                                                         *)
(* An interval that ends while a swap is under way, or about to begin,     *)
(* cancels or repeats requests under the unit's hands: it "disturbs" the   *)
(* behaviour, which is then followed until the queue is empty, without     *)
(* further accesses and ends of intervals.                                 *)
(***************************************************************************)
EXTENDS Integers, Sequences, FiniteSets, SequencesExt

CONSTANTS
    FastSegments,       \* fast_memory_capacity_at_granularity
    Segments,           \* total_capacity_at_granularity
    NUMBER_MEA_COUNTER,
    MEA_COUNTER_MAX_VALUE,
    REMAPPING_REQUEST_QUEUE_LENGTH,
    MaxAccesses         \* bound: accesses of a behaviour, all before it is disturbed

\* Every counter can have a frame of fast memory: 16 counters, and segments of 2 KB.
PodParameters ==
    /\ {FastSegments, Segments, NUMBER_MEA_COUNTER, MEA_COUNTER_MAX_VALUE,
        REMAPPING_REQUEST_QUEUE_LENGTH, MaxAccesses} \subseteq Nat
    /\ 0 < FastSegments /\ FastSegments < Segments
    /\ NUMBER_MEA_COUNTER <= FastSegments

Segment == 0 .. Segments - 1
Count   == 1 .. MEA_COUNTER_MAX_VALUE + 1
\* What swap_fm_address_itr can be while it is used: the frame behind fast memory is
\* reached when the frames before it are hot.
Victim  == 0 .. FastSegments
Idle    == <<>>

VARIABLES
    mea_counter_table,
    address_remapping_table,          \* segment -> frame
    invert_address_remapping_table,   \* fast frame -> segment
    remapping_request_queue,
    swap_fm_address_itr,
    base_address,               \* the frames the swapping unit exchanges, or Idle
    contents,                   \* frame -> the segment whose data is there
    accesses,                   \* history: accesses of each segment
    disturbed,                  \* history: an interval ended on a swap or behind fast memory
    failed                      \* an assert(false) or abort() was reached

podVars == <<mea_counter_table, address_remapping_table, invert_address_remapping_table,
             remapping_request_queue, swap_fm_address_itr, base_address, contents,
             accesses, disturbed, failed>>

Request == [p_fm : Segment, p_sm : Segment, h_fm : Victim, h_sm : Segment]

TypeOK ==
    /\ DOMAIN mea_counter_table \subseteq Segment
    /\ \A s \in DOMAIN mea_counter_table : mea_counter_table[s] \in Count
    /\ Cardinality(DOMAIN mea_counter_table) <= NUMBER_MEA_COUNTER
    /\ address_remapping_table \in [Segment -> Segment]
    /\ invert_address_remapping_table \in [Victim -> Segment]
    /\ remapping_request_queue \in Seq(Request)
    /\ Len(remapping_request_queue) <= REMAPPING_REQUEST_QUEUE_LENGTH
    /\ swap_fm_address_itr \in 0 .. FastSegments - 1
    /\ base_address = Idle \/ base_address \in Victim \X Segment
    /\ contents \in [Segment -> Segment]
    /\ accesses \in [Segment -> 0 .. MaxAccesses]
    /\ disturbed \in BOOLEAN
    /\ failed \in BOOLEAN

\* A key the invert table lacks is read as 0 (operator[] of unordered_map).
Init ==
    /\ mea_counter_table = <<>>
    /\ address_remapping_table = [s \in Segment |-> s]
    /\ invert_address_remapping_table = [f \in Victim |-> IF f < FastSegments THEN f ELSE 0]
    /\ remapping_request_queue = <<>>
    /\ swap_fm_address_itr = 0
    /\ base_address = Idle
    /\ contents = [f \in Segment |-> f]
    /\ accesses = [s \in Segment |-> 0]
    /\ disturbed = FALSE
    /\ failed = FALSE
-----------------------------------------------------------------------------
(* The MEA counters *)

\* All counters go down by one; those that reach zero are erased.
Decremented == [s \in {t \in DOMAIN mea_counter_table : mea_counter_table[t] > 1} |->
                   mea_counter_table[s] - 1]

\* A mutant of MeaAfter: a new segment takes a counter at once, at the cost of the others.
MeaAfterTaking(s) ==
    LET counted == DOMAIN mea_counter_table
    IN  IF s \in counted
        THEN [mea_counter_table EXCEPT ![s] = IF @ <= MEA_COUNTER_MAX_VALUE THEN @ + 1 ELSE @]
        ELSE [t \in DOMAIN Decremented \cup {s} |-> IF t = s THEN 1 ELSE Decremented[t]]

Accesses == FoldFunction(LAMBDA a, b : a + b, 0, accesses)

\* update_mea_counter()
MeaAfter(s) ==
    LET counted == DOMAIN mea_counter_table
    IN  IF s \in counted
        THEN [mea_counter_table EXCEPT ![s] = IF @ <= MEA_COUNTER_MAX_VALUE THEN @ + 1 ELSE @]
        ELSE IF Cardinality(counted) >= NUMBER_MEA_COUNTER THEN Decremented
        ELSE [t \in counted \cup {s} |-> IF t = s THEN 1 ELSE mea_counter_table[t]]
-----------------------------------------------------------------------------
(* The pairs that are to be swapped, from the tables as they are given *)

HotFrames(table) == {table[s] : s \in DOMAIN mea_counter_table}

\* The hot segments of slow memory in the order of their frames; those that claim one
\* frame are ordered as segments.
HotInSlow(table) ==
    LET slow == {s \in DOMAIN mea_counter_table : table[s] >= FastSegments}
        upTo(s) == {t \in slow : table[t] < table[s] \/ (table[t] = table[s] /\ t <= s)}
    IN  [n \in 1 .. Cardinality(slow) |-> CHOOSE s \in slow : Cardinality(upTo(s)) = n]

\* The next frame that is not hot, from frame f on, without a turn to frame 0.
NextVictim(table, f) ==
    CHOOSE v \in f .. FastSegments :
        /\ v \notin HotFrames(table) \cap 0 .. FastSegments - 1
        /\ \A u \in f .. v - 1 : u \in HotFrames(table)

\* enqueue_remapping_request(): a full queue refuses.
Enqueued(q, r) == IF Len(q) < REMAPPING_REQUEST_QUEUE_LENGTH THEN Append(q, r) ELSE q

\* A mutant of Paired: the iterator stays where it is.
PairedInPlace(table, invert, state, s) ==
    LET v == NextVictim(table, state.itr)
        r == [p_fm |-> invert[v], p_sm |-> s, h_fm |-> v, h_sm |-> table[s]]
    IN  [queue |-> Enqueued(state.queue, r), itr |-> v % FastSegments,
         over |-> state.over \/ v = FastSegments, same |-> state.same \/ v = table[s]]

\* determine_swap_pair() for segment s.
Paired(table, invert, state, s) ==
    LET v == NextVictim(table, state.itr)
        r == [p_fm |-> invert[v], p_sm |-> s, h_fm |-> v, h_sm |-> table[s]]
    IN  [queue |-> Enqueued(state.queue, r), itr |-> (v + 1) % FastSegments,
         over |-> state.over \/ v = FastSegments,
         same |-> state.same \/ (v = table[s] /\ Len(state.queue) < REMAPPING_REQUEST_QUEUE_LENGTH)]

\* determine_swap_pair(): a request that would exchange a frame with itself aborts.
AllPaired(table, invert, queue) ==
    FoldLeft(LAMBDA state, s : Paired(table, invert, state, s),
             [queue |-> queue, itr |-> swap_fm_address_itr, over |-> FALSE, same |-> FALSE],
             HotInSlow(table))
-----------------------------------------------------------------------------
(* Actions *)

\* memory_activity_tracking()
Access(s) ==
    /\ ~disturbed
    /\ Accesses < MaxAccesses
    /\ mea_counter_table' = MeaAfter(s)
    /\ accesses' = [accesses EXCEPT ![s] = @ + 1]
    /\ UNCHANGED <<address_remapping_table, invert_address_remapping_table,
                   remapping_request_queue, swap_fm_address_itr, base_address, contents,
                   disturbed, failed>>

\* check_interval_swap() after the switch over the swapping unit has left the given
\* tables and queue; kept is the part of the queue that is not cancelled, and unit the
\* pair being swapped. ends tells whether the interval is over.
CheckInterval(ends, table, invert, queue, kept, unit) ==
    LET pairs == AllPaired(table, invert, kept)
    IN  /\ address_remapping_table' = table
        /\ invert_address_remapping_table' = invert
        /\ base_address' = unit
        /\ IF ends
           THEN /\ remapping_request_queue' = pairs.queue
                /\ swap_fm_address_itr' = pairs.itr
                /\ disturbed' = (disturbed \/ unit # Idle \/ pairs.over)
                /\ failed' = pairs.same
           ELSE /\ remapping_request_queue' = queue
                /\ UNCHANGED <<swap_fm_address_itr, disturbed, failed>>
        /\ UNCHANGED <<mea_counter_table, accesses>>

\* The switch of operate(), case 0: an idle unit starts with the front request. The
\* whole queue is cancelled at the end of an interval, this request included.
OperateIdle(ends) ==
    /\ base_address = Idle
    /\ LET queue == remapping_request_queue
           front == Head(queue)
       IN  CheckInterval(ends, address_remapping_table, invert_address_remapping_table,
                         queue, <<>>,
                         IF queue = <<>> THEN Idle ELSE <<front.h_fm, front.h_sm>>)
    /\ UNCHANGED contents

\* Case 1: the unit is busy; the front request is kept at the end of an interval.
OperateBusy(ends) ==
    /\ base_address # Idle
    /\ remapping_request_queue # <<>>
    /\ CheckInterval(ends, address_remapping_table, invert_address_remapping_table,
                     remapping_request_queue, <<Head(remapping_request_queue)>>, base_address)
    /\ UNCHANGED contents

\* Case 2: the unit has exchanged the frames, and finish_remapping_request() enters the
\* front request, whatever that is, into the tables.
OperateFinish(ends) ==
    /\ base_address # Idle
    /\ remapping_request_queue # <<>>
    /\ LET r == Head(remapping_request_queue)
           table == [address_remapping_table EXCEPT ![r.p_sm] = r.h_fm, ![r.p_fm] = r.h_sm]
           invert == [invert_address_remapping_table EXCEPT ![r.h_fm] = r.p_sm]
       IN  CheckInterval(ends, table, invert, Tail(remapping_request_queue), <<>>, Idle)
    /\ contents' = [contents EXCEPT ![base_address[1]] = contents[base_address[2]],
                                    ![base_address[2]] = contents[base_address[1]]]

\* Cases 1 and 2: there is no front request, assert(false).
OperateFail ==
    /\ base_address # Idle
    /\ remapping_request_queue = <<>>
    /\ failed' = TRUE
    /\ UNCHANGED <<mea_counter_table, address_remapping_table, accesses, contents,
                   invert_address_remapping_table, remapping_request_queue,
                   swap_fm_address_itr, base_address, disturbed>>

Next ==
    /\ ~failed
    /\ \/ \E s \in Segment : Access(s)
       \/ \E ends \in {FALSE, ~disturbed} :
              OperateIdle(ends) \/ OperateBusy(ends) \/ OperateFinish(ends)
       \/ OperateFail

Spec == Init /\ [][Next]_podVars
-----------------------------------------------------------------------------
(* Properties *)

\* As long as every interval ended while no swap was under way, or about to begin, and
\* the search for victims stayed in fast memory: physical_to_hardware_address() leads
\* every segment to its data, the two tables are inverse to each other on fast memory,
\* and no sanity check fails, however many of the queued pairs were swapped before the
\* rest was cancelled.
SegmentsFound ==
    \/ disturbed
    \/ /\ \A s \in Segment : contents[address_remapping_table[s]] = s
       /\ \A f \in 0 .. FastSegments - 1 : invert_address_remapping_table[f] = contents[f]
       /\ ~failed

\* What the MEA counters promise: a segment with more than one in NUMBER_MEA_COUNTER + 1
\* of all accesses has a counter, and the counter is short by no more than that share,
\* unless a counter was at its limit.
MajorityTracked ==
    LET counted(s) == IF s \in DOMAIN mea_counter_table THEN mea_counter_table[s] ELSE 0
    IN  (\A s \in Segment : accesses[s] <= MEA_COUNTER_MAX_VALUE + 1) =>
            \A s \in Segment :
                accesses[s] - counted(s) <= Accesses \div (NUMBER_MEA_COUNTER + 1)
=============================================================================
