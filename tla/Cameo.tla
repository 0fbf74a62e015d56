-------------------------------- MODULE Cameo --------------------------------
(***************************************************************************)
(* The CAMEO management (source/cameo.cc, LINE_LOCATION_TABLE builds): the *)
(* lines of a congruence group share one line of fast memory. The line     *)
(* location table says where each member of a group is now; location 0 is  *)
(* the fast one. A line that has become hot and is in slow memory asks to  *)
(* trade places with the member in location 0, through a bounded queue of  *)
(* remapping requests whose front is served by the memory controller.      *)
(***************************************************************************)
EXTENDS Integers, Sequences, FiniteSets

CONSTANTS
    GroupNumber,        \* lines of fast memory, one congruence group each
    MemberNumber,       \* NUMBER_OF_BLOCK, the lines of a group
    QueueLength,        \* REMAPPING_REQUEST_QUEUE_LENGTH
    CounterMax,         \* COUNTER_MAX_VALUE
    HotnessThreshold    \* hotness_threshold

ASSUME CameoAssumption ==
    /\ GroupNumber \in Nat \ {0}
    /\ MemberNumber \in Nat \ {0}
    /\ QueueLength \in Nat \ {0}
    /\ CounterMax \in Nat
    /\ HotnessThreshold \in Nat

Group    == 0 .. GroupNumber - 1
Location == 0 .. MemberNumber - 1
Block    == Group \X Location      \* a physical line: its group and its member

\* A remapping request names the two members and the locations, and with them
\* the hardware addresses, they had when it was made.
Request == [group : Group, fm_location : Location, sm_location : Location,
            address_in_fm : Location, address_in_sm : Location]

VARIABLES
    line_location_table,       \* group -> member -> location
    counter_table,
    hotness_table,             \* the hot blocks
    remapping_request_queue

cameoVars == <<line_location_table, counter_table, hotness_table, remapping_request_queue>>

TypeOK ==
    /\ line_location_table \in [Group -> [Location -> Location]]
    /\ counter_table \in [Block -> 0 .. CounterMax]
    /\ hotness_table \subseteq Block
    /\ remapping_request_queue \in Seq(Request)
    /\ Len(remapping_request_queue) <= QueueLength

Init ==
    /\ line_location_table = [g \in Group |-> [m \in Location |-> m]]
    /\ counter_table = [b \in Block |-> 0]
    /\ hotness_table = {}
    /\ remapping_request_queue = <<>>
-----------------------------------------------------------------------------
\* A mutant of IsQueued: the front of the queue is not looked at.
IsWaiting(g) == \E i \in 2 .. Len(remapping_request_queue) : remapping_request_queue[i].group = g

IsQueued(g) == \E i \in 1 .. Len(remapping_request_queue) : remapping_request_queue[i].group = g

\* A mutant of CountAfter: the counter does not saturate.
Incremented(b) == counter_table[b] + 1

CountAfter(b) == IF counter_table[b] < CounterMax THEN counter_table[b] + 1 ELSE counter_table[b]

\* A mutant of IsHotAfter: every block is taken for a hot one.
AlwaysHot(b) == TRUE

IsHotAfter(b) == b \in hotness_table \/ CountAfter(b) >= HotnessThreshold

\* The member found in location 0, the lowest one if there were several.
FastMember(g) == CHOOSE m \in Location :
                    /\ line_location_table[g][m] = 0
                    /\ \A n \in Location : line_location_table[g][n] = 0 => m <= n

\* The request memory_activity_tracking() builds for block b.
RequestFor(b) ==
    LET g == b[1] IN
    [group |-> g, fm_location |-> FastMember(g), sm_location |-> b[2],
     address_in_fm |-> 0, address_in_sm |-> line_location_table[g][b[2]]]

\* A mutant of QueueAfter: a new request overtakes those that wait.
Overtaking(b, busy) ==
    IF IsHotAfter(b) /\ line_location_table[b[1]][b[2]] # 0 /\ ~busy /\ ~IsQueued(b[1])
       /\ Len(remapping_request_queue) < QueueLength
    THEN <<RequestFor(b)>> \o remapping_request_queue
    ELSE remapping_request_queue

\* enqueue_remapping_request(): one request per congruence group, and none when
\* the queue is full.
QueueAfter(b, busy) ==
    IF /\ IsHotAfter(b)
       /\ line_location_table[b[1]][b[2]] # 0
       /\ ~busy
       /\ ~IsQueued(b[1])
       /\ Len(remapping_request_queue) < QueueLength
    THEN Append(remapping_request_queue, RequestFor(b))
    ELSE remapping_request_queue

\* memory_activity_tracking(): add_rq() and add_wq() call it for every request
\* they look at, again when a refused one is retried. busy says that the memory
\* queue is filled beyond QUEUE_BUSY_DEGREE_THRESHOLD.
TrackActivity(b, busy) ==
    /\ counter_table' = [counter_table EXCEPT ![b] = CountAfter(b)]
    /\ hotness_table' = IF CountAfter(b) >= HotnessThreshold
                        THEN hotness_table \cup {b} ELSE hotness_table
    /\ remapping_request_queue' = QueueAfter(b, busy)
    /\ UNCHANGED line_location_table

\* A mutant of Exchanged: the displaced member keeps its entry.
HalfExchanged(locations, fm, sm) == [locations EXCEPT ![sm] = locations[fm]]

\* A table of locations in which members fm and sm have traded places.
Exchanged(locations, fm, sm) == [locations EXCEPT ![sm] = locations[fm], ![fm] = locations[sm]]

\* finish_remapping_request(): the locations of the two members named by the
\* front request are exchanged, whatever they are now.
FinishRemapping ==
    LET r == Head(remapping_request_queue) IN
    /\ remapping_request_queue # <<>>
    /\ remapping_request_queue' = Tail(remapping_request_queue)
    /\ line_location_table' =
          [line_location_table EXCEPT ![r.group] = Exchanged(@, r.fm_location, r.sm_location)]
    /\ UNCHANGED <<counter_table, hotness_table>>

Next == (\E b \in Block, busy \in BOOLEAN : TrackActivity(b, busy)) \/ FinishRemapping

Spec == Init /\ [][Next]_cameoVars
-----------------------------------------------------------------------------
(* Properties *)

\* The members of a group always occupy distinct locations, so two physical
\* lines never share a hardware line: the search for the member in location 0
\* succeeds and the checks that abort() in memory_activity_tracking() and
\* finish_remapping_request() never do.
LinesDistinct ==
    \A g \in Group : \A m, n \in Location :
        line_location_table[g][m] = line_location_table[g][n] => m = n

\* The parts of QueueCurrent. A congruence group has at most one request in the queue:
\* a second one would have been made for locations that the first one changes.
OneRequestPerGroup ==
    \A i, j \in 1 .. Len(remapping_request_queue) :
        remapping_request_queue[i].group = remapping_request_queue[j].group => i = j

\* The hardware addresses a request carries are where its two members are.
RequestsCurrent ==
    \A i \in 1 .. Len(remapping_request_queue) :
        LET r == remapping_request_queue[i] IN
        /\ r.address_in_fm = 0
        /\ r.address_in_sm # 0
        /\ line_location_table[r.group][r.fm_location] = r.address_in_fm
        /\ line_location_table[r.group][r.sm_location] = r.address_in_sm

\* There is one request for a group, and however long it waits the data the swapping unit
\* exchanges for it is the data whose locations finish_remapping_request() exchanges.
QueueCurrent == OneRequestPerGroup /\ RequestsCurrent

\* A block enters fast memory only by a request made for it, hence when hot,
\* and the member it displaces goes exactly where it came from.
OnlyHotBlocksPromoted ==
    [][\A b \in Block :
          line_location_table[b[1]][b[2]] # 0 /\ line_location_table'[b[1]][b[2]] = 0 =>
              /\ b \in hotness_table
              /\ line_location_table'[b[1]][FastMember(b[1])] = line_location_table[b[1]][b[2]]
      ]_cameoVars
=============================================================================
