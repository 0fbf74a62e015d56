------------------------ MODULE VariableGranularity ------------------------
(***************************************************************************)
(* The variable granularity management (source/variable_granularity.cc,    *)
(* include/variable_granularity.h): a set of data blocks, block 0 of fast  *)
(* memory and the others of slow memory, share the lines of block 0. Runs  *)
(* of hot lines of the slow blocks ("groups") are packed into fast memory  *)
(* from line 0 on, each in exchange for the lines of block 0 it covers.    *)
(*                                                                         *)
(* One set is followed, as the sets share nothing but places in the queue. *)
(* The options are those of ProjectConfiguration.h: DATA_EVICTION,         *)
(* FLEXIBLE_DATA_PLACEMENT and FLEXIBLE_GRANULARITY on, IMMEDIATE_EVICTION *)
(* and COLD_DATA_DETECTION_IN_GROUP off. Statistics are left out. An       *)
(* assert(false) or abort() sets failed. The swapping unit exchanges the   *)
(* lines of the front request when the request is finished, as module      *)
(* SwappingUnit shows.                                                     *)
(***************************************************************************)
EXTENDS Integers, Sequences, FiniteSets, SequencesExt

CONSTANTS
    Lines,              \* lines of a block, a power of two: StartAddress::Max
    Blocks,             \* blocks of the set: expected_number_in_congruence_group
    NUMBER_OF_BLOCK,    \* groups an entry of the placement table has room for
    COUNTER_MAX_VALUE,
    HOTNESS_THRESHOLD,
    REMAPPING_REQUEST_QUEUE_LENGTH,
    Touched             \* the lines of slow blocks that the program accesses

Line     == 0 .. Lines - 1
Block    == 0 .. Blocks - 1
SlowBlock == Block \ {0}
Granularity == {g \in 1 .. Lines : \E k \in 0 .. Lines : g = 2 ^ k}

\* The greatest granularity is a whole block, and every set has its block of fast memory.
SetParameters ==
    /\ Lines \in Granularity
    /\ Blocks > 0
    /\ {Blocks, NUMBER_OF_BLOCK, COUNTER_MAX_VALUE, HOTNESS_THRESHOLD,
        REMAPPING_REQUEST_QUEUE_LENGTH} \subseteq Nat
    /\ Touched \subseteq SlowBlock \X Line

\* A line of a block: of its data (physical) or of its place (hardware).
BlockLine == Block \X Line
Other    == <<>>                     \* data that is no longer followed

VARIABLES
    placement,                  \* the groups below the cursor of the placement entry
    counter,
    hot,                        \* the blocks with their hotness bit set
    access,                     \* block -> its lines accessed since it was cold
    remapping_request_queue,
    memory,                     \* hardware line -> the data there
    misplaced,                  \* history: a group was entered for other lines than
                                \* were moved, or for lines of another group
    failed                      \* an assert(false) was reached

vars == <<placement, counter, hot, access, remapping_request_queue, memory,
          misplaced, failed>>

Group == [tag : Block, start : Line, size : 1 .. Lines]

\* A swap of size lines from line fm of block 0's place with those from line sm of
\* slow block's place; promotion tells whether block 0's data is what leaves.
Request == [promotion : BOOLEAN, fm : Line, block : SlowBlock, sm : Line,
            size : 1 .. Lines]

TypeOK == /\ placement \in Seq(Group)
          /\ counter \in [SlowBlock -> 0 .. COUNTER_MAX_VALUE]
          /\ hot \subseteq SlowBlock
          /\ access \in [SlowBlock -> SUBSET Line]
          /\ remapping_request_queue \in Seq(Request)
          /\ Len(remapping_request_queue) <= REMAPPING_REQUEST_QUEUE_LENGTH
          /\ memory \in [BlockLine -> BlockLine \cup {Other}]
          /\ misplaced \in BOOLEAN
          /\ failed \in BOOLEAN

Init == /\ placement = <<>>
        /\ counter = [b \in SlowBlock |-> 0]
        /\ hot = {}
        /\ access = [b \in SlowBlock |-> {}]
        /\ remapping_request_queue = <<>>
        /\ memory = [h \in BlockLine |-> h]
        /\ misplaced = FALSE
        /\ failed = FALSE
-----------------------------------------------------------------------------
(* The lines of fast memory the groups take *)

Cursor == Len(placement)

\* How many lines the first n groups take.
Used(groups, n) ==
    LET sum[i \in 0 .. n] == IF i = 0 THEN 0 ELSE sum[i - 1] + groups[i].size
    IN  sum[n]

FreeSpace(groups) == Lines - Used(groups, Len(groups))

GroupEnd(g) == g.start + g.size - 1

Holds(g, b, l) == g.tag = b /\ g.start <= l /\ l <= GroupEnd(g)

\* The group that covers line l of fast memory, if any.
Covering(l) == {i \in 1 .. Cursor : Used(placement, i - 1) <= l /\ l < Used(placement, i)}

\* A mutant of Translated: a line in fast memory is looked for at its place in the
\* block, not in the group.
TranslatedWithoutStart(p) ==
    LET holders == {i \in 1 .. Cursor : p[1] # 0 /\ Holds(placement[i], p[1], p[2])}
        covers  == {i \in Covering(p[2]) : p[1] = 0 /\ placement[i].tag # 0}
    IN  IF holders # {} THEN <<0, p[2]>>
        ELSE IF covers # {} THEN <<placement[CHOOSE i \in covers : TRUE].tag, p[2]>>
        ELSE p

\* physical_to_hardware_address(): the first group of the block that holds the
\* line; a line of block 0 is where the group that covers it comes from.
Translated(p) ==
    LET b == p[1]
        l == p[2]
        holders == {i \in 1 .. Cursor : Holds(placement[i], b, l)}
        covers  == {i \in Covering(l) : placement[i].tag # 0}
    IN  IF b # 0 /\ holders # {}
        THEN LET i == CHOOSE i \in holders : \A j \in holders : i <= j
             IN  <<0, Used(placement, i - 1) + l - placement[i].start>>
        ELSE IF b = 0 /\ covers # {}
        THEN LET i == CHOOSE i \in covers : TRUE
             IN  <<placement[i].tag, placement[i].start + l - Used(placement, i - 1)>>
        ELSE p
-----------------------------------------------------------------------------
(* Migration granularities *)

\* calculate_migration_granularity(): the least granularity with room for n lines.
Rounded(n) == CHOOSE g \in Granularity : /\ n <= g
                                         /\ \A h \in Granularity : n <= h => g <= h

\* A run of lines that is to be migrated and its granularity.
Run(first, size) == [start |-> first, end |-> first + size - 1, size |-> size]

\* adjust_migration_granularity()
Adjusted(first, end, size) ==
    Run(first, IF first + size - 1 >= Lines THEN end - first + 1 ELSE size)

\* round_down_migration_granularity()
RoundedDown(first, end, size) ==
    Run(first, IF first + size - 1 > end THEN end - first + 1 ELSE size)
-----------------------------------------------------------------------------
(* The queue of remapping requests *)

\* An eviction goes into the queue beside others of other lines; a promotion only
\* if nothing of its set is queued.
Independent(r, s) == ~r.promotion /\ ~s.promotion /\ r.fm # s.fm

SameAddresses(r, s) == /\ r.promotion = s.promotion
                       /\ <<r.fm, r.block, r.sm>> = <<s.fm, s.block, s.sm>>

\* A mutant of Enqueued: the search for requests of the set stops at the first
\* one whatever it moves.
EnqueuedBesideAny(q, r) ==
    IF Len(q) < REMAPPING_REQUEST_QUEUE_LENGTH THEN Append(q, r) ELSE q

\* enqueue_remapping_request(): a request that is queued already may grow, one that
\* would interfere with the first other request of its set is dropped.
Enqueued(q, r) ==
    LET rivals == {i \in 1 .. Len(q) : ~Independent(q[i], r)}
        i == CHOOSE i \in rivals : \A j \in rivals : i <= j
    IN  IF rivals = {}
        THEN IF Len(q) < REMAPPING_REQUEST_QUEUE_LENGTH THEN Append(q, r) ELSE q
        ELSE IF SameAddresses(q[i], r) /\ r.size > q[i].size
        THEN [q EXCEPT ![i].size = r.size]
        ELSE q

\* The request that recovers the lines of block 0 the i-th group covers.
Eviction(i) ==
    [promotion |-> FALSE, fm |-> Used(placement, i - 1), block |-> placement[i].tag,
     sm |-> placement[i].start, size |-> placement[i].size]

\* cold_data_eviction(): all groups of the first cold block in the entry, not of b.
ColdDataEvicted(b, hotAfter) ==
    LET cold == {i \in 1 .. Cursor : placement[i].tag \notin hotAfter \cup {0, b}}
        victim == placement[CHOOSE i \in cold : \A j \in cold : i <= j].tag
        Evict(q, i) == IF placement[i].tag = victim THEN Enqueued(q, Eviction(i)) ELSE q
    IN  IF cold = {} THEN remapping_request_queue
        ELSE FoldLeft(Evict, remapping_request_queue, [i \in 1 .. Cursor |-> i])
-----------------------------------------------------------------------------
(* The lines of a hot block that are to be promoted *)

\* The accessed lines from the first to the last, widened to a granularity.
HotRun(lines) ==
    LET first == CHOOSE l \in lines : \A m \in lines : l <= m
        end   == CHOOSE l \in lines : \A m \in lines : m <= l
    IN  Adjusted(first, end, Rounded(end - first + 1))

\* What is known while the groups are searched for those of the block: the run, if
\* it was cut short by a group, and the outcome, "search" until it is settled.
Candidate(run, limited, outcome) == [run |-> run, limited |-> limited, outcome |-> outcome]

\* A group that others follow cannot grow: the run is cut where it overlaps.
PastGroup(c, g) ==
    LET r == c.run
        Cut == Candidate(RoundedDown(r.start, g.start - 1, r.size), TRUE, "search")
        rest == GroupEnd(g) + 1
    IN  IF r.start <= GroupEnd(g) /\ GroupEnd(g) < r.end
        THEN [c EXCEPT !.run = IF c.limited THEN RoundedDown(rest, r.end, r.size)
                                            ELSE Adjusted(rest, r.end, r.size)]
        ELSE IF g.start <= r.start /\ r.end <= GroupEnd(g) THEN [c EXCEPT !.outcome = "present"]
        ELSE IF r.start < g.start /\ g.start <= r.end THEN Cut
        ELSE c

\* The last group grows, if the run begins in or behind it and there is space.
AtLastGroup(c, g, space) ==
    LET r == c.run
        size == Rounded(r.end - g.start + 1)
        whole == IF c.limited THEN RoundedDown(g.start, r.end, size)
                              ELSE Adjusted(g.start, r.end, size)
        more == IF whole.size - g.size <= space THEN whole.size - g.size ELSE space
    IN  IF r.start < g.start
        THEN Candidate(RoundedDown(r.start, g.start - 1, r.size), TRUE, "place")
        ELSE IF r.end <= GroupEnd(g) \/ whole.size <= g.size THEN [c EXCEPT !.outcome = "present"]
        ELSE IF more = 0 THEN [c EXCEPT !.outcome = "no space"]
        ELSE [c EXCEPT !.run = Run(whole.end + 1 - more, more), !.outcome = "expand"]

\* memory_activity_tracking(): the search through the groups for those of block b.
Searched(b, lines) ==
    LET Visit(c, i) == IF c.outcome # "search" \/ placement[i].tag # b THEN c
                       ELSE IF i < Cursor THEN PastGroup(c, placement[i])
                       ELSE AtLastGroup(c, placement[i], FreeSpace(placement))
    IN  FoldLeft(Visit, Candidate(HotRun(lines), FALSE, "search"), [i \in 1 .. Cursor |-> i])

\* The outcomes with which lines are to be moved.
Placing == {"search", "place", "expand"}

\* A new group takes what space there is, if there is any and a group is left.
PromotionSize(c) ==
    IF c.outcome = "expand" THEN c.run.size
    ELSE IF Cursor = NUMBER_OF_BLOCK THEN 0
    ELSE IF c.run.size <= FreeSpace(placement) THEN c.run.size ELSE FreeSpace(placement)

Promotion(b, c) ==
    [promotion |-> TRUE, fm |-> Lines - FreeSpace(placement), block |-> b,
     sm |-> c.run.start, size |-> PromotionSize(c)]
-----------------------------------------------------------------------------
(* Actions *)

\* What the access of line l of slow block b makes of the queue.
QueueAfter(b, l, lines, hotAfter) ==
    LET c == Searched(b, lines)
    IN  IF b \notin hotAfter
        THEN IF \E i \in 1 .. Cursor : Holds(placement[i], b, l)
             THEN remapping_request_queue
             ELSE ColdDataEvicted(b, hotAfter)
        ELSE IF c.outcome = "present" THEN remapping_request_queue
        ELSE IF c.outcome = "no space" \/ PromotionSize(c) = 0
        THEN ColdDataEvicted(b, hotAfter)
        ELSE Enqueued(remapping_request_queue, Promotion(b, c))

\* memory_activity_tracking() of line l of slow block b; busy is whether
\* queue_busy_degree is above its threshold, when nothing is enqueued.
TrackSlowBlock(b, l, busy) ==
    LET count == IF counter[b] < COUNTER_MAX_VALUE THEN counter[b] + 1 ELSE counter[b]
        lines == access[b] \cup {l}
        hotAfter == IF count >= HOTNESS_THRESHOLD THEN hot \cup {b} ELSE hot
    IN  /\ access' = [access EXCEPT ![b] = lines]
        /\ counter' = [counter EXCEPT ![b] = count]
        /\ hot' = hotAfter
        /\ remapping_request_queue' = IF busy THEN remapping_request_queue
                                      ELSE QueueAfter(b, l, lines, hotAfter)
        /\ failed' = (b \in hotAfter /\ LET c == Searched(b, lines)
                                        IN  c.outcome \in Placing /\ c.run.size = 0)
        /\ UNCHANGED <<placement, memory, misplaced>>

\* memory_activity_tracking() of line l of block 0: a group that covers it is to go
\* back. The counter of block 0 is kept by the code and used nowhere.
TrackFastBlock(l) ==
    \E i \in Covering(l) :
        /\ placement[i].tag # 0
        /\ remapping_request_queue' = Enqueued(remapping_request_queue, Eviction(i))
        /\ UNCHANGED <<placement, counter, hot, access, memory, misplaced, failed>>

\* cold_data_detection() at the end of an interval: counters are halved, and a block
\* without a count is cold and forgets its accessed lines.
DetectColdData ==
    LET cold == {b \in SlowBlock : counter[b] \div 2 = 0}
    IN  /\ counter' = [b \in SlowBlock |-> counter[b] \div 2]
        /\ hot' = hot \ cold
        /\ access' = [b \in SlowBlock |-> IF b \in cold THEN {} ELSE access[b]]
        /\ UNCHANGED <<placement, remapping_request_queue, memory, misplaced, failed>>

\* The swapping unit has exchanged the lines of request r.
Exchanged(r) ==
    [h \in BlockLine |->
        IF h[1] = 0 /\ h[2] \in r.fm .. r.fm + r.size - 1
        THEN memory[<<r.block, r.sm + h[2] - r.fm>>]
        ELSE IF h[1] = r.block /\ h[2] \in r.sm .. r.sm + r.size - 1
        THEN memory[<<0, r.fm + h[2] - r.sm>>]
        ELSE memory[h]]

\* The promotion of a request adds to the last group, if that is of the block and
\* begins no later; otherwise it makes a new group.
Expands(r) == /\ r.promotion
              /\ Cursor > 0
              /\ placement[Cursor].tag = r.block
              /\ placement[Cursor].start <= r.sm

Continues(r) == r.sm = GroupEnd(placement[Cursor]) + 1

\* A group of the block holds one of the lines already.
Overlaps(r) == \E i \in 1 .. Cursor, l \in r.sm .. r.sm + r.size - 1 :
                   Holds(placement[i], r.block, l)

\* finish_remapping_request() of lines that enter fast memory.
FinishPromotion(r) ==
    /\ r.promotion
    /\ placement' = IF Expands(r)
                    THEN [placement EXCEPT ![Cursor].size = @ + r.size]
                    ELSE Append(placement, [tag |-> r.block, start |-> r.sm, size |-> r.size])
    /\ failed' = (~Expands(r) /\ (Cursor = NUMBER_OF_BLOCK \/ FreeSpace(placement) < r.size))
    /\ misplaced' = (misplaced \/ Overlaps(r) \/ (Expands(r) /\ ~Continues(r)))

\* The group an eviction is for: the first of the block that ends at or behind fm.
Occupied(r) == {i \in 1 .. Cursor : /\ r.fm < Used(placement, i)
                                    /\ placement[i].tag = r.block}

\* The entry without the groups of block 0 at its end.
Trimmed(groups) ==
    LET kept == {i \in 1 .. Len(groups) : groups[i].tag # 0}
    IN  SubSeq(groups, 1, CHOOSE n \in 0 .. Len(groups) : /\ \A i \in kept : i <= n
                                                          /\ n = 0 \/ n \in kept)

\* finish_remapping_request() of lines that return to slow memory: the group's lines
\* are block 0's again, and groups of block 0 at the end are dropped.
FinishEviction(r) ==
    LET i == CHOOSE i \in Occupied(r) : \A j \in Occupied(r) : i <= j
        recovered == [placement EXCEPT ![i].tag = 0, ![i].start = r.fm]
        bad == Occupied(r) = {} \/ placement[i].size # r.size
    IN  /\ ~r.promotion
        /\ failed' = bad
        /\ placement' = IF bad THEN placement
                        ELSE IF i = Cursor THEN Trimmed(recovered)
                        ELSE recovered
        /\ UNCHANGED misplaced

\* The swap of the front request is over.
FinishRemapping ==
    /\ remapping_request_queue # <<>>
    /\ LET r == Head(remapping_request_queue)
       IN  /\ FinishPromotion(r) \/ FinishEviction(r)
           /\ memory' = IF misplaced' THEN [h \in BlockLine |-> Other] ELSE Exchanged(r)
    /\ remapping_request_queue' = Tail(remapping_request_queue)
    /\ UNCHANGED <<counter, hot, access>>

Next == /\ ~failed
        /\ \/ \E p \in Touched, busy \in BOOLEAN : TrackSlowBlock(p[1], p[2], busy)
           \/ \E l \in Line : TrackFastBlock(l)
           \/ DetectColdData
           \/ FinishRemapping

Spec == Init /\ [][Next]_vars
-----------------------------------------------------------------------------
(* Properties *)

\* No sanity check of the code has failed, and every queued request fits the groups
\* as they are now, though requests wait while other groups come and go: a promotion
\* is alone in the queue, begins at the first free line of fast memory and has room
\* there; an eviction is of a whole group at its place. finish_remapping_request()
\* (source/variable_granularity.cc:792) takes this for granted.
RequestsFit ==
    /\ ~failed
    /\ \A n \in 1 .. Len(remapping_request_queue) :
        LET r == remapping_request_queue[n]
        IN  IF r.promotion
            THEN /\ Len(remapping_request_queue) = 1
                 /\ r.fm = Used(placement, Cursor)
                 /\ r.size <= FreeSpace(placement)
            ELSE \E i \in 1 .. Cursor : r = Eviction(i)

\* As long as no group was misplaced, physical_to_hardware_address() leads every line
\* of the set to its data, whatever groups were made, extended and taken back.
TranslationFindsData == misplaced \/ \A p \in BlockLine : memory[Translated(p)] = p

\* The lines that extend a group are those behind it, as the comment at
\* source/variable_granularity.cc:353 says of start_address.
ExpansionContiguous ==
    \A n \in 1 .. Len(remapping_request_queue) :
        Expands(remapping_request_queue[n]) => Continues(remapping_request_queue[n])
=============================================================================
