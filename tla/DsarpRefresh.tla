---------------------------- MODULE DsarpRefresh -----------------------------
(***************************************************************************)
(* The refresh scheduler of DSARP for one rank (source/Ramulator/          *)
(* Refresh.cpp): refreshes of single banks, put off while reads wait,      *)
(* caught up early while a bank is idle, and done ahead of time when the   *)
(* controller turns to writes.                                             *)
(*                                                                         *)
(* What the controller's queues hold when tick_ref() looks at them is      *)
(* free, and so is when the interval nREFIpb is over, as long as otherq    *)
(* has room: it is longer than a refresh takes.                            *)
(***************************************************************************)
EXTENDS Integers, Sequences, SequencesExt, FiniteSets

CONSTANTS
    RefreshBanks, SubArrays,                \* numbers of banks and of subarrays in each
    OtherqMax,                              \* Queue::max of otherq
    BacklogMax, BacklogMin, EarlyPull,      \* limits of the backlog
    IntervalNumber                          \* bound: refresh intervals in a behaviour

VARIABLES
    bank_refresh_backlog,   \* refreshes of each bank ahead of schedule, or behind it
    bank_ref_counter,       \* the bank whose turn is next
    subarray_ref_counters,  \* the next subarray of each bank
    bank_refreshes,         \* otherq: banks and subarrays to refresh
    ctrl_write_mode,        \* the write mode of the controller in the last cycle
    intervals,              \* history: intervals that are over
    issued                  \* history: refreshes enqueued for each bank

vars == <<bank_refresh_backlog, bank_ref_counter, subarray_ref_counters, bank_refreshes,
          ctrl_write_mode, intervals, issued>>

Banks == 0 .. RefreshBanks - 1

Init ==
    /\ bank_refresh_backlog = [b \in Banks |-> 0]
    /\ bank_ref_counter = 0
    /\ subarray_ref_counters = [b \in Banks |-> 0]
    /\ bank_refreshes = <<>>
    /\ ctrl_write_mode = FALSE
    /\ intervals = 0
    /\ issued = [b \in Banks |-> 0]

\* What the parts of tick_ref() hand on to each other; queue is otherq, where the controller
\* may have served a refresh.
Scheduled(queue) ==
    [backlog |-> bank_refresh_backlog, subarray |-> subarray_ref_counters, queue |-> queue,
     issued |-> issued]

IsPending(s, b) == \E r \in ToSet(s.queue) : r[1] = b
HasRoom(s) == Len(s.queue) < OtherqMax

\* refresh_target() with the credit and the turn of the subarrays.
Refreshed(s, b) ==
    [backlog  |-> [s.backlog EXCEPT ![b] = @ + 1],
     subarray |-> [s.subarray EXCEPT ![b] = (@ + 1) % SubArrays],
     queue    |-> Append(s.queue, <<b, s.subarray[b]>>),
     issued   |-> [s.issued EXCEPT ![b] = @ + 1]]

\* Banks that may come first when wrp() sorts them by the requests that wait for them. The
\* search for idle banks compares the bank's number with 0, not its requests, so the first
\* bank of the order is always the one selected.
LeastDemanded(reads, writes) ==
    {b \in Banks : \A c \in Banks : reads[b] + writes[b] <= reads[c] + writes[c]}

\* wrp(): a refresh while the controller writes.
Ahead(s, reads, writes) ==
    IF s.queue # <<>> \/ \A b \in Banks : writes[b] = 0 THEN {s}
    ELSE {IF s.backlog[b] < BacklogMax /\ HasRoom(s) THEN Refreshed(s, b) ELSE s :
             b \in LeastDemanded(reads, writes)}

\* early_inject_refresh(): the first suitable bank from a random one on.
Early(s, reads) ==
    LET suitable == {b \in Banks : /\ reads[b] = 0
                                   /\ ~IsPending(s, b)
                                   /\ s.backlog[b] < EarlyPull
                                   /\ HasRoom(s)}
    IN  IF suitable = {} THEN {s} ELSE {Refreshed(s, b) : b \in suitable}

\* A mutant of MustRefresh: a bank may fall behind by one refresh more.
MustRefreshLater(s, b, reads) ==
    \/ s.queue = <<>> /\ \A c \in Banks : reads[c] = 0
    \/ s.backlog[b] < BacklogMin

\* A refresh that is due cannot be skipped: nothing is in its way, or the bank is too late.
MustRefresh(s, b, reads) ==
    \/ s.queue = <<>> /\ \A c \in Banks : reads[c] = 0
    \/ s.backlog[b] <= BacklogMin

\* inject_refresh().
Injected(s, reads) ==
    LET b    == bank_ref_counter
        late == [s EXCEPT !.backlog[b] = @ - 1]
    IN  IF MustRefresh(late, b, reads) THEN Refreshed(late, b) ELSE late

\* tick_ref(): write_mode is that of the controller.
TickRef(write_mode, reads, writes, queue, due) ==
    \E ahead \in IF ~ctrl_write_mode /\ write_mode THEN Ahead(Scheduled(queue), reads, writes)
                 ELSE {Scheduled(queue)} :
        \E early \in IF write_mode THEN {ahead} ELSE Early(ahead, reads) :
            LET s == IF due THEN Injected(early, reads) ELSE early IN
            /\ due => HasRoom(early)
            /\ bank_refresh_backlog' = s.backlog
            /\ subarray_ref_counters' = s.subarray
            /\ bank_refreshes' = s.queue
            /\ issued' = s.issued
            /\ bank_ref_counter' = IF due THEN (bank_ref_counter + 1) % RefreshBanks ELSE bank_ref_counter
            /\ intervals' = IF due THEN intervals + 1 ELSE intervals
            /\ ctrl_write_mode' = write_mode

\* What otherq holds when at most one refresh was served.
Unserved == {bank_refreshes} \cup {RemoveAt(bank_refreshes, i) : i \in DOMAIN bank_refreshes}

Waiting == [Banks -> 0 .. 1]

Next ==
    \E write_mode, due \in BOOLEAN, reads, writes \in Waiting, queue \in Unserved :
        /\ due => intervals < IntervalNumber
        /\ TickRef(write_mode, reads, writes, queue, due)

Spec == Init /\ [][Next]_vars
-----------------------------------------------------------------------------
\* Intervals that fell to a bank in turn.
Owed(b) == (intervals + RefreshBanks - 1 - b) \div RefreshBanks

\* Though three mechanisms schedule refreshes, each with a threshold of its own, no bank gets
\* further ahead of its turns than the standard allows, nor ever as far behind.
RefreshDebtBounded ==
    \A b \in Banks : issued[b] - Owed(b) \in BacklogMin + 1 .. BacklogMax
=============================================================================
