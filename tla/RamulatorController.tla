------------------------- MODULE RamulatorController -------------------------
(***************************************************************************)
(* The memory controller of one channel of one rank                        *)
(* (include/Ramulator/Controller.h with Scheduler.h, Refresh.h, DRAM.h and *)
(* the prerequisites of the standards, e.g. source/Ramulator/HBM.cpp).     *)
(*                                                                         *)
(* enqueue() admits requests, tick() is one cycle: serve the front of the  *)
(* completed reads, inject a due refresh, choose between reads and writes, *)
(* pick a request and issue its next command. The timing parameters of the *)
(* DRAM are abstracted to a free choice, in every cycle, of the commands   *)
(* that are ready, one choice for each command and bank: requests that     *)
(* need the same command in the same bank are ready together. How long a   *)
(* read takes after its command, and when a refresh is due, is free too.   *)
(***************************************************************************)
EXTENDS Integers, Sequences, SequencesExt, FiniteSets

CONSTANTS
    BankNumber, ColumnNumber,
    AddressNumber,      \* bound: addresses in use
    QueueMax,           \* Queue::max of readq and writeq
    HighWatermark,      \* wr_high_watermark * QueueMax
    LowWatermark,       \* wr_low_watermark * QueueMax
    Cap,                \* Scheduler::cap
    RequestNumber,      \* bound: requests admitted in a behaviour
    RefreshNumber       \* bound: refreshes injected in a behaviour

Bank    == 0 .. BankNumber - 1
Address == 0 .. AddressNumber - 1
Closed  == -1
Rank    == -1                      \* where REF and PREA are issued, no bank

\* The mapping RoBaRaCoCh of Memory::send().
BankOf(a) == (a \div ColumnNumber) % BankNumber
RowOf(a)  == a \div (ColumnNumber * BankNumber)
Row       == {RowOf(a) : a \in Address}

\* arrive is a clock that only advances in cycles that admitted a request; a
\* forwarded read has depart = arrive + 1.
Request == [id : 1 .. RequestNumber, type : {"READ", "WRITE"}, addr : Address,
            arrive : 0 .. RequestNumber, is_first_command : BOOLEAN, forwarded : BOOLEAN]

VARIABLES
    queues,             \* readq, writeq and actq
    otherq,             \* number of refreshes that wait
    pending,            \* reads that are about to receive data
    write_mode,
    row_state,          \* the open row of every bank, or Closed
    hits,               \* accesses to the open row, counted up to Cap + 1
    cur_serving_requests,
    clk, admitting,     \* the clock of arrive, and whether this cycle admitted a request
    accepted,           \* history: number of requests accepted
    injected,           \* history: number of refreshes injected
    finished            \* history: reads called back and writes carried out

vars == <<queues, otherq, pending, write_mode, row_state, hits, cur_serving_requests,
          clk, admitting, accepted, injected, finished>>

Queued == UNION {ToSet(queues[n]) : n \in DOMAIN queues}
Waiting == Queued \cup ToSet(pending)

Init ==
    /\ queues = [n \in {"readq", "writeq", "actq"} |-> <<>>]
    /\ otherq = 0
    /\ pending = <<>>
    /\ write_mode = FALSE
    /\ row_state = [b \in Bank |-> Closed]
    /\ hits = [b \in Bank |-> 0]
    /\ cur_serving_requests = 0
    /\ clk = 0
    /\ admitting = FALSE
    /\ accepted = 0
    /\ injected = 0
    /\ finished = {}
-----------------------------------------------------------------------------
(* enqueue() *)

NewRequest(type, a) ==
    [id |-> accepted + 1, type |-> type, addr |-> a, arrive |-> clk,
     is_first_command |-> TRUE, forwarded |-> FALSE]

HasRoom(name) == Len(queues[name]) # QueueMax

\* A mutant of IsForwarded: reads never look at the waiting writes.
NeverForwarded(a) == FALSE

\* A write to the same address waits in the write queue.
IsForwarded(a) == \E w \in ToSet(queues["writeq"]) : w.addr = a

Admit(name) ==
    /\ accepted < RequestNumber
    /\ HasRoom(name)
    /\ accepted' = accepted + 1
    /\ admitting' = TRUE
    /\ UNCHANGED <<otherq, write_mode, row_state, hits, cur_serving_requests, clk,
                   injected, finished>>

EnqueueWrite(a) ==
    /\ Admit("writeq")
    /\ queues' = [queues EXCEPT !["writeq"] = Append(@, NewRequest("WRITE", a))]
    /\ UNCHANGED pending

\* A read of an address that the write queue holds goes straight to pending.
EnqueueRead(a) ==
    /\ Admit("readq")
    /\ IF IsForwarded(a)
       THEN /\ pending' = Append(pending, [NewRequest("READ", a) EXCEPT !.forwarded = TRUE])
            /\ UNCHANGED queues
       ELSE /\ queues' = [queues EXCEPT !["readq"] = Append(@, NewRequest("READ", a))]
            /\ UNCHANGED pending
-----------------------------------------------------------------------------
(* The next command of a request, and the scheduler FRFCFS_Cap *)

\* DRAM::decode(): the request's own command when its row is open.
Decode(r) ==
    LET open == row_state[BankOf(r.addr)] IN
    CASE open = Closed        -> "ACT"
      [] open = RowOf(r.addr) -> r.type
      [] OTHER                -> "PRE"

RefreshCommand == IF \E b \in Bank : row_state[b] # Closed THEN "PREA" ELSE "REF"

CommandOf(r) == <<Decode(r), BankOf(r.addr)>>

\* Ready, and its row has not been hit more than Cap times (RowTable::get_hits()).
IsPreferred(r, ready) ==
    /\ CommandOf(r) \in ready
    /\ row_state[BankOf(r.addr)] = RowOf(r.addr) => hits[BankOf(r.addr)] <= Cap

\* The earlier one in the list when both arrived in the same cycle.
IsOlder(q, i, j) == q[i].arrive < q[j].arrive \/ (q[i].arrive = q[j].arrive /\ i <= j)

\* Scheduler::get_head(): the oldest of the preferred requests, or of all of them
\* when none is preferred.
GetHead(q, ready) ==
    LET preferred  == {i \in DOMAIN q : IsPreferred(q[i], ready)}
        candidates == IF preferred # {} THEN preferred ELSE DOMAIN q
    IN  CHOOSE i \in candidates : \A j \in candidates : IsOlder(q, i, j)

\* The request that tick() issues a command for, if the head of the queue is ready.
ReadyHead(q, ready) ==
    IF q = <<>> THEN {} ELSE LET i == GetHead(q, ready) IN {j \in {i} : CommandOf(q[j]) \in ready}

HeadIsReady(q, ready) == ReadyHead(q, ready) # {}

WriteModeAfter ==
    IF write_mode
    THEN ~(Len(queues["writeq"]) < LowWatermark /\ queues["readq"] # <<>>)
    ELSE Len(queues["writeq"]) > HighWatermark \/ queues["readq"] = <<>>

\* A mutant of SelectedQueue: actq comes last, when nothing else is waiting.
SelectedWithoutPriority(ready, refreshes) ==
    LET name == IF WriteModeAfter THEN "writeq" ELSE "readq" IN
    CASE refreshes > 0 -> "otherq"
      [] refreshes = 0 /\ HeadIsReady(queues[name], ready) -> name
      [] OTHER -> "actq"

\* The queue a command is taken from while refreshes refreshes wait.
SelectedQueue(ready, refreshes) ==
    IF HeadIsReady(queues["actq"], ready) THEN "actq"
    ELSE IF refreshes > 0 THEN "otherq"
    ELSE IF WriteModeAfter THEN "writeq" ELSE "readq"

\* The commands whose readiness tick() asks for.
Candidates(refreshes) ==
    {CommandOf(r) : r \in ToSet(queues["actq"])} \cup
    (IF refreshes > 0 THEN {<<RefreshCommand, Rank>>}
     ELSE {CommandOf(r) : r \in ToSet(queues[IF WriteModeAfter THEN "writeq" ELSE "readq"])})
-----------------------------------------------------------------------------
(* tick() *)

Started(r) == [r EXCEPT !.is_first_command = FALSE]

\* A mutant of QueuesAfterActivate: the request stays where it was.
PromotedCopy(n, i) == [queues EXCEPT !["actq"] = Append(@, Started(queues[n][i]))]

\* The request that caused an activation moves to the end of actq.
QueuesAfterActivate(n, i) ==
    LET without == [queues EXCEPT ![n] = RemoveAt(@, i)]
    IN  [without EXCEPT !["actq"] = Append(@, Started(queues[n][i]))]

Activate(n, i, waiting, begun) ==
    LET r == queues[n][i] IN
    /\ Decode(r) = "ACT"
    /\ row_state' = [row_state EXCEPT ![BankOf(r.addr)] = RowOf(r.addr)]
    /\ hits' = [hits EXCEPT ![BankOf(r.addr)] = 0]
    /\ queues' = QueuesAfterActivate(n, i)
    /\ pending' = waiting
    /\ cur_serving_requests' = begun

Precharge(n, i, waiting, begun) ==
    LET r == queues[n][i] IN
    /\ Decode(r) = "PRE"
    /\ row_state' = [row_state EXCEPT ![BankOf(r.addr)] = Closed]
    /\ hits' = [hits EXCEPT ![BankOf(r.addr)] = 0]
    /\ queues' = [queues EXCEPT ![n][i] = Started(r)]
    /\ pending' = waiting
    /\ cur_serving_requests' = begun

\* The last command of a request: a read waits for its data, a write is done.
Access(n, i, waiting, begun) ==
    LET r == queues[n][i] IN
    /\ Decode(r) = r.type
    /\ hits' = [hits EXCEPT ![BankOf(r.addr)] = IF @ > Cap THEN @ ELSE @ + 1]
    /\ queues' = [queues EXCEPT ![n] = RemoveAt(@, i)]
    /\ IF r.type = "READ"
       THEN pending' = Append(waiting, Started(r)) /\ cur_serving_requests' = begun
       ELSE pending' = waiting /\ cur_serving_requests' = begun - 1
    /\ UNCHANGED row_state

\* A mutant of ServingWith: the request is counted again with every command.
CountedAgain(r, serving) == serving + 1

\* cur_serving_requests once a command of r is issued: its first one counts it.
ServingWith(r, serving) == IF r.is_first_command THEN serving + 1 ELSE serving

IssueFor(n, i, waiting, serving) ==
    LET begun == ServingWith(queues[n][i], serving) IN
    \/ Activate(n, i, waiting, begun)
    \/ Precharge(n, i, waiting, begun)
    \/ Access(n, i, waiting, begun)

\* All banks are closed before the refresh itself is issued.
IssueRefresh(refreshes) ==
    /\ row_state' = [b \in Bank |-> Closed]
    /\ hits' = [b \in Bank |-> 0]
    /\ otherq' = IF RefreshCommand = "REF" THEN refreshes - 1 ELSE refreshes

\* What a command that follows in the same cycle carries out: a write.
WritesOf(n, i) ==
    IF Decode(queues[n][i]) = "WRITE" THEN {queues[n][i].id} ELSE {}

\* Whether the front of pending is served: a forwarded read has departed by then.
ServedChoices ==
    CASE pending = <<>>          -> {FALSE}
      [] pending # <<>> /\ Head(pending).forwarded -> {TRUE}
      [] OTHER                   -> BOOLEAN

DueChoices == {due \in BOOLEAN : due => injected < RefreshNumber}

RefreshesWaiting(due) == IF due THEN otherq + 1 ELSE otherq

\* One cycle: served says that the front of pending has its data, due that a
\* refresh is due, ready which commands the timing of the DRAM allows.
Tick(served, due, ready) ==
    LET waiting   == IF served THEN Tail(pending) ELSE pending
        serving   == IF served /\ ~Head(pending).forwarded
                     THEN cur_serving_requests - 1 ELSE cur_serving_requests
        answered  == IF served THEN finished \cup {Head(pending).id} ELSE finished
        refreshes == RefreshesWaiting(due)
        n         == SelectedQueue(ready, refreshes)
        heads     == IF n = "otherq" THEN {} ELSE ReadyHead(queues[n], ready)
        refresh   == n = "otherq" /\ <<RefreshCommand, Rank>> \in ready
    IN
    /\ injected' = IF due THEN injected + 1 ELSE injected
    /\ write_mode' = WriteModeAfter
    /\ clk' = IF admitting THEN clk + 1 ELSE clk
    /\ admitting' = FALSE
    /\ UNCHANGED accepted
    /\ \/ /\ \E i \in heads :
             /\ IssueFor(n, i, waiting, serving)
             /\ finished' = answered \cup WritesOf(n, i)
          /\ otherq' = refreshes
       \/ /\ refresh
          /\ IssueRefresh(refreshes)
          /\ finished' = answered
          /\ pending' = waiting
          /\ cur_serving_requests' = serving
          /\ UNCHANGED queues
       \/ /\ heads = {} /\ ~refresh
          /\ finished' = answered
          /\ pending' = waiting
          /\ cur_serving_requests' = serving
          /\ otherq' = refreshes
          /\ UNCHANGED <<queues, row_state, hits>>

AnyTick ==
    \E served \in ServedChoices, due \in DueChoices :
        \E ready \in SUBSET Candidates(RefreshesWaiting(due)) : Tick(served, due, ready)

Next == (\E a \in Address : EnqueueRead(a) \/ EnqueueWrite(a)) \/ AnyTick

Spec == Init /\ [][Next]_vars

-----------------------------------------------------------------------------
(* Properties *)

\* Types and limits. cur_serving_requests, asserted never to be negative by
\* update_serving_requests(), and the lengths of the queues are the limits that
\* matter: actq has no test of its own and stays within the number of banks.
TypeOK ==
    /\ queues \in [{"readq", "writeq", "actq"} -> Seq(Request)]
    /\ Len(queues["readq"]) <= QueueMax
    /\ Len(queues["writeq"]) <= QueueMax
    /\ otherq \in 0 .. RefreshNumber
    /\ pending \in Seq(Request)
    /\ write_mode \in BOOLEAN
    /\ row_state \in [Bank -> Row \cup {Closed}]
    /\ hits \in [Bank -> 0 .. Cap + 1]
    /\ cur_serving_requests \in 0 .. RequestNumber
    /\ clk \in 0 .. RequestNumber
    /\ admitting \in BOOLEAN
    /\ accepted \in 0 .. RequestNumber
    /\ injected \in 0 .. RefreshNumber
    /\ finished \subseteq 1 .. RequestNumber

\* actq holds at most one request of a bank, although tick() moves requests to
\* it without looking at its size: a bank whose request waits there is never
\* activated for another one, and its open row is that request's row. So actq
\* is never longer than the number of banks.
ActqOnePerBank ==
    LET actq == queues["actq"] IN
    /\ \A i, j \in DOMAIN actq : BankOf(actq[i].addr) = BankOf(actq[j].addr) => i = j
    /\ \A i \in DOMAIN actq : row_state[BankOf(actq[i].addr)] \in {Closed, RowOf(actq[i].addr)}

\* Every request that enqueue() accepted is in exactly one place until it is
\* finished, however often it is moved: in one queue, among the pending reads,
\* or finished. So no read is called back twice and no write is lost.
RequestsOnce ==
    /\ \A i \in 1 .. accepted :
          \/ i \in finished /\ \A r \in Waiting : r.id # i
          \/ i \notin finished /\ \E r \in Waiting : r.id = i
    /\ Cardinality(Waiting) =
          Len(queues["readq"]) + Len(queues["writeq"]) + Len(queues["actq"]) + Len(pending)
    /\ \A r, s \in Waiting : r.id = s.id => r = s

\* cur_serving_requests, from which is_active() and the busy cycles are taken,
\* is the number of requests that have had a command and are not finished, a
\* forwarded read never counting: what one branch of tick() adds another one
\* takes off in a later cycle.
ServingCounted ==
    cur_serving_requests =
        Cardinality({r \in Waiting : ~r.is_first_command})

\* A request of an address is carried out before an older write of it only when
\* that write already sits in actq, and a write does so only when the hits of
\* the row are over the cap too: within a queue requests of one address keep
\* their order, and reads look for the writes they would overtake.
OvertakesOnlyActivated ==
    [][\A w \in Queued \cap Queued', r \in Queued \ Queued' :
          w.type = "WRITE" /\ w.addr = r.addr /\ w.id < r.id /\ r.id \notin {s.id : s \in Queued'} =>
              /\ w \in ToSet(queues["actq"])
              /\ r.type = "WRITE" => hits[BankOf(w.addr)] > Cap]_vars

\* enqueue() looks for a write of the same address, "necessary for coherence":
\* a read whose data comes from the DRAM does not overtake an older write of
\* its address that is still queued.
CoherentReads ==
    \A r \in ToSet(pending), w \in Queued :
        ~r.forwarded /\ w.type = "WRITE" /\ w.addr = r.addr => w.id > r.id
=============================================================================
