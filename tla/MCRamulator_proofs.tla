-------------------------- MODULE MCRamulator_proofs --------------------------
(***************************************************************************)
(* The properties of the controller, of the refresh scheduler and of the   *)
(* memory, in the behaviours of MCRamulator: those of the controller are   *)
(* the theorems of RamulatorController_proofs, the others are proved here. *)
(***************************************************************************)
EXTENDS MCRamulator, FiniteSetTheorems, SequenceTheorems, WellFoundedInduction, TLAPS

\* The proofs about the controller, of the variables of this module. Ctrl and
\* Proved instantiate one module with the same arguments, so every definition
\* of theirs has the same expansion; the lemmas below unfold both.
Proved == INSTANCE RamulatorController_proofs

LEMMA ParametersProved == Proved!ControllerParameters
BY ControllerAssumption DEF Proved!ControllerParameters

LEMMA SameInit == Ctrl!Init => Proved!Init
BY DEF Ctrl!Init, Proved!Init, Ctrl!Bank, Proved!Bank, Ctrl!Closed, Proved!Closed

LEMMA SameVars == Ctrl!vars = Proved!vars
BY DEF Ctrl!vars, Proved!vars

LEMMA SameEnqueue ==
    /\ Ctrl!Address = Proved!Address
    /\ \A a : Ctrl!EnqueueRead(a) \/ Ctrl!EnqueueWrite(a) => Proved!EnqueueRead(a) \/ Proved!EnqueueWrite(a)
BY DEF Ctrl!Address, Proved!Address, Ctrl!EnqueueRead, Proved!EnqueueRead, Ctrl!EnqueueWrite,
       Proved!EnqueueWrite, Ctrl!Admit, Proved!Admit, Ctrl!HasRoom, Proved!HasRoom,
       Ctrl!IsForwarded, Proved!IsForwarded, Ctrl!ToSet, Proved!ToSet, Ctrl!NewRequest,
       Proved!NewRequest

LEMMA SameTick ==
    ASSUME NEW served, NEW due, NEW ready, Ctrl!Tick(served, due, ready)
    PROVE  Proved!Tick(served, due, ready)
BY ZenonT(60) DEF Ctrl!Tick, Proved!Tick, Ctrl!RefreshesWaiting, Proved!RefreshesWaiting,
       Ctrl!SelectedQueue, Proved!SelectedQueue, Ctrl!ReadyHead, Proved!ReadyHead,
       Ctrl!GetHead, Proved!GetHead, Ctrl!IsPreferred, Proved!IsPreferred, Ctrl!IsOlder,
       Proved!IsOlder, Ctrl!CommandOf, Proved!CommandOf, Ctrl!Decode, Proved!Decode,
       Ctrl!HeadIsReady, Proved!HeadIsReady, Ctrl!WriteModeAfter, Proved!WriteModeAfter,
       Ctrl!RefreshCommand, Proved!RefreshCommand, Ctrl!IssueFor, Proved!IssueFor,
       Ctrl!IssueRefresh, Proved!IssueRefresh, Ctrl!WritesOf, Proved!WritesOf,
       Ctrl!ServingWith, Proved!ServingWith, Ctrl!Activate, Proved!Activate,
       Ctrl!Precharge, Proved!Precharge, Ctrl!Access, Proved!Access,
       Ctrl!QueuesAfterActivate, Proved!QueuesAfterActivate, Ctrl!Started, Proved!Started,
       Ctrl!Bank, Proved!Bank, Ctrl!Closed, Proved!Closed, Ctrl!Rank, Proved!Rank,
       Ctrl!BankOf, Proved!BankOf, Ctrl!RowOf, Proved!RowOf, Ctrl!RemoveAt, Proved!RemoveAt

LEMMA SameChoices ==
    /\ Ctrl!ServedChoices = Proved!ServedChoices
    /\ Ctrl!DueChoices = Proved!DueChoices
    /\ \A due : Ctrl!Candidates(Ctrl!RefreshesWaiting(due)) = Proved!Candidates(Proved!RefreshesWaiting(due))
BY DEF Ctrl!ServedChoices, Proved!ServedChoices, Ctrl!DueChoices, Proved!DueChoices,
       Ctrl!Candidates, Proved!Candidates, Ctrl!RefreshesWaiting, Proved!RefreshesWaiting,
       Ctrl!CommandOf, Proved!CommandOf, Ctrl!Decode, Proved!Decode, Ctrl!RefreshCommand,
       Proved!RefreshCommand, Ctrl!WriteModeAfter, Proved!WriteModeAfter, Ctrl!Bank,
       Proved!Bank, Ctrl!Closed, Proved!Closed, Ctrl!Rank, Proved!Rank, Ctrl!BankOf,
       Proved!BankOf, Ctrl!RowOf, Proved!RowOf, Ctrl!ToSet, Proved!ToSet

LEMMA SameNext == Ctrl!Next => Proved!Next
BY SameEnqueue, SameTick, SameChoices DEF Ctrl!Next, Proved!Next, Ctrl!AnyTick, Proved!AnyTick

LEMMA SameProperties ==
    /\ Proved!TypeOK => Ctrl!TypeOK
    /\ Proved!ActqOnePerBank => Ctrl!ActqOnePerBank
    /\ Proved!RequestsOnce => Ctrl!RequestsOnce
    /\ Proved!ServingCounted => Ctrl!ServingCounted
<1>1. Proved!TypeOK => Ctrl!TypeOK
  BY DEF Ctrl!TypeOK, Proved!TypeOK, Ctrl!Request, Proved!Request, Ctrl!Address,
         Proved!Address, Ctrl!Bank, Proved!Bank, Ctrl!Row, Proved!Row, Ctrl!Closed,
         Proved!Closed, Ctrl!RowOf, Proved!RowOf
<1>2. Proved!ActqOnePerBank => Ctrl!ActqOnePerBank
  BY DEF Ctrl!ActqOnePerBank, Proved!ActqOnePerBank, Ctrl!BankOf, Proved!BankOf,
         Ctrl!RowOf, Proved!RowOf, Ctrl!Closed, Proved!Closed
<1>3. Proved!RequestsOnce => Ctrl!RequestsOnce
  BY DEF Ctrl!RequestsOnce, Proved!RequestsOnce, Ctrl!Waiting, Proved!Waiting, Ctrl!Queued,
         Proved!Queued, Ctrl!ToSet, Proved!ToSet, Ctrl!Cardinality, Proved!Cardinality
<1>4. Proved!ServingCounted => Ctrl!ServingCounted
  BY DEF Ctrl!ServingCounted, Proved!ServingCounted, Ctrl!Waiting, Proved!Waiting, Ctrl!Queued,
         Proved!Queued, Ctrl!ToSet, Proved!ToSet, Ctrl!Cardinality, Proved!Cardinality
<1>. QED BY <1>1, <1>2, <1>3, <1>4

\* A behaviour of the controller's part is a behaviour of the controller.
LEMMA ControllerBehaviour == SumSpec /\ part = "controller" => Proved!Spec /\ [](part = "controller")
<1>1. SumInit /\ part = "controller" => Proved!Init
  BY SameInit DEF SumInit
<1>2. [SumNext]_allVars /\ part = "controller" =>
         [Proved!Next]_(Proved!vars) /\ (part = "controller")'
  <2>. SUFFICES ASSUME [SumNext]_allVars, part = "controller"
                PROVE  [Proved!Next]_(Proved!vars) /\ part' = "controller"
    OBVIOUS
  <2>1. CASE SumNext
    BY <2>1, SameNext DEF SumNext
  <2>2. CASE UNCHANGED allVars
    BY <2>2 DEF allVars, sharedVars, controllerOwnVars, Proved!vars
  <2>. QED BY <2>1, <2>2
<1>. QED BY <1>1, <1>2, PTL DEF SumSpec, Proved!Spec

\* No step makes another part the controller's.
LEMMA OtherBehaviour == SumSpec /\ ~(part = "controller") => [](~(part = "controller"))
<1>1. [SumNext]_allVars /\ ~(part = "controller") => (~(part = "controller"))'
  BY DEF SumNext, allVars
<1>. QED BY <1>1, PTL DEF SumSpec

\* The queue of activated requests, which the controller fills without looking
\* at its size, holds at most one request of a bank (Controller::tick()).
THEOREM ActivatedOnePerBank == SumSpec => []ActqOnePerBank
<1>1. Proved!Spec => []Proved!ActqOnePerBank
  BY ParametersProved, Proved!ControllerBanks
<1>2. (part = "controller" => Proved!ActqOnePerBank) => ActqOnePerBank
  BY SameProperties DEF ActqOnePerBank
<1>. QED BY <1>1, <1>2, ControllerBehaviour, OtherBehaviour, PTL

\* However requests are moved between the queues, every accepted one is in one
\* place until it is called back or written (Controller::enqueue() and tick()).
THEOREM RequestsNeverLost == SumSpec => []RequestsOnce
<1>1. Proved!Spec => []Proved!RequestsOnce
  BY ParametersProved, Proved!ControllerOnce
<1>2. (part = "controller" => Proved!RequestsOnce) => RequestsOnce
  BY SameProperties DEF RequestsOnce
<1>. QED BY <1>1, <1>2, ControllerBehaviour, OtherBehaviour, PTL

\* cur_serving_requests is exact, so it is never negative, and the queues stay
\* within their limits (update_serving_requests()).
THEOREM ServingIsCounted == SumSpec => []ServingCounted
<1>1. Proved!Spec => []Proved!ServingCounted /\ []Proved!TypeOK
  BY ParametersProved, Proved!ControllerServing, Proved!ControllerTypes
<1>2. (part = "controller" => Proved!ServingCounted /\ Proved!TypeOK) => ServingCounted
  BY SameProperties DEF ServingCounted
<1>. QED BY <1>1, <1>2, ControllerBehaviour, OtherBehaviour, PTL

LEMMA SameOvertakes == Ctrl!OvertakesOnlyActivated <=> Proved!OvertakesOnlyActivated
BY DEF Ctrl!OvertakesOnlyActivated, Proved!OvertakesOnlyActivated, Ctrl!Queued, Proved!Queued,
       Ctrl!ToSet, Proved!ToSet, Ctrl!BankOf, Proved!BankOf, Ctrl!vars, Proved!vars

\* A request of an address overtakes an older write of it only when that write's
\* row is open for it already, and a write only when the row is over the cap
\* (Controller::tick(), Scheduler::get_head()).
THEOREM OvertakesProved == SumSpec => OvertakesOnlyActivated
<1>. DEFINE Overtakes ==
                \A w \in Ctrl!Queued \cap Ctrl!Queued', r \in Ctrl!Queued \ Ctrl!Queued' :
                    w.type = "WRITE" /\ w.addr = r.addr /\ w.id < r.id
                        /\ r.id \notin {s.id : s \in Ctrl!Queued'} =>
                        /\ w \in Ctrl!ToSet(queues["actq"])
                        /\ r.type = "WRITE" => hits[Ctrl!BankOf(w.addr)] > Cap
<1>1. Proved!Spec => Ctrl!OvertakesOnlyActivated
  BY ParametersProved, Proved!ControllerOvertakes, SameOvertakes
<1>2. Ctrl!OvertakesOnlyActivated <=> [][Overtakes]_(Ctrl!vars)
  BY DEF Ctrl!OvertakesOnlyActivated
<1>3. [SumNext]_allVars /\ ~(part = "controller") => Overtakes
  <2>. SUFFICES ASSUME [SumNext]_allVars, ~(part = "controller") PROVE queues' = queues
    BY DEF Ctrl!Queued
  <2>. QED BY DEF SumNext, allVars, controllerOwnVars
<1>. HIDE DEF Overtakes
<1>. QED BY <1>1, <1>2, <1>3, ControllerBehaviour, OtherBehaviour, PTL
         DEF SumSpec, OvertakesOnlyActivated
-----------------------------------------------------------------------------
(* Division by the number of banks *)

LEMMA QuotientOf ==
    ASSUME NEW R \in Nat \ {0}, NEW q \in Nat, NEW m \in 0 .. R - 1
    PROVE  (R * q + m) \div R = q /\ (R * q + m) % R = m
OBVIOUS

\* How often bank b had its turn in n intervals.
Turns(R, n, b) == (n + R - 1 - b) \div R

LEMMA TurnsAre ==
    ASSUME NEW R \in Nat \ {0}, NEW q \in Nat, NEW m \in 0 .. R - 1, NEW b \in 0 .. R - 1
    PROVE  Turns(R, R * q + m, b) = IF m <= b THEN q ELSE q + 1
<1>1. CASE m <= b
  <2>1. /\ m + R - 1 - b \in 0 .. R - 1
        /\ R * q + m + R - 1 - b = R * q + (m + R - 1 - b)
    BY <1>1
  <2>. QED BY <1>1, <2>1, QuotientOf DEF Turns
<1>2. CASE ~(m <= b)
  <2>1. /\ m - 1 - b \in 0 .. R - 1 /\ q + 1 \in Nat
        /\ R * q + m + R - 1 - b = R * (q + 1) + (m - 1 - b)
    BY <1>2
  <2>. QED BY <1>2, <2>1, QuotientOf DEF Turns
<1>. QED BY <1>1, <1>2

\* When an interval is over, the bank whose turn it was is owed one refresh
\* more, and the next bank's turn comes.
LEMMA OneMoreTurn ==
    ASSUME NEW R \in Nat \ {0}, NEW n \in Nat
    PROVE  /\ \A b \in 0 .. R - 1 :
                 Turns(R, n + 1, b) = Turns(R, n, b) + (IF n % R = b THEN 1 ELSE 0)
           /\ (n + 1) % R = ((n % R) + 1) % R
           /\ n % R \in 0 .. R - 1
<1>. DEFINE q == n \div R
            m == n % R
<1>1. q \in Nat /\ m \in 0 .. R - 1 /\ n = R * q + m
  OBVIOUS
<1>. HIDE DEF q, m
<1>2. \A b \in 0 .. R - 1 : Turns(R, n, b) = IF m <= b THEN q ELSE q + 1
  BY <1>1, TurnsAre
<1>3. CASE m + 1 < R
  <2>1. m + 1 \in 0 .. R - 1 /\ n + 1 = R * q + (m + 1)
    BY <1>1, <1>3
  <2>2. (n + 1) % R = m + 1 /\ (m + 1) % R = m + 1
    <3>1. 0 \in Nat /\ R * 0 + (m + 1) = m + 1
      BY <1>1
    <3>. QED BY <1>1, <2>1, <3>1, QuotientOf
  <2>3. \A b \in 0 .. R - 1 : Turns(R, n + 1, b) = IF m + 1 <= b THEN q ELSE q + 1
    <3>. DEFINE k == m + 1
    <3>1. k \in 0 .. R - 1 /\ n + 1 = R * q + k
      BY <2>1
    <3>. HIDE DEF k
    <3>2. \A b \in 0 .. R - 1 : Turns(R, R * q + k, b) = IF k <= b THEN q ELSE q + 1
      BY <1>1, <3>1, TurnsAre
    <3>3. \A b \in 0 .. R - 1 : Turns(R, n + 1, b) = IF k <= b THEN q ELSE q + 1
      BY <3>1, <3>2
    <3>. QED BY <3>3 DEF k
  <2>4. \A b \in 0 .. R - 1 : Turns(R, n + 1, b) = Turns(R, n, b) + (IF m = b THEN 1 ELSE 0)
    BY <1>1, <1>2, <2>3
  <2>. QED BY <1>1, <2>2, <2>4 DEF m
<1>4. CASE ~(m + 1 < R)
  <2>1. m + 1 = R /\ q + 1 \in Nat /\ 0 \in 0 .. R - 1 /\ n + 1 = R * (q + 1) + 0
    BY <1>1, <1>4
  <2>2. (n + 1) % R = 0 /\ (m + 1) % R = 0
    <3>1. 1 \in Nat /\ R * 1 + 0 = R
      OBVIOUS
    <3>. QED BY <2>1, <3>1, QuotientOf
  <2>3. \A b \in 0 .. R - 1 : Turns(R, n + 1, b) = IF 0 <= b THEN q + 1 ELSE q + 2
    <3>. DEFINE t == q + 1
    <3>1. t \in Nat /\ n + 1 = R * t + 0 /\ t + 1 = q + 2
      BY <1>1, <2>1
    <3>. HIDE DEF t
    <3>2. \A b \in 0 .. R - 1 : Turns(R, R * t + 0, b) = IF 0 <= b THEN t ELSE t + 1
      BY <2>1, <3>1, TurnsAre
    <3>3. \A b \in 0 .. R - 1 : Turns(R, n + 1, b) = IF 0 <= b THEN t ELSE t + 1
      BY <3>1, <3>2
    <3>. QED BY <3>1, <3>3 DEF t
  <2>4. \A b \in 0 .. R - 1 : Turns(R, n + 1, b) = Turns(R, n, b) + (IF m = b THEN 1 ELSE 0)
    BY <1>1, <1>2, <2>1, <2>3
  <2>. QED BY <1>1, <2>2, <2>4 DEF m
<1>. QED BY <1>3, <1>4

LEMMA TurnsAreWhole ==
    ASSUME NEW R \in Nat \ {0}, NEW n \in Nat, NEW b \in 0 .. R - 1
    PROVE  Turns(R, n, b) \in Int
BY DEF Turns
-----------------------------------------------------------------------------
(* The backlog of the refreshes *)

\* The credit of each bank is what it had minus what it is owed after n intervals.
Credited(backlog, done, n) ==
    /\ backlog \in [Refresh!Banks -> BacklogMin + 1 .. BacklogMax]
    /\ done \in [Refresh!Banks -> Nat]
    /\ \A b \in Refresh!Banks : backlog[b] = done[b] - Turns(RefreshBanks, n, b)

\* The inductive invariant: the banks have their turns in a circle, and the
\* backlog is the credit.
RefreshInv ==
    /\ intervals \in Nat
    /\ bank_ref_counter = intervals % RefreshBanks
    /\ Credited(bank_refresh_backlog, issued, intervals)

\* What the parts of tick_ref() hand on.
Schedule(s) ==
    /\ DOMAIN s = {"backlog", "subarray", "queue", "issued"}
    /\ Credited(s.backlog, s.issued, intervals)

\* A refresh of a bank that has not reached the limit.
LEMMA RefreshedHolds ==
    ASSUME intervals \in Nat, NEW s, Schedule(s), NEW b \in Refresh!Banks, s.backlog[b] < BacklogMax
    PROVE  Schedule(Refresh!Refreshed(s, b))
<1>. DEFINE t == Refresh!Refreshed(s, b)
<1>1. /\ t.backlog = [s.backlog EXCEPT ![b] = @ + 1]
      /\ t.issued = [s.issued EXCEPT ![b] = @ + 1]
      /\ DOMAIN t = {"backlog", "subarray", "queue", "issued"}
  BY DEF Refresh!Refreshed
<1>2. /\ s.backlog \in [Refresh!Banks -> BacklogMin + 1 .. BacklogMax]
      /\ s.issued \in [Refresh!Banks -> Nat]
      /\ \A c \in Refresh!Banks : s.backlog[c] = s.issued[c] - Turns(RefreshBanks, intervals, c)
  BY DEF Schedule, Credited
<1>3. \A c \in Refresh!Banks : Turns(RefreshBanks, intervals, c) \in Int
  BY RefreshAssumption, TurnsAreWhole DEF Refresh!Banks
<1>. HIDE DEF t
<1>4. t.backlog \in [Refresh!Banks -> BacklogMin + 1 .. BacklogMax] /\ t.issued \in [Refresh!Banks -> Nat]
  BY <1>1, <1>2, RefreshAssumption
<1>5. \A c \in Refresh!Banks : t.backlog[c] = t.issued[c] - Turns(RefreshBanks, intervals, c)
  <2>. SUFFICES ASSUME NEW c \in Refresh!Banks
                PROVE  t.backlog[c] = t.issued[c] - Turns(RefreshBanks, intervals, c)
    OBVIOUS
  <2>1. /\ t.backlog[c] = IF c = b THEN s.backlog[c] + 1 ELSE s.backlog[c]
        /\ t.issued[c] = IF c = b THEN s.issued[c] + 1 ELSE s.issued[c]
    BY <1>1, <1>2
  <2>2. /\ s.backlog[c] = s.issued[c] - Turns(RefreshBanks, intervals, c)
        /\ s.issued[c] \in Nat /\ Turns(RefreshBanks, intervals, c) \in Int
    BY <1>2, <1>3
  <2>. QED BY <2>1, <2>2
<1>. QED BY <1>1, <1>4, <1>5 DEF Schedule, Credited, t

LEMMA AheadHolds ==
    ASSUME intervals \in Nat, NEW s, Schedule(s), NEW reads, NEW writes,
           NEW t \in Refresh!Ahead(s, reads, writes)
    PROVE  Schedule(t)
<1>1. t = s \/ \E b \in Refresh!Banks : s.backlog[b] < BacklogMax /\ t = Refresh!Refreshed(s, b)
  BY DEF Refresh!Ahead, Refresh!LeastDemanded
<1>. QED BY <1>1, RefreshedHolds

LEMMA EarlyHolds ==
    ASSUME intervals \in Nat, NEW s, Schedule(s), NEW reads, NEW t \in Refresh!Early(s, reads)
    PROVE  Schedule(t)
<1>1. t = s \/ \E b \in Refresh!Banks : s.backlog[b] < EarlyPull /\ t = Refresh!Refreshed(s, b)
  BY DEF Refresh!Early
<1>2. \A b \in Refresh!Banks : s.backlog[b] \in Int
  BY RefreshAssumption DEF Schedule, Credited
<1>3. \A b \in Refresh!Banks : s.backlog[b] < EarlyPull => s.backlog[b] < BacklogMax
  BY <1>2, RefreshAssumption
<1>. QED BY <1>1, <1>3, RefreshedHolds

\* When an interval is over the bank in turn has a refresh, unless it can wait.
LEMMA InjectedHolds ==
    ASSUME RefreshInv, NEW s, Schedule(s), NEW reads
    PROVE  Credited(Refresh!Injected(s, reads).backlog, Refresh!Injected(s, reads).issued, intervals + 1)
<1>. DEFINE b == bank_ref_counter
            late == [s EXCEPT !.backlog[b] = @ - 1]
            t == Refresh!Injected(s, reads)
<1>0. /\ b \in Refresh!Banks
      /\ \A c \in Refresh!Banks :
            /\ Turns(RefreshBanks, intervals, c) \in Int
            /\ Turns(RefreshBanks, intervals + 1, c) =
                  Turns(RefreshBanks, intervals, c) + (IF c = b THEN 1 ELSE 0)
  BY RefreshAssumption, OneMoreTurn, TurnsAreWhole DEF RefreshInv, Refresh!Banks
<1>1. /\ s.backlog \in [Refresh!Banks -> BacklogMin + 1 .. BacklogMax]
      /\ s.issued \in [Refresh!Banks -> Nat]
      /\ \A c \in Refresh!Banks : s.backlog[c] = s.issued[c] - Turns(RefreshBanks, intervals, c)
      /\ "backlog" \in DOMAIN s /\ "issued" \in DOMAIN s
  BY DEF Schedule, Credited
<1>2. /\ late.backlog = [s.backlog EXCEPT ![b] = @ - 1]
      /\ late.issued = s.issued
  BY <1>1
<1>3. t = IF Refresh!MustRefresh(late, b, reads) THEN Refresh!Refreshed(late, b) ELSE late
  BY DEF Refresh!Injected
<1>4. /\ Refresh!Refreshed(late, b).backlog = [late.backlog EXCEPT ![b] = @ + 1]
      /\ Refresh!Refreshed(late, b).issued = [late.issued EXCEPT ![b] = @ + 1]
  BY DEF Refresh!Refreshed
<1>5. ~Refresh!MustRefresh(late, b, reads) => ~(late.backlog[b] <= BacklogMin)
  BY DEF Refresh!MustRefresh
<1>. HIDE DEF b, late, t
<1>6. CASE Refresh!MustRefresh(late, b, reads)
  <2>1. t.backlog = s.backlog /\ t.issued = [s.issued EXCEPT ![b] = @ + 1]
    BY <1>0, <1>1, <1>2, <1>3, <1>4, <1>6, RefreshAssumption
  <2>. QED BY <1>0, <1>1, <2>1 DEF Credited, t
<1>7. CASE ~Refresh!MustRefresh(late, b, reads)
  <2>1. t.backlog = [s.backlog EXCEPT ![b] = @ - 1] /\ t.issued = s.issued
    BY <1>2, <1>3, <1>7
  <2>2. s.backlog[b] - 1 \in BacklogMin + 1 .. BacklogMax
    BY <1>0, <1>1, <1>2, <1>5, <1>7, RefreshAssumption
  <2>3. t.backlog \in [Refresh!Banks -> BacklogMin + 1 .. BacklogMax]
    BY <1>0, <1>1, <2>1, <2>2
  <2>4. ASSUME NEW c \in Refresh!Banks
        PROVE  t.backlog[c] = t.issued[c] - Turns(RefreshBanks, intervals + 1, c)
    <3>1. t.backlog[c] = (IF c = b THEN s.backlog[c] - 1 ELSE s.backlog[c]) /\ t.issued[c] = s.issued[c]
      BY <1>1, <2>1
    <3>2. /\ s.backlog[c] = s.issued[c] - Turns(RefreshBanks, intervals, c)
          /\ s.issued[c] \in Nat /\ Turns(RefreshBanks, intervals, c) \in Int
      BY <1>0, <1>1
    <3>. QED BY <1>0, <3>1, <3>2
  <2>. QED BY <1>1, <2>1, <2>3, <2>4 DEF Credited, t
<1>. QED BY <1>6, <1>7

LEMMA TickRefHolds ==
    ASSUME RefreshInv, NEW write_mode_now, NEW reads, NEW writes, NEW queue, NEW due \in BOOLEAN,
           Refresh!TickRef(write_mode_now, reads, writes, queue, due)
    PROVE  RefreshInv'
<1>. DEFINE first == Refresh!Scheduled(queue)
<1>1. Schedule(first) /\ intervals \in Nat
  BY DEF RefreshInv, Schedule, Refresh!Scheduled
<1>. DEFINE Become(early) ==
                LET s == IF due THEN Refresh!Injected(early, reads) ELSE early IN
                /\ bank_refresh_backlog' = s.backlog
                /\ issued' = s.issued
                /\ bank_ref_counter' = IF due THEN (bank_ref_counter + 1) % RefreshBanks ELSE bank_ref_counter
                /\ intervals' = IF due THEN intervals + 1 ELSE intervals
<1>2. \E ahead \in IF ~ctrl_write_mode /\ write_mode_now
                    THEN Refresh!Ahead(first, reads, writes) ELSE {first} :
         \E early \in IF write_mode_now THEN {ahead} ELSE Refresh!Early(ahead, reads) : Become(early)
  BY DEF Refresh!TickRef
<1>. HIDE DEF first, Become
<1>3. PICK ahead \in IF ~ctrl_write_mode /\ write_mode_now
                     THEN Refresh!Ahead(first, reads, writes) ELSE {first} :
         \E early \in IF write_mode_now THEN {ahead} ELSE Refresh!Early(ahead, reads) : Become(early)
  BY <1>2
<1>4. Schedule(ahead)
  BY <1>1, <1>3, AheadHolds
<1>5. PICK early \in IF write_mode_now THEN {ahead} ELSE Refresh!Early(ahead, reads) : Become(early)
  BY <1>3
<1>6. Schedule(early)
  BY <1>1, <1>4, EarlyHolds
<1>7. CASE due
  <2>1. /\ bank_refresh_backlog' = Refresh!Injected(early, reads).backlog
        /\ issued' = Refresh!Injected(early, reads).issued
        /\ bank_ref_counter' = (bank_ref_counter + 1) % RefreshBanks
        /\ intervals' = intervals + 1
    BY <1>5, <1>7 DEF Become
  <2>2. Credited(bank_refresh_backlog', issued', intervals')
    BY <1>6, <2>1, InjectedHolds
  <2>3. bank_ref_counter' = intervals' % RefreshBanks
    BY <1>1, <2>1, RefreshAssumption, OneMoreTurn DEF RefreshInv
  <2>4. Credited(bank_refresh_backlog, issued, intervals)'
    BY <2>2 DEF Credited
  <2>. QED BY <1>1, <2>1, <2>3, <2>4 DEF RefreshInv
<1>8. CASE ~due
  <2>1. /\ bank_refresh_backlog' = early.backlog
        /\ issued' = early.issued
        /\ bank_ref_counter' = bank_ref_counter
        /\ intervals' = intervals
    BY <1>5, <1>8 DEF Become
  <2>2. Credited(bank_refresh_backlog', issued', intervals')
    BY <1>6, <2>1 DEF Schedule
  <2>3. Credited(bank_refresh_backlog, issued, intervals)'
    BY <2>2 DEF Credited
  <2>. QED BY <2>1, <2>3 DEF RefreshInv
<1>. QED BY <1>7, <1>8

LEMMA RefreshStarts == Refresh!Init => RefreshInv
<1>. SUFFICES ASSUME Refresh!Init PROVE RefreshInv
  OBVIOUS
<1>1. \A b \in Refresh!Banks : Turns(RefreshBanks, 0, b) = 0
  <2>. SUFFICES ASSUME NEW b \in 0 .. RefreshBanks - 1 PROVE Turns(RefreshBanks, 0, b) = 0
    BY DEF Refresh!Banks
  <2>1. 0 \in 0 .. RefreshBanks - 1 /\ RefreshBanks * 0 + 0 = 0 /\ 0 <= b
    BY RefreshAssumption
  <2>. QED BY <2>1, RefreshAssumption, TurnsAre
<1>2. 0 % RefreshBanks = 0
  BY RefreshAssumption
<1>. QED BY <1>1, <1>2, RefreshAssumption DEF Refresh!Init, RefreshInv, Credited

LEMMA RefreshKeeps == (part = "refresh" => RefreshInv) /\ [SumNext]_allVars => (part = "refresh" => RefreshInv)'
<1>. SUFFICES ASSUME part = "refresh" => RefreshInv, [SumNext]_allVars, part' = "refresh"
              PROVE  RefreshInv'
  OBVIOUS
<1>1. part = "refresh" /\ RefreshInv
  BY DEF SumNext, allVars
<1>2. CASE Refresh!Next
  BY <1>1, <1>2, TickRefHolds DEF Refresh!Next
<1>3. CASE UNCHANGED refreshVars
  BY <1>1, <1>3 DEF refreshVars, RefreshInv, Credited
<1>. QED BY <1>1, <1>2, <1>3 DEF SumNext, allVars

\* No bank gets further ahead of its turns than backlog_max, nor as far behind
\* as backlog_min, though refreshes are injected in turn, early and during
\* writes, each with a threshold of its own (DSARP::tick_ref()).
THEOREM RefreshDebtProved == SumSpec => []RefreshDebtBounded
<1>1. SumInit => (part = "refresh" => RefreshInv)
  BY RefreshStarts DEF SumInit
<1>2. (part = "refresh" => RefreshInv) => RefreshDebtBounded
  <2>. SUFFICES ASSUME RefreshInv PROVE Refresh!RefreshDebtBounded
    BY DEF RefreshDebtBounded
  <2>1. \A b \in Refresh!Banks : /\ issued[b] - Turns(RefreshBanks, intervals, b) = bank_refresh_backlog[b]
                                 /\ bank_refresh_backlog[b] \in BacklogMin + 1 .. BacklogMax
    BY DEF RefreshInv, Credited
  <2>. QED BY <2>1 DEF Refresh!RefreshDebtBounded, Refresh!Owed, Turns
<1>. QED BY <1>1, <1>2, RefreshKeeps, PTL DEF SumSpec
-----------------------------------------------------------------------------
(* The memory: what is kept between its commands *)

\* The entries of the tables of timings.
Distances == TimingEntries(config.std, SpeedEntry[key])

\* Command i of a log binds a node as entry t says: it went to a sibling of the
\* node, or to the node itself, as the dist-th last of its name until command k
\* or before that.
Binds(l, i, n, t, k) ==
    /\ l[i].cmd = t.prev
    /\ IF t.sib THEN ~IsPrefix(n, l[i].addr) /\ IsPrefix(Front(n), l[i].addr)
       ELSE /\ IsPrefix(n, l[i].addr)
            /\ Cardinality({j \in i .. k : l[j].cmd = t.prev /\ IsPrefix(n, l[j].addr)}) >= t.dist

\* What next of a node remembers.
NextCovers ==
    \A n \in NodesOf(config), t \in Distances, i \in DOMAIN log :
        t.level = Level(n) /\ Binds(log, i, n, t, Len(log)) => next[n][t.next] >= log[i].clk + t.val

\* Every command keeps every distance of the tables from every command before
\* it, at each node that it reaches on its way.
EntriesKept ==
    \A k \in DOMAIN log : \A n \in Path(log[k].addr, ScopeDepth(log[k].cmd)), t \in Distances, i \in 1 .. k - 1 :
        t.level = Level(n) /\ t.next = log[k].cmd /\ Binds(log, i, n, t, k - 1) =>
            log[k].clk >= log[i].clk + t.val

DistancesKept == part = "dram" => EntriesKept

Awake == {"PowerUp", "SelfRefresh"} \cup PoweredDown
RanksAwake == \A n \in NodesOf(config) : Len(n) = 1 => state[n] \in Awake

Addresses(c) == {r[2] : r \in Requests(c)}
Scope(c)     == DOMAIN ClassOf[c.std].scope
Issues(c)    == [cmd : Issuable(c.std), addr : Addresses(c), clk : Int]

\* The tree and the log.
TreeTyped ==
    /\ config \in Configs
    /\ speed_entry = SpeedEntry[key]
    /\ DOMAIN state = NodesOf(config)
    /\ next \in [NodesOf(config) -> [Scope(config) -> Int]]
    /\ clk \in Int
    /\ log \in Seq(Issues(config))
    /\ \A i \in DOMAIN log : log[i].clk <= clk

\* The inductive invariant: the log keeps the distances as next, which a
\* command waits for, never forgets one.
DramInv ==
    /\ TreeTyped
    /\ RanksAwake
    /\ NextCovers
    /\ EntriesKept

LEMMA SmallestExists ==
    ASSUME NEW s \in SUBSET Nat, s # {}
    PROVE  \E m \in s : \A k \in s : m <= k
<1>. DEFINE R == OpToRel(<, Nat)
<1>1. IsWellFoundedOn(R, Nat)
  BY NatLessThanWellFounded
<1>2. PICK m \in s : \A k \in s : ~(<<k, m>> \in R)
  BY <1>1, WFMin
<1>3. \A k \in Nat : k < m => <<k, m>> \in R
  BY DEF OpToRel
<1>. HIDE DEF R
<1>4. \A k \in s : ~(k < m) /\ k \in Nat /\ m \in Nat
  BY <1>2, <1>3
<1>. QED BY <1>4

LEMMA MostExists ==
    ASSUME NEW D, IsFiniteSet(D), D # {}, NEW f \in [D -> Int]
    PROVE  \E d \in D : \A e \in D : f[e] <= f[d]
<1>. DEFINE above(d) == {e \in D : f[e] > f[d]}
            sizes == {Cardinality(above(d)) : d \in D}
<1>1. ASSUME NEW d \in D PROVE IsFiniteSet(above(d)) /\ Cardinality(above(d)) \in Nat
  <2>1. above(d) \in SUBSET D
    OBVIOUS
  <2>2. IsFiniteSet(above(d))
    BY <2>1, FS_Subset
  <2>. QED BY <2>2, FS_CardinalityType
<1>2. sizes \in SUBSET Nat /\ sizes # {}
  BY <1>1
<1>3. PICK m \in sizes : \A k \in sizes : m <= k
  BY <1>2, SmallestExists
<1>4. PICK d \in D : m = Cardinality(above(d))
  BY <1>3
<1>5. ASSUME NEW e \in D, f[e] > f[d] PROVE FALSE
  <2>1. above(e) \in SUBSET above(d) /\ e \in above(d) /\ e \notin above(e)
    BY <1>5
  <2>2. Cardinality(above(e)) <= Cardinality(above(d)) /\ Cardinality(above(e)) # Cardinality(above(d))
    BY <1>1, <2>1, FS_Subset
  <2>3. m <= Cardinality(above(e))
    BY <1>3
  <2>. QED BY <1>1, <1>4, <2>2, <2>3
<1>. QED BY <1>5

LEMMA MaxOfBounded ==
    ASSUME NEW s \in SUBSET Int, s # {}, NEW b \in Int, \A u \in s : u <= b
    PROVE  Max(s) \in s /\ Max(s) \in Int /\ \A u \in s : Max(s) >= u
<1>. DEFINE gaps == {b - u : u \in s}
<1>1. gaps \in SUBSET Nat /\ gaps # {}
  <2>1. \A u \in s : b - u \in Nat
    BY SMT
  <2>. QED BY <2>1
<1>2. PICK m \in gaps : \A k \in gaps : m <= k
  BY <1>1, SmallestExists
<1>3. PICK u \in s : m = b - u
  BY <1>2
<1>4. \A v \in s : u >= v
  <2>. SUFFICES ASSUME NEW v \in s PROVE u >= v
    OBVIOUS
  <2>1. m <= b - v /\ u \in Int /\ v \in Int
    BY <1>2
  <2>. QED BY <1>3, <2>1
<1>5. \E w \in s : \A v \in s : w >= v
  BY <1>4
<1>. QED BY <1>5 DEF Max
-----------------------------------------------------------------------------
(* The places of a scenario, and the nodes on the way to them *)

LEMMA ConfigIs ==
    ASSUME NEW c \in Configs
    PROVE  c.std \in Standards /\ [std |-> c.std, org |-> c.org, speed |-> c.speed] \in Keys
<1>. DEFINE IsOf(std) == \E o, s, scenario : c = Config(std, o, s, scenario)
<1>1. \E std \in Standards : IsOf(std)
  <2>. DEFINE A == {AsConfigured(std, scenario) : std \in Standards, scenario \in {"rows", "window", "power"}}
              B == {AsConfigured(std, "ranks") : std \in OfSeveralRanks}
              C(std) == {Config(std, Configured[std][1], s, "turnaround") : s \in DOMAIN SpeedsOf[std]}
              D(std) == {Config(std, o, Configured[std][2], "refresh") : o \in DOMAIN OrgsOf[std]}
  <2>0. c \in A \cup B \cup (UNION {C(std) : std \in Standards}) \cup (UNION {D(std) : std \in Standards})
    BY DEF Configs
  <2>1. CASE c \in A
    <3>1. PICK std \in Standards, scenario \in {"rows", "window", "power"} : c = AsConfigured(std, scenario)
      BY <2>1
    <3>. QED BY <3>1 DEF AsConfigured
  <2>2. CASE c \in B
    BY <2>2 DEF AsConfigured, OfSeveralRanks
  <2>3. ASSUME NEW std \in Standards, c \in C(std) \cup D(std) PROVE IsOf(std)
    BY <2>3
  <2>. HIDE DEF A, B, C, D, IsOf
  <2>. QED BY <2>0, <2>1, <2>2, <2>3
<1>2. c.std \in Standards
  BY <1>1 DEF Config
<1>. QED BY <1>2 DEF Keys

LEMMA StandardIs ==
    ASSUME NEW std \in Standards
    PROVE  LET cls == ClassOf[std] IN
           /\ cls.levels \in Seq(STRING) /\ Len(cls.levels) \in Nat \ {0}
           /\ DOMAIN cls.levels = 1 .. Len(cls.levels)
           /\ \A i \in 1 .. Len(cls.levels) : cls.levels[i] \in LevelsOf(std)
<1>1. ClassOf[std].levels \in Seq(STRING) /\ ClassOf[std].levels # <<>>
  BY TablesAssumption
<1>. DEFINE ls == ClassOf[std].levels
<1>2. DOMAIN ls = 1 .. Len(ls) /\ Len(ls) \in Nat \ {0}
  <2>. HIDE DEF ls
  <2>. QED BY <1>1 DEF ls
<1>. QED BY <1>1, <1>2 DEF LevelsOf, ToSet

\* Whatever the places are, a place has an id for each level.
IsPlace(c, p) == \E ids : p = PlaceOf(ClassOf[c.std], ids)

LEMMA PlacesAre ==
    ASSUME NEW c \in Configs
    PROVE  /\ \A p \in ToSet(Places(c)) : IsPlace(c, p)
           /\ Places(c)[1] \in ToSet(Places(c))
<1>. DEFINE P(ids) == PlaceOf(ClassOf[c.std], ids)
            grouped == "BankGroup" \in ToSet(ClassOf[c.std].levels)
            nested == "SubArray" \in ToSet(ClassOf[c.std].levels)
            n == IF c.std = "WideIO" THEN 4 ELSE 5
<1>0. \A ids : IsPlace(c, P(ids))
  BY DEF IsPlace
<1>1. CASE c.scenario = "rows" /\ grouped
  <2>1. Places(c) = <<P([Bank |-> 0]), P([Bank |-> 1]), P([BankGroup |-> 1])>>
    BY <1>1 DEF Places
  <2>. QED BY <1>0, <2>1 DEF ToSet
<1>2. CASE c.scenario = "rows" /\ ~grouped /\ nested
  <2>1. Places(c) = <<P([SubArray |-> 0]), P([SubArray |-> 1]), P([Bank |-> 1])>>
    BY <1>2 DEF Places
  <2>. QED BY <1>0, <2>1 DEF ToSet
<1>3. CASE c.scenario = "rows" /\ ~grouped /\ ~nested
  <2>1. Places(c) = <<P([Bank |-> 0]), P([Bank |-> 1])>>
    BY <1>3 DEF Places
  <2>. QED BY <1>0, <2>1 DEF ToSet
<1>4. CASE c.scenario = "ranks"
  <2>1. Places(c) = <<P([Rank |-> 0]), P([Rank |-> 1])>>
    BY <1>4 DEF Places
  <2>. QED BY <1>0, <2>1 DEF ToSet
<1>5. CASE c.scenario = "window"
  <2>1. Places(c) = [i \in 1 .. n |->
            IF grouped THEN P([BankGroup |-> (i - 1) % 4, Bank |-> (i - 1) \div 4])
                       ELSE P([Bank |-> i - 1])]
    BY <1>5 DEF Places
  <2>. DEFINE at(i) == IF grouped THEN P([BankGroup |-> (i - 1) % 4, Bank |-> (i - 1) \div 4])
                                  ELSE P([Bank |-> i - 1])
  <2>2. \A i : IsPlace(c, at(i))
    BY <1>0
  <2>3. Places(c) = [i \in 1 .. n |-> at(i)]
    BY <2>1
  <2>. HIDE DEF at
  <2>4. 1 \in 1 .. n /\ DOMAIN Places(c) = 1 .. n /\ \A i \in 1 .. n : Places(c)[i] = at(i)
    BY <2>3
  <2>. QED BY <2>2, <2>4 DEF ToSet
<1>6. CASE c.scenario \notin {"rows", "ranks", "window"}
  <2>1. Places(c) = <<P([Bank |-> 0])>>
    BY <1>6 DEF Places
  <2>. QED BY <1>0, <2>1 DEF ToSet
<1>. QED BY <1>1, <1>2, <1>3, <1>4, <1>5, <1>6

LEMMA PlaceIs ==
    ASSUME NEW c \in Configs, NEW p, IsPlace(c, p)
    PROVE  p \in Seq({p[i] : i \in 1 .. Len(ClassOf[c.std].levels)}) /\ Len(p) = Len(ClassOf[c.std].levels)
<1>1. PICK ids : p = PlaceOf(ClassOf[c.std], ids)
  BY DEF IsPlace
<1>. DEFINE m == Len(ClassOf[c.std].levels)
            ls == ClassOf[c.std].levels
            values == {p[i] : i \in 1 .. m}
<1>2. m \in Nat /\ DOMAIN ls = 1 .. m
  BY ConfigIs, StandardIs
<1>3. p = [i \in 1 .. m |-> IF ls[i] \in DOMAIN ids THEN ids[ls[i]] ELSE 0]
  BY <1>1, <1>2 DEF PlaceOf
<1>. HIDE DEF m, ls
<1>4. p \in [1 .. m -> values]
  BY <1>3
<1>5. p \in Seq(values) /\ Len(p) = m
  BY <1>2, <1>4
<1>. QED BY <1>5 DEF m

\* The beginning of an address.
LEMMA PrefixOfAppended ==
    ASSUME NEW S, NEW p \in Seq(S), NEW e, NEW i \in 0 .. Len(p)
    PROVE  SubSeq(Append(p, e), 1, i) = SubSeq(p, 1, i) /\ Len(Append(p, e)) = Len(p) + 1
<1>. DEFINE T == S \cup {e}
<1>1. p \in Seq(T) /\ e \in T
  <2>1. p \in [1 .. Len(p) -> T] /\ Len(p) \in Nat
    OBVIOUS
  <2>. QED BY <2>1
<1>. HIDE DEF T
<1>2. /\ Append(p, e) \in Seq(T) /\ Len(Append(p, e)) = Len(p) + 1
      /\ \A j \in 1 .. Len(p) : Append(p, e)[j] = p[j]
  BY <1>1
<1>3. /\ SubSeq(Append(p, e), 1, i) = [j \in 1 .. i |-> Append(p, e)[j]]
      /\ SubSeq(p, 1, i) = [j \in 1 .. i |-> p[j]]
  BY <1>1, <1>2
<1>. QED BY <1>1, <1>2, <1>3

LEMMA RequestIs ==
    ASSUME NEW c \in Configs, NEW r \in Requests(c)
    PROVE  /\ r[1] \in {"READ", "WRITE", "REFRESH", "POWERDOWN", "SELFREFRESH", "EXTENSION"}
           /\ r[1] = "EXTENSION" => c.std = "TLDRAM"
           /\ \E p \in ToSet(Places(c)) : r[2] = p \/ r[2] = <<p[1]>> \/ \E e : r[2] = Append(p, e)
<1>1. PICK t \in RequestTypes(c) : \E a \in AddressesFor(c, t) : r = <<t, a>>
  BY DEF Requests
<1>2. PICK a \in AddressesFor(c, t) : r = <<t, a>>
  BY <1>1
<1>3. \E p \in ToSet(Places(c)) : a = p \/ a = <<p[1]>> \/ \E e : a = Append(p, e)
  BY <1>2, PlacesAre DEF AddressesFor
<1>. QED BY <1>2, <1>3 DEF RequestTypes, Types

\* The nodes that a command passes are there.
LEMMA PathsAreNodes ==
    ASSUME NEW c \in Configs, NEW addr \in Addresses(c)
    PROVE  /\ Len(addr) \in Nat
           /\ \A i \in Nat : i <= Len(addr) /\ i <= Len(ClassOf[c.std].levels) =>
                 SubSeq(addr, 1, i) \in NodesOf(c) /\ Len(SubSeq(addr, 1, i)) = i
<1>. DEFINE m == Len(ClassOf[c.std].levels)
<1>1. PICK p \in ToSet(Places(c)) : addr = p \/ addr = <<p[1]>> \/ \E e : addr = Append(p, e)
  BY RequestIs DEF Addresses
<1>2. PICK S : p \in Seq(S) /\ Len(p) = m /\ m \in Nat \ {0}
  BY PlacesAre, PlaceIs, ConfigIs, StandardIs
<1>. HIDE DEF m
<1>3. \A i \in 0 .. m : SubSeq(p, 1, i) \in NodesOf(c) /\ Len(SubSeq(p, 1, i)) = i
  BY <1>2 DEF NodesOf
<1>4. /\ Len(addr) \in Nat
      /\ \A i \in Nat : i <= Len(addr) /\ i <= m => SubSeq(addr, 1, i) = SubSeq(p, 1, i)
  <2>1. CASE addr = p
    BY <1>2, <2>1
  <2>2. CASE addr = <<p[1]>>
    <3>1. p[1] \in S /\ <<p[1]>> \in Seq(S) /\ Len(<<p[1]>>) = 1
      BY <1>2
    <3>2. \A i \in Nat : i <= 1 => SubSeq(<<p[1]>>, 1, i) = SubSeq(p, 1, i)
      <4>. SUFFICES ASSUME NEW i \in Nat, i <= 1 PROVE SubSeq(<<p[1]>>, 1, i) = SubSeq(p, 1, i)
        OBVIOUS
      <4>1. /\ SubSeq(<<p[1]>>, 1, i) = [j \in 1 .. i |-> <<p[1]>>[j]]
            /\ SubSeq(p, 1, i) = [j \in 1 .. i |-> p[j]]
        BY <1>2, <3>1
      <4>. QED BY <4>1
    <3>. QED BY <2>2, <3>1, <3>2
  <2>3. CASE \E e : addr = Append(p, e)
    BY <1>2, <2>3, PrefixOfAppended
  <2>. QED BY <1>1, <2>1, <2>2, <2>3
<1>5. \A i \in Nat : i <= Len(addr) /\ i <= m =>
          SubSeq(addr, 1, i) \in NodesOf(c) /\ Len(SubSeq(addr, 1, i)) = i
  <2>. SUFFICES ASSUME NEW i \in Nat, i <= Len(addr), i <= m
                PROVE  SubSeq(addr, 1, i) \in NodesOf(c) /\ Len(SubSeq(addr, 1, i)) = i
    OBVIOUS
  <2>1. i \in 0 .. m
    BY <1>2
  <2>2. SubSeq(addr, 1, i) = SubSeq(p, 1, i)
    BY <1>4
  <2>. QED BY <1>3, <2>1, <2>2
<1>. QED BY <1>4, <1>5 DEF m
-----------------------------------------------------------------------------
(* The rules at a node, and what decode() answers *)

LEMMA NodeIs ==
    ASSUME config \in Configs, NEW n \in NodesOf(config)
    PROVE  /\ Len(n) \in 0 .. Levels
           /\ Level(n) \in LevelsOf(config.std)
           /\ Level(n) = "Rank" <=> Len(n) = 1
           /\ Len(n) = 0 => Level(n) = "Channel"
<1>1. PICK p \in ToSet(Places(config)) : \E i \in 0 .. Len(p) : n = SubSeq(p, 1, i)
  BY DEF NodesOf
<1>2. PICK S : p \in Seq(S) /\ Len(p) = Levels /\ Levels \in Nat \ {0}
  BY PlacesAre, PlaceIs, ConfigIs, StandardIs DEF class, Levels
<1>3. PICK i \in 0 .. Levels : n = SubSeq(p, 1, i)
  BY <1>1, <1>2
<1>4. Len(n) = i /\ (i = 0 <=> n = <<>>)
  BY <1>2, <1>3
<1>5. /\ \A j \in 1 .. Levels : class.levels[j] \in LevelsOf(config.std)
      /\ \A j \in 1 .. Levels : class.levels[j] = "Rank" <=> j = 1
      /\ "Channel" \in LevelsOf(config.std)
  <2>1. DOMAIN class.levels = 1 .. Levels
    BY ConfigIs, StandardIs DEF class, Levels
  <2>2. \A j \in DOMAIN class.levels : class.levels[j] = "Rank" <=> j = 1
    BY ConfigIs, TablesAssumption DEF class
  <2>. QED BY <2>1, <2>2, ConfigIs, StandardIs DEF class, Levels, LevelsOf
<1>. QED BY <1>2, <1>3, <1>4, <1>5 DEF Level

\* A path goes through nodes, from the channel on.
LEMMA PathIs ==
    ASSUME config \in Configs, NEW addr \in Addresses(config), NEW depth \in Nat
    PROVE  \E d \in Nat : /\ d <= Len(addr) /\ d <= Levels
                          /\ Path(addr, depth) = {SubSeq(addr, 1, i) : i \in 0 .. d}
                          /\ \A i \in 0 .. d : SubSeq(addr, 1, i) \in NodesOf(config)
<1>. DEFINE s == {Len(addr), depth, Levels}
            d == Min(s)
<1>1. Len(addr) \in Nat /\ Levels \in Nat
  BY PathsAreNodes, ConfigIs, StandardIs DEF Levels, class
<1>2. d \in s /\ \A k \in s : d <= k
  <2>1. s \in SUBSET Nat /\ s # {}
    BY <1>1
  <2>2. \E m \in s : \A k \in s : m <= k
    BY <2>1, SmallestExists
  <2>. HIDE DEF s
  <2>. QED BY <2>2 DEF Min
<1>3. d \in Nat /\ d <= Len(addr) /\ d <= Levels
  BY <1>1, <1>2
<1>4. Path(addr, depth) = {SubSeq(addr, 1, i) : i \in 0 .. d}
  BY DEF Path
<1>. HIDE DEF d
<1>5. ASSUME NEW i \in 0 .. d PROVE SubSeq(addr, 1, i) \in NodesOf(config)
  <2>1. i \in Nat /\ i <= Len(addr) /\ i <= Levels
    BY <1>1, <1>3
  <2>. QED BY <2>1, PathsAreNodes DEF Levels, class
<1>. QED BY <1>3, <1>4, <1>5

LEMMA ScopesAreDepths ==
    ASSUME config \in Configs, NEW cmd \in Scope(config)
    PROVE  ScopeDepth(cmd) \in Nat
<1>. DEFINE l == class.scope[cmd]
<1>1. l \in {"Row", "Column"} \cup ToSet(class.levels) /\ Levels \in Nat /\ DOMAIN class.levels = 1 .. Levels
  <2>1. l \in {"Row", "Column"} \cup ToSet(class.levels)
    BY ConfigIs, TablesAssumption DEF Scope, class
  <2>. QED BY <2>1, ConfigIs, StandardIs DEF class, Levels
<1>. HIDE DEF l
<1>2. CASE l \notin {"Row", "Column"}
  <2>1. \E i \in DOMAIN class.levels : class.levels[i] = l
    BY <1>1, <1>2 DEF ToSet
  <2>2. (CHOOSE i \in DOMAIN class.levels : class.levels[i] = l) \in Nat
    BY <1>1, <2>1
  <2>. QED BY <1>2, <2>2 DEF ScopeDepth, DepthOf, LevelDepth, l
<1>3. CASE l = "Row"
  BY <1>1, <1>3 DEF ScopeDepth, DepthOf, Levels, l
<1>4. CASE l = "Column"
  BY <1>1, <1>4 DEF ScopeDepth, DepthOf, Levels, l
<1>. QED BY <1>2, <1>3, <1>4

LEMMA RulesAre ==
    ASSUME NEW std \in Standards, NEW rules, NEW l \in LevelsOf(std), NEW cmd \in DOMAIN ClassOf[std].scope,
           NEW u \in RulesByCommand(std, rules)[l][cmd]
    PROVE  \E q \in rules : q[1] = l /\ q[2] = cmd /\ q[3] = u
BY DEF RulesByCommand

LEMMA PrereqIs ==
    ASSUME config \in Configs, NEW n \in NodesOf(config), NEW cmd \in Scope(config),
           NEW u \in RuleAt(Prerequisites, n, cmd)
    PROVE  /\ u \in PrereqRules
           /\ u = "awake" => Len(n) = 1
           /\ Answers(u, cmd) \subseteq {"MAX"} \cup Issuable(config.std)
<1>1. config.std \in Standards /\ Level(n) \in LevelsOf(config.std)
  BY ConfigIs, NodeIs
<1>2. u \in RulesByCommand(config.std, PrereqOf[config.std])[Level(n)][cmd]
  BY <1>1 DEF RuleAt, Prerequisites
<1>3. PICK q \in PrereqOf[config.std] : q[1] = Level(n) /\ q[2] = cmd /\ q[3] = u
  BY <1>1, <1>2, RulesAre DEF Scope
<1>4. /\ q[3] \in PrereqRules
      /\ q[3] = "awake" => q[1] = "Rank"
  BY <1>1, TablesAssumption
<1>5. Answers(u, cmd) \subseteq {"MAX"} \cup Issuable(config.std)
  BY <1>3 DEF Issuable
<1>. QED BY <1>3, <1>4, <1>5, NodeIs

LEMMA EffectIs ==
    ASSUME config \in Configs, NEW n \in NodesOf(config), NEW cmd \in Scope(config),
           NEW u \in RuleAt(Lambdas, n, cmd)
    PROVE  Len(n) >= 1 /\ (Len(n) = 1 <=> u \in RankRules)
<1>1. config.std \in Standards /\ Level(n) \in LevelsOf(config.std)
  BY ConfigIs, NodeIs
<1>2. u \in RulesByCommand(config.std, EffectsOf[config.std])[Level(n)][cmd]
  BY <1>1 DEF RuleAt, Lambdas
<1>3. PICK q \in EffectsOf[config.std] : q[1] = Level(n) /\ q[2] = cmd /\ q[3] = u
  BY <1>1, <1>2, RulesAre DEF Scope
<1>4. q[1] # "Channel" /\ (q[1] = "Rank" <=> q[3] \in RankRules)
  BY <1>1, TablesAssumption
<1>5. Len(n) \in 0 .. Levels /\ (Level(n) = "Rank" <=> Len(n) = 1) /\ (Len(n) = 0 => Level(n) = "Channel")
  BY NodeIs
<1>. QED BY <1>3, <1>4, <1>5

LEMMA RequirementAnswers ==
    ASSUME NEW u \in PrereqRules, NEW n, NEW cmd, NEW addr, u = "awake" => state[n] \in Awake
    PROVE  Required(u, n, cmd, addr) \in Answers(u, cmd)
<1>1. CASE u = "awake"
  BY <1>1 DEF Required, Answers, Awake, PoweredDown
<1>2. CASE u \in {"row open", "subarray open", "row selected"}
  BY <1>2 DEF Required, Answers
<1>3. CASE u \in {"row open, by segment", "row open to migrate"}
  BY <1>3 DEF Required, Answers
<1>4. CASE u \in {"bank closed", "banks closed", "power down", "self refresh"}
  BY <1>4 DEF Required, Answers
<1>. QED BY <1>1, <1>2, <1>3, <1>4 DEF PrereqRules

LEMMA IssuableIs ==
    ASSUME config \in Configs
    PROVE  Issuable(config.std) \in SUBSET Scope(config)
BY ConfigIs, GapsAssumption DEF Scope

\* No case is missing in what the nodes ask for: decode() asks for commands of
\* the standard only.
LEMMA DecodeInScope ==
    ASSUME config \in Configs, DOMAIN state = NodesOf(config), RanksAwake,
           NEW addr \in Addresses(config), NEW cmd \in Issuable(config.std)
    PROVE  Decode(cmd, addr) \in Issuable(config.std)
<1>. DEFINE own(n) == {<<n, Required(u, n, cmd, addr)>> : u \in RuleAt(Prerequisites, n, cmd)}
            answers == UNION {own(n) : n \in Path(addr, Levels)}
            needs == {a \in answers : a[2] # "MAX"}
<1>1. \A n \in Path(addr, Levels) : n \in NodesOf(config) /\ Len(n) \in Nat
  <2>1. Levels \in Nat
    BY ConfigIs, StandardIs DEF Levels, class
  <2>2. PICK d \in Nat : /\ Path(addr, Levels) = {SubSeq(addr, 1, i) : i \in 0 .. d}
                          /\ \A i \in 0 .. d : SubSeq(addr, 1, i) \in NodesOf(config)
    BY <2>1, PathIs
  <2>3. \A n \in NodesOf(config) : Len(n) \in Nat
    BY <2>1, NodeIs
  <2>4. \A n \in Path(addr, Levels) : n \in NodesOf(config)
    BY <2>2
  <2>. QED BY <2>3, <2>4
<1>2. ASSUME NEW a \in needs PROVE a[2] \in Issuable(config.std) /\ Len(a[1]) \in Nat
  <2>1. PICK n \in Path(addr, Levels) : a \in own(n)
    OBVIOUS
  <2>2. PICK u \in RuleAt(Prerequisites, n, cmd) : a = <<n, Required(u, n, cmd, addr)>>
    BY <2>1
  <2>3. n \in NodesOf(config) /\ Len(n) \in Nat
    BY <1>1
  <2>4. u \in PrereqRules /\ (u = "awake" => Len(n) = 1) /\ Answers(u, cmd) \subseteq {"MAX"} \cup Issuable(config.std)
    BY <2>3, PrereqIs, IssuableIs
  <2>5. Required(u, n, cmd, addr) \in Answers(u, cmd)
    BY <2>3, <2>4, RequirementAnswers DEF RanksAwake
  <2>. QED BY <2>2, <2>3, <2>4, <2>5
<1>3. Decode(cmd, addr) = IF needs = {} THEN cmd
                          ELSE (CHOOSE a \in needs : \A b \in needs : Len(a[1]) <= Len(b[1]))[2]
  BY DEF Decode
<1>. HIDE DEF needs
<1>4. ASSUME needs # {} PROVE \E a \in needs : \A b \in needs : Len(a[1]) <= Len(b[1])
  <2>. DEFINE lengths == {Len(a[1]) : a \in needs}
  <2>1. lengths \in SUBSET Nat /\ lengths # {}
    BY <1>2, <1>4
  <2>2. PICK m \in lengths : \A k \in lengths : m <= k
    BY <2>1, SmallestExists
  <2>. QED BY <2>2
<1>. QED BY <1>2, <1>3, <1>4
-----------------------------------------------------------------------------
(* When a command is issued *)

LEMMA ReadyIs ==
    ASSUME TreeTyped, NEW addr \in Addresses(config), NEW cmd \in Scope(config)
    PROVE  /\ ReadyAt(cmd, addr) \in Int
           /\ \A n \in Path(addr, ScopeDepth(cmd)) : n \in NodesOf(config) /\ next[n][cmd] <= ReadyAt(cmd, addr)
<1>1. ScopeDepth(cmd) \in Nat
  BY ScopesAreDepths DEF TreeTyped
<1>2. PICK d \in Nat : /\ Path(addr, ScopeDepth(cmd)) = {SubSeq(addr, 1, i) : i \in 0 .. d}
                       /\ \A i \in 0 .. d : SubSeq(addr, 1, i) \in NodesOf(config)
  BY <1>1, PathIs DEF TreeTyped
<1>. DEFINE f == [i \in 0 .. d |-> next[SubSeq(addr, 1, i)][cmd]]
            s == {next[n][cmd] : n \in Path(addr, ScopeDepth(cmd))}
<1>3. f \in [0 .. d -> Int]
  BY <1>2 DEF TreeTyped
<1>4. PICK m \in 0 .. d : \A i \in 0 .. d : f[i] <= f[m]
  <2>1. IsFiniteSet(0 .. d) /\ 0 .. d # {}
    <3>1. 0 \in Int /\ d \in Int /\ 0 \in 0 .. d
      OBVIOUS
    <3>. QED BY <3>1, FS_Interval
  <2>. HIDE DEF f
  <2>. QED BY <1>3, <2>1, MostExists
<1>5. s = {f[i] : i \in 0 .. d}
  BY <1>2
<1>6. \A n \in Path(addr, ScopeDepth(cmd)) : n \in NodesOf(config)
  BY <1>2
<1>7. ReadyAt(cmd, addr) = Max(s) /\ \A n \in Path(addr, ScopeDepth(cmd)) : next[n][cmd] \in s
  BY DEF ReadyAt
<1>. HIDE DEF f, s
<1>8. s \in SUBSET Int /\ s # {} /\ f[m] \in Int /\ \A u \in s : u <= f[m]
  BY <1>3, <1>4, <1>5
<1>9. Max(s) \in Int /\ \A u \in s : Max(s) >= u
  BY <1>8, MaxOfBounded
<1>. QED BY <1>6, <1>7, <1>8, <1>9

\* The larger of two.
LEMMA LargerIs ==
    ASSUME NEW i \in Int, NEW j \in Int
    PROVE  Max({i, j}) \in Int /\ Max({i, j}) >= i /\ Max({i, j}) >= j
<1>1. PICK b \in Int : i <= b /\ j <= b
  <2>1. CASE i <= j
    BY <2>1
  <2>2. CASE ~(i <= j)
    BY <2>2
  <2>. QED BY <2>1, <2>2
<1>. QED BY <1>1, MaxOfBounded

\* Why decode() answers alike for a read and for a migration of a TLDRAM.
Stands(asked, cmd) == asked = cmd \/ (config.std = "TLDRAM" /\ <<asked, cmd>> \in StandIns)

\* The rules by which the bank of a TLDRAM answers the two.
ReadRule    == "row open, by segment"
MigrateRule == "row open to migrate"
RowRule(cmd) == IF cmd = "RD" THEN ReadRule ELSE MigrateRule

LEMMA MigrationTables ==
    ASSUME "TLDRAM" \in Standards
    PROVE  /\ ClassOf["TLDRAM"].levels = <<"Rank", "Bank">>
           /\ ClassOf["TLDRAM"].translate["READ"] = "RD" /\ ClassOf["TLDRAM"].translate["EXTENSION"] = "MIG"
           /\ {q \in PrereqOf["TLDRAM"] : q[2] = "RD"} = {<<"Rank", "RD", "awake">>, <<"Bank", "RD", ReadRule>>}
           /\ {q \in PrereqOf["TLDRAM"] : q[2] = "MIG"} = {<<"Rank", "MIG", "awake">>, <<"Bank", "MIG", MigrateRule>>}
           /\ \A p \in StandIns : ClassOf["TLDRAM"].scope[p[1]] = ClassOf["TLDRAM"].scope[p[2]]
           /\ \A k \in {l \in Keys : l.std = "TLDRAM"} : \A p \in StandIns :
                 \A t \in {e \in TimingEntries(k.std, SpeedEntry[k]) : e.next = p[2]} :
                 \E u \in TimingEntries(k.std, SpeedEntry[k]) :
                     /\ u.next = p[1] /\ u.prev = t.prev /\ u.level = t.level /\ u.sib = t.sib
                     /\ u.dist <= t.dist /\ u.val >= t.val
BY Zenon, StandInsAssumption DEF ReadRule, MigrateRule

LEMMA RulesOfRow ==
    ASSUME config \in Configs, config.std = "TLDRAM", NEW n \in NodesOf(config), NEW cmd \in {"RD", "MIG"}
    PROVE  /\ Len(n) \in 0 .. 2
           /\ Len(n) = 0 => RuleAt(Prerequisites, n, cmd) = {}
           /\ Len(n) = 1 => RuleAt(Prerequisites, n, cmd) = {"awake"}
           /\ Len(n) = 2 => RuleAt(Prerequisites, n, cmd) = {RowRule(cmd)}
<1>0. "TLDRAM" \in Standards
  BY ConfigIs
<1>1. /\ class.levels = <<"Rank", "Bank">> /\ Levels = 2
      /\ {q \in PrereqOf["TLDRAM"] : q[2] = cmd} = {<<"Rank", cmd, "awake">>, <<"Bank", cmd, RowRule(cmd)>>}
  <2>1. class.levels = <<"Rank", "Bank">> /\ Levels = 2
    <3>1. ClassOf["TLDRAM"].levels = <<"Rank", "Bank">>
      BY <1>0, MigrationTables
    <3>. QED BY <3>1 DEF class, Levels
  <2>2. CASE cmd = "RD"
    <3>1. RowRule(cmd) = ReadRule
      BY <2>2 DEF RowRule
    <3>2. {q \in PrereqOf["TLDRAM"] : q[2] = "RD"} = {<<"Rank", "RD", "awake">>, <<"Bank", "RD", ReadRule>>}
      BY <1>0, MigrationTables
    <3>. QED BY <2>1, <2>2, <3>1, <3>2
  <2>3. CASE cmd = "MIG"
    <3>1. RowRule(cmd) = MigrateRule
      BY <2>3 DEF RowRule
    <3>2. {q \in PrereqOf["TLDRAM"] : q[2] = "MIG"} = {<<"Rank", "MIG", "awake">>, <<"Bank", "MIG", MigrateRule>>}
      BY <1>0, MigrationTables
    <3>. QED BY <2>1, <2>3, <3>1, <3>2
  <2>. QED BY <2>1, <2>2, <2>3
<1>2. cmd \in Scope(config)
  <2>1. /\ "EXTENSION" \in DOMAIN ClassOf["TLDRAM"].translate /\ "READ" \in DOMAIN ClassOf["TLDRAM"].translate
        /\ \A c \in DOMAIN ClassOf["TLDRAM"].translate : ClassOf["TLDRAM"].translate[c] \in Scope(config)
    BY <1>0, TablesAssumption DEF Scope
  <2>. QED BY <1>0, <2>1, MigrationTables
<1>3. /\ Len(n) \in 0 .. 2 /\ Level(n) \in LevelsOf(config.std)
      /\ Len(n) = 0 => Level(n) = "Channel"
      /\ Len(n) = 1 => Level(n) = "Rank"
  BY <1>1, NodeIs
<1>4. Len(n) = 2 => Level(n) = "Bank"
  <2>. SUFFICES ASSUME Len(n) = 2 PROVE Level(n) = "Bank"
    OBVIOUS
  <2>1. n # <<>>
    OBVIOUS
  <2>. QED BY <1>1, <2>1 DEF Level
<1>5. RuleAt(Prerequisites, n, cmd) =
        {q[3] : q \in {p \in PrereqOf["TLDRAM"] : p[1] = Level(n) /\ p[2] = cmd}}
  BY <1>0, <1>2, <1>3 DEF RuleAt, Prerequisites, RulesByCommand, Scope
<1>. DEFINE both == {<<"Rank", cmd, "awake">>, <<"Bank", cmd, RowRule(cmd)>>}
<1>6. {p \in PrereqOf["TLDRAM"] : p[1] = Level(n) /\ p[2] = cmd} = {p \in both : p[1] = Level(n)}
  BY <1>1
<1>7. /\ Level(n) = "Channel" => {p \in both : p[1] = Level(n)} = {}
      /\ Level(n) = "Rank" => {p \in both : p[1] = Level(n)} = {<<"Rank", cmd, "awake">>}
      /\ Level(n) = "Bank" => {p \in both : p[1] = Level(n)} = {<<"Bank", cmd, RowRule(cmd)>>}
  OBVIOUS
<1>. HIDE DEF both
<1>8. RuleAt(Prerequisites, n, cmd) = {q[3] : q \in {p \in both : p[1] = Level(n)}}
  BY <1>5, <1>6
<1>9. /\ Level(n) = "Channel" => RuleAt(Prerequisites, n, cmd) = {}
      /\ Level(n) = "Rank" => RuleAt(Prerequisites, n, cmd) = {"awake"}
      /\ Level(n) = "Bank" => RuleAt(Prerequisites, n, cmd) = {RowRule(cmd)}
  <2>1. Level(n) = "Channel" => RuleAt(Prerequisites, n, cmd) = {}
    BY <1>7, <1>8
  <2>2. \A q : {x[3] : x \in {q}} = {q[3]}
    OBVIOUS
  <2>3. /\ <<"Rank", cmd, "awake">>[3] = "awake"
        /\ <<"Bank", cmd, RowRule(cmd)>>[3] = RowRule(cmd)
    OBVIOUS
  <2>4. Level(n) = "Rank" => RuleAt(Prerequisites, n, cmd) = {"awake"}
    BY <1>7, <1>8, <2>2, <2>3
  <2>5. Level(n) = "Bank" => RuleAt(Prerequisites, n, cmd) = {RowRule(cmd)}
    BY <1>7, <1>8, <2>2, <2>3
  <2>. QED BY <2>1, <2>4, <2>5
<1>. QED BY <1>3, <1>4, <1>9

LEMMA RowsDecoded ==
    ASSUME config \in Configs, config.std = "TLDRAM", NEW addr \in Addresses(config), NEW cmd \in {"RD", "MIG"},
           NEW d \in Nat, d <= 2, Path(addr, Levels) = {SubSeq(addr, 1, i) : i \in 0 .. d},
           \A i \in 0 .. d : SubSeq(addr, 1, i) \in NodesOf(config) /\ Len(SubSeq(addr, 1, i)) = i
    PROVE  LET rank == Required("awake", SubSeq(addr, 1, 1), cmd, addr)
               bank == Required(RowRule(cmd), SubSeq(addr, 1, 2), cmd, addr)
           IN  Decode(cmd, addr) = IF d >= 1 /\ rank # "MAX" THEN rank ELSE IF d = 2 /\ bank # "MAX" THEN bank ELSE cmd
<1>. DEFINE n(i) == SubSeq(addr, 1, i)
            own(m) == {<<m, Required(u, m, cmd, addr)>> : u \in RuleAt(Prerequisites, m, cmd)}
            rank == Required("awake", n(1), cmd, addr)
            bank == Required(RowRule(cmd), n(2), cmd, addr)
            needs == {a \in UNION {own(m) : m \in Path(addr, Levels)} : a[2] # "MAX"}
            first == CHOOSE a \in needs : \A b \in needs : Len(a[1]) <= Len(b[1])
<1>1. Decode(cmd, addr) = IF needs = {} THEN cmd ELSE first[2]
  BY DEF Decode
<1>2. \A m \in Path(addr, Levels) : \E i \in 0 .. d : m = n(i)
  OBVIOUS
<1>3. \A i \in 0 .. d : n(i) \in Path(addr, Levels) /\ n(i) \in NodesOf(config) /\ Len(n(i)) = i
  OBVIOUS
<1>. HIDE DEF n
<1>4. \A i \in 0 .. d :
          /\ i = 0 => own(n(i)) = {}
          /\ i = 1 => own(n(i)) = {<<n(1), rank>>}
          /\ i = 2 => own(n(i)) = {<<n(2), bank>>}
  <2>. SUFFICES ASSUME NEW i \in 0 .. d
                PROVE  /\ i = 0 => own(n(i)) = {}
                       /\ i = 1 => own(n(i)) = {<<n(1), rank>>}
                       /\ i = 2 => own(n(i)) = {<<n(2), bank>>}
    OBVIOUS
  <2>1. /\ i = 0 => RuleAt(Prerequisites, n(i), cmd) = {}
        /\ i = 1 => RuleAt(Prerequisites, n(i), cmd) = {"awake"}
        /\ i = 2 => RuleAt(Prerequisites, n(i), cmd) = {RowRule(cmd)}
    BY <1>3, RulesOfRow
  <2>. QED BY <2>1
<1>. HIDE DEF own
<1>5. ASSUME NEW a \in needs
      PROVE  (d >= 1 /\ a = <<n(1), rank>>) \/ (d = 2 /\ a = <<n(2), bank>>)
  <2>1. PICK m \in Path(addr, Levels) : a \in own(m)
    OBVIOUS
  <2>2. PICK i \in 0 .. d : m = n(i)
    BY <1>2
  <2>3. i = 0 \/ i = 1 \/ i = 2
    OBVIOUS
  <2>. QED BY <1>4, <2>1, <2>2, <2>3
<1>6. d >= 1 /\ rank # "MAX" => <<n(1), rank>> \in needs
  <2>. SUFFICES ASSUME d >= 1, rank # "MAX" PROVE <<n(1), rank>> \in needs
    OBVIOUS
  <2>. HIDE DEF rank
  <2>1. 1 \in 0 .. d /\ n(1) \in Path(addr, Levels) /\ <<n(1), rank>> \in own(n(1))
    BY <1>3, <1>4 DEF rank
  <2>. QED BY <2>1
<1>7. d = 2 /\ bank # "MAX" => <<n(2), bank>> \in needs
  <2>. SUFFICES ASSUME d = 2, bank # "MAX" PROVE <<n(2), bank>> \in needs
    OBVIOUS
  <2>. HIDE DEF bank
  <2>1. 2 \in 0 .. d /\ n(2) \in Path(addr, Levels) /\ <<n(2), bank>> \in own(n(2))
    BY <1>3, <1>4 DEF bank
  <2>. QED BY <2>1
<1>8. \A a \in needs : a[2] # "MAX"
  OBVIOUS
<1>9. /\ d >= 1 => Len(n(1)) = 1
      /\ d = 2 => Len(n(2)) = 2
  <2>1. (d >= 1 => 1 \in 0 .. d) /\ (d = 2 => 2 \in 0 .. d)
    OBVIOUS
  <2>. QED BY <1>3, <2>1
<1>. HIDE DEF rank, bank, needs
<1>10. CASE d >= 1 /\ rank # "MAX"
  <2>1. \A b \in needs : Len(n(1)) <= Len(b[1])
    BY <1>5, <1>9, <1>10
  <2>2. \A a \in needs : (\A b \in needs : Len(a[1]) <= Len(b[1])) => a = <<n(1), rank>>
    BY <1>5, <1>6, <1>9, <1>10
  <2>3. first = <<n(1), rank>>
    BY <1>6, <1>10, <2>1, <2>2
  <2>. HIDE DEF first
  <2>. QED BY <1>1, <1>6, <1>10, <2>3 DEF rank, n
<1>11. CASE ~(d >= 1 /\ rank # "MAX") /\ d = 2 /\ bank # "MAX"
  <2>1. needs = {<<n(2), bank>>}
    BY <1>5, <1>7, <1>8, <1>11
  <2>2. first = <<n(2), bank>>
    BY <2>1, <1>9, <1>11
  <2>. HIDE DEF first
  <2>. QED BY <1>1, <1>11, <2>1, <2>2 DEF rank, bank, n
<1>12. CASE ~(d >= 1 /\ rank # "MAX") /\ ~(d = 2 /\ bank # "MAX")
  <2>1. needs = {}
    BY <1>5, <1>8, <1>12
  <2>. HIDE DEF first
  <2>. QED BY <1>1, <1>12, <2>1 DEF rank, bank, n
<1>. HIDE DEF first
<1>. QED BY <1>10, <1>11, <1>12 DEF rank, bank, n

\* A read and a migration ask for what stands in for each other.
LEMMA MigrationStandsIn ==
    ASSUME TreeTyped, RanksAwake, config.std = "TLDRAM", NEW addr \in Addresses(config)
    PROVE  Stands(Decode("RD", addr), Decode("MIG", addr))
<1>1. Levels = 2
  <2>1. "TLDRAM" \in Standards
    BY ConfigIs DEF TreeTyped
  <2>2. class.levels = <<"Rank", "Bank">>
    BY <2>1, MigrationTables DEF class
  <2>. QED BY <2>2 DEF Levels
<1>2. PICK d \in Nat : /\ d <= Len(addr) /\ d <= Levels
                       /\ Path(addr, Levels) = {SubSeq(addr, 1, i) : i \in 0 .. d}
                       /\ \A i \in 0 .. d : SubSeq(addr, 1, i) \in NodesOf(config)
  BY <1>1, PathIs DEF TreeTyped
<1>3. \A i \in 0 .. d : SubSeq(addr, 1, i) \in NodesOf(config) /\ Len(SubSeq(addr, 1, i)) = i
  <2>1. \A i \in 0 .. d : i \in Nat /\ i <= Len(addr) /\ i <= Levels
    BY <1>1, <1>2, PathsAreNodes DEF TreeTyped
  <2>. QED BY <1>2, <2>1, PathsAreNodes DEF TreeTyped, Levels, class
<1>. DEFINE rank(cmd) == Required("awake", SubSeq(addr, 1, 1), cmd, addr)
            read == Required(RowRule("RD"), SubSeq(addr, 1, 2), "RD", addr)
            migrated == Required(RowRule("MIG"), SubSeq(addr, 1, 2), "MIG", addr)
<1>4. /\ Decode("RD", addr) = IF d >= 1 /\ rank("RD") # "MAX" THEN rank("RD")
                                 ELSE IF d = 2 /\ read # "MAX" THEN read ELSE "RD"
      /\ Decode("MIG", addr) = IF d >= 1 /\ rank("MIG") # "MAX" THEN rank("MIG")
                                  ELSE IF d = 2 /\ migrated # "MAX" THEN migrated ELSE "MIG"
  <2>. HIDE DEF rank
  <2>1. config \in Configs /\ d <= 2
    BY <1>1, <1>2 DEF TreeTyped
  <2>2. Decode("RD", addr) = IF d >= 1 /\ rank("RD") # "MAX" THEN rank("RD")
                                 ELSE IF d = 2 /\ read # "MAX" THEN read ELSE "RD"
    BY <1>2, <1>3, <2>1, RowsDecoded DEF rank
  <2>3. Decode("MIG", addr) = IF d >= 1 /\ rank("MIG") # "MAX" THEN rank("MIG")
                                  ELSE IF d = 2 /\ migrated # "MAX" THEN migrated ELSE "MIG"
    BY <1>2, <1>3, <2>1, RowsDecoded DEF rank
  <2>. QED BY <2>2, <2>3
<1>5. d >= 1 => rank("RD") = rank("MIG")
  <2>. SUFFICES ASSUME d >= 1 PROVE rank("RD") = rank("MIG")
    OBVIOUS
  <2>1. SubSeq(addr, 1, 1) \in NodesOf(config) /\ Len(SubSeq(addr, 1, 1)) = 1
    BY <1>3
  <2>2. state[SubSeq(addr, 1, 1)] \in Awake
    BY <2>1 DEF RanksAwake
  <2>. QED BY <2>2 DEF Required, Awake, PoweredDown
<1>6. <<read, migrated>> \in StandIns /\ read # "MAX" /\ migrated # "MAX"
  <2>1. RowRule("RD") = "row open, by segment" /\ RowRule("MIG") = "row open to migrate"
    BY DEF RowRule, ReadRule, MigrateRule
  <2>. QED BY <2>1 DEF Required, StandIns
<1>7. <<"RD", "MIG">> \in StandIns
  BY DEF StandIns
<1>. HIDE DEF rank, read, migrated
<1>. QED BY <1>4, <1>5, <1>6, <1>7 DEF Stands

LEMMA CommandIs ==
    ASSUME TreeTyped, RanksAwake, NEW r \in Requests(config)
    PROVE  /\ r[2] \in Addresses(config)
           /\ Asked(r[1], r[2]) \in Issuable(config.std) /\ Issued(r[1], r[2]) \in Issuable(config.std)
           /\ Stands(Asked(r[1], r[2]), Issued(r[1], r[2]))
<1>1. r[2] \in Addresses(config) /\ config \in Configs /\ DOMAIN state = NodesOf(config)
  BY DEF Addresses, TreeTyped
<1>2. config.std \in Standards
  BY <1>1, ConfigIs
<1>3. r[1] \in DOMAIN class.translate
  <2>1. /\ r[1] \in {"READ", "WRITE", "REFRESH", "POWERDOWN", "SELFREFRESH", "EXTENSION"}
        /\ r[1] = "EXTENSION" => config.std = "TLDRAM"
    BY <1>1, RequestIs
  <2>2. /\ {"READ", "WRITE", "REFRESH", "POWERDOWN", "SELFREFRESH"} \subseteq DOMAIN ClassOf[config.std].translate
        /\ config.std = "TLDRAM" => "EXTENSION" \in DOMAIN ClassOf[config.std].translate
    BY <1>2, TablesAssumption
  <2>. QED BY <2>1, <2>2 DEF class
<1>4. Asked(r[1], r[2]) \in Issuable(config.std)
  <2>1. class.translate[r[1]] \in Issuable(config.std)
    BY <1>3 DEF Issuable, class
  <2>. QED BY <1>1, <2>1, DecodeInScope DEF Asked
<1>5. ASSUME config.std = "TLDRAM", r[1] = "READ"
      PROVE  Decode("MIG", r[2]) \in Issuable(config.std) /\ Stands(Asked(r[1], r[2]), Decode("MIG", r[2]))
  <2>1. class.translate["READ"] = "RD" /\ "MIG" \in Issuable(config.std)
    BY <1>2, <1>5, MigrationTables, TablesAssumption DEF class, Issuable
  <2>2. Stands(Decode("RD", r[2]), Decode("MIG", r[2]))
    BY <1>1, <1>5, MigrationStandsIn
  <2>. QED BY <1>1, <1>5, <2>1, <2>2, DecodeInScope DEF Asked
<1>. QED BY <1>1, <1>4, <1>5 DEF Issued, Stands
-----------------------------------------------------------------------------
(* What a command does to the states of the nodes *)

LEMMA WhereIs ==
    ASSUME TreeTyped, NEW addr \in Addresses(config), NEW cmd \in Scope(config), NEW u,
           NEW n \in Where(cmd, addr, u)
    PROVE  n \in NodesOf(config) /\ Len(n) \in Nat /\ Len(n) >= 1 /\ (Len(n) = 1 <=> u \in RankRules)
<1>1. n \in NodesOf(config) /\ u \in RuleAt(Lambdas, n, cmd)
  BY ReadyIs DEF Where
<1>2. Len(n) \in 0 .. Levels /\ Levels \in Nat
  BY <1>1, NodeIs, ConfigIs, StandardIs DEF TreeTyped, Levels, class
<1>. QED BY <1>1, <1>2, EffectIs DEF TreeTyped

LEMMA RanksStayAwake ==
    ASSUME TreeTyped, RanksAwake, NEW addr \in Addresses(config), NEW cmd \in Scope(config),
           UpdateState(cmd, addr), config' = config
    PROVE  DOMAIN state' = NodesOf(config) /\ RanksAwake'
<1>1. DOMAIN state' = NodesOf(config) /\ Nodes = NodesOf(config)
  BY DEF UpdateState, Nodes, TreeTyped
<1>2. ASSUME NEW n \in NodesOf(config), Len(n) = 1 PROVE state'[n] \in Awake
  <2>1. state[n] \in Awake
    BY <1>2 DEF RanksAwake
  <2>2. \A u : u \notin RankRules => n \notin Where(cmd, addr, u)
    BY <1>2, WhereIs
  <2>3. n \notin Shut(cmd, addr)
    <3>1. "close" \notin RankRules /\ "close with subarrays" \notin RankRules
      BY DEF RankRules
    <3>2. ASSUME NEW u, NEW m \in Where(cmd, addr, u) PROVE n \notin Below(m)
      <4>1. Len(m) \in Nat /\ Len(m) >= 1
        BY WhereIs
      <4>2. ~(Len(n) > Len(m))
        BY <1>2, <4>1
      <4>. QED BY <4>2 DEF Below
    <3>. QED BY <2>2, <3>1, <3>2 DEF Shut
  <2>4. n \notin Selects(cmd, addr) /\ n \notin Where(cmd, addr, "open")
    BY <2>2 DEF Selects, RankRules
  <2>5. n \notin Unselected(cmd, addr)
    BY <2>1 DEF Unselected, Awake, PoweredDown
  <2>6. StateAfter(cmd, addr, n) \in Awake
    <3>1. state[n] \in Awake /\ "PowerUp" \in Awake /\ "SelfRefresh" \in Awake
          /\ "PrePowerDown" \in Awake /\ "ActPowerDown" \in Awake
      BY <2>1 DEF Awake, PoweredDown
    <3>. QED BY <2>3, <2>4, <2>5, <3>1, ZenonT(40) DEF StateAfter
  <2>. QED BY <1>1, <2>6 DEF UpdateState
<1>. QED BY <1>1, <1>2 DEF RanksAwake
-----------------------------------------------------------------------------
(* What a command does to the times in next *)

Own(n, cmd) == {e \in Distances : e.level = Level(n) /\ e.prev = cmd}

LEMMA DistancesAre ==
    ASSUME TreeTyped
    PROVE  /\ IsFiniteSet(Distances)
           /\ \A e \in Distances : /\ e.prev \in Scope(config) /\ e.next \in Scope(config)
                                   /\ e.val \in Int /\ e.dist \in Nat \ {0} /\ e.sib \in BOOLEAN
<1>1. key \in Keys /\ key.std = config.std
  BY ConfigIs DEF TreeTyped, key
<1>2. LET entries == TimingEntries(key.std, SpeedEntry[key]) IN
        /\ IsFiniteSet(entries)
        /\ \A e \in entries :
               /\ e.prev \in DOMAIN ClassOf[key.std].scope /\ e.next \in DOMAIN ClassOf[key.std].scope
               /\ e.val \in Int /\ e.dist \in Nat \ {0} /\ e.sib \in BOOLEAN
  BY <1>1, TablesAssumption
<1>. QED BY <1>1, <1>2 DEF Distances, Scope

LEMMA TimingIs ==
    ASSUME TreeTyped, NEW n \in NodesOf(config), NEW cmd \in Scope(config)
    PROVE  /\ DOMAIN Timings[key][Level(n)][cmd] = {e.next : e \in Own(n, cmd)}
           /\ \A c \in DOMAIN Timings[key][Level(n)][cmd] :
                 Timings[key][Level(n)][cmd][c] = {e \in Own(n, cmd) : e.next = c}
<1>1. key \in Keys /\ key.std = config.std /\ Level(n) \in LevelsOf(config.std)
  BY ConfigIs, NodeIs DEF TreeTyped, key
<1>2. Timings[key] = TimingByCommand(config.std, Distances)
  BY <1>1 DEF Timings, Distances
<1>3. Timings[key][Level(n)][cmd] =
        [c \in {e.next : e \in Own(n, cmd)} |-> {e \in Own(n, cmd) : e.next = c}]
  BY <1>1, <1>2 DEF TimingByCommand, Own, Scope
<1>. QED BY <1>3

LEMMA LogIs ==
    ASSUME TreeTyped, NEW i \in DOMAIN log
    PROVE  /\ log[i] \in Issues(config) /\ log[i].clk \in Int /\ log[i].clk <= clk
           /\ i \in 1 .. Len(log) /\ DOMAIN log = 1 .. Len(log) /\ Len(log) \in Nat
<1>1. log \in Seq(Issues(config)) /\ log[i].clk <= clk
  BY DEF TreeTyped
<1>2. log[i] \in Issues(config) /\ i \in 1 .. Len(log) /\ DOMAIN log = 1 .. Len(log) /\ Len(log) \in Nat
  BY <1>1
<1>. QED BY <1>1, <1>2 DEF Issues

LEMMA PastIs ==
    ASSUME TreeTyped, NEW n, NEW cmd, NEW dist, NEW at \in Int, clk < at, NEW u \in Past(n, cmd, dist, at)
    PROVE  u \in Int /\ u <= at
<1>1. u = at \/ \E i \in DOMAIN log : u = log[i].clk
  BY DEF Past, Received
<1>2. CASE u = at
  BY <1>2
<1>3. CASE \E i \in DOMAIN log : u = log[i].clk
  <2>1. PICK i \in DOMAIN log : u = log[i].clk
    BY <1>3
  <2>2. u \in Int /\ u <= clk /\ clk \in Int
    BY <2>1, LogIs DEF TreeTyped
  <2>. QED BY <2>2
<1>. QED BY <1>1, <1>2, <1>3

LEMMA NextIs ==
    ASSUME TreeTyped, NEW addr, NEW cmd \in Scope(config), NEW at \in Int, clk < at,
           UpdateTiming(cmd, addr, at), NEW n \in NodesOf(config), NEW c \in Scope(config)
    PROVE  /\ next'[n][c] \in Int /\ next'[n][c] >= next[n][c]
           /\ \A t \in Own(n, cmd) : t.next = c =>
                 /\ IsPrefix(n, addr) /\ ~t.sib =>
                        \A u \in Past(n, cmd, t.dist, at) : next'[n][c] >= u + t.val
                 /\ ~IsPrefix(n, addr) /\ IsPrefix(Front(n), addr) /\ t.sib => next'[n][c] >= at + t.val
<1>. DEFINE entries == Timings[key][Level(n)][cmd]
            target == IsPrefix(n, addr)
            raised == IF target THEN Futures(n, cmd, entries[c], at) ELSE SiblingFutures(entries[c], at)
            times == {next[n][c]} \cup raised
<1>1. /\ n \in Nodes /\ next[n] \in [Scope(config) -> Int] /\ next[n][c] \in Int /\ DOMAIN next[n] = Scope(config)
  BY DEF TreeTyped, Nodes
<1>2. /\ DOMAIN entries = {e.next : e \in Own(n, cmd)}
      /\ \A d \in DOMAIN entries : entries[d] = {e \in Own(n, cmd) : e.next = d}
  BY TimingIs
<1>3. next'[n] = IF ~target /\ ~IsPrefix(Front(n), addr) THEN next[n]
                 ELSE [d \in DOMAIN next[n] |->
                        IF d \notin DOMAIN entries THEN next[n][d]
                        ELSE Max({next[n][d]} \cup IF target THEN Futures(n, cmd, entries[d], at)
                                                           ELSE SiblingFutures(entries[d], at))]
  BY <1>1 DEF UpdateTiming
<1>. HIDE DEF entries
<1>4. CASE ~target /\ ~IsPrefix(Front(n), addr)
  BY <1>1, <1>3, <1>4
<1>5. CASE (target \/ IsPrefix(Front(n), addr)) /\ c \notin DOMAIN entries
  <2>1. next'[n][c] = next[n][c]
    BY <1>1, <1>3, <1>5
  <2>2. \A t \in Own(n, cmd) : t.next # c
    BY <1>2, <1>5
  <2>. QED BY <1>1, <2>1, <2>2
<1>6. CASE (target \/ IsPrefix(Front(n), addr)) /\ c \in DOMAIN entries
  <2>1. next'[n][c] = Max(times)
    BY <1>1, <1>3, <1>6
  <2>2. entries[c] = {e \in Own(n, cmd) : e.next = c} /\ entries[c] # {} /\ entries[c] \in SUBSET Distances
    BY <1>2, <1>6 DEF Own
  <2>3. PICK most \in Distances : \A e \in Distances : e.val <= most.val
    <3>. DEFINE f == [e \in Distances |-> e.val]
    <3>1. IsFiniteSet(Distances) /\ Distances # {} /\ f \in [Distances -> Int]
      BY <2>2, DistancesAre
    <3>2. PICK d \in Distances : \A e \in Distances : f[e] <= f[d]
      BY <3>1, MostExists
    <3>. QED BY <3>2
  <2>4. \A e \in Distances : e.val \in Int /\ e.sib \in BOOLEAN
    BY DistancesAre
  <2>5. \A u \in raised : u \in Int /\ u <= at + most.val
    <3>1. ASSUME NEW e \in Distances, NEW u \in Past(n, cmd, e.dist, at)
          PROVE  u + e.val \in Int /\ u + e.val <= at + most.val
      <4>1. u \in Int /\ u <= at
        BY PastIs
      <4>. QED BY <2>3, <2>4, <4>1
    <3>2. ASSUME NEW e \in Distances PROVE at + e.val \in Int /\ at + e.val <= at + most.val
      BY <2>3, <2>4
    <3>3. \A u \in Futures(n, cmd, entries[c], at) : \E e \in entries[c] : \E v \in Past(n, cmd, e.dist, at) : u = v + e.val
      BY DEF Futures
    <3>4. \A u \in SiblingFutures(entries[c], at) : \E e \in entries[c] : u = at + e.val
      BY DEF SiblingFutures
    <3>. QED BY <2>2, <3>1, <3>2, <3>3, <3>4
  <2>6. PICK b \in Int : next[n][c] <= b /\ at + most.val <= b
    <3>1. at + most.val \in Int
      BY <2>4
    <3>. QED BY <1>1, <3>1, LargerIs
  <2>7. times \in SUBSET Int /\ times # {} /\ \A u \in times : u <= b
    <3>1. at + most.val \in Int
      BY <2>4
    <3>. HIDE DEF raised
    <3>. QED BY <1>1, <2>5, <2>6, <3>1
  <2>8. Max(times) \in Int /\ \A u \in times : Max(times) >= u
    <3>. HIDE DEF times
    <3>. QED BY <2>7, MaxOfBounded
  <2>9. ASSUME NEW t \in Own(n, cmd), t.next = c
        PROVE  /\ target /\ ~t.sib => \A u \in Past(n, cmd, t.dist, at) : u + t.val \in raised
               /\ ~target /\ t.sib => at + t.val \in raised
    <3>1. t \in entries[c]
      BY <2>2, <2>9
    <3>2. ASSUME target, ~t.sib, NEW u \in Past(n, cmd, t.dist, at) PROVE u + t.val \in raised
      BY <3>1, <3>2 DEF Futures
    <3>3. ASSUME ~target, t.sib PROVE at + t.val \in raised
      BY <3>1, <3>3 DEF SiblingFutures
    <3>. QED BY <3>2, <3>3
  <2>. HIDE DEF raised
  <2>. QED BY <1>1, <2>1, <2>8, <2>9
<1>. QED BY <1>4, <1>5, <1>6
-----------------------------------------------------------------------------
(* The next command: it is bound by those that next remembers, and adds itself *)

\* What one command does, as far as the times are concerned.
Advance(cmd, addr, at) ==
    /\ addr \in Addresses(config) /\ cmd \in Issuable(config.std) /\ at \in Int /\ clk < at
    /\ UpdateTiming(cmd, addr, at)
    /\ clk' = at
    /\ log' = Append(log, [cmd |-> cmd, addr |-> addr, clk |-> at])
    /\ UNCHANGED <<config, speed_entry>>

LEMMA LogAfter ==
    ASSUME TreeTyped, NEW cmd, NEW addr, NEW at, Advance(cmd, addr, at)
    PROVE  /\ log' \in Seq(Issues(config)) /\ Len(log) \in Nat /\ DOMAIN log = 1 .. Len(log)
           /\ Len(log') = Len(log) + 1 /\ DOMAIN log' = 1 .. Len(log) + 1
           /\ \A i \in 1 .. Len(log) : log'[i] = log[i]
           /\ log'[Len(log) + 1] = [cmd |-> cmd, addr |-> addr, clk |-> at]
           /\ \A i \in 1 .. Len(log) + 1 : log'[i].clk \in Int /\ log'[i].clk <= at
<1>. DEFINE new == [cmd |-> cmd, addr |-> addr, clk |-> at]
<1>1. log \in Seq(Issues(config)) /\ new \in Issues(config) /\ log' = Append(log, new)
  BY DEF TreeTyped, Advance, Issues
<1>2. new.clk = at
  OBVIOUS
<1>. HIDE DEF new
<1>3. /\ log' \in Seq(Issues(config)) /\ Len(log) \in Nat /\ DOMAIN log = 1 .. Len(log)
      /\ Len(log') = Len(log) + 1 /\ DOMAIN log' = 1 .. Len(log) + 1
      /\ \A i \in 1 .. Len(log) : log'[i] = log[i]
      /\ log'[Len(log) + 1] = new
  BY <1>1
<1>4. ASSUME NEW i \in 1 .. Len(log) + 1 PROVE log'[i].clk \in Int /\ log'[i].clk <= at
  <2>1. CASE i \in 1 .. Len(log)
    <3>1. log[i].clk \in Int /\ log[i].clk <= clk /\ clk \in Int
      BY <1>3, <2>1, LogIs DEF TreeTyped
    <3>. QED BY <1>3, <2>1, <3>1 DEF Advance
  <2>2. CASE i = Len(log) + 1
    BY <1>2, <1>3, <2>2 DEF Advance
  <2>. QED BY <1>3, <2>1, <2>2
<1>. QED BY <1>3, <1>4 DEF new

LEMMA NextCoversMore ==
    ASSUME TreeTyped, NextCovers, NEW cmd, NEW addr, NEW at, Advance(cmd, addr, at),
           NEW n \in NodesOf(config), NEW t \in Distances, NEW i \in DOMAIN log',
           t.level = Level(n), Binds(log', i, n, t, Len(log'))
    PROVE  next'[n][t.next] >= log'[i].clk + t.val
<1>. DEFINE L == Len(log)
            c == t.next
            Hit(l, j) == l[j].cmd = t.prev /\ IsPrefix(n, l[j].addr)
            before == {j \in i .. L : Hit(log, j)}
            after == {j \in i .. L + 1 : Hit(log', j)}
<1>1. /\ L \in Nat /\ DOMAIN log = 1 .. L /\ Len(log') = L + 1 /\ i \in 1 .. L + 1
      /\ \A j \in 1 .. L : log'[j] = log[j]
      /\ log'[L + 1].cmd = cmd /\ log'[L + 1].addr = addr /\ log'[L + 1].clk = at
      /\ log'[i].clk \in Int /\ log'[i].clk <= at
  <2>. DEFINE new == [cmd |-> cmd, addr |-> addr, clk |-> at]
  <2>1. /\ Len(log) \in Nat /\ DOMAIN log = 1 .. Len(log)
        /\ Len(log') = Len(log) + 1 /\ DOMAIN log' = 1 .. Len(log) + 1
        /\ \A j \in 1 .. Len(log) : log'[j] = log[j]
        /\ log'[Len(log) + 1] = new
        /\ \A j \in 1 .. Len(log) + 1 : log'[j].clk \in Int /\ log'[j].clk <= at
    BY LogAfter
  <2>2. new.cmd = cmd /\ new.addr = addr /\ new.clk = at
    OBVIOUS
  <2>. HIDE DEF new
  <2>. QED BY <2>1, <2>2
<1>2. t.prev \in Scope(config) /\ c \in Scope(config) /\ t.val \in Int /\ t.dist \in Nat \ {0} /\ t.sib \in BOOLEAN
  BY DistancesAre
<1>3. /\ addr \in Addresses(config) /\ cmd \in Scope(config) /\ at \in Int /\ clk < at /\ clk \in Int
      /\ UpdateTiming(cmd, addr, at)
  BY IssuableIs DEF Advance, TreeTyped
<1>4. next[n][c] \in Int
  BY <1>2 DEF TreeTyped
<1>5. /\ next'[n][c] \in Int /\ next'[n][c] >= next[n][c]
      /\ \A e \in Own(n, cmd) : e.next = c =>
            /\ IsPrefix(n, addr) /\ ~e.sib =>
                   \A u \in Past(n, cmd, e.dist, at) : next'[n][c] >= u + e.val
            /\ ~IsPrefix(n, addr) /\ IsPrefix(Front(n), addr) /\ e.sib => next'[n][c] >= at + e.val
  BY <1>2, <1>3, NextIs
<1>6. t.prev = cmd => t \in Own(n, cmd)
  BY DEF Own
<1>7. CASE i \in 1 .. L /\ Binds(log, i, n, t, L)
  <2>1. next[n][c] >= log[i].clk + t.val
    BY <1>1, <1>7 DEF NextCovers
  <2>2. log'[i].clk = log[i].clk
    BY <1>1, <1>7
  <2>. QED BY <1>1, <1>2, <1>4, <1>5, <2>1, <2>2
<1>8. CASE ~(i \in 1 .. L /\ Binds(log, i, n, t, L)) /\ t.sib
  <2>1. log'[i].cmd = t.prev /\ ~IsPrefix(n, log'[i].addr) /\ IsPrefix(Front(n), log'[i].addr)
    BY <1>8 DEF Binds
  <2>2. i = L + 1
    <3>1. i \notin 1 .. L
      BY <1>1, <1>8, <2>1 DEF Binds
    <3>. QED BY <1>1, <3>1
  <2>. QED BY <1>1, <1>5, <1>6, <1>8, <2>1, <2>2
<1>9. CASE ~(i \in 1 .. L /\ Binds(log, i, n, t, L)) /\ ~t.sib
  <2>1. Hit(log', i) /\ Cardinality(after) >= t.dist
    BY <1>1, <1>9 DEF Binds
  <2>2. IsFiniteSet(before) /\ Cardinality(before) \in Nat
    <3>1. before \in SUBSET (1 .. L) /\ IsFiniteSet(1 .. L)
      BY <1>1, FS_Interval
    <3>2. IsFiniteSet(before)
      BY <3>1, FS_Subset
    <3>. QED BY <3>2, FS_CardinalityType
  <2>3. CASE i = L + 1
    <3>1. after \in SUBSET {L + 1} /\ IsFiniteSet({L + 1}) /\ Cardinality({L + 1}) = 1
      <4>1. \A j \in i .. L + 1 : j = L + 1
        BY <1>1, <2>3
      <4>2. after \in SUBSET {L + 1}
        <5>. HIDE DEF Hit
        <5>. QED BY <4>1
      <4>. HIDE DEF after
      <4>. QED BY <4>2, FS_Singleton
    <3>2. IsFiniteSet(after) /\ Cardinality(after) <= 1
      BY <3>1, FS_Subset
    <3>3. Cardinality(after) \in Nat
      BY <3>2, FS_CardinalityType
    <3>4. t.dist = 1
      BY <1>2, <2>1, <3>2, <3>3
    <3>5. cmd = t.prev /\ IsPrefix(n, addr) /\ at \in Past(n, cmd, t.dist, at)
      BY <1>1, <2>1, <2>3, <3>4 DEF Past
    <3>. QED BY <1>1, <1>5, <1>6, <1>9, <2>3, <3>5
  <2>4. CASE i \in 1 .. L
    <3>1. Hit(log, i) /\ i \in before
      BY <1>1, <2>1, <2>4
    <3>2. ~(Cardinality(before) >= t.dist)
      BY <1>9, <2>4, <3>1 DEF Binds
    <3>3. after = IF Hit(log', L + 1) THEN before \cup {L + 1} ELSE before
      <4>1. \A j \in i .. L : Hit(log', j) <=> Hit(log, j)
        BY <1>1, <2>4
      <4>2. i .. L + 1 = (i .. L) \cup {L + 1} /\ L + 1 \notin i .. L
        BY <1>1, <2>4
      <4>. HIDE DEF Hit
      <4>. QED BY <4>1, <4>2
    <3>4. Hit(log', L + 1) /\ after = before \cup {L + 1}
      BY <2>1, <3>2, <3>3
    <3>5. Cardinality(after) = Cardinality(before) + 1
      <4>1. L + 1 \notin before
        BY <1>1
      <4>. HIDE DEF before, after
      <4>. QED BY <2>2, <3>4, <4>1, FS_AddElement
    <3>6. Cardinality(before) = t.dist - 1
      BY <1>2, <2>1, <2>2, <3>2, <3>5
    <3>7. t.dist # 1
      <4>. HIDE DEF before
      <4>1. Cardinality(before) # 0
        BY <2>2, <3>1, FS_EmptySet
      <4>. QED BY <1>2, <3>6, <4>1
    <3>8. cmd = t.prev /\ IsPrefix(n, addr)
      BY <1>1, <3>4
    <3>9. i \in Received(n, cmd) /\ {j \in Received(n, cmd) : j >= i} = before
      BY <1>1, <2>4, <3>1, <3>8 DEF Received
    <3>10. log[i].clk \in Past(n, cmd, t.dist, at)
      <4>. HIDE DEF before
      <4>. QED BY <3>6, <3>7, <3>9 DEF Past
    <3>11. log'[i].clk = log[i].clk
      BY <1>1, <2>4
    <3>. QED BY <1>5, <1>6, <1>9, <3>8, <3>10, <3>11
  <2>. QED BY <1>1, <2>3, <2>4
<1>. QED BY <1>2, <1>7, <1>8, <1>9
-----------------------------------------------------------------------------
(* The memory's part *)

LEMMA SameTree ==
    ASSUME config' = config, speed_entry' = speed_entry
    PROVE  /\ Distances' = Distances
           /\ \A n : Level(n)' = Level(n)
           /\ \A cmd : ScopeDepth(cmd)' = ScopeDepth(cmd)
           /\ \A addr, depth : Path(addr, depth)' = Path(addr, depth)
BY DEF Distances, key, Level, ScopeDepth, DepthOf, Path, Levels, class

\* What binds a command binds the one that it stands in for.
LEMMA BindsBoth ==
    ASSUME TreeTyped, NEW asked, NEW cmd, Stands(asked, cmd), NEW t \in Distances, t.next = cmd
    PROVE  \E u \in Distances : /\ u.next = asked /\ u.prev = t.prev /\ u.level = t.level /\ u.sib = t.sib
                                /\ u.dist <= t.dist /\ u.val >= t.val
<1>1. CASE asked = cmd
  <2>1. t.dist \in Nat /\ t.val \in Int
    BY DistancesAre
  <2>. QED BY <1>1, <2>1
<1>2. CASE asked # cmd
  <2>1. config.std = "TLDRAM" /\ <<asked, cmd>> \in StandIns
    BY <1>2 DEF Stands
  <2>2. key \in Keys /\ key.std = "TLDRAM" /\ "TLDRAM" \in Standards
    BY <2>1, ConfigIs DEF TreeTyped, key
  <2>. DEFINE p == <<asked, cmd>>
  <2>3. p[1] = asked /\ p[2] = cmd /\ p \in StandIns
    BY <2>1
  <2>. HIDE DEF p
  <2>4. t \in {e \in TimingEntries(key.std, SpeedEntry[key]) : e.next = p[2]}
    BY <2>2, <2>1, <2>3 DEF Distances
  <2>5. \E u \in TimingEntries(key.std, SpeedEntry[key]) :
            /\ u.next = p[1] /\ u.prev = t.prev /\ u.level = t.level /\ u.sib = t.sib
            /\ u.dist <= t.dist /\ u.val >= t.val
    BY <2>2, <2>3, <2>4, MigrationTables
  <2>. QED BY <2>1, <2>2, <2>3, <2>5 DEF Distances
<1>. QED BY <1>1, <1>2

LEMMA SameReach ==
    ASSUME config \in Configs, NEW asked, NEW cmd, Stands(asked, cmd)
    PROVE  ScopeDepth(asked) = ScopeDepth(cmd)
<1>1. CASE asked = cmd
  BY <1>1
<1>2. CASE asked # cmd
  <2>1. config.std = "TLDRAM" /\ <<asked, cmd>> \in StandIns /\ "TLDRAM" \in Standards
    BY <1>2, ConfigIs DEF Stands
  <2>2. class.scope[asked] = class.scope[cmd]
    <3>. DEFINE p == <<asked, cmd>>
    <3>1. p[1] = asked /\ p[2] = cmd /\ p \in StandIns
      BY <2>1
    <3>. HIDE DEF p
    <3>2. ClassOf["TLDRAM"].scope[p[1]] = ClassOf["TLDRAM"].scope[p[2]]
      BY <2>1, <3>1, MigrationTables
    <3>. QED BY <2>1, <3>1, <3>2 DEF class
  <2>. QED BY <2>2 DEF ScopeDepth, DepthOf
<1>. QED BY <1>1, <1>2

LEMMA EntriesStayKept ==
    ASSUME TreeTyped, NextCovers, EntriesKept, NEW cmd, NEW addr, NEW at, Advance(cmd, addr, at),
           NEW asked \in Scope(config), Stands(asked, cmd), at >= ReadyAt(asked, addr),
           NEW k \in DOMAIN log', NEW n \in Path(log'[k].addr, ScopeDepth(log'[k].cmd)),
           NEW t \in Distances, NEW i \in 1 .. k - 1,
           t.level = Level(n), t.next = log'[k].cmd, Binds(log', i, n, t, k - 1)
    PROVE  log'[k].clk >= log'[i].clk + t.val
<1>. DEFINE L == Len(log)
<1>1. /\ L \in Nat /\ DOMAIN log = 1 .. L /\ k \in 1 .. L + 1 /\ i \in 1 .. L
      /\ \A j \in 1 .. L : log'[j] = log[j]
  <2>1. /\ Len(log) \in Nat /\ DOMAIN log = 1 .. Len(log) /\ DOMAIN log' = 1 .. Len(log) + 1
        /\ \A j \in 1 .. Len(log) : log'[j] = log[j]
    BY LogAfter
  <2>. QED BY <2>1
<1>2. log'[L + 1].cmd = cmd /\ log'[L + 1].addr = addr /\ log'[L + 1].clk = at
  <2>. DEFINE new == [cmd |-> cmd, addr |-> addr, clk |-> at]
  <2>1. log'[L + 1] = new
    BY LogAfter
  <2>2. new.cmd = cmd /\ new.addr = addr /\ new.clk = at
    OBVIOUS
  <2>. HIDE DEF new
  <2>. QED BY <2>1, <2>2
<1>3. Binds(log, i, n, t, k - 1)
  <2>1. \A j \in i .. k - 1 : log'[j] = log[j]
    BY <1>1
  <2>2. {j \in i .. k - 1 : log'[j].cmd = t.prev /\ IsPrefix(n, log'[j].addr)}
          = {j \in i .. k - 1 : log[j].cmd = t.prev /\ IsPrefix(n, log[j].addr)}
    BY <2>1
  <2>3. log'[i] = log[i]
    BY <1>1
  <2>. QED BY <2>2, <2>3 DEF Binds
<1>4. CASE k \in 1 .. L
  BY <1>1, <1>3, <1>4 DEF EntriesKept
<1>5. CASE k = L + 1
  <2>1. n \in Path(addr, ScopeDepth(asked)) /\ t.next = cmd
    BY <1>2, <1>5, SameReach DEF TreeTyped
  <2>2. addr \in Addresses(config) /\ at \in Int
    BY DEF Advance
  <2>3. ReadyAt(asked, addr) \in Int /\ n \in NodesOf(config) /\ next[n][asked] <= ReadyAt(asked, addr)
    BY <2>1, <2>2, ReadyIs
  <2>4. next[n][asked] \in Int
    BY <2>2, <2>3 DEF TreeTyped
  <2>5. PICK u \in Distances : /\ u.next = asked /\ u.prev = t.prev /\ u.level = t.level /\ u.sib = t.sib
                               /\ u.dist <= t.dist /\ u.val >= t.val
    BY <2>1, BindsBoth
  <2>6. k - 1 = L
    BY <1>1, <1>5
  <2>7. Binds(log, i, n, u, L)
    <3>. DEFINE those == {j \in i .. L : log[j].cmd = t.prev /\ IsPrefix(n, log[j].addr)}
    <3>1. Cardinality(those) \in Nat
      <4>1. IsFiniteSet(i .. L)
        BY <1>1, FS_Interval
      <4>2. those \in SUBSET (i .. L)
        OBVIOUS
      <4>. HIDE DEF those
      <4>3. IsFiniteSet(those)
        BY <4>1, <4>2, FS_Subset
      <4>. QED BY <4>3, FS_CardinalityType
    <3>2. t.dist \in Nat /\ u.dist \in Nat /\ (~t.sib => Cardinality(those) >= t.dist)
      BY <1>3, <2>6, DistancesAre DEF Binds
    <3>3. ~t.sib => Cardinality(those) >= u.dist
      <4>. HIDE DEF those
      <4>. QED BY <2>5, <3>1, <3>2
    <3>. QED BY <1>3, <2>5, <2>6, <3>3 DEF Binds
  <2>8. next[n][asked] >= log[i].clk + u.val
    BY <1>1, <1>5, <2>3, <2>5, <2>7 DEF NextCovers
  <2>9. log[i].clk \in Int /\ t.val \in Int /\ u.val \in Int /\ log'[i] = log[i]
    BY <1>1, LogIs, DistancesAre
  <2>. QED BY <1>2, <1>5, <2>2, <2>3, <2>4, <2>5, <2>8, <2>9
<1>. QED BY <1>1, <1>4, <1>5

LEMMA DramStarts == Init => DramInv
<1>. SUFFICES ASSUME Init PROVE DramInv
  OBVIOUS
<1>1. config \in Configs /\ log = <<>> /\ clk = 0 /\ speed_entry = SpeedEntry[key]
  BY DEF Init
<1>2. /\ state = [n \in NodesOf(config) |-> Start(n, ClassOf[config.std])]
      /\ next = [n \in NodesOf(config) |-> [c \in Scope(config) |-> -1]]
  BY DEF Init, Scope
<1>3. next \in [NodesOf(config) -> [Scope(config) -> Int]] /\ DOMAIN state = NodesOf(config)
  BY <1>2
<1>4. DOMAIN log = {} /\ log \in Seq(Issues(config))
  BY <1>1
<1>5. TreeTyped
  BY <1>1, <1>3, <1>4 DEF TreeTyped
<1>6. ASSUME NEW n \in NodesOf(config), Len(n) = 1 PROVE state[n] = "PowerUp"
  <2>1. Level(n) = "Rank"
    BY <1>1, <1>6, NodeIs
  <2>2. Start(n, ClassOf[config.std]) = "PowerUp"
    BY <2>1 DEF Start, Level, class
  <2>. QED BY <1>2, <2>2
<1>7. RanksAwake
  BY <1>6 DEF RanksAwake, Awake
<1>8. NextCovers /\ EntriesKept
  BY <1>4 DEF NextCovers, EntriesKept
<1>. QED BY <1>5, <1>7, <1>8 DEF DramInv

LEMMA IssueKeeps ==
    ASSUME DramInv, NEW r \in Requests(config), Issue(r[1], r[2])
    PROVE  DramInv'
<1>. DEFINE addr == r[2]
            cmd == Issued(r[1], addr)
            asked == Asked(r[1], addr)
            at == Max({clk + 1, ReadyAt(asked, addr)})
<1>1. TreeTyped /\ RanksAwake /\ NextCovers /\ EntriesKept
  BY DEF DramInv
<1>2. /\ addr \in Addresses(config) /\ asked \in Scope(config) /\ cmd \in Scope(config)
      /\ cmd \in Issuable(config.std) /\ Stands(asked, cmd)
  BY <1>1, CommandIs, IssuableIs DEF TreeTyped
<1>3. at \in Int /\ clk < at /\ at >= ReadyAt(asked, addr)
  <2>1. clk \in Int /\ clk + 1 \in Int /\ ReadyAt(asked, addr) \in Int
    BY <1>1, <1>2, ReadyIs DEF TreeTyped
  <2>2. at \in Int /\ at >= clk + 1 /\ at >= ReadyAt(asked, addr)
    BY <2>1, LargerIs
  <2>. HIDE DEF at
  <2>. QED BY <2>1, <2>2
<1>4. /\ clk' = at /\ UpdateState(cmd, addr) /\ UpdateTiming(cmd, addr, at)
      /\ log' = Append(log, [cmd |-> cmd, addr |-> addr, clk |-> at])
      /\ config' = config /\ speed_entry' = speed_entry
  BY DEF Issue
<1>. HIDE DEF addr, cmd, asked, at
<1>5. Advance(cmd, addr, at)
  BY <1>2, <1>3, <1>4 DEF Advance
<1>6. DOMAIN state' = NodesOf(config) /\ RanksAwake'
  BY <1>1, <1>2, <1>4, RanksStayAwake
<1>7. next' \in [NodesOf(config) -> [Scope(config) -> Int]]
  <2>1. DOMAIN next' = NodesOf(config) /\ next' = [n \in NodesOf(config) |-> next'[n]]
    BY <1>1, <1>4 DEF UpdateTiming, Nodes, TreeTyped
  <2>2. ASSUME NEW n \in NodesOf(config)
        PROVE  next'[n] = [c \in Scope(config) |-> next'[n][c]]
    <3>1. next[n] = [c \in Scope(config) |-> next[n][c]] /\ n \in Nodes
      BY <1>1 DEF TreeTyped, Nodes
    <3>. QED BY <1>4, <3>1 DEF UpdateTiming
  <2>3. \A n \in NodesOf(config), c \in Scope(config) : next'[n][c] \in Int
    BY <1>1, <1>2, <1>3, <1>4, NextIs
  <2>. QED BY <2>1, <2>2, <2>3
<1>8. TreeTyped'
  <2>1. /\ log' \in Seq(Issues(config)) /\ DOMAIN log' = 1 .. Len(log) + 1
        /\ \A i \in 1 .. Len(log) + 1 : log'[i].clk \in Int /\ log'[i].clk <= at
    BY <1>1, <1>5, LogAfter
  <2>. QED BY <1>1, <1>3, <1>4, <1>6, <1>7, <2>1 DEF TreeTyped, key
<1>9. NextCovers'
  BY <1>1, <1>4, <1>5, SameTree, NextCoversMore DEF NextCovers
<1>10. EntriesKept'
  <2>2. \A k \in DOMAIN log' : \A n \in Path(log'[k].addr, ScopeDepth(log'[k].cmd)), t \in Distances, i \in 1 .. k - 1 :
            t.level = Level(n) /\ t.next = log'[k].cmd /\ Binds(log', i, n, t, k - 1) =>
                log'[k].clk >= log'[i].clk + t.val
    BY <1>1, <1>2, <1>3, <1>5, EntriesStayKept
  <2>3. config' = config /\ speed_entry' = speed_entry
    BY <1>4
  <2>. SUFFICES ASSUME NEW k \in DOMAIN log', NEW n \in Path(log[k].addr, ScopeDepth(log[k].cmd))',
                       NEW t \in Distances', NEW i \in 1 .. k - 1,
                       (t.level = Level(n))', t.next = log'[k].cmd, Binds(log', i, n, t, k - 1)
                PROVE  log'[k].clk >= log'[i].clk + t.val
    BY DEF EntriesKept
  <2>4. n \in Path(log'[k].addr, ScopeDepth(log'[k].cmd))
    BY <2>3 DEF Path, ScopeDepth, DepthOf, Levels, class
  <2>5. t \in Distances /\ t.level = Level(n)
    BY <2>3, SameTree
  <2>. QED BY <2>2, <2>4, <2>5
<1>. QED BY <1>4, <1>6, <1>8, <1>9, <1>10 DEF DramInv

LEMMA DramKeeps == (part = "dram" => DramInv) /\ [SumNext]_allVars => (part = "dram" => DramInv)'
<1>. SUFFICES ASSUME part = "dram" => DramInv, [SumNext]_allVars, part' = "dram"
              PROVE  DramInv'
  OBVIOUS
<1>1. part = "dram" /\ DramInv
  BY DEF SumNext, allVars
<1>2. CASE Next
  <2>1. PICK r \in Requests(config) : Issue(r[1], r[2])
    BY <1>2 DEF Next
  <2>. QED BY <1>1, <2>1, IssueKeeps
<1>3. CASE UNCHANGED <<dramOwnVars, clk>>
  <2>1. config' = config /\ speed_entry' = speed_entry /\ state' = state /\ next' = next /\ clk' = clk /\ log' = log
    BY <1>3 DEF dramOwnVars
  <2>2. TreeTyped'
    BY <1>1, <2>1 DEF DramInv, TreeTyped, key
  <2>3. RanksAwake'
    BY <1>1, <2>1 DEF DramInv, RanksAwake
  <2>4. NextCovers'
    BY <1>1, <2>1, SameTree DEF DramInv, NextCovers
  <2>5. EntriesKept'
    BY <1>1, <2>1, SameTree DEF DramInv, EntriesKept
  <2>. QED BY <2>1, <2>2, <2>3, <2>4, <2>5 DEF DramInv
<1>. QED BY <1>1, <1>2, <1>3 DEF SumNext, allVars, sharedVars, dramOwnVars, Done, vars

\* In the memory's part DRAM::next never forgets a command that a later one has
\* to keep a distance from, decode() asks for commands of the standard only,
\* and ranks are in one of the states that the rules know.
THEOREM DramInvariant == SumSpec => [](part = "dram" => DramInv)
<1>1. SumInit => (part = "dram" => DramInv)
  BY DramStarts DEF SumInit
<1>. QED BY <1>1, DramKeeps, PTL DEF SumSpec

\* Whatever the tables of a standard ask for, every command keeps it from every
\* command before it, also the dist-th last, at every node it reaches, though
\* update_timing() keeps one time for each command and node and only raises it.
THEOREM CommandsKeepDistances == SumSpec => []DistancesKept
<1>1. (part = "dram" => DramInv) => DistancesKept
  BY DEF DramInv, DistancesKept
<1>. QED BY <1>1, DramInvariant, PTL
-----------------------------------------------------------------------------
(* What the entries say of any two commands whose addresses begin alike *)

\* The beginning of an address, which is never empty.
LEMMA AddressIs ==
    ASSUME NEW c \in Configs, NEW addr \in Addresses(c)
    PROVE  \E S : addr \in Seq(S) /\ Len(addr) \in Nat \ {0}
<1>. DEFINE m == Len(ClassOf[c.std].levels)
<1>1. PICK p \in ToSet(Places(c)) : addr = p \/ addr = <<p[1]>> \/ \E e : addr = Append(p, e)
  BY RequestIs DEF Addresses
<1>2. PICK S : p \in Seq(S) /\ Len(p) = m /\ m \in Nat \ {0}
  BY PlacesAre, PlaceIs, ConfigIs, StandardIs
<1>. HIDE DEF m
<1>3. CASE addr = p
  BY <1>2, <1>3
<1>4. CASE addr = <<p[1]>>
  <2>1. p[1] \in S /\ <<p[1]>> \in Seq(S) /\ Len(<<p[1]>>) = 1
    BY <1>2
  <2>. QED BY <1>4, <2>1
<1>5. ASSUME NEW e, addr = Append(p, e) PROVE addr \in Seq(S \cup {e}) /\ Len(addr) \in Nat \ {0}
  <2>. DEFINE T == S \cup {e}
  <2>1. p \in [1 .. Len(p) -> T] /\ Len(p) \in Nat
    BY <1>2
  <2>2. p \in Seq(T) /\ e \in T
    BY <2>1
  <2>. HIDE DEF T
  <2>3. addr \in Seq(T) /\ Len(addr) = Len(p) + 1
    BY <1>5, <2>2
  <2>. QED BY <1>2, <2>3 DEF T
<1>. QED BY <1>1, <1>3, <1>4, <1>5

\* Two addresses that are the same up to a depth are so before it; the node there is on the
\* way to both.
LEMMA SameBefore ==
    ASSUME NEW S, NEW a \in Seq(S), NEW T, NEW b \in Seq(T), NEW depth \in Nat, NEW d \in 0 .. depth,
           Len(a) >= depth, Len(b) >= depth, SubSeq(a, 1, depth) = SubSeq(b, 1, depth)
    PROVE  /\ SubSeq(a, 1, d) = SubSeq(b, 1, d)
           /\ IsPrefix(SubSeq(b, 1, d), a) /\ IsPrefix(SubSeq(b, 1, d), b) /\ Len(SubSeq(b, 1, d)) = d
<1>1. /\ Len(a) \in Nat /\ Len(b) \in Nat
      /\ \A i \in 0 .. depth : /\ SubSeq(a, 1, i) = [j \in 1 .. i |-> a[j]] /\ Len(SubSeq(a, 1, i)) = i
                               /\ SubSeq(b, 1, i) = [j \in 1 .. i |-> b[j]] /\ Len(SubSeq(b, 1, i)) = i
  OBVIOUS
<1>2. \A j \in 1 .. depth : a[j] = b[j]
  <2>1. [j \in 1 .. depth |-> a[j]] = [j \in 1 .. depth |-> b[j]]
    BY <1>1
  <2>. QED BY <2>1
<1>3. SubSeq(a, 1, d) = SubSeq(b, 1, d)
  BY <1>1, <1>2
<1>. DEFINE n == SubSeq(b, 1, d)
<1>4. n \in Seq(T) /\ Len(n) = d /\ SubSeq(n, 1, d) = n
  <2>1. n \in Seq(T) /\ Len(n) = d
    BY <1>1
  <2>. HIDE DEF n
  <2>2. SubSeq(n, 1, Len(n)) = n
    BY <2>1
  <2>. QED BY <2>1, <2>2
<1>. QED BY <1>1, <1>3, <1>4 DEF IsPrefix

\* What decode() and update_timing() pass on the way down to a depth.
LEMMA PathReaches ==
    ASSUME config \in Configs, NEW addr \in Addresses(config), NEW depth \in Nat,
           NEW i \in Nat, i <= Len(addr), i <= depth, i <= Levels
    PROVE  SubSeq(addr, 1, i) \in Path(addr, depth) /\ SubSeq(addr, 1, i) \in NodesOf(config)
<1>. DEFINE s == {Len(addr), depth, Levels}
<1>1. Len(addr) \in Nat /\ Levels \in Nat
  BY PathsAreNodes, ConfigIs, StandardIs DEF Levels, class
<1>2. Min(s) \in s
  <2>1. s \in SUBSET Nat /\ s # {}
    BY <1>1
  <2>2. \E m \in s : \A k \in s : m <= k
    BY <2>1, SmallestExists
  <2>. HIDE DEF s
  <2>. QED BY <2>2 DEF Min
<1>3. i \in 0 .. Min(s)
  BY <1>1, <1>2
<1>4. SubSeq(addr, 1, i) \in Path(addr, depth)
  BY <1>3 DEF Path
<1>. QED BY <1>1, <1>4, PathsAreNodes DEF Levels, class

\* The depth of a level is that of its nodes.
LEMMA LevelIs ==
    ASSUME config \in Configs, NEW l \in LevelsOf(config.std)
    PROVE  /\ LevelDepth(class, l) \in 0 .. Levels
           /\ l = "Channel" => LevelDepth(class, l) = 0
           /\ l = "Rank" => LevelDepth(class, l) = 1
           /\ \A n \in NodesOf(config) : Len(n) = LevelDepth(class, l) => Level(n) = l
<1>1. /\ Levels \in Nat \ {0} /\ DOMAIN class.levels = 1 .. Levels
      /\ \A i \in DOMAIN class.levels : class.levels[i] = "Rank" <=> i = 1
      /\ l = "Channel" \/ \E i \in 1 .. Levels : class.levels[i] = l
  <2>1. /\ Levels \in Nat \ {0} /\ DOMAIN class.levels = 1 .. Levels
    BY ConfigIs, StandardIs DEF class, Levels
  <2>2. \A i \in DOMAIN class.levels : class.levels[i] = "Rank" <=> i = 1
    BY ConfigIs, TablesAssumption DEF class
  <2>3. l = "Channel" \/ \E i \in DOMAIN class.levels : class.levels[i] = l
    BY DEF LevelsOf, ToSet, class
  <2>. QED BY <2>1, <2>2, <2>3
<1>2. CASE l = "Channel"
  <2>1. LevelDepth(class, l) = 0
    BY <1>2 DEF LevelDepth
  <2>. QED BY <1>1, <1>2, <2>1, NodeIs
<1>3. CASE l # "Channel"
  <2>. DEFINE d == CHOOSE i \in DOMAIN class.levels : class.levels[i] = l
  <2>1. d \in DOMAIN class.levels /\ class.levels[d] = l
    BY <1>1, <1>3
  <2>2. LevelDepth(class, l) = d
    BY <1>3 DEF LevelDepth
  <2>. HIDE DEF d
  <2>3. ASSUME NEW n \in NodesOf(config), Len(n) = d PROVE Level(n) = l
    <3>1. d \in 1 .. Levels
      BY <1>1, <2>1
    <3>2. n # <<>>
      BY <2>3, <3>1
    <3>. QED BY <2>1, <2>3, <3>2 DEF Level
  <2>4. d \in 1 .. Levels /\ (l = "Rank" => d = 1)
    BY <1>1, <2>1
  <2>. QED BY <1>1, <1>3, <2>2, <2>3, <2>4
<1>. QED BY <1>2, <1>3

LEMMA IssueIs ==
    ASSUME DramInv, NEW k \in DOMAIN log
    PROVE  /\ log[k].cmd \in Issuable(config.std) /\ log[k].cmd \in Scope(config)
           /\ log[k].addr \in Addresses(config) /\ log[k].clk \in Int
           /\ ScopeDepth(log[k].cmd) \in Nat
<1>1. TreeTyped /\ config \in Configs
  BY DEF DramInv, TreeTyped
<1>2. log[k] \in Issues(config)
  BY <1>1, LogIs
<1>3. log[k].cmd \in Issuable(config.std) /\ log[k].addr \in Addresses(config) /\ log[k].clk \in Int
  BY <1>2 DEF Issues
<1>. QED BY <1>1, <1>3, IssuableIs, ScopesAreDepths

\* An entry of a table, of a level of the standard.
LEMMA EntryIs ==
    ASSUME config \in Configs, NEW t \in Distances
    PROVE  /\ t.level \in LevelsOf(config.std) /\ t.val \in Int /\ t.dist \in Nat \ {0}
           /\ key \in Keys /\ key.std = config.std /\ ClassOf[key.std] = class
           /\ Distances = TimingEntries(key.std, SpeedEntry[key])
<1>1. key \in Keys /\ key.std = config.std /\ ClassOf[key.std] = class
  BY ConfigIs DEF key, class
<1>2. Distances = TimingEntries(key.std, SpeedEntry[key])
  BY <1>1 DEF Distances
<1>3. \A e \in TimingEntries(key.std, SpeedEntry[key]) :
        e.level \in LevelsOf(key.std) /\ e.val \in Int /\ e.dist \in Nat \ {0}
  BY <1>1, TablesAssumption
<1>. QED BY <1>1, <1>2, <1>3

\* Commands that entry t counts at node n, from command i on.
Counted(i, k, n, t) == {j \in i .. k : log[j].cmd = t.prev /\ IsPrefix(n, log[j].addr)}

\* The node where an entry with a look back is kept.
LEMMA EnforcedIs ==
    ASSUME DramInv, NEW k \in DOMAIN log, NEW i \in 1 .. k - 1, NEW t \in Distances, NEW depth \in Nat, NEW least \in Int,
           ~t.sib, Enforces(t, class, log[i].cmd, log[k].cmd, depth, least), SameTo(log[i], log[k], depth),
           \A n : IsPrefix(n, log[k].addr) /\ IsPrefix(n, log[i].addr) /\ Len(n) = LevelDepth(class, t.level) =>
                      Cardinality(Counted(i, k - 1, n, t)) >= t.dist
    PROVE  log[k].clk - log[i].clk >= least
<1>. DEFINE d == LevelDepth(class, t.level)
            n == SubSeq(log[k].addr, 1, d)
<1>1. TreeTyped /\ config \in Configs /\ EntriesKept
  BY DEF DramInv, TreeTyped
<1>2. i \in DOMAIN log
  <2>1. k \in 1 .. Len(log) /\ DOMAIN log = 1 .. Len(log) /\ Len(log) \in Nat
    BY <1>1, LogIs
  <2>. QED BY <2>1
<1>3. /\ log[k].addr \in Addresses(config) /\ log[i].addr \in Addresses(config)
      /\ log[k].clk \in Int /\ log[i].clk \in Int /\ ScopeDepth(log[k].cmd) \in Nat
  BY <1>2, IssueIs
<1>4. t.level \in LevelsOf(config.std) /\ t.val \in Int
  BY <1>1, EntryIs
<1>5. /\ d \in 0 .. Levels /\ d <= depth /\ d <= ScopeDepth(log[k].cmd) /\ Levels \in Nat
      /\ \A m \in NodesOf(config) : Len(m) = d => Level(m) = t.level
  <2>1. d <= depth /\ d <= ScopeDepth(log[k].cmd)
    BY DEF Enforces, ScopeDepth
  <2>2. Levels \in Nat
    BY <1>1, ConfigIs, StandardIs DEF class, Levels
  <2>. QED BY <1>1, <1>4, <2>1, <2>2, LevelIs
<1>6. /\ Len(log[i].addr) >= depth /\ Len(log[k].addr) >= depth
      /\ SubSeq(log[i].addr, 1, depth) = SubSeq(log[k].addr, 1, depth)
  BY DEF SameTo
<1>7. PICK S : log[i].addr \in Seq(S)
  BY <1>1, <1>3, AddressIs
<1>8. PICK T : log[k].addr \in Seq(T) /\ Len(log[k].addr) \in Nat
  BY <1>1, <1>3, AddressIs
<1>. HIDE DEF d
<1>9. d \in 0 .. depth
  BY <1>5
<1>10. IsPrefix(n, log[i].addr) /\ IsPrefix(n, log[k].addr) /\ Len(n) = d
  BY <1>6, <1>7, <1>8, <1>9, SameBefore
<1>11. n \in Path(log[k].addr, ScopeDepth(log[k].cmd)) /\ n \in NodesOf(config)
  <2>1. d \in Nat /\ d <= Len(log[k].addr) /\ d <= Levels
    BY <1>5, <1>6, <1>8, <1>9
  <2>. QED BY <1>1, <1>3, <1>5, <2>1, PathReaches
<1>. HIDE DEF n
<1>12. Level(n) = t.level
  BY <1>5, <1>10, <1>11
<1>13. Cardinality(Counted(i, k - 1, n, t)) >= t.dist
  BY <1>10 DEF d
<1>14. log[i].cmd = t.prev /\ log[k].cmd = t.next /\ t.val >= least
  BY DEF Enforces
<1>15. Binds(log, i, n, t, k - 1)
  BY <1>10, <1>13, <1>14 DEF Binds, Counted
<1>16. log[k].clk >= log[i].clk + t.val
  BY <1>1, <1>11, <1>12, <1>14, <1>15 DEF EntriesKept
<1>. QED BY <1>3, <1>4, <1>14, <1>16

\* An entry that looks back to the last command is kept from every command.
LEMMA EnforcedOnce ==
    ASSUME DramInv, NEW k \in DOMAIN log, NEW i \in 1 .. k - 1, NEW t \in Distances, NEW depth \in Nat, NEW least \in Int,
           ~t.sib, t.dist = 1, Enforces(t, class, log[i].cmd, log[k].cmd, depth, least),
           SameTo(log[i], log[k], depth)
    PROVE  log[k].clk - log[i].clk >= least
<1>1. ASSUME NEW n, IsPrefix(n, log[i].addr) PROVE Cardinality(Counted(i, k - 1, n, t)) >= t.dist
  <2>1. k \in Int /\ i \in Int /\ i \in i .. k - 1
    <3>1. k \in 1 .. Len(log) /\ Len(log) \in Nat
      BY LogIs DEF DramInv
    <3>. QED BY <3>1
  <2>2. i \in Counted(i, k - 1, n, t)
    BY <1>1, <2>1 DEF Counted, Enforces
  <2>3. Counted(i, k - 1, n, t) \in SUBSET (i .. k - 1)
    BY DEF Counted
  <2>4. IsFiniteSet(i .. k - 1)
    BY <2>1, FS_Interval
  <2>5. IsFiniteSet(Counted(i, k - 1, n, t))
    BY <2>3, <2>4, FS_Subset
  <2>6. Cardinality(Counted(i, k - 1, n, t)) \in Nat /\ Cardinality(Counted(i, k - 1, n, t)) # 0
    BY <2>2, <2>5, FS_CardinalityType, FS_EmptySet
  <2>. QED BY <2>6
<1>. QED BY <1>1, EnforcedIs
-----------------------------------------------------------------------------
(* The properties of the memory *)

LEMMA EarlierIs ==
    ASSUME DramInv, log # <<>>
    PROVE  /\ Len(log) \in DOMAIN log /\ Last(log) = log[Len(log)]
           /\ Earlier = {log[i] : i \in 1 .. Len(log) - 1}
<1>. DEFINE front == SubSeq(log, 1, Len(log) - 1)
<1>1. log \in Seq(Issues(config))
  BY DEF DramInv, TreeTyped
<1>2. Len(log) \in Nat \ {0} /\ DOMAIN log = 1 .. Len(log)
  BY <1>1
<1>3. DOMAIN front = 1 .. Len(log) - 1 /\ \A i \in 1 .. Len(log) - 1 : front[i] = log[i]
  BY <1>1, <1>2
<1>4. Earlier = {front[i] : i \in DOMAIN front}
  BY DEF Earlier, Front, ToSet
<1>. HIDE DEF front
<1>5. Earlier = {log[i] : i \in 1 .. Len(log) - 1}
  BY <1>3, <1>4
<1>. QED BY <1>2, <1>5 DEF Last

LEMMA GapsHold == DramInv => GapsKept
<1>. SUFFICES ASSUME DramInv, NEW e \in Earlier, NEW g \in Gaps[key][Last(log).cmd],
                     e.cmd = g.prev, SameTo(e, Last(log), g.depth)
              PROVE  Last(log).clk - e.clk >= g.least
  BY DEF GapsKept
<1>. DEFINE k == Len(log)
<1>1. log # <<>> /\ config \in Configs
  BY DEF Earlier, DramInv, TreeTyped
<1>2. k \in DOMAIN log /\ Last(log) = log[k]
  BY <1>1, EarlierIs
<1>3. PICK i \in 1 .. k - 1 : e = log[i]
  BY <1>1, EarlierIs
<1>4. i \in DOMAIN log
  <2>1. k \in Nat /\ DOMAIN log = 1 .. k
    BY <1>2, LogIs DEF DramInv
  <2>. QED BY <2>1
<1>. HIDE DEF k
<1>5. log[i].cmd \in Issuable(config.std) /\ log[k].cmd \in Issuable(config.std)
  BY <1>2, <1>4, IssueIs
<1>6. key \in Keys /\ key.std = config.std /\ ClassOf[key.std] = class
  BY <1>1, ConfigIs DEF key, class
<1>7. /\ g.depth \in Nat /\ g.least \in Int
      /\ \E t \in Distances : t.dist = 1 /\ ~t.sib /\ Enforces(t, class, log[i].cmd, log[k].cmd, g.depth, g.least)
  <2>1. log[k].cmd \in Issuable(key.std) /\ g \in Gaps[key][log[k].cmd] /\ g.prev \in Issuable(key.std) /\ g.prev = log[i].cmd
    BY <1>2, <1>3, <1>5, <1>6
  <2>2. /\ g.depth \in Nat /\ g.least \in Int
        /\ g.prev \in Issuable(key.std) => \E t \in TimingEntries(key.std, SpeedEntry[key]) :
               t.dist = 1 /\ ~t.sib /\ Enforces(t, ClassOf[key.std], g.prev, log[k].cmd, g.depth, g.least)
    BY <1>6, <2>1, GapsAssumption
  <2>. QED BY <1>6, <2>1, <2>2 DEF Distances
<1>8. PICK t \in Distances : t.dist = 1 /\ ~t.sib /\ Enforces(t, class, log[i].cmd, log[k].cmd, g.depth, g.least)
  BY <1>7
<1>9. log[k].clk - log[i].clk >= g.least
  BY <1>2, <1>3, <1>7, <1>8, EnforcedOnce
<1>. QED BY <1>2, <1>3, <1>9

\* Were there too many activations, the first of them would be as far back as the entry of
\* the window looks, and too close.
LEMMA WindowHolds == DramInv => WindowKept
<1>. DEFINE k == Len(log)
            c == Last(log).cmd
            inWindow(e) == e.cmd = c /\ SameTo(e, Last(log), 1) /\ Last(log).clk - e.clk < WindowTime(speed_entry)
            started == {e \in Earlier : inWindow(e)}
            W == WindowSize(config.std)
            I == {i \in 1 .. k - 1 : inWindow(log[i])}
<1>. SUFFICES ASSUME DramInv, log # <<>>, c \in class.opening, ~(Cardinality(started) < W)
              PROVE  FALSE
  BY DEF WindowKept
<1>1. TreeTyped /\ config \in Configs /\ speed_entry = SpeedEntry[key]
  BY DEF DramInv, TreeTyped
<1>2. k \in DOMAIN log /\ Last(log) = log[k] /\ Earlier = {log[i] : i \in 1 .. k - 1}
  BY EarlierIs
<1>3. k \in Nat /\ DOMAIN log = 1 .. k
  BY <1>1, <1>2, LogIs
<1>4. W \in Nat \ {0}
  BY DEF WindowSize
<1>. HIDE DEF W, k
<1>5. IsFiniteSet(I) /\ Cardinality(I) \in Nat
  <2>1. IsFiniteSet(1 .. k - 1)
    BY <1>3, FS_Interval
  <2>2. I \in SUBSET (1 .. k - 1)
    OBVIOUS
  <2>. HIDE DEF I
  <2>3. IsFiniteSet(I)
    BY <2>1, <2>2, FS_Subset
  <2>. QED BY <2>3, FS_CardinalityType
<1>6. Cardinality(I) >= W
  <2>. DEFINE f == [i \in I |-> log[i]]
  <2>1. started = {log[i] : i \in I}
    BY <1>2
  <2>. HIDE DEF I, started
  <2>2. f \in Surjection(I, started)
    BY <2>1 DEF Surjection
  <2>3. IsFiniteSet(started) /\ Cardinality(started) <= Cardinality(I)
    BY <1>5, <2>2, FS_Surjection
  <2>4. Cardinality(started) \in Nat
    BY <2>3, FS_CardinalityType
  <2>. QED BY <1>4, <1>5, <2>3, <2>4
<1>7. PICK i \in I : \A j \in I : i <= j
  <2>1. I \in SUBSET Nat
    BY <1>3
  <2>2. I # {}
    <3>. HIDE DEF I
    <3>. QED BY <1>4, <1>5, <1>6, FS_EmptySet
  <2>. HIDE DEF I
  <2>. QED BY <2>1, <2>2, SmallestExists
<1>8. /\ WindowTime(speed_entry) \in Int
      /\ \E t \in Distances : /\ t.dist = W /\ ~t.sib /\ t.level = "Rank"
                              /\ Enforces(t, class, c, c, 1, WindowTime(speed_entry))
  <2>1. key \in Keys /\ key.std = config.std /\ ClassOf[key.std] = class
    BY <1>1, ConfigIs DEF key, class
  <2>2. c \in ClassOf[key.std].opening
    BY <2>1
  <2>. HIDE DEF c
  <2>3. /\ WindowTime(SpeedEntry[key]) \in Int
        /\ \E t \in TimingEntries(key.std, SpeedEntry[key]) :
               /\ t.dist = WindowSize(key.std) /\ ~t.sib /\ t.level = "Rank"
               /\ Enforces(t, ClassOf[key.std], c, c, 1, WindowTime(SpeedEntry[key]))
    BY <2>1, <2>2, GapsAssumption
  <2>. QED BY <1>1, <2>1, <2>3 DEF Distances, W
<1>9. PICK t \in Distances : /\ t.dist = W /\ ~t.sib /\ t.level = "Rank"
                             /\ Enforces(t, class, c, c, 1, WindowTime(speed_entry))
  BY <1>8
<1>10. i \in 1 .. k - 1 /\ log[i].cmd = c /\ SameTo(log[i], log[k], 1) /\ log[k].clk - log[i].clk < WindowTime(speed_entry)
  BY <1>2
<1>11. log[k].cmd = c
  BY <1>2
<1>. HIDE DEF c
<1>12. ASSUME NEW n, IsPrefix(n, log[k].addr), Len(n) = LevelDepth(class, t.level)
       PROVE  Cardinality(Counted(i, k - 1, n, t)) >= t.dist
  <2>1. Len(n) = 1
    <3>1. t.level \in LevelsOf(config.std)
      BY <1>1, EntryIs
    <3>. QED BY <1>1, <1>9, <1>12, <3>1, LevelIs
  <2>2. ASSUME NEW j \in I PROVE j \in Counted(i, k - 1, n, t)
    <3>1. j \in 1 .. k - 1 /\ log[j].cmd = c /\ SameTo(log[j], log[k], 1)
      BY <1>2, <2>2
    <3>2. IsPrefix(n, log[j].addr)
      BY <1>12, <2>1, <3>1 DEF IsPrefix, SameTo
    <3>3. i <= j /\ t.prev = c
      BY <1>7, <1>9, <2>2 DEF Enforces
    <3>. QED BY <1>3, <1>10, <3>1, <3>2, <3>3 DEF Counted
  <2>3. IsFiniteSet(Counted(i, k - 1, n, t))
    <3>1. IsFiniteSet(i .. k - 1)
      BY <1>3, <1>10, FS_Interval
    <3>2. Counted(i, k - 1, n, t) \in SUBSET (i .. k - 1)
      BY DEF Counted
    <3>. QED BY <3>1, <3>2, FS_Subset
  <2>4. I \in SUBSET Counted(i, k - 1, n, t)
    BY <2>2
  <2>. HIDE DEF I
  <2>5. Cardinality(I) <= Cardinality(Counted(i, k - 1, n, t)) /\ Cardinality(Counted(i, k - 1, n, t)) \in Nat
    BY <2>3, <2>4, FS_Subset, FS_CardinalityType
  <2>. QED BY <1>4, <1>5, <1>6, <1>9, <2>5
<1>13. log[k].clk - log[i].clk >= WindowTime(speed_entry)
  <2>. DEFINE least == WindowTime(speed_entry)
  <2>1. least \in Int /\ Enforces(t, class, log[i].cmd, log[k].cmd, 1, least)
    BY <1>8, <1>9, <1>10, <1>11
  <2>. HIDE DEF least
  <2>2. log[k].clk - log[i].clk >= least
    BY <1>2, <1>9, <1>10, <1>12, <2>1, EnforcedIs
  <2>. QED BY <2>2 DEF least
<1>14. log[k].clk \in Int /\ log[i].clk \in Int
  BY <1>2, <1>3, <1>10, IssueIs
<1>. QED BY <1>8, <1>10, <1>13, <1>14

LEMMA BusHolds == DramInv => DataBusFree
<1>. SUFFICES ASSUME DramInv, NEW e \in Earlier, {e.cmd, Last(log).cmd} \subseteq class.accessing
              PROVE  Burst(e) \cap Burst(Last(log)) = {}
  BY DEF DataBusFree
<1>. DEFINE k == Len(log)
            least == BurstGap(class, speed_entry, e.cmd, Last(log).cmd)
<1>1. TreeTyped /\ config \in Configs /\ speed_entry = SpeedEntry[key] /\ log # <<>>
  BY DEF Earlier, DramInv, TreeTyped
<1>2. k \in DOMAIN log /\ Last(log) = log[k]
  BY <1>1, EarlierIs
<1>3. PICK i \in 1 .. k - 1 : e = log[i]
  BY <1>1, EarlierIs
<1>4. i \in DOMAIN log /\ k \in Nat
  <2>1. k \in Nat /\ DOMAIN log = 1 .. k
    BY <1>1, <1>2, LogIs
  <2>. QED BY <2>1
<1>. HIDE DEF k
<1>5. /\ log[i].cmd \in Issuable(config.std) \cap class.accessing
      /\ log[k].cmd \in Issuable(config.std) \cap class.accessing
      /\ log[i].addr \in Addresses(config) /\ log[k].addr \in Addresses(config)
      /\ log[i].clk \in Int /\ log[k].clk \in Int /\ ScopeDepth(log[k].cmd) \in Nat
  BY <1>2, <1>3, <1>4, IssueIs
<1>6. key \in Keys /\ key.std = config.std /\ ClassOf[key.std] = class
  BY <1>1, ConfigIs DEF key, class
<1>7. /\ Param(speed_entry, <<"nBL">>) \in Int
      /\ Latency(class, speed_entry, log[i].cmd) \in Int /\ Latency(class, speed_entry, log[k].cmd) \in Int
  BY <1>1, <1>5, <1>6, GapsAssumption
<1>8. least \in Int /\ least = BurstGap(class, speed_entry, log[i].cmd, log[k].cmd)
  BY <1>2, <1>3, <1>7 DEF BurstGap
<1>9. \E t \in Distances :
        /\ t.dist = 1 /\ ~t.sib /\ Enforces(t, class, log[i].cmd, log[k].cmd, 1, least)
        /\ \/ t.level = "Channel"
           \/ config.std \notin OfSeveralRanks
           \/ \E u \in Distances : u.level = "Rank" /\ u.sib /\ Enforces(u, class, log[i].cmd, log[k].cmd, 1, least)
  <2>. HIDE DEF least
  <2>1. log[i].cmd \in Issuable(key.std) \cap ClassOf[key.std].accessing /\ log[k].cmd \in Issuable(key.std) \cap ClassOf[key.std].accessing
    BY <1>5, <1>6
  <2>2. \E t \in TimingEntries(key.std, SpeedEntry[key]) :
          LET s == SpeedEntry[key]
              gap == BurstGap(ClassOf[key.std], s, log[i].cmd, log[k].cmd)
          IN
          /\ t.dist = 1 /\ ~t.sib /\ Enforces(t, ClassOf[key.std], log[i].cmd, log[k].cmd, 1, gap)
          /\ \/ t.level = "Channel"
             \/ key.std \notin OfSeveralRanks
             \/ \E u \in TimingEntries(key.std, s) :
                    u.level = "Rank" /\ u.sib /\ Enforces(u, ClassOf[key.std], log[i].cmd, log[k].cmd, 1, gap)
    BY <1>6, <2>1, GapsAssumption
  <2>. QED BY <1>1, <1>6, <1>8, <2>2 DEF Distances
<1>10. PICK t \in Distances :
        /\ t.dist = 1 /\ ~t.sib /\ Enforces(t, class, log[i].cmd, log[k].cmd, 1, least)
        /\ \/ t.level = "Channel"
           \/ config.std \notin OfSeveralRanks
           \/ \E u \in Distances : u.level = "Rank" /\ u.sib /\ Enforces(u, class, log[i].cmd, log[k].cmd, 1, least)
  BY <1>9
<1>. HIDE DEF least
<1>11. PICK S : log[i].addr \in Seq(S) /\ Len(log[i].addr) \in Nat \ {0}
  BY <1>1, <1>5, AddressIs
<1>12. PICK T : log[k].addr \in Seq(T) /\ Len(log[k].addr) \in Nat \ {0}
  BY <1>1, <1>5, AddressIs
<1>13. ASSUME SameTo(log[i], log[k], 1) PROVE log[k].clk - log[i].clk >= least
  BY <1>2, <1>8, <1>10, <1>13, EnforcedOnce
<1>14. ASSUME t.level = "Channel" PROVE log[k].clk - log[i].clk >= least
  <2>1. SameTo(log[i], log[k], 0)
    <3>1. SubSeq(log[i].addr, 1, 0) = <<>> /\ SubSeq(log[k].addr, 1, 0) = <<>>
      BY <1>11, <1>12
    <3>. QED BY <1>11, <1>12, <3>1 DEF SameTo
  <2>2. LevelDepth(class, t.level) = 0
    BY <1>14 DEF LevelDepth
  <2>3. Enforces(t, class, log[i].cmd, log[k].cmd, 0, least)
    BY <1>10, <2>2 DEF Enforces
  <2>. QED BY <1>2, <1>8, <1>10, <2>1, <2>3, EnforcedOnce
<1>15. ASSUME config.std \notin OfSeveralRanks PROVE log[k].clk - log[i].clk >= least
  <2>1. ASSUME NEW a \in Addresses(config) PROVE a[1] = 0
    <3>1. \A r \in Requests(config) : r[2][1] = 0
      BY <1>1, <1>15, GapsAssumption
    <3>. QED BY <3>1 DEF Addresses
  <2>2. log[i].addr[1] = 0 /\ log[k].addr[1] = 0
    BY <1>5, <2>1
  <2>3. SubSeq(log[i].addr, 1, 1) = [j \in 1 .. 1 |-> log[i].addr[j]] /\ SubSeq(log[k].addr, 1, 1) = [j \in 1 .. 1 |-> log[k].addr[j]]
    BY <1>11, <1>12
  <2>4. SubSeq(log[i].addr, 1, 1) = SubSeq(log[k].addr, 1, 1)
    BY <2>2, <2>3
  <2>. QED BY <1>11, <1>12, <1>13, <2>4 DEF SameTo
<1>16. ASSUME ~SameTo(log[i], log[k], 1), NEW u \in Distances, u.level = "Rank", u.sib,
              Enforces(u, class, log[i].cmd, log[k].cmd, 1, least)
       PROVE  log[k].clk - log[i].clk >= least
  <2>. DEFINE n == SubSeq(log[k].addr, 1, 1)
  <2>1. u.level \in LevelsOf(config.std) /\ u.val \in Int
    BY <1>1, EntryIs
  <2>2. LevelDepth(class, u.level) = 1 /\ 1 <= ScopeDepth(log[k].cmd) /\ 1 <= Levels
    <3>1. LevelDepth(class, u.level) = 1 /\ LevelDepth(class, u.level) \in 0 .. Levels /\ Levels \in Nat
      BY <1>1, <1>16, <2>1, LevelIs, ConfigIs, StandardIs DEF class, Levels
    <3>2. LevelDepth(class, u.level) <= ScopeDepth(log[k].cmd)
      BY <1>16 DEF Enforces, ScopeDepth
    <3>. QED BY <3>1, <3>2
  <2>3. n \in Path(log[k].addr, ScopeDepth(log[k].cmd)) /\ n \in NodesOf(config)
    BY <1>1, <1>5, <1>12, <2>2, PathReaches
  <2>4. n \in Seq(T) /\ Len(n) = 1 /\ SubSeq(n, 1, 1) = n
    <3>1. n \in Seq(T) /\ Len(n) = 1
      BY <1>12
    <3>. HIDE DEF n
    <3>2. SubSeq(n, 1, Len(n)) = n
      BY <3>1
    <3>. QED BY <3>1, <3>2
  <2>5. ~IsPrefix(n, log[i].addr)
    <3>1. IsPrefix(n, log[i].addr) => SubSeq(n, 1, 1) = SubSeq(log[i].addr, 1, 1)
      BY <2>4 DEF IsPrefix
    <3>. QED BY <1>11, <1>12, <1>16, <2>4, <3>1 DEF SameTo
  <2>. HIDE DEF n
  <2>6. IsPrefix(Front(n), log[i].addr)
    <3>1. Front(n) = <<>>
      BY <2>4 DEF Front
    <3>2. SubSeq(log[i].addr, 1, 0) = <<>> /\ SubSeq(<<>>, 1, 0) = <<>> /\ Len(<<>>) = 0
      BY <1>11
    <3>. QED BY <1>11, <3>1, <3>2 DEF IsPrefix
  <2>7. Level(n) = u.level
    BY <1>1, <2>1, <2>2, <2>3, <2>4, LevelIs
  <2>8. u.prev = log[i].cmd /\ u.next = log[k].cmd /\ u.val >= least
    BY <1>16 DEF Enforces
  <2>9. Binds(log, i, n, u, k - 1)
    BY <1>16, <2>5, <2>6, <2>8 DEF Binds
  <2>10. log[k].clk >= log[i].clk + u.val
    BY <1>2, <2>3, <2>7, <2>8, <2>9 DEF DramInv, EntriesKept
  <2>. QED BY <1>5, <1>8, <2>1, <2>8, <2>10
<1>17. log[k].clk - log[i].clk >= least
  BY <1>10, <1>13, <1>14, <1>15, <1>16
<1>18. ASSUME NEW x \in Burst(log[i]), x \in Burst(log[k]) PROVE FALSE
  <2>. DEFINE bl == Param(speed_entry, <<"nBL">>)
              first == Latency(class, speed_entry, log[i].cmd)
              second == Latency(class, speed_entry, log[k].cmd)
  <2>1. /\ x \in log[i].clk + first .. (log[i].clk + first) + bl - 1
        /\ x \in log[k].clk + second .. (log[k].clk + second) + bl - 1
    BY <1>18, Zenon DEF Burst
  <2>2. least = first + bl - second
    BY <1>8, Zenon DEF BurstGap
  <2>3. bl \in Int /\ first \in Int /\ second \in Int
    BY <1>7
  <2>. HIDE DEF bl, first, second
  <2>. QED BY <1>5, <1>17, <2>1, <2>2, <2>3
<1>. QED BY <1>2, <1>3, <1>18

LEMMA LogOfDram == SumSpec => [](part # "dram" => log = <<>>)
<1>1. SumInit => (part # "dram" => log = <<>>)
  BY DEF SumInit, DramOff
<1>2. (part # "dram" => log = <<>>) /\ [SumNext]_allVars => (part # "dram" => log = <<>>)'
  BY DEF SumNext, allVars, dramOwnVars
<1>. QED BY <1>1, <1>2, PTL DEF SumSpec

\* The properties of the memory hold where there is no command, too.
LEMMA NothingWithoutCommands == log = <<>> => TimingsKept /\ DataBusFree
BY DEF TimingsKept, GapsKept, WindowKept, DataBusFree, Earlier

\* Commands keep the distances that the parameters of their standard ask for within a row
\* buffer, a bank group and a rank, and no window has an activation too many, whatever the
\* commands between them, though update_timing() knows only entries, node by node.
THEOREM TimingsAlwaysKept == SumSpec => []TimingsKept
<1>1. (part = "dram" => DramInv) /\ (part # "dram" => log = <<>>) => TimingsKept
  BY GapsHold, WindowHolds, NothingWithoutCommands DEF TimingsKept
<1>. QED BY <1>1, DramInvariant, LogOfDram, PTL

\* The bursts of a channel never meet on the data bus, whichever of its ranks, banks and
\* subarrays they go to: the tables only know distances of commands.
THEOREM DataBusAlwaysFree == SumSpec => []DataBusFree
<1>1. (part = "dram" => DramInv) /\ (part # "dram" => log = <<>>) => DataBusFree
  BY BusHolds, NothingWithoutCommands
<1>. QED BY <1>1, DramInvariant, LogOfDram, PTL
-----------------------------------------------------------------------------
(* The rows: the table of the scheduler and the tree follow the same commands *)

Nested  == config.std \in OfOpenSubarrays
Bottom  == class.levels[Levels]
Bank    == class.levels[Levels - 1]
Effects(cmd) == RulesFor(EffectsOf[config.std], cmd)
Needs(cmd)   == RulesFor(PrereqOf[config.std], cmd)

\* The nodes that have rows, and the banks that know which of their subarrays have one.
Buffers == {n \in NodesOf(config) : Len(n) = Levels}
Banks   == IF Nested THEN {n \in NodesOf(config) : Len(n) = Levels - 1} ELSE {}

\* The places below a node, or the node itself, whose rows the table knows.
OpenIn(n) == {p \in DOMAIN table : SubSeq(p, 1, Len(n)) = n}

\* The tree has the rows of the table, and knows at each level whether there is one.
RowsFollow ==
    /\ DOMAIN row_state = NodesOf(config)
    /\ DOMAIN table \subseteq Buffers
    /\ \A p \in Buffers : row_state[p] = IF p \in DOMAIN table THEN {table[p]} ELSE {}
    /\ \A b \in Banks : row_state[b] = {p[Levels] : p \in OpenIn(b)}
    /\ \A n \in Buffers \cup Banks : state[n] = "Closed" <=> OpenIn(n) = {}
    /\ \A n \in NodesOf(config) \ Banks : Len(n) \in 2 .. Levels - 1 => state[n] \in {"Closed", "MAX"}
    /\ ~failed

LEMMA RowLevelsAre ==
    ASSUME config \in Configs
    PROVE  /\ Levels \in Nat /\ Levels >= 2 /\ (Nested => Levels >= 3)
           /\ Bottom \in {"Bank", "SubArray"} /\ (Nested => Bank = "Bank")
           /\ \A n \in NodesOf(config) :
                 /\ Len(n) \in 0 .. Levels
                 /\ Level(n) = Bottom <=> Len(n) = Levels
                 /\ Nested => (Level(n) = Bank <=> Len(n) = Levels - 1)
                 /\ Level(n) = "Rank" <=> Len(n) = 1
<1>1. config.std \in Standards /\ Levels \in Nat \ {0} /\ DOMAIN class.levels = 1 .. Levels
  BY ConfigIs, StandardIs DEF class, Levels
<1>2. /\ IsInjective(class.levels)
      /\ Levels >= 2 /\ Bottom \in {"Bank", "SubArray"}
      /\ Nested => Levels >= 3 /\ Bank = "Bank"
  BY <1>1, RowsAssumption DEF class, Levels, Nested, Bottom, Bank
<1>3. \A i, j \in 1 .. Levels : class.levels[i] = class.levels[j] => i = j
  BY <1>1, <1>2 DEF IsInjective
<1>4. ASSUME NEW n \in NodesOf(config), NEW i \in 1 .. Levels, class.levels[i] # "Channel"
      PROVE  Level(n) = class.levels[i] <=> Len(n) = i
  <2>1. Len(n) \in 0 .. Levels /\ (Len(n) = 0 => Level(n) = "Channel")
    BY NodeIs
  <2>2. Len(n) # 0 => Level(n) = class.levels[Len(n)]
    <3>1. Len(n) # 0 => n # <<>>
      OBVIOUS
    <3>. QED BY <3>1 DEF Level
  <2>. QED BY <1>1, <1>3, <1>4, <2>1, <2>2
<1>5. Levels \in 1 .. Levels /\ class.levels[Levels] # "Channel"
  BY <1>1, <1>2 DEF Bottom
<1>6. Nested => Levels - 1 \in 1 .. Levels /\ class.levels[Levels - 1] # "Channel"
  BY <1>1, <1>2 DEF Bank
<1>7. \A n \in NodesOf(config) :
                 /\ Len(n) \in 0 .. Levels
                 /\ Level(n) = Bottom <=> Len(n) = Levels
                 /\ Nested => (Level(n) = Bank <=> Len(n) = Levels - 1)
                 /\ Level(n) = "Rank" <=> Len(n) = 1
  BY <1>4, <1>5, <1>6, NodeIs DEF Bottom, Bank
<1>. QED BY <1>1, <1>2, <1>7

LEMMA NodeShape ==
    ASSUME config \in Configs, NEW n \in NodesOf(config)
    PROVE  \E S : n \in Seq(S) /\ Len(n) \in 0 .. Levels /\ SubSeq(n, 1, Len(n)) = n
<1>1. PICK p \in ToSet(Places(config)) : \E i \in 0 .. Len(p) : n = SubSeq(p, 1, i)
  BY DEF NodesOf
<1>2. PICK S : p \in Seq(S) /\ Len(p) = Levels /\ Levels \in Nat \ {0}
  BY PlacesAre, PlaceIs, ConfigIs, StandardIs DEF class, Levels
<1>3. PICK i \in 0 .. Levels : n = SubSeq(p, 1, i)
  BY <1>1, <1>2
<1>4. n \in Seq(S) /\ Len(n) = i
  BY <1>2, <1>3
<1>5. SubSeq(n, 1, Len(n)) = n
  BY <1>4
<1>. QED BY <1>4, <1>5

\* A node on the way to an address is the beginning of it.
LEMMA PathNodeIs ==
    ASSUME config \in Configs, NEW addr \in Addresses(config), NEW depth \in Nat, NEW n
    PROVE  n \in Path(addr, depth) <=>
               /\ n \in NodesOf(config) /\ Len(n) <= Len(addr) /\ Len(n) <= depth
               /\ n = SubSeq(addr, 1, Len(n))
<1>. DEFINE s == {Len(addr), depth, Levels}
<1>1. Len(addr) \in Nat /\ Levels \in Nat
  BY PathsAreNodes, ConfigIs, StandardIs DEF Levels, class
<1>2. PICK d \in s : d = Min(s) /\ \A k \in s : d <= k
  <2>1. s \in SUBSET Nat /\ s # {}
    BY <1>1
  <2>2. \E m \in s : \A k \in s : m <= k
    BY <2>1, SmallestExists
  <2>. HIDE DEF s
  <2>. QED BY <2>2 DEF Min
<1>3. /\ d \in Nat /\ d <= Len(addr) /\ d <= depth /\ d <= Levels
      /\ \A i \in Nat : i <= Len(addr) /\ i <= depth /\ i <= Levels => i \in 0 .. d
  <2>1. d = Len(addr) \/ d = depth \/ d = Levels
    BY <1>2
  <2>2. d <= Len(addr) /\ d <= depth /\ d <= Levels
    BY <1>2
  <2>. HIDE DEF s
  <2>. QED BY <1>1, <2>1, <2>2
<1>4. Path(addr, depth) = {SubSeq(addr, 1, i) : i \in 0 .. d}
  BY <1>2 DEF Path
<1>5. \A i \in 0 .. d : SubSeq(addr, 1, i) \in NodesOf(config) /\ Len(SubSeq(addr, 1, i)) = i
  <2>1. \A i \in 0 .. d : i \in Nat /\ i <= Len(addr) /\ i <= Levels
    BY <1>1, <1>3
  <2>. QED BY <2>1, PathsAreNodes DEF Levels, class
<1>6. n \in NodesOf(config) => Len(n) \in 0 .. Levels
  BY NodeIs
<1>. HIDE DEF s
<1>7. ASSUME n \in Path(addr, depth)
      PROVE  /\ n \in NodesOf(config) /\ Len(n) <= Len(addr) /\ Len(n) <= depth
             /\ n = SubSeq(addr, 1, Len(n))
  <2>1. PICK i \in 0 .. d : n = SubSeq(addr, 1, i)
    BY <1>4, <1>7
  <2>2. Len(n) = i
    BY <1>5, <2>1
  <2>. QED BY <1>1, <1>3, <1>5, <2>1, <2>2
<1>8. ASSUME n \in NodesOf(config), Len(n) <= Len(addr), Len(n) <= depth, n = SubSeq(addr, 1, Len(n))
      PROVE  n \in Path(addr, depth)
  <2>1. Len(n) \in 0 .. d
    BY <1>1, <1>3, <1>6, <1>8
  <2>. QED BY <1>4, <1>8, <2>1, Zenon
<1>. QED BY <1>7, <1>8

LEMMA WhereRule ==
    ASSUME TreeTyped, NEW addr \in Addresses(config), NEW cmd \in Scope(config), NEW u, NEW n
    PROVE  n \in Where(cmd, addr, u) <=>
               /\ n \in NodesOf(config) /\ Len(n) <= Len(addr) /\ Len(n) <= ScopeDepth(cmd)
               /\ n = SubSeq(addr, 1, Len(n)) /\ <<Level(n), u>> \in Effects(cmd)
<1>1. n \in Path(addr, ScopeDepth(cmd)) <=>
          /\ n \in NodesOf(config) /\ Len(n) <= Len(addr) /\ Len(n) <= ScopeDepth(cmd)
          /\ n = SubSeq(addr, 1, Len(n))
  BY ScopesAreDepths, PathNodeIs DEF TreeTyped
<1>2. ASSUME n \in NodesOf(config) PROVE u \in RuleAt(Lambdas, n, cmd) <=> <<Level(n), u>> \in Effects(cmd)
  <2>1. config.std \in Standards /\ Level(n) \in LevelsOf(config.std)
    BY <1>2, ConfigIs, NodeIs DEF TreeTyped
  <2>2. RuleAt(Lambdas, n, cmd) = {r[3] : r \in {q \in EffectsOf[config.std] : q[1] = Level(n) /\ q[2] = cmd}}
    BY <2>1 DEF RuleAt, Lambdas, RulesByCommand, Scope
  <2>. QED BY <2>2 DEF Effects, RulesFor
<1>. QED BY <1>1, <1>2 DEF Where

LEMMA PrereqRule ==
    ASSUME config \in Configs, NEW n \in NodesOf(config), NEW cmd \in Scope(config), NEW u
    PROVE  u \in RuleAt(Prerequisites, n, cmd) <=> <<Level(n), u>> \in Needs(cmd)
<1>1. config.std \in Standards /\ Level(n) \in LevelsOf(config.std)
  BY ConfigIs, NodeIs
<1>2. RuleAt(Prerequisites, n, cmd) = {r[3] : r \in {q \in PrereqOf[config.std] : q[1] = Level(n) /\ q[2] = cmd}}
  BY <1>1 DEF RuleAt, Prerequisites, RulesByCommand, Scope
<1>. QED BY <1>2 DEF Needs, RulesFor

\* What a command does to a node that is no rank, by what it opens and what it closes.
LEMMA RowsAfter ==
    ASSUME TreeTyped, DOMAIN row_state = NodesOf(config), NEW addr \in Addresses(config), NEW cmd \in Scope(config),
           UpdateState(cmd, addr),
           Shut(cmd, addr) = {} \/ (Opens(cmd, addr) = {} /\ Where(cmd, addr, "select") = {}),
           \A k \in Where(cmd, addr, "select") : state[k] # "Closed",
           NEW n \in NodesOf(config), Len(n) # 1
    PROVE  /\ n \in Shut(cmd, addr) => state'[n] = "Closed" /\ row_state'[n] = {}
           /\ n \in Opens(cmd, addr) => state'[n] # "Closed" /\ row_state'[n] = row_state[n] \cup {ChildId(n, addr)}
           /\ n \notin Shut(cmd, addr) \cup Opens(cmd, addr) =>
                  /\ row_state'[n] = row_state[n] /\ (state'[n] = "Closed" <=> state[n] = "Closed")
                  /\ n \notin Where(cmd, addr, "select") /\ state[n] \in {"Closed", "MAX"} => state'[n] = state[n]
<1>1. /\ state'[n] = StateAfter(cmd, addr, n)
      /\ row_state'[n] = CASE n \in Shut(cmd, addr)  -> {}
                           [] n \in Opens(cmd, addr) -> row_state[n] \cup {ChildId(n, addr)}
                           [] OTHER -> row_state[n]
  <2>1. n \in Nodes
    BY DEF TreeTyped, Nodes
  <2>. QED BY <2>1, Zenon DEF UpdateState
<1>0. n \in Shut(cmd, addr) => /\ n \notin Opens(cmd, addr) /\ n \notin Selects(cmd, addr)
                               /\ n \notin Where(cmd, addr, "open") /\ n \notin Unselected(cmd, addr)
  <2>. SUFFICES ASSUME n \in Shut(cmd, addr)
                PROVE  /\ n \notin Opens(cmd, addr) /\ n \notin Selects(cmd, addr)
                       /\ n \notin Where(cmd, addr, "open") /\ n \notin Unselected(cmd, addr)
    BY Zenon
  <2>1. Opens(cmd, addr) = {} /\ Where(cmd, addr, "select") = {}
    BY Zenon
  <2>2. Where(cmd, addr, "open") = {} /\ Where(cmd, addr, "open and select") = {}
    BY <2>1, Zenon DEF Opens
  <2>3. Selects(cmd, addr) = {}
    BY <2>1, <2>2, Zenon DEF Selects
  <2>. QED BY <2>1, <2>2, <2>3, Zenon DEF Unselected
<1>2. \A u \in RankRules : n \notin Where(cmd, addr, u)
  BY WhereIs, Zenon
<1>3. /\ n \notin Where(cmd, addr, "power up") /\ n \notin Where(cmd, addr, "self refresh")
      /\ n \notin Where(cmd, addr, "power down")
  BY <1>2, Zenon DEF RankRules
<1>4. CASE n \in Shut(cmd, addr)
  <2>1. state'[n] = "Closed" /\ row_state'[n] = {} /\ n \notin Opens(cmd, addr)
    BY <1>0, <1>1, <1>3, <1>4, Zenon DEF StateAfter
  <2>. QED BY <1>4, <2>1, Zenon
<1>5. CASE n \in Opens(cmd, addr)
  <2>1. n \notin Shut(cmd, addr)
    BY <1>0, <1>5, Zenon
  <2>2. row_state'[n] = row_state[n] \cup {ChildId(n, addr)}
    BY <1>1, <1>5, <2>1, Zenon
  <2>3. state'[n] = "Selected" \/ state'[n] = "Opened"
    BY <1>1, <1>3, <1>5, <2>1, Zenon DEF StateAfter, Opens, Selects
  <2>4. "Selected" # "Closed" /\ "Opened" # "Closed"
    OBVIOUS
  <2>. QED BY <1>5, <2>1, <2>2, <2>3, <2>4, Zenon
<1>6. CASE n \notin Shut(cmd, addr) /\ n \notin Opens(cmd, addr)
  <2>1. row_state'[n] = row_state[n]
    BY <1>1, <1>6, Zenon
  <2>2. n \notin Where(cmd, addr, "open") /\ n \notin Where(cmd, addr, "open and select")
    BY <1>6, Zenon DEF Opens
  <2>3. CASE n \in Where(cmd, addr, "select")
    <3>1. state'[n] = "Selected" \/ state'[n] = "Opened"
      BY <1>1, <1>3, <1>6, <2>2, <2>3, Zenon DEF StateAfter, Selects
    <3>2. "Selected" # "Closed" /\ "Opened" # "Closed"
      OBVIOUS
    <3>. QED BY <1>6, <2>1, <2>3, <3>1, <3>2, Zenon
  <2>4. CASE n \notin Where(cmd, addr, "select") /\ n \in Unselected(cmd, addr)
    <3>1. n \notin Selects(cmd, addr)
      BY <2>2, <2>4, Zenon DEF Selects
    <3>2. state'[n] = "Opened"
      BY <1>1, <1>3, <1>6, <2>2, <2>4, <3>1, Zenon DEF StateAfter
    <3>3. state[n] = "Selected"
      BY <2>4, Zenon DEF Unselected
    <3>4. state'[n] # "Closed" /\ state[n] \notin {"Closed", "MAX"}
      BY <3>2, <3>3
    <3>. QED BY <1>6, <2>1, <3>4, Zenon
  <2>5. CASE n \notin Where(cmd, addr, "select") /\ n \notin Unselected(cmd, addr)
    <3>1. n \notin Selects(cmd, addr)
      BY <2>2, <2>5, Zenon DEF Selects
    <3>2. state'[n] = state[n]
      BY <1>1, <1>3, <1>6, <2>2, <2>5, <3>1, Zenon DEF StateAfter
    <3>. QED BY <1>6, <2>1, <3>2, Zenon
  <2>. QED BY <2>3, <2>4, <2>5, Zenon
<1>. QED BY <1>4, <1>5, <1>6, Zenon

LEMMA CommandRules ==
    ASSUME config \in Configs, NEW cmd \in Issuable(config.std)
    PROVE  /\ cmd \in Scope(config) /\ ScopeDepth(cmd) \in Nat
           /\ cmd \in class.opening =>
                  /\ cmd \in Openers /\ ScopeDepth(cmd) >= Levels
                  /\ \E u \in {"open", "open and select"} :
                         Effects(cmd) = {<<Bottom, u>>} \cup (IF Nested THEN {<<Bank, "open">>} ELSE {})
           /\ cmd \in class.closing =>
                  /\ cmd \in Closers
                  /\ \/ Effects(cmd) = {<<"Rank", "close all">>} /\ ScopeDepth(cmd) = 1
                     \/ Effects(cmd) = {<<Bottom, "close">>} /\ ScopeDepth(cmd) = Levels /\ ~Nested
                     \/ Effects(cmd) = {<<Bank, "close with subarrays">>} /\ ScopeDepth(cmd) = Levels - 1 /\ Nested
           /\ cmd \notin class.opening \cup class.closing =>
                  \A e \in Effects(cmd) : \/ e[1] = "Rank" /\ e[2] # "close all"
                                          \/ cmd = "SASEL" /\ e = <<Bottom, "select">>
<1>1. config.std \in Standards
  BY ConfigIs
<1>2. /\ cmd \in class.opening =>
                  /\ ScopeDepth(cmd) >= Levels
                  /\ \E u \in {"open", "open and select"} :
                         Effects(cmd) = {<<Bottom, u>>} \cup (IF Nested THEN {<<Bank, "open">>} ELSE {})
      /\ cmd \in class.closing =>
                  \/ Effects(cmd) = {<<"Rank", "close all">>} /\ ScopeDepth(cmd) = 1
                  \/ Effects(cmd) = {<<Bottom, "close">>} /\ ScopeDepth(cmd) = Levels /\ ~Nested
                  \/ Effects(cmd) = {<<Bank, "close with subarrays">>} /\ ScopeDepth(cmd) = Levels - 1 /\ Nested
      /\ cmd \notin class.opening \cup class.closing =>
                  \A e \in Effects(cmd) : \/ e[1] = "Rank" /\ e[2] # "close all"
                                          \/ cmd = "SASEL" /\ e = <<Bottom, "select">>
      /\ class.opening \subseteq Openers /\ Issuable(config.std) \cap class.closing \subseteq Closers
  BY <1>1, RowsAssumption, Zenon DEF class, Levels, Nested, Bottom, Bank, Effects, ScopeDepth
<1>3. cmd \in Scope(config) /\ ScopeDepth(cmd) \in Nat
  BY IssuableIs, ScopesAreDepths
<1>. QED BY <1>2, <1>3, Zenon

LEMMA OpeningEffect ==
    ASSUME TreeTyped, NEW addr \in Addresses(config), NEW cmd \in Issuable(config.std),
           cmd \in class.opening, Len(addr) = Levels + 1
    PROVE  /\ Shut(cmd, addr) = {} /\ Where(cmd, addr, "select") = {}
           /\ Opens(cmd, addr) = {n \in Buffers \cup Banks : n = SubSeq(addr, 1, Len(n))}
<1>1. config \in Configs /\ cmd \in Scope(config) /\ ScopeDepth(cmd) \in Nat /\ ScopeDepth(cmd) >= Levels
  BY CommandRules DEF TreeTyped
<1>2. PICK u : u \in {"open", "open and select"} /\
          Effects(cmd) = {<<Bottom, u>>} \cup (IF Nested THEN {<<Bank, "open">>} ELSE {})
  BY <1>1, CommandRules, Zenon
<1>3. \A n, v : n \in Where(cmd, addr, v) => v \in {"open", "open and select"}
  <2>1. \A n, v : n \in Where(cmd, addr, v) => <<Level(n), v>> \in Effects(cmd)
    BY <1>1, WhereRule, Zenon
  <2>2. \A l, v : <<l, v>> \in Effects(cmd) => v = u \/ v = "open"
    <3>1. \A l, v : <<l, v>> \in {<<Bottom, u>>} \cup (IF Nested THEN {<<Bank, "open">>} ELSE {}) => v = u \/ v = "open"
      BY Zenon
    <3>. QED BY <1>2, <3>1, Zenon
  <2>. QED BY <1>2, <2>1, <2>2, Zenon
<1>4. /\ \A n : n \notin Where(cmd, addr, "close") /\ n \notin Where(cmd, addr, "close all")
      /\ \A n : n \notin Where(cmd, addr, "close with subarrays") /\ n \notin Where(cmd, addr, "select")
  <2>1. /\ "close" \notin {"open", "open and select"} /\ "close all" \notin {"open", "open and select"}
        /\ "close with subarrays" \notin {"open", "open and select"} /\ "select" \notin {"open", "open and select"}
    BY Zenon
  <2>. QED BY <1>3, <2>1, Zenon
<1>5. Shut(cmd, addr) = {} /\ Where(cmd, addr, "select") = {}
  BY <1>4, Zenon DEF Shut
<1>6. ASSUME NEW n
      PROVE  n \in Opens(cmd, addr) <=> n \in Buffers \cup Banks /\ n = SubSeq(addr, 1, Len(n))
  <2>1. n \in Opens(cmd, addr) <=>
            /\ n \in NodesOf(config) /\ Len(n) <= Len(addr) /\ Len(n) <= ScopeDepth(cmd)
            /\ n = SubSeq(addr, 1, Len(n))
            /\ <<Level(n), "open">> \in Effects(cmd) \/ <<Level(n), "open and select">> \in Effects(cmd)
    BY <1>1, WhereRule, Zenon DEF Opens
  <2>2. <<Level(n), "open">> \in Effects(cmd) \/ <<Level(n), "open and select">> \in Effects(cmd) <=>
            Level(n) = Bottom \/ (Nested /\ Level(n) = Bank)
    BY <1>2, Zenon
  <2>3. n \in NodesOf(config) =>
            (Level(n) = Bottom \/ (Nested /\ Level(n) = Bank) <=> n \in Buffers \cup Banks)
    BY <1>1, RowLevelsAre DEF Buffers, Banks
  <2>4. n \in Buffers \cup Banks => n \in NodesOf(config)
    BY DEF Buffers, Banks
  <2>5. ASSUME n \in NodesOf(config) PROVE Len(n) <= Len(addr) /\ Len(n) <= ScopeDepth(cmd)
    <3>1. Len(n) \in 0 .. Levels /\ Levels \in Nat
      BY <1>1, <2>5, RowLevelsAre
    <3>. QED BY <1>1, <3>1
  <2>. QED BY <2>1, <2>2, <2>3, <2>4, <2>5, Zenon
<1>. QED BY <1>5, <1>6, Zenon

LEMMA ClosingEffect ==
    ASSUME TreeTyped, NEW addr \in Addresses(config), NEW cmd \in Issuable(config.std),
           cmd \in class.closing, ScopeDepth(cmd) <= Len(addr)
    PROVE  LET d == ScopeDepth(cmd) IN
           /\ d \in 1 .. Levels /\ (Nested => d < Levels)
           /\ Opens(cmd, addr) = {} /\ Where(cmd, addr, "select") = {}
           /\ \A n \in NodesOf(config) : Len(n) # 1 =>
                  (n \in Shut(cmd, addr) <=> Len(n) >= d /\ SubSeq(n, 1, d) = SubSeq(addr, 1, d))
<1>. DEFINE d == ScopeDepth(cmd)
            here == SubSeq(addr, 1, d)
<1>1. /\ config \in Configs /\ cmd \in Scope(config) /\ d \in Nat
      /\ \/ Effects(cmd) = {<<"Rank", "close all">>} /\ d = 1
         \/ Effects(cmd) = {<<Bottom, "close">>} /\ d = Levels /\ ~Nested
         \/ Effects(cmd) = {<<Bank, "close with subarrays">>} /\ d = Levels - 1 /\ Nested
  BY CommandRules, Zenon DEF TreeTyped
<1>2. PICK l, u : /\ Effects(cmd) = {<<l, u>>} /\ u \in {"close all", "close", "close with subarrays"}
                  /\ \/ l = "Rank" /\ u = "close all" /\ d = 1
                     \/ l = Bottom /\ u = "close" /\ d = Levels /\ ~Nested
                     \/ l = Bank /\ u = "close with subarrays" /\ d = Levels - 1 /\ Nested
  BY <1>1, Zenon
<1>3. /\ Levels \in Nat /\ Levels >= 2 /\ (Nested => Levels >= 3) /\ d \in 1 .. Levels /\ (Nested => d < Levels)
  <2>1. Levels \in Nat /\ Levels >= 2 /\ (Nested => Levels >= 3)
    BY <1>1, RowLevelsAre
  <2>2. d = 1 \/ (d = Levels /\ ~Nested) \/ (d = Levels - 1 /\ Nested)
    BY <1>2, Zenon
  <2>. QED BY <2>1, <2>2
<1>4. config \in Configs /\ d \in Nat /\ here \in NodesOf(config) /\ Len(here) = d
  <2>0. config \in Configs /\ cmd \in Scope(config)
    BY <1>1, Zenon
  <2>1. d \in Nat /\ d <= Len(addr) /\ d <= Levels
    BY <1>3
  <2>. HIDE DEF d
  <2>. QED BY <2>0, <2>1, PathsAreNodes DEF Levels, class
<1>. HIDE DEF d, here
<1>5. Level(here) = l
  <2>1. (d = 1 => Level(here) = "Rank") /\ (d = Levels => Level(here) = Bottom)
        /\ (d = Levels - 1 /\ Nested => Level(here) = Bank)
    BY <1>4, RowLevelsAre
  <2>. QED BY <1>2, <2>1, Zenon
<1>6. ASSUME NEW v, NEW n PROVE n \in Where(cmd, addr, v) <=> v = u /\ n = here
  <2>1. n \in Where(cmd, addr, v) <=>
            /\ n \in NodesOf(config) /\ Len(n) <= Len(addr) /\ Len(n) <= d
            /\ n = SubSeq(addr, 1, Len(n)) /\ Level(n) = l /\ v = u
    BY <1>1, <1>2, WhereRule, ZenonT(30) DEF d
  <2>2. n \in NodesOf(config) /\ Level(n) = l => Len(n) = d
    <3>. SUFFICES ASSUME n \in NodesOf(config), Level(n) = l PROVE Len(n) = d
      BY Zenon
    <3>1. /\ Level(n) = "Rank" => Len(n) = 1
          /\ Level(n) = Bottom => Len(n) = Levels
          /\ Nested /\ Level(n) = Bank => Len(n) = Levels - 1
      BY <1>4, RowLevelsAre
    <3>2. CASE l = "Rank" /\ d = 1
      BY <3>1, <3>2
    <3>3. CASE l = Bottom /\ d = Levels
      BY <3>1, <3>3
    <3>4. CASE l = Bank /\ d = Levels - 1 /\ Nested
      BY <3>1, <3>4
    <3>. QED BY <1>2, <3>2, <3>3, <3>4, Zenon
  <2>3. d <= d
    BY <1>4
  <2>4. d <= Len(addr)
    BY DEF d
  <2>. QED BY <1>4, <1>5, <2>1, <2>2, <2>3, <2>4, Zenon DEF here
<1>7. \A v : Where(cmd, addr, v) = IF v = u THEN {here} ELSE {}
  BY <1>6, Zenon
<1>8. Opens(cmd, addr) = {} /\ Where(cmd, addr, "select") = {}
  <2>1. "open" # u /\ "open and select" # u /\ "select" # u
    BY <1>2, Zenon
  <2>. QED BY <1>6, <2>1, Zenon DEF Opens
<1>9. ASSUME NEW n \in NodesOf(config), Len(n) # 1
      PROVE  n \in Shut(cmd, addr) <=> Len(n) >= d /\ SubSeq(n, 1, d) = here
  <2>1. /\ n \in Below(here) <=> Len(n) > d /\ SubSeq(n, 1, d) = here
    <3>1. SubSeq(here, 1, Len(here)) = here /\ n \in Nodes
      BY <1>4, NodeShape DEF TreeTyped, Nodes
    <3>2. n \in Below(here) <=> Len(n) > d /\ d <= Len(n) /\ here = SubSeq(n, 1, d)
      BY <1>4, <3>1 DEF Below, IsPrefix
    <3>3. Len(n) \in Nat /\ (Len(n) > d => d <= Len(n))
      BY <1>3, <1>4, RowLevelsAre
    <3>. QED BY <3>2, <3>3
  <2>2. n = here <=> Len(n) = d /\ SubSeq(n, 1, d) = here
    <3>1. SubSeq(n, 1, Len(n)) = n
      BY <1>4, NodeShape
    <3>. QED BY <1>4, <3>1, Zenon
  <2>3. Len(n) \in 0 .. Levels
    BY <1>4, RowLevelsAre
  <2>4. CASE u = "close all"
    <3>1. d = 1 /\ (n \in Shut(cmd, addr) <=> n \in Below(here))
      <4>1. "close" # u /\ "close with subarrays" # u /\ d = 1
        BY <1>2, <2>4, Zenon
      <4>2. /\ Where(cmd, addr, "close all") = {here} /\ Where(cmd, addr, "close") = {}
            /\ Where(cmd, addr, "close with subarrays") = {}
        BY <1>7, <2>4, <4>1, Zenon
      <4>. QED BY <4>1, <4>2, Zenon DEF Shut
    <3>. QED BY <1>9, <2>1, <2>3, <3>1, SMTT(30)
  <2>5. CASE u = "close"
    <3>1. d = Levels /\ (n \in Shut(cmd, addr) <=> n = here)
      <4>1. "close all" # u /\ "close with subarrays" # u /\ d = Levels
        BY <1>2, <2>5, Zenon
      <4>2. /\ Where(cmd, addr, "close all") = {} /\ Where(cmd, addr, "close") = {here}
            /\ Where(cmd, addr, "close with subarrays") = {}
        BY <1>7, <2>5, <4>1, Zenon
      <4>. QED BY <4>1, <4>2, Zenon DEF Shut
    <3>. QED BY <1>3, <2>2, <2>3, <3>1
  <2>6. CASE u = "close with subarrays"
    <3>1. n \in Shut(cmd, addr) <=> n = here \/ n \in Below(here)
      <4>1. "close all" # u /\ "close" # u
        BY <2>6, Zenon
      <4>2. /\ Where(cmd, addr, "close all") = {} /\ Where(cmd, addr, "close") = {}
            /\ Where(cmd, addr, "close with subarrays") = {here}
        BY <1>7, <2>6, <4>1, Zenon
      <4>3. \A k : k \in Shut(cmd, addr) <=> k \in UNION {{h} \cup Below(h) : h \in {here}}
        BY <4>2, Zenon DEF Shut
      <4>. QED BY <4>3
    <3>. QED BY <1>3, <2>1, <2>2, <2>3, <3>1
  <2>. QED BY <1>2, <2>4, <2>5, <2>6, Zenon
<1>. QED BY <1>3, <1>8, <1>9 DEF d, here

LEMMA OtherEffect ==
    ASSUME TreeTyped, NEW addr \in Addresses(config), NEW cmd \in Issuable(config.std),
           cmd \notin class.opening, cmd \notin class.closing
    PROVE  /\ Shut(cmd, addr) = {} /\ Opens(cmd, addr) = {}
           /\ \A n \in Where(cmd, addr, "select") :
                  cmd = "SASEL" /\ n \in Buffers /\ n = SubSeq(addr, 1, Levels)
<1>1. /\ config \in Configs /\ cmd \in Scope(config)
      /\ \A e \in Effects(cmd) : \/ e[1] = "Rank" /\ e[2] # "close all"
                                 \/ cmd = "SASEL" /\ e = <<Bottom, "select">>
  BY CommandRules, Zenon DEF TreeTyped
<1>2. ASSUME NEW v, NEW n \in Where(cmd, addr, v), v \notin RankRules \ {"close all"}
      PROVE  cmd = "SASEL" /\ v = "select" /\ n \in Buffers /\ n = SubSeq(addr, 1, Levels)
  <2>1. n \in NodesOf(config) /\ n = SubSeq(addr, 1, Len(n)) /\ <<Level(n), v>> \in Effects(cmd)
    BY <1>1, WhereRule, Zenon
  <2>2. \/ Level(n) = "Rank" /\ v # "close all"
        \/ cmd = "SASEL" /\ Level(n) = Bottom /\ v = "select"
    <3>1. <<Level(n), v>>[1] = Level(n) /\ <<Level(n), v>>[2] = v
      BY Zenon
    <3>2. \A e \in Effects(cmd) : e = <<Bottom, "select">> => e[1] = Bottom /\ e[2] = "select"
      BY SMT
    <3>. QED BY <1>1, <2>1, <3>1, <3>2, Zenon
  <2>3. ~(Level(n) = "Rank" /\ v # "close all")
    <3>1. Level(n) = "Rank" => Len(n) = 1
      BY <1>1, <2>1, RowLevelsAre
    <3>2. Len(n) = 1 => v \in RankRules
      BY <1>1, <1>2, WhereIs, Zenon
    <3>. QED BY <1>2, <3>1, <3>2, Zenon
  <2>4. Level(n) = Bottom => Len(n) = Levels
    BY <1>1, <2>1, RowLevelsAre
  <2>. QED BY <2>1, <2>2, <2>3, <2>4, Zenon DEF Buffers
<1>3. /\ \A v \in {"close", "close all", "close with subarrays", "open", "open and select"} :
             \A n : n \notin Where(cmd, addr, v)
  <2>1. \A v \in {"close", "close all", "close with subarrays", "open", "open and select"} :
            v # "select" /\ v \notin RankRules \ {"close all"}
    BY Zenon DEF RankRules
  <2>. QED BY <1>2, <2>1, Zenon
<1>4. Shut(cmd, addr) = {} /\ Opens(cmd, addr) = {}
  BY <1>3, Zenon DEF Shut, Opens
<1>5. "select" \notin RankRules \ {"close all"}
  BY Zenon DEF RankRules
<1>. QED BY <1>2, <1>4, <1>5, Zenon
-----------------------------------------------------------------------------
(* What decode() knows of the rows when it asks for a command *)

\* The requirements of a request for a row, and of the others.
NeedsRow(c) ==
    /\ \E u \in RowRules : <<Bottom, u>> \in Needs(c)
    /\ \A e \in Needs(c) : \/ e = <<"Rank", "awake">>
                           \/ Nested /\ e = <<Bank, "subarray open">>
                           \/ e[1] = Bottom /\ e[2] \in RowRules
NeedsNoRow(c) ==
    /\ c \notin class.accessing
    /\ \A e \in Needs(c) : \/ e[1] = "Rank" /\ e[2] \in IdleRules
                           \/ Nested /\ e = <<Bank, "bank closed">>

LEMMA RowAddressIs ==
    ASSUME NEW c \in Configs, NEW r \in Requests(c), r[1] \in {"READ", "WRITE", "EXTENSION"}
    PROVE  Len(r[2]) = Len(ClassOf[c.std].levels) + 1
<1>1. PICK t \in RequestTypes(c) : \E a \in AddressesFor(c, t) : r = <<t, a>>
  BY DEF Requests
<1>2. PICK a \in AddressesFor(c, t) : r = <<t, a>>
  BY <1>1
<1>3. \E p \in ToSet(Places(c)) : \E e : a = Append(p, e)
  BY <1>2, PlacesAre DEF AddressesFor
<1>4. PICK p \in ToSet(Places(c)) : \E e : a = Append(p, e)
  BY <1>3
<1>5. PICK e : a = Append(p, e)
  BY <1>4
<1>6. PICK S : p \in Seq(S) /\ Len(p) = Len(ClassOf[c.std].levels) /\ Len(p) \in Nat
  BY PlacesAre, PlaceIs, ConfigIs, StandardIs
<1>7. 0 \in 0 .. Len(p)
  BY <1>6
<1>8. Len(Append(p, e)) = Len(p) + 1
  BY <1>6, <1>7, PrefixOfAppended
<1>. QED BY <1>2, <1>5, <1>6, <1>8

LEMMA RequestNeeds ==
    ASSUME config \in Configs, NEW r \in Requests(config)
    PROVE  \E c \in Issuable(config.std) :
               /\ Issued(r[1], r[2]) = Decode(c, r[2])
               /\ c \notin Openers \cup Closers \cup {"SASEL", "MAX"}
               /\ (NeedsRow(c) /\ Len(r[2]) = Levels + 1) \/ NeedsNoRow(c)
<1>1. /\ config.std \in Standards
      /\ r[1] \in {"READ", "WRITE", "REFRESH", "POWERDOWN", "SELFREFRESH", "EXTENSION"}
      /\ r[1] = "EXTENSION" => config.std = "TLDRAM"
  BY ConfigIs, RequestIs
<1>2. /\ {"READ", "WRITE", "REFRESH", "POWERDOWN", "SELFREFRESH"} \subseteq DOMAIN class.translate
      /\ config.std = "TLDRAM" => "EXTENSION" \in DOMAIN class.translate
  BY <1>1, TablesAssumption DEF class
<1>3. PICK t \in DOMAIN class.translate :
          /\ Issued(r[1], r[2]) = Decode(class.translate[t], r[2])
          /\ t \in {"READ", "WRITE", "EXTENSION"} => r[1] \in {"READ", "WRITE", "EXTENSION"}
  <2>1. CASE config.std = "TLDRAM" /\ r[1] = "READ"
    <3>1. class.translate["EXTENSION"] = "MIG"
      BY <1>1, <2>1, MigrationTables DEF class
    <3>. QED BY <1>2, <2>1, <3>1 DEF Issued
  <2>2. CASE ~(config.std = "TLDRAM" /\ r[1] = "READ")
    BY <1>1, <1>2, <2>2 DEF Issued, Asked
  <2>. QED BY <2>1, <2>2
<1>. DEFINE c == class.translate[t]
<1>4. /\ c \notin Openers \cup Closers \cup {"SASEL", "MAX"}
      /\ t \in {"READ", "WRITE", "EXTENSION"} => NeedsRow(c)
      /\ t \notin {"READ", "WRITE", "EXTENSION"} => NeedsNoRow(c)
  BY <1>1, <1>3, RowsAssumption, Zenon DEF class, Levels, Nested, Bottom, Bank, Needs, NeedsRow, NeedsNoRow
<1>5. c \in Issuable(config.std)
  BY DEF Issuable, class
<1>6. t \in {"READ", "WRITE", "EXTENSION"} => Len(r[2]) = Levels + 1
  BY <1>3, RowAddressIs DEF Levels, class
<1>. QED BY <1>3, <1>4, <1>5, <1>6, Zenon

LEMMA DecodeFrom ==
    ASSUME config \in Configs, NEW addr \in Addresses(config), NEW c \in Issuable(config.std)
    PROVE  \/ /\ Decode(c, addr) = c
              /\ \A n \in NodesOf(config) : \A u :
                    Len(n) <= Len(addr) /\ n = SubSeq(addr, 1, Len(n)) /\ <<Level(n), u>> \in Needs(c) =>
                        Required(u, n, c, addr) = "MAX"
           \/ \E n \in NodesOf(config) : \E u :
                 /\ Len(n) <= Len(addr) /\ n = SubSeq(addr, 1, Len(n)) /\ <<Level(n), u>> \in Needs(c)
                 /\ Decode(c, addr) = Required(u, n, c, addr) /\ Required(u, n, c, addr) # "MAX"
<1>. DEFINE own(n) == {<<n, Required(u, n, c, addr)>> : u \in RuleAt(Prerequisites, n, c)}
            answers == UNION {own(n) : n \in Path(addr, Levels)}
            needs == {a \in answers : a[2] # "MAX"}
<1>1. \A n : n \in Path(addr, Levels) <=>
                 n \in NodesOf(config) /\ Len(n) <= Len(addr) /\ n = SubSeq(addr, 1, Len(n))
  <2>1. Levels \in Nat /\ \A n \in NodesOf(config) : Len(n) \in 0 .. Levels
    BY RowLevelsAre
  <2>2. \A n \in NodesOf(config) : Len(n) <= Levels
    BY <2>1
  <2>. QED BY <2>1, <2>2, PathNodeIs
<1>2. \A n \in NodesOf(config) : \A u : u \in RuleAt(Prerequisites, n, c) <=> <<Level(n), u>> \in Needs(c)
  BY PrereqRule, IssuableIs
<1>3. Decode(c, addr) = IF needs = {} THEN c
                        ELSE (CHOOSE a \in needs : \A b \in needs : Len(a[1]) <= Len(b[1]))[2]
  BY DEF Decode
<1>4. \A a \in needs : \E n \in Path(addr, Levels) : \E u : u \in RuleAt(Prerequisites, n, c) /\
          a = <<n, Required(u, n, c, addr)>> /\ Required(u, n, c, addr) # "MAX"
  OBVIOUS
<1>5. \A n \in Path(addr, Levels) : \A u : u \in RuleAt(Prerequisites, n, c) =>
          Required(u, n, c, addr) = "MAX" \/ <<n, Required(u, n, c, addr)>> \in needs
  OBVIOUS
<1>. HIDE DEF needs
<1>6. CASE needs = {}
  BY <1>1, <1>2, <1>3, <1>5, <1>6
<1>7. CASE needs # {}
  <2>1. \A a \in needs : Len(a[1]) \in Nat
    <3>1. \A n \in NodesOf(config) : Len(n) \in Nat
      BY RowLevelsAre
    <3>. QED BY <1>1, <1>4, <3>1
  <2>2. \E a \in needs : \A b \in needs : Len(a[1]) <= Len(b[1])
    <3>. DEFINE lengths == {Len(a[1]) : a \in needs}
    <3>1. lengths \in SUBSET Nat /\ lengths # {}
      BY <1>7, <2>1
    <3>2. PICK m \in lengths : \A k \in lengths : m <= k
      BY <3>1, SmallestExists
    <3>. QED BY <3>2
  <2>3. \E a \in needs : Decode(c, addr) = a[2]
    BY <1>3, <1>7, <2>2
  <2>4. \E n \in Path(addr, Levels) : \E u : /\ u \in RuleAt(Prerequisites, n, c)
          /\ Decode(c, addr) = Required(u, n, c, addr) /\ Required(u, n, c, addr) # "MAX"
    BY <1>4, <2>3
  <2>. QED BY <1>1, <1>2, <2>4
<1>. QED BY <1>6, <1>7

\* What the rules of the nodes with rows answer.
LEMMA RowAnswers ==
    ASSUME NEW u \in RowRules, NEW n, NEW c, NEW addr
    PROVE  LET d == Required(u, n, c, addr) IN
           \/ d \in Openers /\ state[n] = "Closed"
           \/ state[n] # "Closed" /\ d \in Closers
           \/ state[n] # "Closed" /\ d \in {c, "SASEL"} /\ ChildId(n, addr) \in row_state[n]
<1>1. CASE u = "row open"
  BY <1>1, Zenon DEF Required, Openers, Closers
<1>2. CASE u = "row selected"
  BY <1>2, Zenon DEF Required, Openers, Closers
<1>3. CASE u = "row open, by segment"
  BY <1>3, Zenon DEF Required, Openers, Closers
<1>4. CASE u = "row open to migrate"
  BY <1>4, Zenon DEF Required, Openers, Closers
<1>. QED BY <1>1, <1>2, <1>3, <1>4, Zenon DEF RowRules

LEMMA AwakeAnswers ==
    ASSUME NEW n, NEW c, NEW addr, state[n] \in Awake
    PROVE  Required("awake", n, c, addr) \in {"MAX", "PDX", "SRX"}
BY Zenon DEF Required, Awake, PoweredDown

LEMMA SubarrayAnswers ==
    ASSUME NEW n, NEW c, NEW addr
    PROVE  \/ Required("subarray open", n, c, addr) = "MAX"
           \/ Required("subarray open", n, c, addr) = "ACT" /\ state[n] = "Closed"
           \/ Required("subarray open", n, c, addr) = "PRE" /\ state[n] # "Closed"
BY Zenon DEF Required

LEMMA IdleAnswers ==
    ASSUME NEW n, NEW c, NEW addr
    PROVE  /\ Required("power down", n, c, addr) \in {"SRX", "PDE"}
           /\ Required("self refresh", n, c, addr) \in {"PDX", "SRE"}
           /\ \/ Required("banks closed", n, c, addr) = c
              \/ Required("banks closed", n, c, addr) = "PREA" /\ ~AllClosed(n)
<1>1. Required("power down", n, c, addr) \in {"SRX", "PDE"}
  BY Zenon DEF Required
<1>2. Required("self refresh", n, c, addr) \in {"PDX", "SRE"}
  BY Zenon DEF Required
<1>3. \/ Required("banks closed", n, c, addr) = c
      \/ Required("banks closed", n, c, addr) = "PREA" /\ ~AllClosed(n)
  BY Zenon DEF Required
<1>. QED BY <1>1, <1>2, <1>3, Zenon

LEMMA BankAnswers ==
    ASSUME NEW n, NEW c, NEW addr
    PROVE  \/ Required("bank closed", n, c, addr) = c
           \/ Required("bank closed", n, c, addr) = "PRE" /\ state[n] # "Closed"
BY Zenon DEF Required

\* The beginning of a beginning.
LEMMA PrefixOfPrefix ==
    ASSUME NEW S, NEW p \in Seq(S), NEW k \in Nat, k <= Len(p), NEW j \in Nat, j <= k
    PROVE  SubSeq(SubSeq(p, 1, k), 1, j) = SubSeq(p, 1, j)
<1>1. /\ SubSeq(p, 1, k) = [i \in 1 .. k |-> p[i]] /\ SubSeq(p, 1, j) = [i \in 1 .. j |-> p[i]]
      /\ SubSeq(p, 1, k) \in Seq(S) /\ Len(SubSeq(p, 1, k)) = k
  OBVIOUS
<1>. DEFINE s == SubSeq(p, 1, k)
<1>2. SubSeq(s, 1, j) = [i \in 1 .. j |-> s[i]]
  <2>. HIDE DEF s
  <2>. QED BY <1>1 DEF s
<1>3. \A i \in 1 .. j : s[i] = p[i]
  BY <1>1
<1>. HIDE DEF s
<1>. QED BY <1>1, <1>2, <1>3 DEF s

\* What holds of the rows when a command is asked for: a row is opened where there is none,
\* accessed where it is open, and closed where some row is.
Grounded(d, addr) ==
    /\ d \in Openers => Len(addr) = Levels + 1 /\ SubSeq(addr, 1, Levels) \notin DOMAIN table
    /\ d \in class.accessing =>
           Len(addr) = Levels + 1 /\ addr[Levels + 1] \in row_state[SubSeq(addr, 1, Levels)]
    /\ d \in class.closing \cap Closers =>
           /\ ScopeDepth(d) <= Len(addr)
           /\ \E p \in DOMAIN table : SubSeq(p, 1, ScopeDepth(d)) = SubSeq(addr, 1, ScopeDepth(d))
    /\ d = "SASEL" => Len(addr) = Levels + 1 /\ SubSeq(addr, 1, Levels) \in DOMAIN table

LEMMA NamesApart ==
    ASSUME config \in Configs
    PROVE  /\ Openers \cap Closers = {} /\ "SASEL" \notin Openers \cup Closers
           /\ class.accessing \cap (Openers \cup Closers \cup {"SASEL", "PDE", "PDX", "SRE", "SRX"}) = {}
           /\ \A d \in {"PDE", "PDX", "SRE", "SRX"} : d \notin Openers \cup Closers \cup {"SASEL"}
           /\ ScopeDepth("PREA") = 1 /\ "PREA" \in Closers /\ "PRE" \in Closers /\ "ACT" \in Openers
<1>1. /\ class.accessing \cap (Openers \cup Closers \cup {"SASEL", "PDE", "PDX", "SRE", "SRX"}) = {}
      /\ ScopeDepth("PREA") = 1
  BY ConfigIs, RowsAssumption DEF class, ScopeDepth
<1>. QED BY <1>1 DEF Openers, Closers

\* Where a place below a node has a row, a command may close it.
LEMMA ClosesSomewhere ==
    ASSUME TreeTyped, RowsFollow, NEW addr \in Addresses(config), NEW d \in Issuable(config.std),
           d \in class.closing, NEW n \in Buffers \cup Banks,
           Len(n) <= Len(addr), n = SubSeq(addr, 1, Len(n)), OpenIn(n) # {}
    PROVE  /\ ScopeDepth(d) <= Len(addr)
           /\ \E p \in DOMAIN table : SubSeq(p, 1, ScopeDepth(d)) = SubSeq(addr, 1, ScopeDepth(d))
<1>. DEFINE k == ScopeDepth(d)
<1>1. config \in Configs /\ n \in NodesOf(config)
  BY DEF TreeTyped, Buffers, Banks
<1>2. /\ Levels \in Nat /\ Levels >= 2 /\ (Nested => Levels >= 3)
      /\ Len(n) = Levels \/ (Nested /\ Len(n) = Levels - 1)
  BY <1>1, RowLevelsAre DEF Buffers, Banks
<1>3. k = 1 \/ (k = Levels /\ ~Nested) \/ (k = Levels - 1 /\ Nested)
  BY <1>1, CommandRules, Zenon
<1>4. k \in Nat /\ k <= Len(n)
  <2>. HIDE DEF k
  <2>1. CASE Len(n) = Levels
    BY <1>2, <1>3, <2>1
  <2>2. CASE Nested /\ Len(n) = Levels - 1
    BY <1>2, <1>3, <2>2
  <2>. QED BY <1>2, <2>1, <2>2, Zenon
<1>5. PICK p \in DOMAIN table : SubSeq(p, 1, Len(n)) = n
  BY DEF OpenIn
<1>6. p \in NodesOf(config) /\ Len(p) = Levels
  BY DEF RowsFollow, Buffers
<1>7. PICK S : p \in Seq(S)
  BY <1>1, <1>6, NodeShape
<1>8. PICK T : addr \in Seq(T) /\ Len(addr) \in Nat
  BY <1>1, AddressIs
<1>9. Len(n) \in Nat /\ Len(n) <= Len(p) /\ Len(addr) \in Nat
  <2>. DEFINE m == Len(n)
  <2>1. m = Levels \/ m = Levels - 1
    BY <1>2, ZenonT(30)
  <2>2. Levels \in Nat /\ Levels >= 2
    BY <1>2, Zenon
  <2>. HIDE DEF m
  <2>3. m \in Nat /\ m <= Levels
    BY <2>1, <2>2
  <2>4. Len(n) \in Nat /\ Len(n) <= Levels
    BY <2>3 DEF m
  <2>. QED BY <1>6, <1>8, <2>4
<1>. HIDE DEF k
<1>10. SubSeq(n, 1, k) = SubSeq(p, 1, k) /\ SubSeq(n, 1, k) = SubSeq(addr, 1, k)
  BY <1>4, <1>5, <1>7, <1>8, <1>9, PrefixOfPrefix
<1>11. k <= Len(addr)
  BY <1>4, <1>9
<1>. QED BY <1>5, <1>10, <1>11, Zenon DEF k

\* A rank of which not everything is closed has a row open.
LEMMA OpenBelow ==
    ASSUME TreeTyped, RowsFollow, NEW n \in NodesOf(config), Len(n) = 1, ~AllClosed(n)
    PROVE  \E p \in DOMAIN table : SubSeq(p, 1, 1) = SubSeq(n, 1, 1)
<1>1. PICK k \in Below(n) : state[k] \notin {"Closed", "MAX"}
  BY DEF AllClosed
<1>2. config \in Configs /\ k \in NodesOf(config) /\ Len(k) > 1 /\ SubSeq(k, 1, 1) = SubSeq(n, 1, 1)
  BY <1>1 DEF Below, IsPrefix, Nodes, TreeTyped
<1>3. k \in Buffers \cup Banks
  <2>1. Len(k) \in 0 .. Levels /\ Levels \in Nat
    BY <1>2, RowLevelsAre
  <2>2. Len(k) = Levels \/ Len(k) \in 2 .. Levels - 1
    BY <1>2, <2>1
  <2>. QED BY <1>1, <1>2, <2>2 DEF RowsFollow, Buffers
<1>4. OpenIn(k) # {}
  BY <1>1, <1>3 DEF RowsFollow
<1>5. PICK p \in DOMAIN table : SubSeq(p, 1, Len(k)) = k
  BY <1>4 DEF OpenIn
<1>6. p \in NodesOf(config) /\ Len(p) = Levels /\ Len(k) \in Nat /\ Len(k) <= Levels
  <2>1. Len(k) \in 0 .. Levels /\ Levels \in Nat
    BY <1>2, RowLevelsAre
  <2>. QED BY <2>1 DEF RowsFollow, Buffers
<1>7. PICK S : p \in Seq(S)
  BY <1>2, <1>6, NodeShape
<1>8. SubSeq(k, 1, 1) = SubSeq(p, 1, 1)
  <2>1. 1 <= Len(k)
    BY <1>2, <1>6
  <2>. QED BY <1>5, <1>6, <1>7, <2>1, PrefixOfPrefix
<1>. QED BY <1>2, <1>5, <1>8

LEMMA RowRequestGrounded ==
    ASSUME TreeTyped, RanksAwake, RowsFollow, NEW addr \in Addresses(config), NEW c \in Issuable(config.std),
           c \notin Openers \cup Closers \cup {"SASEL", "MAX"}, NeedsRow(c), Len(addr) = Levels + 1
    PROVE  Grounded(Decode(c, addr), addr)
<1>. DEFINE place == SubSeq(addr, 1, Levels)
            d == Decode(c, addr)
<1>1. config \in Configs /\ Levels \in Nat /\ Levels >= 2 /\ (Nested => Levels >= 3)
  BY RowLevelsAre DEF TreeTyped
<1>2. place \in NodesOf(config) /\ Len(place) = Levels /\ Levels <= Len(addr) /\ place \in Buffers
  <2>1. Levels <= Len(addr)
    BY <1>1
  <2>2. place \in NodesOf(config) /\ Len(place) = Levels
    BY <1>1, <2>1, PathsAreNodes DEF Levels, class
  <2>. QED BY <2>1, <2>2 DEF Buffers
<1>3. d \in Issuable(config.std)
  BY <1>1, DecodeInScope DEF TreeTyped
<1>4. OpenIn(place) # {} <=> place \in DOMAIN table
  <2>1. \A p \in DOMAIN table : SubSeq(p, 1, Levels) = p
    <3>1. \A p \in DOMAIN table : p \in NodesOf(config) /\ Len(p) = Levels
      BY DEF RowsFollow, Buffers
    <3>. QED BY <1>1, <3>1, NodeShape
  <2>2. OpenIn(place) = {p \in DOMAIN table : SubSeq(p, 1, Levels) = place}
    BY <1>2, Zenon DEF OpenIn
  <2>. QED BY <2>1, <2>2, Zenon
<1>5. state[place] = "Closed" <=> place \notin DOMAIN table
  BY <1>2, <1>4 DEF RowsFollow
<1>6. ASSUME NEW u \in RowRules, <<Bottom, u>> \in Needs(c), d = Required(u, place, c, addr)
      PROVE  Grounded(d, addr)
  <2>1. \/ d \in Openers /\ state[place] = "Closed"
        \/ state[place] # "Closed" /\ d \in Closers
        \/ state[place] # "Closed" /\ d \in {c, "SASEL"} /\ addr[Levels + 1] \in row_state[place]
    <3>1. \/ Required(u, place, c, addr) \in Openers /\ state[place] = "Closed"
          \/ state[place] # "Closed" /\ Required(u, place, c, addr) \in Closers
          \/ /\ state[place] # "Closed" /\ Required(u, place, c, addr) \in {c, "SASEL"}
             /\ ChildId(place, addr) \in row_state[place]
      BY <1>6, RowAnswers, Zenon
    <3>2. ChildId(place, addr) = addr[Levels + 1]
      BY <1>2, Zenon DEF ChildId
    <3>. HIDE DEF place, d
    <3>. QED BY <1>6, <3>1, <3>2, Zenon
  <2>2. CASE d \in Openers /\ state[place] = "Closed"
    BY <1>1, <1>5, <2>2, NamesApart DEF Grounded
  <2>3. CASE state[place] # "Closed" /\ d \in Closers
    <3>1. d \in class.closing => /\ ScopeDepth(d) <= Len(addr)
             /\ \E p \in DOMAIN table : SubSeq(p, 1, ScopeDepth(d)) = SubSeq(addr, 1, ScopeDepth(d))
      <4>1. place \in Buffers \cup Banks /\ Len(place) <= Len(addr) /\ place = SubSeq(addr, 1, Len(place))
        BY <1>2
      <4>2. OpenIn(place) # {}
        BY <1>4, <1>5, <2>3, Zenon
      <4>. HIDE DEF place, d
      <4>. QED BY <1>3, <4>1, <4>2, ClosesSomewhere
    <3>. QED BY <1>1, <2>3, <3>1, NamesApart DEF Grounded
  <2>4. CASE state[place] # "Closed" /\ d \in {c, "SASEL"} /\ addr[Levels + 1] \in row_state[place]
    BY <1>1, <1>5, <2>4, NamesApart DEF Grounded
  <2>. QED BY <2>1, <2>2, <2>3, <2>4
<1>7. ASSUME NEW n \in NodesOf(config), Len(n) <= Len(addr), n = SubSeq(addr, 1, Len(n)), Nested,
             <<Level(n), "subarray open">> = <<Bank, "subarray open">>,
             d = Required("subarray open", n, c, addr), d # "MAX"
      PROVE  Grounded(d, addr)
  <2>1. Level(n) = Bank
    BY <1>7, Zenon
  <2>2. Len(n) = Levels - 1 /\ n \in Banks
    BY <1>1, <1>7, <2>1, RowLevelsAre, Zenon DEF Banks
  <2>3. state[n] = "Closed" <=> OpenIn(n) = {}
    BY <2>2 DEF RowsFollow
  <2>4. (d = "ACT" /\ state[n] = "Closed") \/ (d = "PRE" /\ state[n] # "Closed")
    <3>. DEFINE q == Required("subarray open", n, c, addr)
    <3>1. q = "MAX" \/ (q = "ACT" /\ state[n] = "Closed") \/ (q = "PRE" /\ state[n] # "Closed")
      BY SubarrayAnswers, Zenon
    <3>2. d = q /\ d # "MAX"
      BY <1>7, Zenon
    <3>. HIDE DEF q, d
    <3>3. q # "MAX"
      BY <3>2, Zenon
    <3>4. (q = "ACT" /\ state[n] = "Closed") \/ (q = "PRE" /\ state[n] # "Closed")
      BY <3>1, <3>3, Zenon
    <3>5. (q = "ACT" => d = "ACT") /\ (q = "PRE" => d = "PRE")
      BY <3>2, Zenon
    <3>. QED BY <3>4, <3>5, Zenon
  <2>5. CASE d = "ACT" /\ state[n] = "Closed"
    <3>1. place \notin DOMAIN table
      <4>1. PICK T : addr \in Seq(T)
        BY <1>1, AddressIs
      <4>2. SubSeq(place, 1, Levels - 1) = SubSeq(addr, 1, Levels - 1)
        BY <1>1, <1>2, <4>1, PrefixOfPrefix
      <4>3. SubSeq(place, 1, Len(n)) = n
        BY <1>7, <2>2, <4>2
      <4>. QED BY <2>3, <2>5, <4>3 DEF OpenIn
    <3>. QED BY <1>1, <2>5, <3>1, NamesApart DEF Grounded
  <2>6. CASE d = "PRE" /\ state[n] # "Closed"
    <3>1. d \in class.closing => /\ ScopeDepth(d) <= Len(addr)
             /\ \E p \in DOMAIN table : SubSeq(p, 1, ScopeDepth(d)) = SubSeq(addr, 1, ScopeDepth(d))
      <4>1. n \in Buffers \cup Banks /\ OpenIn(n) # {}
        BY <2>2, <2>3, <2>6, Zenon
      <4>. HIDE DEF d
      <4>. QED BY <1>3, <1>7, <4>1, ClosesSomewhere
    <3>. QED BY <1>1, <2>6, <3>1, NamesApart DEF Grounded
  <2>. QED BY <2>4, <2>5, <2>6
<1>8. ASSUME NEW n \in NodesOf(config), Level(n) = "Rank", d = Required("awake", n, c, addr), d # "MAX"
      PROVE  Grounded(d, addr)
  <2>1. state[n] \in Awake
    BY <1>1, <1>8, RowLevelsAre DEF RanksAwake
  <2>2. d \in {"PDX", "SRX"}
    <3>1. Required("awake", n, c, addr) \in {"MAX", "PDX", "SRX"}
      BY <2>1, AwakeAnswers, ZenonT(30)
    <3>. HIDE DEF d
    <3>. QED BY <1>8, <3>1, Zenon
  <2>. QED BY <1>1, <2>2, NamesApart DEF Grounded
<1>9. ASSUME NEW n \in NodesOf(config), Len(n) <= Len(addr), n = SubSeq(addr, 1, Len(n)), Level(n) = Bottom
      PROVE  n = place
  BY <1>1, <1>9, RowLevelsAre, Zenon
<1>10. CASE /\ d = c
            /\ \A n \in NodesOf(config) : \A u :
                    Len(n) <= Len(addr) /\ n = SubSeq(addr, 1, Len(n)) /\ <<Level(n), u>> \in Needs(c) =>
                        Required(u, n, c, addr) = "MAX"
  <2>1. PICK u \in RowRules : <<Bottom, u>> \in Needs(c)
    BY DEF NeedsRow
  <2>2. Level(place) = Bottom
    BY <1>1, <1>2, RowLevelsAre
  <2>3. Required(u, place, c, addr) = "MAX"
    BY <1>2, <1>10, <2>1, <2>2, Zenon
  <2>4. Required(u, place, c, addr) \in Openers \cup Closers \cup {c, "SASEL"}
    BY <2>1, RowAnswers, Zenon
  <2>. QED BY <2>3, <2>4, Zenon DEF Openers, Closers
<1>11. CASE \E n \in NodesOf(config) : \E u :
                 /\ Len(n) <= Len(addr) /\ n = SubSeq(addr, 1, Len(n)) /\ <<Level(n), u>> \in Needs(c)
                 /\ d = Required(u, n, c, addr) /\ Required(u, n, c, addr) # "MAX"
  <2>0. PICK n \in NodesOf(config) : \E u :
                 /\ Len(n) <= Len(addr) /\ n = SubSeq(addr, 1, Len(n)) /\ <<Level(n), u>> \in Needs(c)
                 /\ d = Required(u, n, c, addr) /\ Required(u, n, c, addr) # "MAX"
    BY <1>11
  <2>1. PICK u :
                 /\ Len(n) <= Len(addr) /\ n = SubSeq(addr, 1, Len(n)) /\ <<Level(n), u>> \in Needs(c)
                 /\ d = Required(u, n, c, addr) /\ Required(u, n, c, addr) # "MAX"
    BY <2>0
  <2>2. \/ <<Level(n), u>> = <<"Rank", "awake">>
        \/ Nested /\ <<Level(n), u>> = <<Bank, "subarray open">>
        \/ <<Level(n), u>>[1] = Bottom /\ <<Level(n), u>>[2] \in RowRules
    BY <2>1, Zenon DEF NeedsRow
  <2>3. <<Level(n), u>>[1] = Level(n) /\ <<Level(n), u>>[2] = u
    OBVIOUS
  <2>4. CASE <<Level(n), u>> = <<"Rank", "awake">>
    BY <1>8, <2>1, <2>4, Zenon
  <2>5. CASE Nested /\ <<Level(n), u>> = <<Bank, "subarray open">>
    BY <1>7, <2>1, <2>5, Zenon
  <2>6. CASE <<Level(n), u>>[1] = Bottom /\ <<Level(n), u>>[2] \in RowRules
    BY <1>6, <1>9, <2>1, <2>3, <2>6, Zenon
  <2>. QED BY <2>2, <2>4, <2>5, <2>6, Zenon
<1>. QED BY <1>1, <1>10, <1>11, DecodeFrom

\* A command that neither touches rows nor opens or closes them has nothing to ask for.
LEMMA OtherGrounded ==
    ASSUME NEW addr, NEW d, d \notin Openers \cup Closers \cup {"SASEL"}, d \notin class.accessing
    PROVE  Grounded(d, addr)
BY Zenon DEF Grounded

LEMMA IdleRequestGrounded ==
    ASSUME TreeTyped, RanksAwake, RowsFollow, NEW addr \in Addresses(config), NEW c \in Issuable(config.std),
           c \notin Openers \cup Closers \cup {"SASEL", "MAX"}, NeedsNoRow(c)
    PROVE  Grounded(Decode(c, addr), addr)
<1>. DEFINE d == Decode(c, addr)
<1>1. config \in Configs /\ d \in Issuable(config.std)
  BY DecodeInScope DEF TreeTyped
<1>2. c \notin class.accessing /\ c \notin Openers \cup Closers \cup {"SASEL"}
  BY Zenon DEF NeedsNoRow
<1>3. d = c => Grounded(d, addr)
  BY <1>2, OtherGrounded
<1>4. ASSUME d \in {"PDE", "PDX", "SRE", "SRX"} PROVE Grounded(d, addr)
  <2>1. d \notin Openers \cup Closers \cup {"SASEL"} /\ d \notin class.accessing
    BY <1>1, <1>4, NamesApart
  <2>. QED BY <2>1, OtherGrounded
<1>5. ASSUME NEW n \in NodesOf(config), Len(n) <= Len(addr), n = SubSeq(addr, 1, Len(n)),
             Level(n) = "Rank", d = "PREA", ~AllClosed(n)
      PROVE  Grounded(d, addr)
  <2>1. Len(n) = 1
    BY <1>1, <1>5, RowLevelsAre
  <2>2. PICK p \in DOMAIN table : SubSeq(p, 1, 1) = SubSeq(n, 1, 1)
    BY <1>5, <2>1, OpenBelow
  <2>3. SubSeq(n, 1, 1) = SubSeq(addr, 1, 1) /\ 1 <= Len(addr)
    <3>1. PICK T : addr \in Seq(T) /\ Len(addr) \in Nat \ {0}
      BY <1>1, AddressIs
    <3>2. SubSeq(SubSeq(addr, 1, 1), 1, 1) = SubSeq(addr, 1, 1)
      BY <3>1, PrefixOfPrefix
    <3>. QED BY <1>5, <2>1, <3>1, <3>2
  <2>4. ScopeDepth(d) = 1 /\ d \in Closers /\ d \notin Openers /\ d \notin class.accessing /\ d # "SASEL"
    BY <1>1, <1>5, NamesApart
  <2>. QED BY <2>2, <2>3, <2>4 DEF Grounded
<1>6. ASSUME NEW n \in NodesOf(config), Len(n) <= Len(addr), n = SubSeq(addr, 1, Len(n)),
             Nested, Level(n) = Bank, d = "PRE", state[n] # "Closed"
      PROVE  Grounded(d, addr)
  <2>1. n \in Banks
    BY <1>1, <1>6, RowLevelsAre, Zenon DEF Banks
  <2>2. n \in Buffers \cup Banks /\ OpenIn(n) # {}
    BY <1>6, <2>1 DEF RowsFollow
  <2>3. d \in class.closing => /\ ScopeDepth(d) <= Len(addr)
             /\ \E p \in DOMAIN table : SubSeq(p, 1, ScopeDepth(d)) = SubSeq(addr, 1, ScopeDepth(d))
    <3>. HIDE DEF d
    <3>. QED BY <1>1, <1>6, <2>2, ClosesSomewhere
  <2>4. d \in Closers /\ d \notin Openers /\ d \notin class.accessing /\ d # "SASEL"
    BY <1>1, <1>6, NamesApart
  <2>. QED BY <2>3, <2>4 DEF Grounded
<1>7. ASSUME NEW n \in NodesOf(config), NEW u,
             Len(n) <= Len(addr), n = SubSeq(addr, 1, Len(n)), <<Level(n), u>> \in Needs(c), d = Required(u, n, c, addr)
      PROVE  \/ d = c \/ d \in {"PDE", "PDX", "SRE", "SRX"}
             \/ d = "PREA" /\ ~AllClosed(n) /\ Level(n) = "Rank"
             \/ d = "PRE" /\ state[n] # "Closed" /\ Nested /\ Level(n) = Bank
  <2>1. \/ <<Level(n), u>>[1] = "Rank" /\ <<Level(n), u>>[2] \in IdleRules
        \/ Nested /\ <<Level(n), u>> = <<Bank, "bank closed">>
    BY <1>7, Zenon DEF NeedsNoRow
  <2>2. <<Level(n), u>>[1] = Level(n) /\ <<Level(n), u>>[2] = u
    OBVIOUS
  <2>. HIDE DEF d
  <2>3. CASE Level(n) = "Rank" /\ u \in IdleRules
    <3>1. CASE u = "power down"
      BY <1>7, <3>1, IdleAnswers, Zenon
    <3>2. CASE u = "self refresh"
      BY <1>7, <3>2, IdleAnswers, Zenon
    <3>3. CASE u = "banks closed"
      <4>. DEFINE q == Required("banks closed", n, c, addr)
      <4>1. q = c \/ (q = "PREA" /\ ~AllClosed(n))
        BY IdleAnswers, Zenon
      <4>2. d = q
        BY <1>7, <3>3, Zenon
      <4>. HIDE DEF q
      <4>3. (q = c => d = c) /\ (q = "PREA" => d = "PREA")
        BY <4>2, Zenon
      <4>. QED BY <2>3, <4>1, <4>3, Zenon
    <3>. QED BY <2>3, <3>1, <3>2, <3>3, Zenon DEF IdleRules
  <2>4. CASE Nested /\ <<Level(n), u>> = <<Bank, "bank closed">>
    <3>1. Level(n) = Bank /\ u = "bank closed"
      BY <2>4, Zenon
    <3>. QED BY <1>7, <2>4, <3>1, BankAnswers, Zenon
  <2>. QED BY <2>1, <2>2, <2>3, <2>4, Zenon
<1>8. d = c \/ \E n \in NodesOf(config) : \E u :
          Len(n) <= Len(addr) /\ n = SubSeq(addr, 1, Len(n)) /\ <<Level(n), u>> \in Needs(c) /\ d = Required(u, n, c, addr)
  BY <1>1, DecodeFrom, Zenon
<1>. HIDE DEF d
<1>9. ASSUME NEW n \in NodesOf(config), NEW u,
             Len(n) <= Len(addr), n = SubSeq(addr, 1, Len(n)), <<Level(n), u>> \in Needs(c), d = Required(u, n, c, addr)
      PROVE  Grounded(d, addr)
  <2>1. \/ d = c \/ d \in {"PDE", "PDX", "SRE", "SRX"}
        \/ d = "PREA" /\ ~AllClosed(n) /\ Level(n) = "Rank"
        \/ d = "PRE" /\ state[n] # "Closed" /\ Nested /\ Level(n) = Bank
    BY <1>7, <1>9, Zenon
  <2>. QED BY <1>3, <1>4, <1>5, <1>6, <1>9, <2>1, Zenon
<1>10. Grounded(d, addr)
  BY <1>3, <1>8, <1>9, Zenon
<1>. QED BY <1>10, Zenon DEF d

\* Every command that is issued has its reason in the rows.
LEMMA IssuedGrounded ==
    ASSUME TreeTyped, RanksAwake, RowsFollow, NEW r \in Requests(config)
    PROVE  Grounded(Issued(r[1], r[2]), r[2])
<1>1. config \in Configs /\ r[2] \in Addresses(config)
  BY CommandIs DEF TreeTyped
<1>2. PICK c \in Issuable(config.std) :
               /\ Issued(r[1], r[2]) = Decode(c, r[2])
               /\ c \notin Openers \cup Closers \cup {"SASEL", "MAX"}
               /\ (NeedsRow(c) /\ Len(r[2]) = Levels + 1) \/ NeedsNoRow(c)
  BY <1>1, RequestNeeds
<1>3. Grounded(Decode(c, r[2]), r[2])
  BY <1>1, <1>2, RowRequestGrounded, IdleRequestGrounded
<1>. QED BY <1>2, <1>3, Zenon
-----------------------------------------------------------------------------
(* What a command does to the rows *)

\* The places below a node whose rows the table knows after a step.
OpenAfter(n) == {p \in DOMAIN table' : SubSeq(p, 1, Len(n)) = n}

LEMMA RowsFollowAfter ==
    ASSUME config' = config, DOMAIN row_state' = NodesOf(config), ~failed',
           DOMAIN table' \subseteq Buffers,
           \A p \in Buffers : row_state'[p] = IF p \in DOMAIN table' THEN {table'[p]} ELSE {},
           \A b \in Banks : row_state'[b] = {p[Levels] : p \in OpenAfter(b)},
           \A n \in Buffers \cup Banks : state'[n] = "Closed" <=> OpenAfter(n) = {},
           \A n \in NodesOf(config) \ Banks : Len(n) \in 2 .. Levels - 1 => state'[n] \in {"Closed", "MAX"}
    PROVE  RowsFollow'
BY DEF RowsFollow, Buffers, Banks, OpenIn, OpenAfter, Nested, Levels, class

LEMMA RowNodesAre ==
    ASSUME config \in Configs
    PROVE  /\ Levels \in Nat /\ Levels >= 2
           /\ \A n \in Buffers : n \in NodesOf(config) /\ Len(n) = Levels /\ SubSeq(n, 1, Levels) = n
           /\ \A n \in Banks : n \in NodesOf(config) /\ Len(n) = Levels - 1 /\ Nested
           /\ \A n \in Buffers \cup Banks :
                  n \in NodesOf(config) /\ Len(n) \in Nat /\ Len(n) >= 2 /\ Len(n) <= Levels /\ Len(n) # 1
           /\ \A n \in NodesOf(config) : Len(n) \in 2 .. Levels - 1 => Len(n) # 1 /\ n \notin Buffers
<1>1. Levels \in Nat /\ Levels >= 2 /\ (Nested => Levels >= 3)
  BY RowLevelsAre
<1>2. \A n \in Buffers : n \in NodesOf(config) /\ Len(n) = Levels /\ SubSeq(n, 1, Levels) = n
  BY NodeShape DEF Buffers
<1>3. \A n \in Banks : n \in NodesOf(config) /\ Len(n) = Levels - 1 /\ Nested
  BY DEF Banks
<1>4. \A n \in NodesOf(config) : Len(n) \in 2 .. Levels - 1 => Len(n) # 1 /\ n \notin Buffers
  <2>1. \A n \in NodesOf(config) : Len(n) \in 2 .. Levels - 1 => Len(n) # 1 /\ Len(n) # Levels
    BY <1>1
  <2>. QED BY <1>2, <2>1
<1>5. ASSUME NEW n \in Buffers \cup Banks
      PROVE  n \in NodesOf(config) /\ Len(n) \in Nat /\ Len(n) >= 2 /\ Len(n) <= Levels /\ Len(n) # 1
  <2>1. CASE n \in Buffers
    <3>1. n \in NodesOf(config) /\ Len(n) = Levels
      BY <1>2, <2>1, Zenon
    <3>. QED BY <1>1, <3>1
  <2>2. CASE n \in Banks
    <3>1. n \in NodesOf(config) /\ Len(n) = Levels - 1 /\ Levels >= 3
      BY <1>1, <1>3, <2>2, Zenon
    <3>. QED BY <1>1, <3>1
  <2>. QED BY <2>1, <2>2, Zenon
<1>. QED BY <1>1, <1>2, <1>3, <1>4, <1>5, Zenon

LEMMA OpeningKeeps ==
    ASSUME TreeTyped, RowsFollow, NEW addr \in Addresses(config), NEW cmd \in Issuable(config.std),
           cmd \in class.opening, Grounded(cmd, addr),
           UpdateState(cmd, addr), UpdateTable(cmd, addr), config' = config
    PROVE  RowsFollow'
<1>. DEFINE place == SubSeq(addr, 1, Levels)
<1>1. config \in Configs /\ cmd \in Scope(config) /\ Nodes = NodesOf(config)
  BY CommandRules DEF TreeTyped, Nodes
<1>2. cmd \in Openers /\ cmd \notin class.closing /\ cmd \notin class.accessing
  <2>1. cmd \in Openers /\ (cmd \in class.closing => cmd \in Closers)
    BY <1>1, CommandRules, Zenon
  <2>. QED BY <1>1, <2>1, NamesApart
<1>3. Len(addr) = Levels + 1 /\ place \notin DOMAIN table
  BY <1>2 DEF Grounded
<1>4. Levels \in Nat /\ Levels >= 2 /\ Levels <= Len(addr)
  BY <1>1, <1>3, RowNodesAre
<1>5. PICK T : addr \in Seq(T)
  BY <1>1, AddressIs
<1>6. place \in Buffers /\ place[Levels] = addr[Levels]
  <2>1. place \in NodesOf(config) /\ Len(place) = Levels
    BY <1>1, <1>4, PathsAreNodes DEF Levels, class
  <2>2. place[Levels] = addr[Levels]
    BY <1>4, <1>5
  <2>. QED BY <2>1, <2>2 DEF Buffers
<1>7. /\ DOMAIN table' = DOMAIN table \cup {place} /\ ~failed'
      /\ \A p \in DOMAIN table : table'[p] = table[p]
      /\ table'[place] = addr[Levels + 1]
  <2>1. Erased(cmd, addr) = {}
    BY <1>2 DEF Erased
  <2>2. ~failed
    BY DEF RowsFollow
  <2>. QED BY <1>2, <1>3, <2>1, <2>2 DEF UpdateTable
<1>8. /\ Shut(cmd, addr) = {} /\ Where(cmd, addr, "select") = {}
      /\ Opens(cmd, addr) = {n \in Buffers \cup Banks : n = SubSeq(addr, 1, Len(n))}
  BY <1>3, OpeningEffect
<1>9. ASSUME NEW n \in NodesOf(config), Len(n) # 1
      PROVE  /\ n \in Opens(cmd, addr) => state'[n] # "Closed" /\ row_state'[n] = row_state[n] \cup {ChildId(n, addr)}
             /\ n \notin Opens(cmd, addr) =>
                    /\ row_state'[n] = row_state[n] /\ (state'[n] = "Closed" <=> state[n] = "Closed")
                    /\ state[n] \in {"Closed", "MAX"} => state'[n] = state[n]
  <2>1. DOMAIN row_state = NodesOf(config)
    BY DEF RowsFollow
  <2>. QED BY <1>1, <1>8, <1>9, <2>1, RowsAfter
<1>. HIDE DEF place
<1>10. \A n \in Buffers \cup Banks : n \in NodesOf(config) /\ Len(n) \in Nat /\ Len(n) # 1 /\ Len(n) <= Levels
  BY <1>1, RowNodesAre
<1>11. \A n \in Buffers \cup Banks : n \in Opens(cmd, addr) <=> SubSeq(place, 1, Len(n)) = n
  <2>1. \A n \in Buffers \cup Banks : SubSeq(place, 1, Len(n)) = SubSeq(addr, 1, Len(n))
    BY <1>4, <1>5, <1>10, PrefixOfPrefix DEF place
  <2>. QED BY <1>8, <2>1
<1>12. \A n \in Buffers \cup Banks :
           OpenAfter(n) = IF n \in Opens(cmd, addr) THEN OpenIn(n) \cup {place} ELSE OpenIn(n)
  BY <1>7, <1>11 DEF OpenAfter, OpenIn
<1>13. DOMAIN row_state' = NodesOf(config) /\ DOMAIN table' \subseteq Buffers
  BY <1>1, <1>6, <1>7 DEF UpdateState, RowsFollow
<1>14. ASSUME NEW p \in Buffers
       PROVE  row_state'[p] = IF p \in DOMAIN table' THEN {table'[p]} ELSE {}
  <2>1. p \in NodesOf(config) /\ Len(p) = Levels /\ Len(p) # 1 /\ SubSeq(place, 1, Levels) = place
    BY <1>1, <1>4, <1>6, RowNodesAre
  <2>2. row_state[p] = IF p \in DOMAIN table THEN {table[p]} ELSE {}
    BY DEF RowsFollow
  <2>3. p \in Opens(cmd, addr) <=> p = place
    BY <1>11, <2>1
  <2>4. ChildId(p, addr) = addr[Levels + 1]
    BY <2>1 DEF ChildId
  <2>. QED BY <1>3, <1>7, <1>9, <2>1, <2>2, <2>3, <2>4, ZenonT(30)
<1>15. ASSUME NEW b \in Banks
       PROVE  row_state'[b] = {p[Levels] : p \in OpenAfter(b)}
  <2>1. b \in NodesOf(config) /\ Len(b) = Levels - 1 /\ Len(b) # 1
    BY <1>1, <1>10, RowNodesAre, Zenon
  <2>2. row_state[b] = {p[Levels] : p \in OpenIn(b)}
    BY DEF RowsFollow
  <2>3. ChildId(b, addr) = place[Levels]
    BY <1>4, <1>6, <2>1 DEF ChildId
  <2>4. {p[Levels] : p \in OpenIn(b) \cup {place}} = {p[Levels] : p \in OpenIn(b)} \cup {place[Levels]}
    OBVIOUS
  <2>5. CASE b \in Opens(cmd, addr)
    <3>1. row_state'[b] = row_state[b] \cup {ChildId(b, addr)}
      BY <1>9, <2>1, <2>5, Zenon
    <3>2. OpenAfter(b) = OpenIn(b) \cup {place}
      BY <1>12, <2>5, Zenon
    <3>. QED BY <2>2, <2>3, <2>4, <3>1, <3>2, Zenon
  <2>6. CASE b \notin Opens(cmd, addr)
    <3>1. row_state'[b] = row_state[b]
      BY <1>9, <2>1, <2>6, Zenon
    <3>2. OpenAfter(b) = OpenIn(b)
      BY <1>12, <2>6, Zenon
    <3>. QED BY <2>2, <3>1, <3>2, Zenon
  <2>. QED BY <2>5, <2>6
<1>16. ASSUME NEW n \in Buffers \cup Banks
       PROVE  state'[n] = "Closed" <=> OpenAfter(n) = {}
  <2>1. n \in NodesOf(config) /\ Len(n) # 1
    BY <1>10, Zenon
  <2>2. state[n] = "Closed" <=> OpenIn(n) = {}
    BY DEF RowsFollow
  <2>. QED BY <1>9, <1>12, <2>1, <2>2
<1>17. ASSUME NEW n \in NodesOf(config) \ Banks, Len(n) \in 2 .. Levels - 1
       PROVE  state'[n] \in {"Closed", "MAX"}
  <2>1. n \in NodesOf(config) /\ n \notin Banks
    OBVIOUS
  <2>2. Len(n) # 1 /\ n \notin Buffers
    BY <1>1, <1>17, <2>1, RowNodesAre, Zenon
  <2>4. n \notin Opens(cmd, addr)
    BY <1>8, <2>1, <2>2, Zenon
  <2>3. state[n] \in {"Closed", "MAX"}
    BY <1>17, <2>1 DEF RowsFollow
  <2>. QED BY <1>9, <2>1, <2>2, <2>3, <2>4, Zenon
<1>. QED BY <1>7, <1>13, <1>14, <1>15, <1>16, <1>17, RowsFollowAfter

LEMMA ClosingKeeps ==
    ASSUME TreeTyped, RowsFollow, NEW addr \in Addresses(config), NEW cmd \in Issuable(config.std),
           cmd \in class.closing, Grounded(cmd, addr),
           UpdateState(cmd, addr), UpdateTable(cmd, addr), config' = config
    PROVE  RowsFollow'
<1>. DEFINE d == ScopeDepth(cmd)
            shut(n) == SubSeq(n, 1, d) = SubSeq(addr, 1, d)
<1>1. config \in Configs /\ cmd \in Scope(config) /\ Nodes = NodesOf(config)
  BY CommandRules DEF TreeTyped, Nodes
<1>2. cmd \in Closers /\ cmd \notin class.opening /\ cmd \notin class.accessing
  <2>1. cmd \in Closers /\ (cmd \in class.opening => cmd \in Openers)
    BY <1>1, CommandRules, Zenon
  <2>. QED BY <1>1, <2>1, NamesApart
<1>3. d <= Len(addr) /\ \E p \in DOMAIN table : shut(p)
  BY <1>2 DEF Grounded
<1>4. /\ d \in 1 .. Levels /\ (Nested => d < Levels)
      /\ Opens(cmd, addr) = {} /\ Where(cmd, addr, "select") = {}
      /\ \A n \in NodesOf(config) : Len(n) # 1 => (n \in Shut(cmd, addr) <=> Len(n) >= d /\ shut(n))
  BY <1>3, ClosingEffect
<1>5. /\ DOMAIN table' = {p \in DOMAIN table : ~shut(p)} /\ ~failed'
      /\ \A p \in DOMAIN table' : table'[p] = table[p]
  <2>1. Erased(cmd, addr) = {p \in DOMAIN table : shut(p)}
    BY <1>2 DEF Erased
  <2>2. Erased(cmd, addr) # {} /\ ~failed
    BY <1>3, <2>1 DEF RowsFollow
  <2>. HIDE DEF d, shut
  <2>. QED BY <1>2, <2>1, <2>2 DEF UpdateTable
<1>6. ASSUME NEW n \in NodesOf(config), Len(n) # 1
      PROVE  /\ n \in Shut(cmd, addr) => state'[n] = "Closed" /\ row_state'[n] = {}
             /\ n \notin Shut(cmd, addr) =>
                    /\ row_state'[n] = row_state[n] /\ (state'[n] = "Closed" <=> state[n] = "Closed")
                    /\ state[n] \in {"Closed", "MAX"} => state'[n] = state[n]
  <2>1. DOMAIN row_state = NodesOf(config)
    BY DEF RowsFollow
  <2>. HIDE DEF d, shut
  <2>. QED BY <1>1, <1>4, <1>6, <2>1, RowsAfter
<1>7. \A n \in Buffers \cup Banks : n \in NodesOf(config) /\ Len(n) \in Nat /\ Len(n) # 1 /\ Len(n) <= Levels /\ Len(n) >= d
  <2>1. /\ Levels \in Nat
        /\ \A n \in Buffers : Len(n) = Levels
        /\ \A n \in Banks : Len(n) = Levels - 1 /\ Nested
        /\ \A n \in Buffers \cup Banks : n \in NodesOf(config) /\ Len(n) \in Nat /\ Len(n) # 1 /\ Len(n) <= Levels
    BY <1>1, RowNodesAre
  <2>. HIDE DEF d
  <2>. QED BY <1>4, <2>1
<1>8. \A n \in Buffers \cup Banks : n \in Shut(cmd, addr) <=> shut(n)
  <2>. HIDE DEF d, shut
  <2>1. \A n \in Buffers \cup Banks : Len(n) # 1
    BY <1>7
  <2>. QED BY <1>4, <1>7, <2>1
<1>9. \A p \in DOMAIN table : p \in Buffers /\ p \in NodesOf(config) /\ Len(p) = Levels /\ SubSeq(p, 1, Levels) = p
  BY <1>1, RowNodesAre DEF RowsFollow
<1>10. ASSUME NEW n \in Buffers \cup Banks, NEW p \in OpenIn(n)
       PROVE  shut(p) <=> shut(n)
  <2>1. p \in DOMAIN table /\ SubSeq(p, 1, Len(n)) = n
    BY DEF OpenIn
  <2>2. PICK S : p \in Seq(S)
    BY <1>1, <1>9, <2>1, NodeShape
  <2>. HIDE DEF d
  <2>3. Len(n) \in Nat /\ Len(n) <= Len(p) /\ d \in Nat /\ d <= Len(n)
    BY <1>4, <1>7, <1>9, <2>1
  <2>4. SubSeq(n, 1, d) = SubSeq(p, 1, d)
    BY <2>1, <2>2, <2>3, PrefixOfPrefix
  <2>. QED BY <2>4
<1>. HIDE DEF d, shut
<1>11. \A n \in Buffers \cup Banks : OpenAfter(n) = IF n \in Shut(cmd, addr) THEN {} ELSE OpenIn(n)
  <2>1. \A n \in Buffers \cup Banks : OpenAfter(n) = {p \in OpenIn(n) : ~shut(p)}
    BY <1>5 DEF OpenAfter, OpenIn
  <2>. QED BY <1>8, <1>10, <2>1
<1>12. DOMAIN row_state' = NodesOf(config) /\ DOMAIN table' \subseteq Buffers
  BY <1>1, <1>5, <1>9 DEF UpdateState
<1>13. ASSUME NEW p \in Buffers
       PROVE  row_state'[p] = IF p \in DOMAIN table' THEN {table'[p]} ELSE {}
  <2>1. p \in NodesOf(config) /\ Len(p) # 1
    BY <1>7, Zenon
  <2>2. row_state[p] = IF p \in DOMAIN table THEN {table[p]} ELSE {}
    BY DEF RowsFollow
  <2>. QED BY <1>5, <1>6, <1>8, <2>1, <2>2
<1>14. ASSUME NEW b \in Banks
       PROVE  row_state'[b] = {p[Levels] : p \in OpenAfter(b)}
  <2>1. b \in NodesOf(config) /\ Len(b) # 1
    BY <1>7, Zenon
  <2>2. row_state[b] = {p[Levels] : p \in OpenIn(b)}
    BY DEF RowsFollow
  <2>. QED BY <1>6, <1>11, <2>1, <2>2
<1>15. ASSUME NEW n \in Buffers \cup Banks
       PROVE  state'[n] = "Closed" <=> OpenAfter(n) = {}
  <2>1. n \in NodesOf(config) /\ Len(n) # 1
    BY <1>7, Zenon
  <2>2. state[n] = "Closed" <=> OpenIn(n) = {}
    BY DEF RowsFollow
  <2>. QED BY <1>6, <1>11, <2>1, <2>2
<1>16. ASSUME NEW n \in NodesOf(config) \ Banks, Len(n) \in 2 .. Levels - 1
       PROVE  state'[n] \in {"Closed", "MAX"}
  <2>1. Len(n) # 1
    BY <1>16, SMTT(30)
  <2>2. state[n] \in {"Closed", "MAX"}
    BY <1>16 DEF RowsFollow
  <2>. QED BY <1>6, <2>1, <2>2
<1>. QED BY <1>5, <1>12, <1>13, <1>14, <1>15, <1>16, RowsFollowAfter

LEMMA OthersKeep ==
    ASSUME TreeTyped, RowsFollow, NEW addr \in Addresses(config), NEW cmd \in Issuable(config.std),
           cmd \notin class.opening, cmd \notin class.closing, Grounded(cmd, addr),
           UpdateState(cmd, addr), UpdateTable(cmd, addr), config' = config
    PROVE  RowsFollow'
<1>. DEFINE place == SubSeq(addr, 1, Levels)
<1>1. config \in Configs /\ cmd \in Scope(config) /\ Nodes = NodesOf(config)
  BY CommandRules DEF TreeTyped, Nodes
<1>2. /\ Shut(cmd, addr) = {} /\ Opens(cmd, addr) = {}
      /\ \A n \in Where(cmd, addr, "select") : cmd = "SASEL" /\ n \in Buffers /\ n = place
  BY OtherEffect
<1>3. \A n \in Where(cmd, addr, "select") : state[n] # "Closed" /\ n \in Buffers
  <2>. SUFFICES ASSUME NEW n \in Where(cmd, addr, "select") PROVE state[n] # "Closed" /\ n \in Buffers
    OBVIOUS
  <2>1. n \in Buffers /\ n \in DOMAIN table
    BY <1>2 DEF Grounded
  <2>2. SubSeq(n, 1, Len(n)) = n
    BY <1>1, <2>1, RowNodesAre
  <2>. QED BY <2>1, <2>2 DEF RowsFollow, OpenIn
<1>4. DOMAIN table' = DOMAIN table /\ \A p \in DOMAIN table : table'[p] = table[p]
  <2>1. Erased(cmd, addr) = {}
    BY DEF Erased
  <2>. QED BY <2>1 DEF UpdateTable
<1>5. ~failed'
  <2>1. ~failed
    BY DEF RowsFollow
  <2>2. cmd \in class.accessing => place \in DOMAIN table /\ table[place] = addr[Levels + 1]
    <3>. SUFFICES ASSUME cmd \in class.accessing PROVE place \in DOMAIN table /\ table[place] = addr[Levels + 1]
      OBVIOUS
    <3>1. Len(addr) = Levels + 1 /\ addr[Levels + 1] \in row_state[place]
      BY DEF Grounded
    <3>2. place \in Buffers
      <4>1. Levels \in Nat /\ Levels <= Len(addr)
        BY <1>1, <3>1, RowNodesAre
      <4>2. place \in NodesOf(config) /\ Len(place) = Levels
        BY <1>1, <4>1, PathsAreNodes DEF Levels, class
      <4>. QED BY <4>2 DEF Buffers
    <3>3. row_state[place] = IF place \in DOMAIN table THEN {table[place]} ELSE {}
      BY <3>2 DEF RowsFollow
    <3>. QED BY <3>1, <3>3
  <2>. QED BY <2>1, <2>2 DEF UpdateTable
<1>6. ASSUME NEW n \in NodesOf(config), Len(n) # 1
      PROVE  /\ row_state'[n] = row_state[n] /\ (state'[n] = "Closed" <=> state[n] = "Closed")
             /\ n \notin Buffers /\ state[n] \in {"Closed", "MAX"} => state'[n] = state[n]
  <2>1. DOMAIN row_state = NodesOf(config)
    BY DEF RowsFollow
  <2>. HIDE DEF place
  <2>. QED BY <1>1, <1>2, <1>3, <1>6, <2>1, RowsAfter
<1>. HIDE DEF place
<1>7. \A n : OpenAfter(n) = OpenIn(n)
  BY <1>4 DEF OpenAfter, OpenIn
<1>8. \A n \in Buffers \cup Banks : n \in NodesOf(config) /\ Len(n) # 1
  BY <1>1, RowNodesAre
<1>9. DOMAIN row_state' = NodesOf(config) /\ DOMAIN table' \subseteq Buffers
  BY <1>1, <1>4 DEF UpdateState, RowsFollow
<1>10. \A p \in Buffers : row_state'[p] = IF p \in DOMAIN table' THEN {table'[p]} ELSE {}
  BY <1>4, <1>6, <1>8 DEF RowsFollow
<1>11. \A b \in Banks : row_state'[b] = {p[Levels] : p \in OpenAfter(b)}
  BY <1>6, <1>7, <1>8 DEF RowsFollow
<1>12. \A n \in Buffers \cup Banks : state'[n] = "Closed" <=> OpenAfter(n) = {}
  BY <1>6, <1>7, <1>8 DEF RowsFollow
<1>13. ASSUME NEW n \in NodesOf(config) \ Banks, Len(n) \in 2 .. Levels - 1
       PROVE  state'[n] \in {"Closed", "MAX"}
  <2>1. Len(n) # 1 /\ n \notin Buffers
    BY <1>1, <1>13, RowNodesAre
  <2>2. state[n] \in {"Closed", "MAX"}
    BY <1>13 DEF RowsFollow
  <2>. QED BY <1>6, <2>1, <2>2
<1>. QED BY <1>5, <1>9, <1>10, <1>11, <1>12, <1>13, RowsFollowAfter

LEMMA RowsStart == Init => RowsFollow
<1>. SUFFICES ASSUME Init PROVE RowsFollow
  OBVIOUS
<1>1. config \in Configs /\ table = <<>> /\ ~failed /\ row_state = [n \in NodesOf(config) |-> {}]
      /\ state = [n \in NodesOf(config) |-> Start(n, class)]
  BY DEF Init, class
<1>2. DOMAIN table = {} /\ \A n : OpenIn(n) = {}
  BY <1>1 DEF OpenIn
<1>3. ASSUME NEW n \in NodesOf(config)
      PROVE  /\ Len(n) # 1 => Start(n, class) \in {"Closed", "MAX"}
             /\ Level(n) \in {"Bank", "SubArray"} => Start(n, class) = "Closed"
  <2>1. Level(n) = "Rank" <=> Len(n) = 1
    BY <1>1, NodeIs
  <2>. QED BY <2>1 DEF Start, Level
<1>4. \A n \in Buffers \cup Banks : n \in NodesOf(config) /\ state[n] = "Closed"
  <2>1. \A n \in Buffers \cup Banks : n \in NodesOf(config) /\ Level(n) \in {"Bank", "SubArray"}
    BY <1>1, RowLevelsAre DEF Buffers, Banks
  <2>. QED BY <1>1, <1>3, <2>1
<1>5. \A n \in NodesOf(config) \ Banks : Len(n) \in 2 .. Levels - 1 => state[n] \in {"Closed", "MAX"}
  <2>1. \A n \in NodesOf(config) : Len(n) \in 2 .. Levels - 1 => Len(n) # 1
    BY <1>1, RowNodesAre
  <2>. QED BY <1>1, <1>3, <2>1
<1>. QED BY <1>1, <1>2, <1>4, <1>5 DEF RowsFollow, Buffers, Banks

LEMMA RowsKeep ==
    (part = "dram" => DramInv) /\ (part = "dram" => RowsFollow) /\ [SumNext]_allVars => (part = "dram" => RowsFollow)'
<1>. SUFFICES ASSUME part = "dram" => DramInv, part = "dram" => RowsFollow, [SumNext]_allVars, part' = "dram"
              PROVE  RowsFollow'
  OBVIOUS
<1>1. part = "dram" /\ DramInv /\ RowsFollow
  BY DEF SumNext, allVars
<1>2. CASE Next
  <2>1. PICK r \in Requests(config) : Issue(r[1], r[2])
    BY <1>2 DEF Next
  <2>. DEFINE addr == r[2]
              cmd  == Issued(r[1], addr)
  <2>2. TreeTyped /\ RanksAwake /\ addr \in Addresses(config) /\ cmd \in Issuable(config.std)
    BY <1>1, CommandIs DEF DramInv
  <2>3. Grounded(cmd, addr)
    BY <1>1, <2>2, IssuedGrounded
  <2>4. UpdateState(cmd, addr) /\ UpdateTable(cmd, addr) /\ config' = config
    BY <2>1 DEF Issue
  <2>. HIDE DEF addr, cmd
  <2>. QED BY <1>1, <2>2, <2>3, <2>4, OpeningKeeps, ClosingKeeps, OthersKeep
<1>3. CASE UNCHANGED <<dramOwnVars, row_state>>
  BY <1>1, <1>3 DEF dramOwnVars, RowsFollow, Buffers, Banks, OpenIn, Nested, Levels, class
<1>. QED BY <1>1, <1>2, <1>3 DEF SumNext, allVars, sharedVars, dramOwnVars, Done, vars

\* The nodes that answer for the row of a read.
LEMMA HitRulesAre ==
    ASSUME config \in Configs, NEW n \in NodesOf(config)
    PROVE  /\ RuleAt(RowHits, n, "RD") # {} <=> Len(n) = Levels
           /\ RowOpenOf[config.std] # {} => (RuleAt(RowOpens, n, "RD") # {} <=> Len(n) = Levels)
<1>1. config.std \in Standards /\ Level(n) \in LevelsOf(config.std)
  BY ConfigIs, NodeIs
<1>2. /\ "RD" \in DOMAIN class.scope /\ RulesFor(RowHitOf[config.std], "RD") = {<<Bottom, "row">>}
      /\ RowOpenOf[config.std] # {} => RulesFor(RowOpenOf[config.std], "RD") = {<<Bottom, "row">>}
  BY <1>1, RowsAssumption, Zenon DEF class, Levels, Bottom
<1>3. /\ RuleAt(RowHits, n, "RD") = {r[3] : r \in {q \in RowHitOf[config.std] : q[1] = Level(n) /\ q[2] = "RD"}}
      /\ RuleAt(RowOpens, n, "RD") = {r[3] : r \in {q \in RowOpenOf[config.std] : q[1] = Level(n) /\ q[2] = "RD"}}
  BY <1>1, <1>2 DEF RuleAt, RowHits, RowOpens, RulesByCommand, class
<1>4. ASSUME NEW rules, RulesFor(rules, "RD") = {<<Bottom, "row">>}
      PROVE  {r[3] : r \in {q \in rules : q[1] = Level(n) /\ q[2] = "RD"}} # {} <=> Level(n) = Bottom
  <2>1. \A q \in rules : q[2] = "RD" => q[1] = Bottom
    <3>1. \A q \in rules : q[2] = "RD" => <<q[1], q[3]>> \in {<<Bottom, "row">>}
      BY <1>4 DEF RulesFor
    <3>. QED BY <3>1
  <2>2. \E q \in rules : q[2] = "RD" /\ q[1] = Bottom
    <3>1. \E q \in rules : q[2] = "RD" /\ <<q[1], q[3]>> = <<Bottom, "row">>
      BY <1>4 DEF RulesFor
    <3>. QED BY <3>1
  <2>. QED BY <2>1, <2>2
<1>5. Level(n) = Bottom <=> Len(n) = Levels
  BY RowLevelsAre
<1>. QED BY <1>2, <1>3, <1>4, <1>5, Zenon

LEMMA RowsAgree == DramInv /\ RowsFollow => RowTableAgrees
<1>. SUFFICES ASSUME DramInv, RowsFollow PROVE RowTableAgrees
  OBVIOUS
<1>1. TreeTyped /\ config \in Configs /\ Nodes = NodesOf(config)
  BY DEF DramInv, TreeTyped, Nodes
<1>2. \A p \in {n \in Nodes : Len(n) = Levels} : row_state[p] = IF p \in DOMAIN table THEN {table[p]} ELSE {}
  BY <1>1 DEF RowsFollow, Buffers
<1>3. ASSUME NEW e \in ToSet(log), Len(e.addr) > Levels
      PROVE  LET place == SubSeq(e.addr, 1, Levels) IN
             /\ RowHit("RD", e.addr) <=> place \in DOMAIN table /\ table[place] = e.addr[Levels + 1]
             /\ RowOpenOf[config.std] # {} => (RowIsOpen("RD", e.addr) <=> place \in DOMAIN table)
  <2>. DEFINE addr == e.addr
              place == SubSeq(addr, 1, Levels)
  <2>1. addr \in Addresses(config)
    BY <1>3, IssueIs DEF ToSet
  <2>2. Levels \in Nat /\ Len(addr) \in Nat /\ Levels <= Len(addr)
    BY <1>1, <1>3, <2>1, RowNodesAre, PathsAreNodes
  <2>3. place \in NodesOf(config) /\ Len(place) = Levels /\ place \in Buffers
    <3>1. place \in NodesOf(config) /\ Len(place) = Levels
      BY <1>1, <2>1, <2>2, PathsAreNodes DEF Levels, class
    <3>. QED BY <3>1 DEF Buffers
  <2>4. \A n : n \in Path(addr, Levels) /\ Len(n) = Levels <=> n = place
    <3>1. \A n : n \in Path(addr, Levels) <=>
               /\ n \in NodesOf(config) /\ Len(n) <= Len(addr) /\ Len(n) <= Levels
               /\ n = SubSeq(addr, 1, Len(n))
      BY <1>1, <2>1, <2>2, PathNodeIs
    <3>2. place \in Path(addr, Levels)
      <4>1. place = SubSeq(addr, 1, Len(place))
        BY <2>3, Zenon
      <4>2. Len(place) <= Len(addr) /\ Len(place) <= Levels
        BY <2>2, <2>3
      <4>. HIDE DEF place
      <4>. QED BY <2>3, <3>1, <4>1, <4>2, Zenon
    <3>3. ASSUME NEW n \in Path(addr, Levels), Len(n) = Levels PROVE n = place
      <4>1. n = SubSeq(addr, 1, Len(n))
        BY <3>1, Zenon
      <4>. QED BY <3>3, <4>1
    <3>4. \A n \in Path(addr, Levels) : Len(n) = Levels => n = place
      BY <3>3, Zenon
    <3>. HIDE DEF place, addr
    <3>. QED BY <2>3, <3>2, <3>4
  <2>5. \A n \in Path(addr, Levels) : n \in NodesOf(config)
    BY <1>1, <2>1, <2>2, PathNodeIs
  <2>6. row_state[place] = IF place \in DOMAIN table THEN {table[place]} ELSE {}
    BY <2>3 DEF RowsFollow
  <2>7. state[place] # "Closed" <=> place \in DOMAIN table
    <3>1. \A p \in DOMAIN table : SubSeq(p, 1, Levels) = p
      BY <1>1, RowNodesAre DEF RowsFollow
    <3>2. OpenIn(place) # {} <=> place \in DOMAIN table
      BY <2>3, <3>1 DEF OpenIn
    <3>. QED BY <2>3, <3>2 DEF RowsFollow
  <2>8. ChildId(place, addr) = addr[Levels + 1]
    BY <2>3 DEF ChildId
  <2>. HIDE DEF addr, place
  <2>9. RowHit("RD", addr) <=> state[place] # "Closed" /\ ChildId(place, addr) \in row_state[place]
    <3>1. \A n \in Path(addr, Levels) : RuleAt(RowHits, n, "RD") # {} <=> n = place
      BY <1>1, <2>4, <2>5, HitRulesAre
    <3>. QED BY <2>4, <3>1 DEF RowHit
  <2>10. RowOpenOf[config.std] # {} => (RowIsOpen("RD", addr) <=> state[place] # "Closed")
    <3>1. RowOpenOf[config.std] # {} =>
              \A n \in Path(addr, Levels) : RuleAt(RowOpens, n, "RD") # {} <=> n = place
      BY <1>1, <2>4, <2>5, HitRulesAre
    <3>. QED BY <2>4, <3>1 DEF RowIsOpen
  <2>11. RowHit("RD", addr) <=> place \in DOMAIN table /\ table[place] = addr[Levels + 1]
    BY <2>6, <2>7, <2>8, <2>9
  <2>. QED BY <2>7, <2>10, <2>11 DEF addr, place
<1>4. ~failed
  BY DEF RowsFollow
<1>. QED BY <1>2, <1>3, <1>4 DEF RowTableAgrees

LEMMA RowsOfOthers == SumSpec => [](part # "dram" => state = <<>> /\ log = <<>> /\ ~failed)
<1>1. SumInit => (part # "dram" => state = <<>> /\ log = <<>> /\ ~failed)
  BY DEF SumInit, DramOff
<1>2. /\ part # "dram" => state = <<>> /\ log = <<>> /\ ~failed
      /\ [SumNext]_allVars
      => (part # "dram" => state = <<>> /\ log = <<>> /\ ~failed)'
  BY DEF SumNext, allVars, dramOwnVars
<1>. QED BY <1>1, <1>2, PTL DEF SumSpec

\* Whatever the requests and the standard, the table of open rows that the scheduler keeps and
\* the tree that decode() walks agree on every row, RowTable::update() never fails, and a row
\* that is asked for is told apart from another one and from none: no command accesses a row
\* that is not open, or closes where nothing is.
THEOREM RowTableAlwaysAgrees == SumSpec => []RowTableAgrees
<1>1. SumInit => (part = "dram" => RowsFollow)
  BY RowsStart DEF SumInit
<1>2. SumSpec => [](part = "dram" => RowsFollow)
  BY <1>1, RowsKeep, DramInvariant, PTL DEF SumSpec
<1>3. (state = <<>> /\ log = <<>> /\ ~failed) => RowTableAgrees
  BY DEF RowTableAgrees, Nodes, ToSet
<1>4. /\ part = "dram" => DramInv
      /\ part = "dram" => RowsFollow
      /\ part # "dram" => state = <<>> /\ log = <<>> /\ ~failed
      => RowTableAgrees
  BY <1>3, RowsAgree
<1>. QED BY <1>2, <1>4, DramInvariant, RowsOfOthers, PTL
=============================================================================
