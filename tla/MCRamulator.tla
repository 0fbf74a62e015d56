----------------------------- MODULE MCRamulator -----------------------------
(***************************************************************************)
(* Ramulator: the channel of memory under every standard, the controller,  *)
(* which abstracts from the standard's timing, and the refresh scheduler   *)
(* of DSARP. A behaviour has one part; the variables of the others stay    *)
(* empty.                                                                  *)
(***************************************************************************)
EXTENDS Dram

CONSTANTS
    Parts,              \* some of "dram", "controller" and "refresh"
    BankNumber, ColumnNumber, AddressNumber, QueueMax, HighWatermark, LowWatermark, Cap,
    RequestNumber, RefreshNumber,
    RefreshBanks, SubArrays, OtherqMax, BacklogMax, BacklogMin, EarlyPull, IntervalNumber

\* A channel has at least a bank, a row a column; the other sizes may be zero.
ASSUME ControllerAssumption ==
    /\ BankNumber \in Nat \ {0}
    /\ ColumnNumber \in Nat \ {0}
    /\ AddressNumber \in Nat
    /\ QueueMax \in Nat
    /\ Cap \in Nat
    /\ RequestNumber \in Nat
    /\ RefreshNumber \in Nat

\* The limits of Refresh.h: -8, 8 and, for early refreshes, -6.
ASSUME RefreshAssumption ==
    /\ RefreshBanks \in Nat \ {0}
    /\ BacklogMax \in Nat
    /\ BacklogMin \in Int /\ BacklogMin < 0
    /\ EarlyPull \in Int /\ EarlyPull <= BacklogMax

VARIABLES
    part,
    queues, otherq, pending, write_mode, hits, cur_serving_requests, admitting, accepted,
    injected, finished,
    bank_refresh_backlog, bank_ref_counter, subarray_ref_counters, bank_refreshes,
    ctrl_write_mode, intervals, issued

\* The controller has a clock and open rows, too, of its own types.
dramOwnVars == <<config, speed_entry, state, next, table, failed, log>>
sharedVars == <<row_state, clk>>
controllerOwnVars == <<queues, otherq, pending, write_mode, hits, cur_serving_requests,
                       admitting, accepted, injected, finished>>
refreshVars == <<bank_refresh_backlog, bank_ref_counter, subarray_ref_counters, bank_refreshes,
                 ctrl_write_mode, intervals, issued>>
allVars == <<part, dramOwnVars, sharedVars, controllerOwnVars, refreshVars>>

Ctrl    == INSTANCE RamulatorController
Refresh == INSTANCE DsarpRefresh

AllStandards == {"DDR3", "DDR4", "LPDDR3", "LPDDR4", "GDDR5", "HBM", "WideIO", "WideIO2", "PCM",
                 "STTMRAM", "ALDRAM", "TLDRAM", "DSARP", "SALP"}
Commands == [rows |-> 4, turnaround |-> 4, refresh |-> 4, ranks |-> 5, window |-> 5, power |-> 5]
TwoBehind == -2

DramOff == /\ config = <<>> /\ speed_entry = <<>> /\ state = <<>> /\ next = <<>> /\ table = <<>> /\ failed = FALSE
           /\ log = <<>>
SharedOff == row_state = <<>> /\ clk = 0
ControllerOff == /\ queues = <<>> /\ otherq = 0 /\ pending = <<>> /\ write_mode = FALSE
                 /\ hits = <<>> /\ cur_serving_requests = 0 /\ admitting = FALSE
                 /\ accepted = 0 /\ injected = 0 /\ finished = {}
RefreshOff == /\ bank_refresh_backlog = <<>> /\ bank_ref_counter = 0
              /\ subarray_ref_counters = <<>> /\ bank_refreshes = <<>>
              /\ ctrl_write_mode = FALSE /\ intervals = 0 /\ issued = <<>>

SumInit ==
    /\ part \in Parts
    /\ \/ part = "dram" /\ Init /\ ControllerOff /\ RefreshOff
       \/ part = "controller" /\ Ctrl!Init /\ DramOff /\ RefreshOff
       \/ part = "refresh" /\ Refresh!Init /\ DramOff /\ SharedOff /\ ControllerOff

SumNext ==
    \/ /\ part = "dram" /\ UNCHANGED <<part, controllerOwnVars, refreshVars>>
       /\ (Next \/ Done)
    \/ /\ part = "controller" /\ UNCHANGED <<part, dramOwnVars, refreshVars>>
       /\ Ctrl!Next
    \/ /\ part = "refresh" /\ UNCHANGED <<part, dramOwnVars, sharedVars, controllerOwnVars>>
       /\ Refresh!Next

SumSpec == SumInit /\ [][SumNext]_allVars
-----------------------------------------------------------------------------
(* The properties of the parts, each of the behaviours that part has. Those of the *)
(* memory are its own, as no command is issued in the other parts.                *)

\* Controller: the queue of activated requests stays as small as the banks.
ActqOnePerBank == part = "controller" => Ctrl!ActqOnePerBank

\* Controller: every accepted request is in one place until it is finished.
RequestsOnce == part = "controller" => Ctrl!RequestsOnce

\* Controller: the count of requests in service is exact and, as the queues and the other
\* variables, within its limits.
ServingCounted == part = "controller" => Ctrl!TypeOK /\ Ctrl!ServingCounted

\* Controller: requests of one address change places only around an activated write.
OvertakesOnlyActivated == Ctrl!OvertakesOnlyActivated

\* Refresh: no bank is further ahead or behind than the standard allows.
RefreshDebtBounded == part = "refresh" => Refresh!RefreshDebtBounded
=============================================================================
