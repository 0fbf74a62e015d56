----------------------------- MODULE CameoSystem -----------------------------
(***************************************************************************)
(* CAMEO (module Cameo) and the swapping unit (module SwappingUnit) in the *)
(* memory controller: every request of the last-level cache is tracked by  *)
(* CAMEO before the unit sees it; the unit serves the front of CAMEO's     *)
(* queue, and CAMEO's table changes when the unit has finished.            *)
(***************************************************************************)
EXTENDS Cameo

VARIABLES
    phase, states, active_entry_number, finish_number, base_address,
    finish, read_issue, read, write, dirty, data, reads, memory, absorbed

unitVars == <<phase, states, active_entry_number, finish_number, base_address,
              finish, read_issue, read, write, dirty, data, reads, memory, absorbed>>
systemVars == <<cameoVars, unitVars>>

\* replace_bits() puts the location above the index of the group.
HardwareLine(g, location) == g + location * GroupNumber

\* physical_to_hardware_address() of every physical line.
Translation ==
    [p \in 0 .. GroupNumber * MemberNumber - 1 |->
        HardwareLine(p % GroupNumber,
                     line_location_table[p % GroupNumber][p \div GroupNumber])]

\* issue_remapping_request(): the front of the queue, one line long
\* (DATA_GRANULARITY_IN_CACHE_LINE).
Front ==
    IF remapping_request_queue = <<>>
    THEN [fm |-> 0, sm |-> 0, size |-> 0]
    ELSE LET r == Head(remapping_request_queue) IN
         [fm |-> HardwareLine(r.group, r.address_in_fm),
          sm |-> HardwareLine(r.group, r.address_in_sm), size |-> 1]

Unit == INSTANCE SwappingUnit WITH
            FastSize <- GroupNumber, SlowSize <- GroupNumber * (MemberNumber - 1),
            EntryNumber <- 1, Tracked <- 0 .. GroupNumber * MemberNumber - 1,
            request <- Front, h_address <- Translation

SystemInit == Init /\ Unit!Init

\* add_rq() and add_wq() of block b.
Access(b, busy) ==
    /\ TrackActivity(b, busy)
    /\ \/ Unit!OtherAccess
       \/ Unit!AbsorbWrite(HardwareLine(b[1], b[2]))
       \/ Unit!WriteMemory(HardwareLine(b[1], b[2]))

\* The switch of operate() on the result of operate_swapping().
Operate ==
    \/ (Unit!IdleCycle \/ Unit!StartSwap) /\ UNCHANGED cameoVars
    \/ \E ar \in SUBSET Unit!ReadsToIssue, aw \in SUBSET Unit!WritesToIssue :
          \/ Unit!ContinueSwap(ar, aw) /\ UNCHANGED cameoVars
          \/ Unit!FinishSwap(ar, aw) /\ FinishRemapping

Tick == (\E ls \in SUBSET reads : Unit!ReturnReads(ls)) /\ UNCHANGED cameoVars

SystemNext == \/ \E b \in Block, busy \in BOOLEAN : Access(b, busy)
              \/ Operate
              \/ Tick

SystemSpec == SystemInit /\ [][SystemNext]_systemVars
-----------------------------------------------------------------------------
(* Properties *)

\* CAMEO is a management the swapping unit may rely on: the front of its queue
\* is never replaced or withdrawn while it is swapped, and when it is popped
\* the translation exchanges exactly the two lines whose data was exchanged.
ImplementsSwappingUnit == Unit!Spec
=============================================================================
