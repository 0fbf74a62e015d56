------------------------------- MODULE STTMRAM --------------------------------
(***************************************************************************)
(* STTMRAM (include/Ramulator/STTMRAM.h, source/Ramulator/STTMRAM.cpp):    *)
(* DDR3 with three speeds of the memory array, whose refresh takes one     *)
(* cycle.                                                                  *)
(***************************************************************************)
EXTENDS DramTables

Class == Interface(<<"Rank", "Bank">>, DdrScope)

Orgs == DdrOrgs

SttRow(rcd, ras, rc, rrd) ==
    With(DdrRow(<<1600, 11, rcd, rcd, 8, ras, rc, 6, 6, 12, 4, 5, 5>>),
         [nRRD |-> rrd, nFAW |-> rrd, nXS |-> 0])

Speeds == <<SttRow(14, 20, 34, 12), SttRow(17, 23, 40, 15), SttRow(22, 28, 50, 20)>>

TenthsUp(n) == (n + 9) \div 10

Speed(org, s) ==
    With(s, [nRRD |-> TenthsUp(s.nRRD * ByPage(org, 5, 6)), nFAW |-> TenthsUp(s.nFAW * ByPage(org, 24, 32)),
             nRFC |-> 1, nXS |-> TenthsUp(s.nXS * BySize(org, <<80, 96, 136, 216, 288>>))])

Prereq  == DdrPrereq
Effects == DdrEffects
RowHit  == RowsAt("Bank")
RowOpen == RowsAt("Bank")

Timing(s) ==
    Bursts(s) \cup ColumnToColumn("Rank", s.nCCD) \cup Turnaround("Rank", DdrToWrite(s), DdrToRead(s))
        \cup DdrBetweenRanks(s) \cup RankPrecharge(s, s.nRP, s.nRP, Recovery(s)) \cup Activations(s)
        \cup Refreshes(s.nRFC) \cup DdrPower(s) \cup DdrRows("Bank", s, s.nRP)
===============================================================================
