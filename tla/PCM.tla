--------------------------------- MODULE PCM ----------------------------------
(***************************************************************************)
(* PCM (include/Ramulator/PCM.h, source/Ramulator/PCM.cpp): DDR3 for a     *)
(* memory without refresh (nRFC is 0, a refresh takes no time), with a gap *)
(* between precharges.                                                     *)
(***************************************************************************)
EXTENDS DramTables

Class == Interface(<<"Rank", "Bank">>, DdrScope)

Orgs == DdrOrgs

Speeds == <<With(DdrRow(<<800, 5, 22, 60, 5, 22, 60, 3, 3, 6, 0, 3, 4>>), [nRRDact |-> 2])>>

Speed(org, s) ==
    With(s, [nFAW |-> ByPage(org, 16, 20), nRFC |-> 0, nXS |-> BySize(org, <<40, 48, 68, 108, 144>>)])

Prereq  == DdrPrereq
Effects == DdrEffects
RowHit  == RowsAt("Bank")
RowOpen == RowsAt("Bank")

Timing(s) ==
    Bursts(s) \cup ColumnToColumn("Rank", s.nCCD) \cup Turnaround("Rank", DdrToWrite(s), DdrToRead(s))
        \cup DdrBetweenRanks(s) \cup RankPrecharge(s, s.nRP, s.nRP, Recovery(s))
        \cup At("Rank", {"ACT"}, {"ACT"}, s.nRRDact) \cup At("Rank", {"PRE"}, {"PRE"}, s.nRRDact)
        \cup Window("Rank", {"ACT"}, 4, s.nFAW)
        \cup Refreshes(s.nRFC) \cup DdrPower(s) \cup DdrRows("Bank", s, s.nRP)
===============================================================================
