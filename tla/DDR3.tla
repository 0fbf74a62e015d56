--------------------------------- MODULE DDR3 ---------------------------------
(***************************************************************************)
(* DDR3 (include/Ramulator/DDR3.h, source/Ramulator/DDR3.cpp): the tables  *)
(* that the other standards repeat.                                        *)
(***************************************************************************)
EXTENDS DramTables

Class == Interface(<<"Rank", "Bank">>, DdrScope)

Orgs   == DdrOrgs
Speeds == DdrSpeeds

Speed(org, s) == DdrSpeed(org, s)

Prereq  == DdrPrereq
Effects == DdrEffects
RowHit  == RowsAt("Bank")
RowOpen == RowsAt("Bank")

Timing(s) ==
    Bursts(s) \cup ColumnToColumn("Rank", s.nCCD) \cup Turnaround("Rank", DdrToWrite(s), DdrToRead(s))
        \cup DdrBetweenRanks(s) \cup RankPrecharge(s, s.nRP, s.nRP, Recovery(s)) \cup Activations(s)
        \cup ToRefresh(s) \cup Refreshes(s.nRFC) \cup DdrPower(s) \cup DdrRows("Bank", s, s.nRP)
===============================================================================
