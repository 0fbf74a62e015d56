--------------------------------- MODULE HBM ----------------------------------
(***************************************************************************)
(* HBM (include/Ramulator/HBM.h, source/Ramulator/HBM.cpp) as built with   *)
(* ADD_HBM_8MB: banks in groups, refreshes of a rank or of a bank (which   *)
(* nothing requests), and no timing between ranks, of which there is one.  *)
(***************************************************************************)
EXTENDS DramTables

Class == Interface(<<"Rank", "BankGroup", "Bank">>, ScopeWithBankRefresh("REFSB"))

Orgs == <<Org(8, 128, 128), Org(1024, 128, 128), Org(2048, 128, 128), Org(4096, 128, 128)>>

Names == <<"rate", "nBL", "nCCDS", "nCCDL", "nCL", "nRCDR", "nRCDW", "nRP", "nCWL", "nRAS", "nRC",
           "nRTP", "nWTRS", "nWTRL", "nWR", "nRRDS", "nRRDL", "nFAW", "nPD", "nXP", "nCKESR">>

Speeds == <<Row(Names, <<1000, 2, 2, 3, 7, 7, 6, 7, 4, 17, 24, 7, 2, 4, 8, 4, 5, 20, 5, 5, 5>>)>>

\* The sizes, the added one first, select from tables that begin with 1 Gb and hold three
\* values: each size gets the value of the next one, the last one what follows, a zero.
Speed(org, s) ==
    LET density == CHOOSE i \in 1 .. 4 : <<0, 1, 2, 4>>[i] = org.size \div 1024 IN
    With(s, [nRFC |-> <<55, 80, 130, 0>>[density], nXS |-> <<60, 85, 135, 0>>[density]])

Prereq  == DdrPrereq \cup On("Bank", {"REFSB"}, "bank closed")
Effects == DdrEffects
RowHit  == RowsAt("Bank")
RowOpen == RowsAt("Bank")

Timing(s) ==
    Bursts(s) \cup ColumnToColumn("Rank", s.nCCDS)
        \cup Turnaround("Rank", s.nCL + s.nCCDS + 2 - s.nCWL, s.nCWL + s.nBL + s.nWTRS)
        \cup RankPrecharge(s, s.nRP, s.nRP, Recovery(s))
        \cup At("Rank", {"ACT"}, {"ACT"}, s.nRRDS) \cup Window("Rank", {"ACT"}, 4, s.nFAW)
        \cup Refreshes(s.nRFC) \cup DdrPower(s)
        \cup ColumnToColumn("BankGroup", s.nCCDL)
        \cup At("BankGroup", Writes, Reads, s.nCWL + s.nBL + s.nWTRL)
        \cup At("BankGroup", {"ACT"}, {"ACT"}, s.nRRDL)
        \cup Rows("Bank", s, s.nRCDR, s.nRCDW, Recovery(s), s.nRP)
        \cup At("Bank", {"PRE"}, {"REFSB"}, s.nRP) \cup At("Bank", {"REFSB"}, {"REFSB", "ACT"}, s.nRFC)
===============================================================================
