--------------------------------- MODULE DDR4 ---------------------------------
(***************************************************************************)
(* DDR4 (include/Ramulator/DDR4.h, source/Ramulator/DDR4.cpp): banks in    *)
(* groups, with longer gaps inside a group than across. The refresh mode   *)
(* is the one set in the header, Refresh_1X.                               *)
(***************************************************************************)
EXTENDS DramTables

Class == Interface(<<"Rank", "BankGroup", "Bank">>, DdrScope)

Orgs ==
    <<Org(2048, 4, 1024), Org(2048, 8, 1024), Org(2048, 16, 1024),
      Org(4096, 4, 1024), Org(4096, 8, 1024), Org(4096, 16, 1024),
      Org(8192, 4, 1024), Org(8192, 8, 1024), Org(8192, 16, 1024)>>

Names == <<"rate", "nCCDL", "nCL", "nRCD", "nRP", "nCWL", "nRAS", "nRC", "nRTP", "nWTRS", "nWTRL",
           "nWR", "nPD", "nXP", "nCKESR">>
Ddr4Row(values) == With(Row(Names, values), [nBL |-> 4, nCCDS |-> 4, nRTRS |-> 2])

Speeds ==
    <<Ddr4Row(<<1600, 5, 11, 11, 11, 9, 28, 39, 6, 2, 6, 12, 4, 5, 5>>),
      Ddr4Row(<<1600, 5, 12, 12, 12, 9, 28, 40, 6, 2, 6, 12, 4, 5, 5>>),
      Ddr4Row(<<1866, 5, 13, 13, 13, 10, 32, 45, 7, 3, 7, 14, 5, 6, 6>>),
      Ddr4Row(<<1866, 5, 14, 14, 14, 10, 32, 46, 7, 3, 7, 14, 5, 6, 6>>),
      Ddr4Row(<<2133, 6, 15, 15, 15, 11, 36, 51, 8, 3, 8, 16, 6, 7, 7>>),
      Ddr4Row(<<2133, 6, 16, 16, 16, 11, 36, 52, 8, 3, 8, 16, 6, 7, 7>>),
      Ddr4Row(<<2400, 6, 16, 16, 16, 12, 39, 55, 9, 3, 9, 18, 6, 8, 7>>),
      Ddr4Row(<<2400, 6, 18, 18, 18, 12, 39, 57, 9, 3, 9, 18, 6, 8, 7>>),
      Ddr4Row(<<3200, 10, 22, 22, 22, 16, 56, 78, 12, 4, 12, 24, 8, 10, 8>>)>>

\* Positions in the tables of init_speed().
RateIndex(s) == CHOOSE i \in 1 .. 5 : <<1600, 1866, 2133, 2400, 3200>>[i] = s.rate
SizeIndex(org) == CHOOSE i \in 1 .. 3 : <<2048, 4096, 8192>>[i] = org.size

Speed(org, s) ==
    LET i    == RateIndex(s)
        wide == org.dq = 16
    IN
    With(s, [nRRDS |-> (IF wide THEN <<5, 5, 6, 7, 9>> ELSE <<4, 4, 4, 4, 4>>)[i],
             nRRDL |-> (IF wide THEN <<6, 6, 7, 8, 11>> ELSE <<5, 5, 6, 6, 8>>)[i],
             nFAW  |-> (CASE org.dq = 4  -> <<16, 16, 16, 16, 16>>
                          [] org.dq = 8  -> <<20, 22, 23, 26, 34>>
                          [] org.dq = 16 -> <<28, 28, 32, 36, 48>>)[i],
             nRFC  |-> <<<<128, 150, 171, 192, 256>>, <<208, 243, 278, 312, 416>>,
                         <<280, 327, 374, 420, 560>>>>[SizeIndex(org)][i],
             nXS   |-> <<<<136, 159, 182, 204, 272>>, <<216, 252, 288, 324, 432>>,
                         <<288, 336, 384, 432, 576>>>>[SizeIndex(org)][i]])

Prereq  == DdrPrereq
Effects == DdrEffects
RowHit  == RowsAt("Bank")
RowOpen == RowsAt("Bank")

Timing(s) ==
    Bursts(s) \cup ColumnToColumn("Rank", s.nCCDS)
        \cup Turnaround("Rank", s.nCL + s.nBL + 2 - s.nCWL, s.nCWL + s.nBL + s.nWTRS)
        \cup DdrBetweenRanks(s) \cup RankPrecharge(s, s.nRP, s.nRP, Recovery(s))
        \cup At("Rank", {"ACT"}, {"ACT"}, s.nRRDS) \cup Window("Rank", {"ACT"}, 4, s.nFAW)
        \cup ToRefresh(s) \cup Refreshes(s.nRFC) \cup DdrPower(s)
        \cup ColumnToColumn("BankGroup", s.nCCDL)
        \cup At("BankGroup", Writes, Reads, s.nCWL + s.nBL + s.nWTRL)
        \cup At("BankGroup", {"ACT"}, {"ACT"}, s.nRRDL) \cup DdrRows("Bank", s, s.nRP)
===============================================================================
