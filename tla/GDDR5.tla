-------------------------------- MODULE GDDR5 ---------------------------------
(***************************************************************************)
(* GDDR5 (include/Ramulator/GDDR5.h, source/Ramulator/GDDR5.cpp): banks in *)
(* groups, windows of four and of 32 activations, and no timing between    *)
(* ranks, of which there is one.                                           *)
(***************************************************************************)
EXTENDS DramTables

Class == Interface(<<"Rank", "BankGroup", "Bank">>, DdrScope)

Orgs ==
    <<Org(512, 16, 1024), Org(512, 32, 512), Org(1024, 16, 1024), Org(1024, 32, 512),
      Org(2048, 16, 1024), Org(2048, 32, 512), Org(4096, 16, 1024), Org(2048, 32, 512),
      Org(8192, 16, 2048), Org(8192, 32, 1024)>>

Names == <<"rate", "nCL", "nRCDR", "nRCDW", "nRP", "nCWL", "nRAS", "nRC", "nPPD", "nRTP", "nWTR",
           "nWR", "nRRD", "nFAW", "n32AW">>
GddrRow(values) ==
    With(Row(Names, values), [nBL |-> 2, nCCDS |-> 2, nCCDL |-> 3, nPD |-> 10, nXPN |-> 10,
                              nCKESR |-> 0, nXS |-> 0])

Speeds ==
    <<GddrRow(<<4000, 12, 12, 10, 12, 3, 28, 40, 1, 2, 5, 12, 6, 23, 184>>),
      GddrRow(<<4500, 14, 14, 12, 14, 4, 32, 46, 2, 2, 6, 14, 7, 26, 207>>),
      GddrRow(<<5000, 15, 15, 13, 15, 4, 35, 50, 2, 2, 7, 15, 7, 29, 230>>),
      GddrRow(<<5500, 17, 17, 14, 17, 5, 39, 56, 2, 2, 7, 17, 8, 32, 253>>),
      GddrRow(<<6000, 18, 18, 15, 18, 5, 42, 60, 2, 2, 8, 18, 9, 35, 276>>),
      GddrRow(<<6500, 20, 20, 17, 20, 5, 46, 66, 2, 2, 9, 20, 9, 38, 299>>),
      GddrRow(<<7000, 21, 21, 18, 21, 6, 49, 70, 2, 2, 9, 21, 10, 41, 322>>)>>

Speed(org, s) ==
    LET i == (s.rate - 3500) \div 500 IN
    With(s, [nRFC |-> BySize(org, <<<<90, 102, 113, 124, 135, 147, 158>>,
                                    <<110, 124, 138, 152, 165, 179, 193>>,
                                    <<160, 180, 200, 220, 240, 260, 280>>,
                                    <<260, 293, 325, 358, 390, 423, 455>>,
                                    <<350, 394, 438, 482, 525, 569, 613>>>>)[i]])

Prereq  == DdrPrereq
Effects == DdrEffects
RowHit  == RowsAt("Bank")
RowOpen == RowsAt("Bank")

Timing(s) ==
    Bursts(s) \cup ColumnToColumn("Rank", s.nCCDS)
        \cup Turnaround("Rank", s.nCL + s.nCCDS + 2 - s.nCWL, DdrToRead(s))
        \cup RankPrecharge(s, s.nRP, s.nRP, Recovery(s)) \cup Activations(s)
        \cup Window("Rank", {"ACT"}, 32, s.n32AW) \cup At("Rank", {"PRE"}, {"PRE"}, s.nPPD)
        \cup Refreshes(s.nRFC)
        \cup Power(s.nCL + s.nBL, Recovery(s), s.nXPN, s.nPD, s.nCKESR, s.nXS, {"REF"})
        \cup ColumnToColumn("BankGroup", s.nCCDL)
        \cup Rows("Bank", s, s.nRCDR, s.nRCDW, Recovery(s), s.nRP)
===============================================================================
