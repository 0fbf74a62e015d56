-------------------------------- MODULE LPDDR3 --------------------------------
(***************************************************************************)
(* LPDDR3 (include/Ramulator/LPDDR3.h, source/Ramulator/LPDDR3.cpp):       *)
(* refreshes of a rank or of a bank (which nothing requests), and a strobe *)
(* that reads have to wait for. init_speed() has no values for chips of 12 *)
(* and 16 Gb.                                                              *)
(***************************************************************************)
EXTENDS DramTables

Class == Interface(<<"Rank", "Bank">>, ScopeWithBankRefresh("REFPB"))

Orgs ==
    <<Org(4096, 16, 2048), Org(4096, 32, 1024), Org(6144, 16, 2048), Org(6144, 32, 1024),
      Org(8192, 16, 2048), Org(8192, 32, 1024)>>

Names == <<"rate", "nDQSCK", "nCL", "nRCD", "nRPpb", "nRPab", "nCWL", "nRAS", "nRC", "nRTP", "nWTR",
           "nWR", "nRRD", "nFAW", "nCKE", "nXP", "nCKESR">>

LpddrRow(values) == With(Row(Names, values), DdrConstants)

Speeds ==
    <<LpddrRow(<<1333, 2, 10, 12, 12, 14, 6, 28, 40, 5, 5, 10, 7, 34, 5, 5, 10>>),
      LpddrRow(<<1600, 2, 12, 15, 15, 17, 6, 34, 48, 6, 6, 12, 8, 40, 6, 6, 12>>),
      LpddrRow(<<1866, 3, 14, 17, 17, 20, 8, 40, 56, 7, 7, 14, 10, 47, 7, 7, 14>>),
      LpddrRow(<<2133, 3, 16, 20, 20, 23, 8, 45, 64, 8, 8, 16, 11, 54, 8, 8, 16>>)>>

Speed(org, s) ==
    LET i == CHOOSE k \in 1 .. 4 : <<1333, 1600, 1866, 2133>>[k] = s.rate
        Value(small, large) == (IF org.size = 4096 THEN small ELSE large)[i]
    IN  With(s, [nRFCpb |-> Value(<<40, 48, 56, 64>>, <<60, 72, 84, 96>>),
                 nRFCab |-> Value(<<87, 104, 122, 139>>, <<140, 168, 196, 224>>),
                 nXSR   |-> Value(<<94, 112, 131, 150>>, <<147, 176, 206, 235>>)])

Prereq  == DdrPrereq \cup On("Bank", {"REFPB"}, "bank closed")
Effects == DdrEffects
RowHit  == RowsAt("Bank")
RowOpen == RowsAt("Bank")

Timing(s) ==
    Bursts(s) \cup ColumnToColumn("Rank", s.nCCD)
        \cup Turnaround("Rank", s.nCL + s.nBL + s.nDQSCK + 1 - s.nCWL, DdrToRead(s) + 1)
        \cup BetweenRanks(s, s.nCL + s.nBL + s.nDQSCK + 1 + s.nRTRS - s.nCWL)
        \cup RankPrecharge(s, s.nRPab, s.nRPpb, Recovery(s)) \cup Activations(s)
        \cup BankRefreshes(s)
        \cup Power(s.nCL + s.nBL, Recovery(s), s.nXP, s.nCKE, s.nCKESR, s.nXSR, {"REF", "REFPB"})
        \cup Rows("Bank", s, s.nRCD, s.nRCD, Recovery(s), s.nRPpb)
===============================================================================
