-------------------------------- MODULE LPDDR4 --------------------------------
(***************************************************************************)
(* LPDDR4 (include/Ramulator/LPDDR4.h, source/Ramulator/LPDDR4.cpp): as    *)
(* LPDDR3, with bursts of sixteen and a gap between precharges. The        *)
(* refresh mode is the one set in the header, Refresh_1X.                  *)
(***************************************************************************)
EXTENDS DramTables

Class == Interface(<<"Rank", "Bank">>, ScopeWithBankRefresh("REFPB"))

Orgs == <<Org(2048, 16, 1024), Org(3072, 16, 1024), Org(4096, 16, 1024)>>

Names == <<"rate", "nDQSCK", "nCL", "nRCD", "nRPpb", "nRPab", "nCWL", "nRAS", "nRC", "nRTP", "nWTR",
           "nWR", "nPPD", "nRRD", "nFAW", "nCKE", "nXP", "nSR", "nBL", "nCCD", "nRTRS">>

Speeds ==
    <<Row(Names, <<1600, 1, 18, 15, 13, 15, 11, 34, 47, 10, 8, 14, 4, 8, 32, 0, 6, 12, 8, 8, 2>>),
      Row(Names, <<2400, 2, 25, 22, 20, 24, 14, 51, 71, 11, 12, 21, 4, 12, 48, 0, 9, 18, 8, 8, 2>>),
      Row(Names, <<3200, 3, 32, 29, 27, 32, 18, 68, 95, 14, 16, 28, 4, 16, 64, 0, 12, 24, 8, 8, 2>>)>>

Speed(org, s) ==
    LET i == CHOOSE k \in 1 .. 3 : <<1600, 2400, 3200>>[k] = s.rate
        Value(small, large) == (IF org.size = 2048 THEN small ELSE large)[i]
    IN  With(s, [nRFCpb |-> Value(<<48, 72, 96>>, <<72, 108, 144>>),
                 nRFCab |-> Value(<<104, 156, 208>>, <<144, 216, 288>>),
                 nXSR   |-> Value(<<110, 165, 220>>, <<150, 225, 300>>)])

Prereq  == DdrPrereq
Effects == DdrEffects
RowHit  == RowsAt("Bank")
RowOpen == RowsAt("Bank")

Timing(s) ==
    Bursts(s) \cup ColumnToColumn("Rank", s.nCCD)
        \cup Turnaround("Rank", s.nCL + s.nBL + s.nDQSCK + 1 - s.nCWL, DdrToRead(s) + 1)
        \cup BetweenRanks(s, s.nCL + s.nBL + s.nDQSCK + 1 + s.nRTRS - s.nCWL)
        \cup RankPrecharge(s, s.nRPab, s.nRPpb, Recovery(s)) \cup Activations(s)
        \cup At("Rank", {"PRE"}, {"PRE"}, s.nPPD)
        \cup BankRefreshes(s)
        \cup Power(s.nCL + s.nBL, Recovery(s), s.nXP, s.nCKE, s.nSR, s.nXSR, {"REF", "REFPB"})
        \cup Rows("Bank", s, s.nRCD, s.nRCD, Recovery(s), s.nRPpb)
===============================================================================
