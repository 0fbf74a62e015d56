------------------------------- MODULE WideIO2 --------------------------------
(***************************************************************************)
(* WideIO2 (include/Ramulator/WideIO2.h, source/Ramulator/WideIO2.cpp): as *)
(* LPDDR3, with writes one cycle later. The constructor computes the chip  *)
(* from the number of channels, and does not call init_rowopen().          *)
(***************************************************************************)
EXTENDS DramTables

Class == Interface(<<"Rank", "Bank">>, ScopeWithBankRefresh("REFPB"))

\* The chip for four and for eight channels.
Orgs == <<Org(2048, 64, 512), Org(1024, 64, 256)>>

Names == <<"rate", "nCL", "nRCD", "nRPpb", "nRP8b", "nCWL", "nRAS", "nRC", "nRTP", "nWTR", "nWR",
           "nRRD", "nFAW", "nRFCab", "nRFCpb", "nCKE", "nXP", "nCKESR", "nXSR">>
WideRow(values) == With(Row(Names, values), [nBL |-> 2, nCCD |-> 2, nDQSCK |-> 1, nRTRS |-> 2])

Speeds ==
    <<WideRow(<<800, 7, 8, 8, 9, 5, 17, 25, 3, 4, 8, 4, 24, 72, 36, 3, 3, 6, 76>>),
      WideRow(<<1066, 9, 10, 10, 12, 7, 23, 33, 4, 6, 11, 6, 32, 96, 48, 3, 4, 8, 102>>)>>

\* Four channels have eight banks.
Speed(org, s) == With(s, [nRPab |-> IF org.size = 2048 THEN s.nRP8b ELSE s.nRPpb])

LateRecovery(s) == s.nCWL + 1 + s.nBL + s.nWR

Prereq  == DdrPrereq
Effects == DdrEffects
RowHit  == RowsAt("Bank")
RowOpen == {}    \* the constructor calls no init_rowopen()

Timing(s) ==
    Bursts(s) \cup ColumnToColumn("Rank", s.nCCD)
        \cup Turnaround("Rank", s.nCL + s.nBL + s.nDQSCK + 1 - s.nCWL, DdrToRead(s) + 1)
        \cup BetweenRanks(s, s.nCL + s.nBL + s.nDQSCK + 1 + s.nRTRS - s.nCWL)
        \cup RankPrecharge(s, s.nRPab, s.nRPpb, LateRecovery(s)) \cup Activations(s)
        \cup BankRefreshes(s)
        \cup Power(s.nCL + s.nDQSCK + s.nBL, LateRecovery(s), s.nXP, s.nCKE, s.nCKESR, s.nXSR, {"REF", "REFPB"})
        \cup Rows("Bank", s, s.nRCD, s.nRCD, LateRecovery(s), s.nRPpb)
===============================================================================
