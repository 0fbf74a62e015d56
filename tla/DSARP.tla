-------------------------------- MODULE DSARP --------------------------------
(***************************************************************************)
(* DSARP (include/Ramulator/DSARP.h, source/Ramulator/DSARP.cpp), of the   *)
(* type of this name: a bank opens one row, in one of its subarrays, and   *)
(* is refreshed subarray by subarray while its other subarrays work. A     *)
(* bank counts its subarrays as its rows.                                  *)
(***************************************************************************)
EXTENDS DramTables

\* The constructor translates REFRESH to the refresh of a bank.
Class == [Interface(<<"Rank", "Bank", "SubArray">>, ScopeWithBankRefresh("REFPB"))
             EXCEPT !.translate.REFRESH = "REFPB"]

Orgs == <<Org(8192, 8, 2048), Org(16384, 8, 2048), Org(32768, 8, 2048)>>

Names == <<"rate", "nBL", "nCCD", "nRTRS", "nCL", "nRCD", "nRPpb", "nRPab", "nCWL", "nRAS", "nRC", "nRTP",
           "nWTR", "nWR", "nRRD", "nFAW", "nPD", "nXP", "nCKESR", "nXS">>
Speeds == <<Row(Names, <<1333, 4, 4, 2, 9, 9, 8, 9, 7, 24, 33, 5, 5, 10, 5, 30, 4, 4, 5, 114>>)>>

Speed(org, s) ==
    LET density == CHOOSE i \in 1 .. 3 : <<8, 16, 32>>[i] = org.size \div 1024 IN
    With(s, [nRFCab |-> <<234, 354, 594>>[density], nRFCpb |-> <<109, 164, 275>>[density], nREFIpb |-> 325])

Prereq ==
    PowerPrereq \cup On("Rank", {"REF"}, "banks closed") \cup On("Bank", {"RD", "WR"}, "subarray open")
        \cup On("Bank", {"REFPB"}, "bank closed") \cup On("SubArray", {"RD", "WR"}, "row open")
Effects ==
    PowerEffects \cup On("Rank", {"PREA"}, "close all") \cup On("Bank", {"ACT"}, "open")
        \cup On("SubArray", {"ACT"}, "open") \cup On("Bank", {"PRE"}, "close with subarrays")
        \cup On("Bank", {"RDA", "WRA"}, "close") \cup On("SubArray", {"RDA", "WRA"}, "close")
RowHit  == RowsAt("SubArray")
RowOpen == RowsAt("SubArray")

\* ceil(nRRD * nRRD_factor), with the factor 1.138.
RrdWhileRefreshing(s) == (s.nRRD * 1138 + 999) \div 1000

\* Refreshes of a bank keep all of them from its next, and other banks' activations apart.
BankTiming(s) ==
    DdrRows("Bank", s, s.nRPpb) \cup At("Bank", {"PRE"}, {"REFPB"}, s.nRPpb)
        \cup At("Bank", {"REFPB"}, {"REFPB"}, s.nRFCpb) \cup Sibling("Bank", {"REFPB"}, {"REFPB"}, s.nRFCpb)
        \cup Sibling("Bank", {"ACT"}, {"REFPB"}, s.nRRD) \cup Sibling("Bank", {"REFPB"}, {"ACT"}, s.nRRD)

SubArrayTiming(s) ==
    Sibling("SubArray", {"ACT"}, {"REFPB"}, RrdWhileRefreshing(s))
        \cup Sibling("SubArray", {"REFPB"}, {"ACT"}, RrdWhileRefreshing(s))
        \cup At("SubArray", {"REF"}, {"ACT"}, s.nRFCab) \cup At("SubArray", {"REFPB"}, {"ACT"}, s.nRFCpb)
        \cup DdrRows("SubArray", s, s.nRPpb) \cup At("SubArray", {"PRE"}, {"REFPB", "REF"}, s.nRPpb)
        \cup Sibling("SubArray", {"ACT"}, {"ACT"}, s.nRC) \cup Sibling("SubArray", {"PRE"}, {"ACT"}, s.nRPpb)
        \cup Sibling("SubArray", {"RDA"}, {"ACT"}, s.nRTP + s.nRPpb)
        \cup Sibling("SubArray", {"WRA"}, {"ACT"}, Recovery(s) + s.nRPpb)

Timing(s) ==
    Bursts(s) \cup ColumnToColumn("Rank", s.nCCD) \cup Turnaround("Rank", DdrToWrite(s), DdrToRead(s))
        \cup DdrBetweenRanks(s) \cup RankPrecharge(s, s.nRPab, s.nRPpb, Recovery(s)) \cup Activations(s)
        \cup At("Rank", {"REF"}, {"ACT", "REF", "REFPB"}, s.nRFCab)
        \cup At("Rank", {"REFPB"}, {"REF", "REFPB"}, s.nRFCpb)
        \cup Power(s.nCL + s.nBL, Recovery(s), s.nXP, s.nPD, s.nCKESR, s.nXS, {"REF", "REFPB"})
        \cup BankTiming(s) \cup SubArrayTiming(s)
=============================================================================
