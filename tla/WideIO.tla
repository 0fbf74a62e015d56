-------------------------------- MODULE WideIO --------------------------------
(***************************************************************************)
(* WideIO (include/Ramulator/WideIO.h, source/Ramulator/WideIO.cpp): one   *)
(* rank of four banks, with a window of two activations.                   *)
(***************************************************************************)
EXTENDS DramTables

Class == Interface(<<"Rank", "Bank">>, DdrScope)

Orgs == <<Org(256, 128, 128), Org(512, 128, 128), Org(1024, 128, 128), Org(2048, 128, 128)>>

Names == <<"rate", "nRCD", "nRP", "nRAS", "nRC", "nWTR", "nWR", "nRRD", "nTAW", "nXP", "nCKESR">>
WideRow(values) ==
    With(Row(Names, values), [nBL |-> 4, nCCD |-> 4, nDQSCK |-> 1, nCL |-> 3, nCWL |-> 1, nRTP |-> 4,
                              nRTW |-> 8, nCKE |-> 3, nXSR |-> 0])

Speeds == <<WideRow(<<200, 4, 4, 9, 12, 3, 3, 2, 10, 2, 3>>), WideRow(<<266, 5, 5, 12, 16, 4, 4, 3, 14, 3, 4>>)>>

Speed(org, s) ==
    LET density == CHOOSE i \in 1 .. 4 : <<256, 512, 1024, 2048>>[i] = org.size IN
    With(s, [nRFC |-> (IF s.rate = 200 THEN <<18, 26, 26, 42>> ELSE <<24, 35, 35, 56>>)[density]])

Prereq  == DdrPrereq
Effects == DdrEffects
RowHit  == RowsAt("Bank")
RowOpen == RowsAt("Bank")

Timing(s) ==
    Bursts(s) \cup ColumnToColumn("Rank", s.nCCD) \cup Turnaround("Rank", s.nRTW, DdrToRead(s))
        \cup RankPrecharge(s, s.nRP, s.nRP, Recovery(s))
        \cup At("Rank", {"ACT"}, {"ACT"}, s.nRRD) \cup Window("Rank", {"ACT"}, 2, s.nTAW)
        \cup Refreshes(s.nRFC)
        \cup Power(s.nCL + s.nBL, Recovery(s), s.nXP, s.nCKE, s.nCKESR, s.nXSR, {"REF"})
        \cup DdrRows("Bank", s, s.nRP)
===============================================================================
