-------------------------------- MODULE SALP ---------------------------------
(***************************************************************************)
(* SALP (include/Ramulator/SALP.h, source/Ramulator/SALP.cpp) of the type  *)
(* SALP-MASA, the one main() lets pass: every subarray of a bank may have  *)
(* a row open, and one of them is selected for the column commands.        *)
(***************************************************************************)
EXTENDS DramTables

Class ==
    Interface(<<"Rank", "Bank", "SubArray">>,
              With(DdrScope, [PRE |-> "SubArray", PRE_OTHER |-> "SubArray", SASEL |-> "SubArray"]))

Orgs   == DdrOrgs

\* Gaps between the subarrays of a bank, by row of the speed table.
GapAfterRead  == <<3, 3, 3, 4, 4, 4, 5, 5, 5, 6, 6, 6, 6, 7>>
GapAfterWrite == <<12, 12, 14, 14, 14, 16, 16, 18, 18, 18, 20, 20, 22, 22>>
Speeds ==
    [i \in DOMAIN DdrSpeeds |->
        With(DdrSpeeds[i], [nPA |-> 1, nSCD |-> 1, nRA |-> GapAfterRead[i], nWA |-> GapAfterWrite[i]])]

Speed(org, s) == DdrSpeed(org, s)

Prereq ==
    PowerPrereq \cup On("Rank", {"REF"}, "banks closed") \cup On("SubArray", {"RD", "WR"}, "row selected")
Effects ==
    PowerEffects \cup On("Rank", {"PREA"}, "close all") \cup On("SubArray", {"ACT"}, "open and select")
        \cup On("SubArray", {"SASEL"}, "select") \cup On("SubArray", {"PRE", "RDA", "WRA"}, "close")
RowHit  == RowsAt("SubArray")
RowOpen == RowsAt("SubArray")

Timing(s) ==
    Bursts(s) \cup ColumnToColumn("Rank", s.nCCD) \cup Turnaround("Rank", DdrToWrite(s), DdrToRead(s))
        \cup DdrBetweenRanks(s) \cup RankPrecharge(s, s.nRP, s.nRP, Recovery(s)) \cup Activations(s)
        \cup At("Rank", {"PRE_OTHER"}, {"REF", "SRE"}, s.nRP) \cup Refreshes(s.nRFC) \cup DdrPower(s)
        \cup DdrRows("SubArray", s, s.nRP) \cup At("SubArray", {"SASEL"}, Columns, s.nSCD)
        \cup Sibling("SubArray", Reads, {"ACT", "SASEL"}, s.nRA)
        \cup Sibling("SubArray", Writes, {"ACT", "SASEL"}, s.nWA)
        \cup Sibling("SubArray", {"RD"}, {"RD"}, s.nRA) \cup Sibling("SubArray", {"RDA"}, {"RDA"}, s.nRA)
        \cup Sibling("SubArray", {"WR"}, {"WR"}, s.nWA) \cup Sibling("SubArray", {"WRA"}, {"WRA"}, s.nWA)
=============================================================================
