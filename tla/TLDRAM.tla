------------------------------- MODULE TLDRAM --------------------------------
(***************************************************************************)
(* TLDRAM (include/Ramulator/TLDRAM.h, source/Ramulator/TLDRAM.cpp): every *)
(* segment_ratio-th row is near the sense amplifiers and faster. Near rows *)
(* have the commands ending in F; MIG moves a row between the segments and *)
(* opens it with ACTM. There is no column command that closes its row.     *)
(***************************************************************************)
EXTENDS DramTables

Acts     == {"ACT", "ACTF", "ACTM"}
Pres     == {"PRE", "PREF", "PREM"}
AllPres  == {"PREA", "PREAF", "PREAM"}
TlReads  == {"RD", "MIG"}
TlColumn == TlReads \cup {"WR"}

\* Rows are selected by ACT, and closed one by one or all together.
Class ==
    [levels |-> <<"Rank", "Bank">>,
     scope |-> [c \in Acts \cup Pres \cup AllPres \cup TlColumn \cup {"REF", "PDE", "PDX", "SRE", "SRX"} |->
                   CASE c \in Acts -> "Row" [] c \in Pres -> "Bank" [] c \in TlColumn -> "Column"
                     [] OTHER -> "Rank"],
     opening |-> Acts, accessing |-> TlColumn, closing |-> Pres \cup AllPres,
     translate |-> With(DdrTranslate, [EXTENSION |-> "MIG"])]

Orgs   == DdrOrgs

\* The same timings of near and of migrated rows for every speed.
Speeds ==
    [i \in DOMAIN DdrSpeeds |->
        With(DdrSpeeds[i], [nRCDF |-> 3, nRPF |-> 3, nRASF |-> 10, nRCF |-> 13,
                            nRCDM |-> 6, nRPM |-> 6, nRASM |-> 20, nRCM |-> 26])]

Speed(org, s) == DdrSpeed(org, s)

Prereq ==
    PowerPrereq \cup On("Rank", {"MIG"}, "awake") \cup On("Rank", {"REF"}, "banks closed")
        \cup On("Bank", {"RD", "WR"}, "row open, by segment") \cup On("Bank", {"MIG"}, "row open to migrate")
Effects ==
    PowerEffects \cup On("Rank", AllPres, "close all") \cup On("Bank", Acts, "open")
        \cup On("Bank", Pres, "close")
RowHit  == RowsAt("Bank")
RowOpen == RowsAt("Bank")

\* The commands and timings of far, near and migrated rows.
Segments(s) ==
    {[act |-> "ACT", pre |-> "PRE", preAll |-> "PREA", rcd |-> s.nRCD, rp |-> s.nRP, ras |-> s.nRAS, rc |-> s.nRC],
     [act |-> "ACTF", pre |-> "PREF", preAll |-> "PREAF", rcd |-> s.nRCDF, rp |-> s.nRPF, ras |-> s.nRASF, rc |-> s.nRCF],
     [act |-> "ACTM", pre |-> "PREM", preAll |-> "PREAM", rcd |-> s.nRCDM, rp |-> s.nRPM, ras |-> s.nRASM, rc |-> s.nRCM]}

SegmentTiming(g) ==
    At("Rank", {g.act}, Pres \cup AllPres, g.ras) \cup At("Rank", {g.pre}, Acts, g.rp)
        \cup At("Rank", {g.pre, g.preAll}, {"REF", "SRE"}, g.rp)
        \cup At("Bank", {g.act}, TlColumn, g.rcd) \cup At("Bank", {g.act}, Acts, g.rc)
        \cup At("Bank", {g.act}, Pres, g.ras) \cup At("Bank", {g.pre}, Acts, g.rp)

\* Four activations of one name fill the window: it counts ACT, ACTF and ACTM apart. After
\* a write the row is closed by PRE or PREF, PREM does not wait.
Timing(s) ==
    At("Channel", TlReads, TlReads, s.nBL) \cup At("Channel", {"WR"}, {"WR"}, s.nBL)
        \cup At("Rank", TlReads, TlReads, s.nCCD) \cup At("Rank", {"WR"}, {"WR"}, s.nCCD)
        \cup At("Rank", TlReads, {"WR"}, DdrToWrite(s)) \cup At("Rank", {"WR"}, TlReads, DdrToRead(s))
        \cup Sibling("Rank", TlReads, TlColumn, s.nBL + s.nRTRS)
        \cup Sibling("Rank", TlReads, {"WR"}, s.nCL + s.nBL + s.nRTRS - s.nCWL)
        \cup Sibling("Rank", {"WR"}, TlReads, s.nCWL + s.nBL + s.nRTRS - s.nCL)
        \cup At("Rank", TlReads, AllPres, s.nRTP) \cup At("Rank", {"WR"}, AllPres, Recovery(s))
        \cup At("Rank", TlReads, {"PDE"}, s.nCL + s.nBL + 1) \cup At("Rank", {"WR"}, {"PDE"}, Recovery(s))
        \cup At("Rank", {"PDX"}, TlColumn \cup Acts \cup Pres \cup {"REF", "PDE", "SRE"}, s.nXP)
        \cup At("Rank", Acts, Acts, s.nRRD) \cup Entries("Rank", Acts, Acts, 4, s.nFAW, FALSE)
        \cup At("Rank", {"REF"}, Acts \cup {"REF"}, s.nRFC) \cup At("Rank", Acts \cup {"REF"}, {"PDE"}, 1)
        \cup At("Rank", {"SRX"}, Acts \cup {"REF", "PDE", "SRE"}, s.nXS)
        \cup At("Rank", {"PDE"}, {"PDX"}, s.nPD) \cup At("Rank", {"SRE"}, {"SRX"}, s.nCKESR)
        \cup At("Bank", TlReads, Pres, s.nRTP) \cup At("Bank", {"WR"}, {"PRE", "PREF"}, Recovery(s))
        \cup UNION {SegmentTiming(g) : g \in Segments(s)}
=============================================================================
