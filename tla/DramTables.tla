----------------------------- MODULE DramTables -----------------------------
(***************************************************************************)
(* What the memory standards of Ramulator have in common. Each standard is *)
(* a class (include/Ramulator/DDR3.h, source/Ramulator/DDR3.cpp, ...) that *)
(* fills tables indexed by level and command: prerequisites, effects,      *)
(* timings. Most tables repeat those of DDR3 line by line; the blocks they *)
(* repeat are defined here, and the module of a standard puts its tables   *)
(* together from them.                                                     *)
(*                                                                         *)
(* A command has one name in every standard here: PREA stands for PRA and  *)
(* PRER, PDE for PD, SRE for SREF and SRX for SREFX.                       *)
(***************************************************************************)
EXTENDS Integers, Sequences, FiniteSetsExt

Reads    == {"RD", "RDA"}
Writes   == {"WR", "WRA"}
Columns  == Reads \cup Writes
Closings == {"PRE", "PREA", "RDA", "WRA"}
-----------------------------------------------------------------------------
(* Levels, commands and translations: the head of a class *)

\* scope[]: the level a command is addressed to.
DdrScope ==
    [ACT |-> "Row", PRE |-> "Bank", PREA |-> "Rank", RD |-> "Column", WR |-> "Column",
     RDA |-> "Column", WRA |-> "Column", REF |-> "Rank", PDE |-> "Rank", PDX |-> "Rank",
     SRE |-> "Rank", SRX |-> "Rank"]

\* translate[]: the command that completes a request.
DdrTranslate ==
    [READ |-> "RD", WRITE |-> "WR", REFRESH |-> "REF", POWERDOWN |-> "PDE",
     SELFREFRESH |-> "SRE"]

\* The levels between the channel and the rows, the scopes, and the commands that open,
\* access and close rows.
Interface(levels, scope) ==
    [levels |-> levels, scope |-> scope, opening |-> {"ACT"}, accessing |-> Columns,
     closing |-> Closings, translate |-> DdrTranslate]

\* Refreshes of a single bank, which no request of most standards is translated to.
ScopeWithBankRefresh(cmd) == [c \in DOMAIN DdrScope \cup {cmd} |->
                                 IF c = cmd THEN "Bank" ELSE DdrScope[c]]
-----------------------------------------------------------------------------
(* Organizations and speeds *)

\* One row of org_table: size in Mb, width, and the children of a level.
Org(size, dq, columns) == [size |-> size, dq |-> dq, columns |-> columns]

DdrOrgs ==
    <<Org(512, 4, 2048), Org(512, 8, 1024), Org(512, 16, 1024),
      Org(1024, 4, 2048), Org(1024, 8, 1024), Org(1024, 16, 1024),
      Org(2048, 4, 2048), Org(2048, 8, 1024), Org(2048, 16, 1024),
      Org(4096, 4, 2048), Org(4096, 8, 1024), Org(4096, 16, 1024),
      Org(8192, 4, 4096), Org(8192, 8, 2048), Org(8192, 16, 1024)>>

\* A row of a speed table: the names of its columns and their values.
Row(names, values) == [n \in {names[i] : i \in DOMAIN names} |->
                          values[CHOOSE i \in DOMAIN names : names[i] = n]]

With(s, more) == [n \in DOMAIN s \cup DOMAIN more |-> IF n \in DOMAIN more THEN more[n] ELSE s[n]]

DdrColumns == <<"rate", "nCL", "nRCD", "nRP", "nCWL", "nRAS", "nRC", "nRTP", "nWTR", "nWR",
                "nPD", "nXP", "nCKESR">>

\* What is the same in every row.
DdrConstants == [nBL |-> 4, nCCD |-> 4, nRTRS |-> 2]

DdrRow(values) == With(Row(DdrColumns, values), DdrConstants)

DdrSpeeds ==
    <<DdrRow(<<800, 5, 5, 5, 5, 15, 20, 4, 4, 6, 3, 3, 4>>),
      DdrRow(<<800, 6, 6, 6, 5, 15, 21, 4, 4, 6, 3, 3, 4>>),
      DdrRow(<<1066, 6, 6, 6, 6, 20, 26, 4, 4, 8, 3, 4, 4>>),
      DdrRow(<<1066, 7, 7, 7, 6, 20, 27, 4, 4, 8, 3, 4, 4>>),
      DdrRow(<<1066, 8, 8, 8, 6, 20, 28, 4, 4, 8, 3, 4, 4>>),
      DdrRow(<<1333, 8, 8, 8, 7, 24, 32, 5, 5, 10, 4, 4, 5>>),
      DdrRow(<<1333, 9, 9, 9, 7, 24, 33, 5, 5, 10, 4, 4, 5>>),
      DdrRow(<<1600, 9, 9, 9, 8, 28, 37, 6, 6, 12, 4, 5, 5>>),
      DdrRow(<<1600, 10, 10, 10, 8, 28, 38, 6, 6, 12, 4, 5, 5>>),
      DdrRow(<<1600, 11, 11, 11, 8, 28, 39, 6, 6, 12, 4, 5, 5>>),
      DdrRow(<<1866, 11, 11, 11, 9, 32, 43, 7, 7, 14, 5, 6, 6>>),
      DdrRow(<<1866, 12, 12, 12, 9, 32, 44, 7, 7, 14, 5, 6, 6>>),
      DdrRow(<<2133, 12, 12, 12, 10, 36, 48, 8, 8, 16, 6, 7, 7>>),
      DdrRow(<<2133, 13, 13, 13, 10, 36, 49, 8, 8, 16, 6, 7, 7>>)>>

\* The first, ..., fifth value by the size of a chip: 512 Mb, 1 Gb, 2 Gb, 4 Gb, 8 Gb.
BySize(org, values) ==
    values[CASE org.size = 512 -> 1 [] org.size = 1024 -> 2 [] org.size = 2048 -> 3
             [] org.size = 4096 -> 4 [] OTHER -> 5]

SmallPage(org) == (org.dq * org.columns) \div 8192 = 1
ByPage(org, small, large) == IF SmallPage(org) THEN small ELSE large

\* init_speed(): the parameters that depend on the chip as well.
DdrSpeed(org, s) ==
    LET Fill(rrd, faw, rfc, xs) ==
            With(s, [nRRD |-> rrd, nFAW |-> faw, nRFC |-> BySize(org, rfc), nXS |-> BySize(org, xs)])
    IN
    CASE s.rate = 800  -> Fill(4, ByPage(org, 16, 20), <<36, 44, 64, 104, 140>>,
                               <<40, 48, 68, 108, 144>>)
      [] s.rate = 1066 -> Fill(ByPage(org, 4, 6), ByPage(org, 20, 27), <<48, 59, 86, 139, 187>>,
                               <<54, 64, 91, 144, 192>>)
      [] s.rate = 1333 -> Fill(ByPage(org, 4, 5), ByPage(org, 20, 30), <<60, 74, 107, 174, 234>>,
                               <<67, 80, 114, 180, 240>>)
      [] s.rate = 1600 -> Fill(ByPage(org, 5, 6), ByPage(org, 24, 32), <<72, 88, 128, 208, 280>>,
                               <<80, 96, 136, 216, 288>>)
      [] s.rate = 1866 -> Fill(ByPage(org, 5, 6), ByPage(org, 26, 33), <<84, 103, 150, 243, 327>>,
                               <<94, 112, 159, 252, 336>>)
      [] s.rate = 2133 -> Fill(ByPage(org, 5, 6), ByPage(org, 27, 34), <<96, 118, 171, 278, 374>>,
                               <<107, 128, 182, 288, 384>>)
-----------------------------------------------------------------------------
(* Rules: which rule of the module Dram applies to a command at a level *)

On(level, cmds, rule) == {<<level, c, rule>> : c \in cmds}

\* init_prereq().
PowerPrereq ==
    On("Rank", {"RD", "WR"}, "awake") \cup On("Rank", {"PDE"}, "power down")
        \cup On("Rank", {"SRE"}, "self refresh")

DdrPrereq ==
    PowerPrereq \cup On("Rank", {"REF"}, "banks closed") \cup On("Bank", {"RD", "WR"}, "row open")

\* A mutant of PowerEffects: self refresh is not left.
PowerEffectsUnleft ==
    On("Rank", {"PDE"}, "power down") \cup On("Rank", {"PDX"}, "power up")
        \cup On("Rank", {"SRE"}, "self refresh")

\* init_lambda().
PowerEffects ==
    On("Rank", {"PDE"}, "power down") \cup On("Rank", {"PDX", "SRX"}, "power up")
        \cup On("Rank", {"SRE"}, "self refresh")

DdrEffects ==
    PowerEffects \cup On("Rank", {"PREA"}, "close all") \cup On("Bank", {"ACT"}, "open")
        \cup On("Bank", {"PRE", "RDA", "WRA"}, "close")

\* init_rowhit() and init_rowopen(): the level at which a row is looked for.
RowsAt(level) == On(level, {"RD", "WR"}, "row")
-----------------------------------------------------------------------------
(* Timings: after prev at a level, next waits val cycles from the dist-th  *)
(* last prev; sib when prev goes to another child of the same parent.      *)

Entries(level, prevs, nexts, dist, val, sib) ==
    {[level |-> level, prev |-> p, next |-> n, dist |-> dist, val |-> val, sib |-> sib] :
        p \in prevs, n \in nexts}

At(level, prevs, nexts, val)      == Entries(level, prevs, nexts, 1, val, FALSE)
Sibling(level, prevs, nexts, val) == Entries(level, prevs, nexts, 1, val, TRUE)
Window(level, cmds, dist, val)    == Entries(level, cmds, cmds, dist, val, FALSE)

\* Write recovery: from a write command to the precharge of its row.
Recovery(s) == s.nCWL + s.nBL + s.nWR

\* The data bus of the channel.
Bursts(s) == At("Channel", Reads, Reads, s.nBL) \cup At("Channel", Writes, Writes, s.nBL)

ColumnToColumn(level, ccd) == At(level, Reads, Reads, ccd) \cup At(level, Writes, Writes, ccd)

\* From reads to writes and from writes to reads.
Turnaround(level, toWrite, toRead) ==
    At(level, Reads, Writes, toWrite) \cup At(level, Writes, Reads, toRead)

DdrToWrite(s) == s.nCL + s.nCCD + 2 - s.nCWL
DdrToRead(s)  == s.nCWL + s.nBL + s.nWTR

\* "between sibling ranks": toWrite is the read to write turnaround.
BetweenRanks(s, toWrite) ==
    Sibling("Rank", Reads, Columns, s.nBL + s.nRTRS) \cup Sibling("Rank", Reads, Writes, toWrite)
        \cup Sibling("Rank", Writes, Reads, s.nCWL + s.nBL + s.nRTRS - s.nCL)

DdrBetweenRanks(s) == BetweenRanks(s, s.nCL + s.nBL + s.nRTRS - s.nCWL)

\* Precharges of a rank; rp after all its banks, rpBank after one, are precharged.
RankPrecharge(s, rp, rpBank, recovery) ==
    At("Rank", {"RD"}, {"PREA"}, s.nRTP) \cup At("Rank", {"WR"}, {"PREA"}, recovery)
        \cup At("Rank", {"ACT"}, {"PREA"}, s.nRAS) \cup At("Rank", {"PREA"}, {"ACT", "REF", "SRE"}, rp)
        \cup At("Rank", {"PRE"}, {"REF", "SRE"}, rpBank)

\* Activations of a rank: two in a row, and five.
Activations(s) == At("Rank", {"ACT"}, {"ACT"}, s.nRRD) \cup Window("Rank", {"ACT"}, 4, s.nFAW)

\* From row commands to a refresh.
ToRefresh(s) ==
    At("Rank", {"ACT"}, {"REF"}, s.nRC) \cup At("Rank", {"RDA"}, {"REF"}, s.nRTP + s.nRP)
        \cup At("Rank", {"WRA"}, {"REF"}, Recovery(s) + s.nRP)

Refreshes(rfc) == At("Rank", {"REF"}, {"ACT", "REF"}, rfc)

\* Power down and self refresh: read is the latency of a read with its data, xp and xs the
\* time to leave them, pd and sr the time spent there at least.
Power(read, recovery, xp, pd, sr, xs, refreshes) ==
    At("Rank", Reads, {"PDE"}, read + 1) \cup At("Rank", {"WR"}, {"PDE"}, recovery)
        \cup At("Rank", {"WRA"}, {"PDE"}, recovery + 1)
        \cup At("Rank", {"PDX"}, Columns \cup {"ACT", "PRE", "PREA", "PDE", "SRE"} \cup refreshes, xp)
        \cup At("Rank", {"ACT"} \cup refreshes, {"PDE"}, 1)
        \cup At("Rank", {"SRX"}, {"ACT", "PDE", "SRE"} \cup refreshes, xs)
        \cup At("Rank", {"PDE"}, {"PDX"}, pd) \cup At("Rank", {"SRE"}, {"SRX"}, sr)

DdrPower(s) == Power(s.nCL + s.nBL, Recovery(s), s.nXP, s.nPD, s.nCKESR, s.nXS, {"REF"})

\* The rows of a bank or subarray.
Rows(level, s, rcdRead, rcdWrite, recovery, rp) ==
    At(level, {"ACT"}, Reads, rcdRead) \cup At(level, {"ACT"}, Writes, rcdWrite)
        \cup At(level, {"RD"}, {"PRE"}, s.nRTP) \cup At(level, {"WR"}, {"PRE"}, recovery)
        \cup At(level, {"RDA"}, {"ACT"}, s.nRTP + rp) \cup At(level, {"WRA"}, {"ACT"}, recovery + rp)
        \cup At(level, {"ACT"}, {"ACT"}, s.nRC) \cup At(level, {"ACT"}, {"PRE"}, s.nRAS)
        \cup At(level, {"PRE"}, {"ACT"}, rp)

\* Refreshes of the rank and of a bank, as LPDDR3 has them: other banks wait as they do
\* between activations.
BankRefreshes(s) ==
    At("Rank", {"REF"}, {"ACT", "REF", "REFPB"}, s.nRFCab) \cup At("Rank", {"REFPB"}, {"REF"}, s.nRFCpb)
        \cup At("Bank", {"PRE"}, {"REFPB"}, s.nRPpb)
        \cup Sibling("Bank", {"ACT"}, {"REFPB"}, s.nRRD) \cup Sibling("Bank", {"REFPB"}, {"ACT"}, s.nRRD)
        \cup At("Bank", {"REFPB"}, {"REFPB", "ACT"}, s.nRFCpb)

DdrRows(level, s, rp) == Rows(level, s, s.nRCD, s.nRCD, Recovery(s), rp)
=============================================================================
