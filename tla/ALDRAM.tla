-------------------------------- MODULE ALDRAM --------------------------------
(***************************************************************************)
(* ALDRAM (include/Ramulator/ALDRAM.h, source/Ramulator/ALDRAM.cpp): DDR3  *)
(* with shorter timings while it is cold. The constructor and              *)
(* aldram_timing() fill the timings from a row of speed_table, where the   *)
(* parameters that init_speed() computes are zero: init_speed() writes     *)
(* those of speed_entry, a copy of another row. init_rowopen() does not    *)
(* exist.                                                                  *)
(***************************************************************************)
EXTENDS DramTables

Class == Interface(<<"Rank", "Bank">>, DdrScope)

Orgs == DdrOrgs

\* How much shorter nRCD, nRP, nRAS and nRC of a row are in the cold.
Shorter(i) ==
    CASE i \in 1 .. 7   -> <<1, 1, 5, 6>>
      [] i \in 8 .. 11  -> <<2, 2, 10, 12>>
      [] i \in 12 .. 14 -> <<2, 3, 10, 13>>

Cold(i) ==
    LET s == DdrSpeeds[i] IN
    With(s, [nRCD |-> s.nRCD - Shorter(i)[1], nRP |-> s.nRP - Shorter(i)[2],
             nRAS |-> s.nRAS - Shorter(i)[3], nRC |-> s.nRC - Shorter(i)[4]])

\* The rows for COLD, then those for HOT.
Speeds == [i \in DOMAIN DdrSpeeds |-> Cold(i)] \o DdrSpeeds

\* What init_timing() gets: the row as it stands in the table.
Speed(org, s) == With(s, [nRRD |-> 0, nFAW |-> 0, nRFC |-> 0, nXS |-> 0])

Prereq  == DdrPrereq
Effects == DdrEffects
RowHit  == RowsAt("Bank")
RowOpen == {}    \* the constructor calls no init_rowopen()

Timing(s) ==
    Bursts(s) \cup ColumnToColumn("Rank", s.nCCD) \cup Turnaround("Rank", DdrToWrite(s), DdrToRead(s))
        \cup DdrBetweenRanks(s) \cup RankPrecharge(s, s.nRP, s.nRP, Recovery(s)) \cup Activations(s)
        \cup Refreshes(s.nRFC) \cup DdrPower(s) \cup DdrRows("Bank", s, s.nRP)
===============================================================================
