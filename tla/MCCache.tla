------------------------------ MODULE MCCache ------------------------------
(* Instances of Cache: the caches of the committed build.                  *)
EXTENDS Cache

\* The first-level data cache: stores of the core, which is level 1 and
\* sends virtual addresses, and reads of the page table walker.
FirstLevel == [offset |-> TRUE, physical |-> Uppers \ {1}, virtual |-> FALSE,
               walker |-> Uppers \ {1}, issues |-> {"LOAD", "WRITE"}, words |-> {0, 1}, mshrs |-> 2, requests |-> 3, bypass |-> FALSE]
\* A cache below: write-backs of whole blocks, everything translated.
LowerLevel == [offset |-> FALSE, physical |-> Uppers, virtual |-> FALSE,
               walker |-> {}, issues |-> {"LOAD", "WRITE", "PREFETCH"}, words |-> {0}, mshrs |-> 2, requests |-> 3, bypass |-> TRUE]
\* The instruction cache: reads, and its own prefetches to virtual addresses.
Prefetching == [offset |-> TRUE, physical |-> Uppers \ {1}, virtual |-> TRUE,
                walker |-> Uppers \ {1}, issues |-> {"LOAD", "LOCAL"}, words |-> {0}, mshrs |-> 2, requests |-> 3, bypass |-> FALSE]
\* The data cache with one miss register, hence room for one stashed lookup,
\* and enough reads to fill it, the queue behind it and the walker's.
Crowded == [FirstLevel EXCEPT !.issues = {"LOAD"}, !.words = {0}, !.mshrs = 1, !.requests = 4]
DataCache == {FirstLevel}
Hierarchy == {FirstLevel, LowerLevel, Prefetching, Crowded}
============================================================================
