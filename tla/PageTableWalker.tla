-------------------------- MODULE PageTableWalker --------------------------
(***************************************************************************)
(* The page table walker (source/ChampSim/ptw.cc, include/ChampSim/ptw.h): *)
(* each read of the second-level TLB is a walk of one step per level of    *)
(* the page table, each step a read of the lower cache. An answer of the   *)
(* cache carries a block, and moves on all walks that wait for that block. *)
(*                                                                         *)
(* The steps of operate() are actions of their own: when an entry is due   *)
(* (event_cycle) and how many go in a cycle (MAX_READ, MAX_FILL) is left   *)
(* open, that an entry waits for those before it is not. MSHR_SIZE is not  *)
(* used by the code. Every read wants a response: the TLB does not         *)
(* prefetch.                                                               *)
(***************************************************************************)
EXTENDS VirtualMemory, Sequences, SequencesExt

CONSTANTS
    VPages,             \* virtual pages that are looked up
    Levels,             \* page structure caches, one per level: size(pscl)
    LowerSize,          \* reads the lower level has room for
    MaxReads            \* bound: reads of the upper level in a behaviour

Level == 0 .. Levels
Read  == [id : 1 .. MaxReads, v : VPages]

VARIABLES
    RQ,                 \* reads of the upper level
    pscl,               \* level -> the last walk that finished it, in a cache of one way
    MSHR,               \* walks that wait for the lower level
    finished,           \* walks with a next step
    completed,          \* walks with an answer
    outstanding,        \* block -> answers the lower level owes
    vmem,
    asked,              \* history: the number of reads
    returned            \* history: the reads that were answered

ptwVars == <<RQ, pscl, MSHR, finished, completed, outstanding, vmem, asked, returned>>

Frame == 1 .. vmem.next_ppage
Block == Frame \X (0 .. Fanout - 1)

\* A walk that reads block address to learn about its next level; page is what the
\* virtual memory said, if the read was answered.
Walk == [read : Read, level : Level, address : Block, page : Frame \cup {0}]

TypeOK ==
    /\ RQ \in Seq(Read)
    /\ DOMAIN pscl \subseteq 1 .. Levels
    /\ \A l \in DOMAIN pscl : pscl[l] \in [v : VPages, page : Frame]
    /\ MSHR \subseteq Walk
    /\ finished \in Seq(Walk) /\ completed \in Seq(Walk)
    /\ DOMAIN outstanding \subseteq Block
    /\ \A b \in DOMAIN outstanding : outstanding[b] \in 1 .. LowerSize
    /\ asked \in 0 .. MaxReads
    /\ returned \subseteq 1 .. asked

\* The constructor asks for the page-table page of the topmost level.
Init ==
    /\ RQ = <<>>
    /\ pscl = <<>>
    /\ MSHR = {}
    /\ finished = <<>>
    /\ completed = <<>>
    /\ outstanding = <<>>
    /\ vmem = Tabled(EmptyMemory, 0, Levels + 1)
    /\ asked = 0
    /\ returned = {}
-----------------------------------------------------------------------------
(* One step of a walk *)

CR3_addr == vmem.page_table[<<0, Levels + 1>>]

Owed(b) == IF b \in DOMAIN outstanding THEN outstanding[b] ELSE 0

LowerOccupancy == FoldFunction(LAMBDA a, b : a + b, 0, outstanding)

\* step_translation() of walk w: the lower level takes the read if it has room, and may
\* join it to one of the same block that it has not answered yet.
Step(w) ==
    /\ MSHR' = MSHR \cup {w}
    /\ LowerOccupancy < LowerSize
    /\ \E joined \in BOOLEAN :
          /\ joined => Owed(w.address) > 0
          /\ outstanding' = IF joined THEN outstanding
                            ELSE With(outstanding, w.address, Owed(w.address) + 1)

\* The page structure caches that hit for page v: the one of level l is looked up with
\* the prefix of the level above.
Hits(v) == {l \in DOMAIN pscl : Prefix(pscl[l].v, l + 1) = Prefix(v, l + 1)}

\* handle_read(): where the walk for a read begins. get_offset() for level 0 is taken
\* from the address in the page, which may be any.
Walks(r) ==
    IF Hits(r.v) = {}
    THEN {[read |-> r, level |-> Levels, address |-> <<CR3_addr, Offset(r.v, Levels)>>,
           page |-> 0]}
    ELSE LET l == CHOOSE l \in Hits(r.v) : \A k \in Hits(r.v) : l <= k
             offsets == IF l = 1 THEN 0 .. Fanout - 1 ELSE {Offset(r.v, l - 1)}
         IN  {[read |-> r, level |-> l - 1, address |-> <<pscl[l].page, o>>, page |-> 0] :
                 o \in offsets}

\* handle_fill(): the next step of a walk that knows the page of its level.
NextStep(w) == [w EXCEPT !.address = <<w.page, Offset(w.read.v, w.level)>>,
                         !.level = @ - 1, !.page = 0]
-----------------------------------------------------------------------------
(* Actions *)

\* The upper level sends a read.
Ask(v) ==
    /\ asked < MaxReads
    /\ RQ' = Append(RQ, [id |-> asked + 1, v |-> v])
    /\ asked' = asked + 1
    /\ UNCHANGED <<pscl, MSHR, finished, completed, outstanding, vmem, returned>>

\* operate(): the first read of the upper level begins a walk.
BeginWalk ==
    /\ RQ # <<>>
    /\ \E w \in Walks(Head(RQ)) : Step(w)
    /\ RQ' = Tail(RQ)
    /\ UNCHANGED <<pscl, finished, completed, vmem, asked, returned>>

\* A mutant of Waiting: only one of the walks that wait for the block.
WaitingFirst(b) == LET all == {w \in MSHR : w.address = b}
                   IN  IF all = {} THEN {} ELSE {CHOOSE w \in all : TRUE}

\* The walks an answer of block b is for.
Waiting(b) == {w \in MSHR : w.address = b}

\* finish_step() and finish_last_step() for a walk.
Learned(m, w) == IF w.level > 0 THEN Tabled(m, w.read.v, w.level) ELSE Mapped(m, w.read.v)

WithPage(m, w) == [w EXCEPT !.page = IF w.level > 0
                                     THEN m.page_table[<<Prefix(w.read.v, w.level), w.level>>]
                                     ELSE m.vpage_to_ppage_map[w.read.v]]

\* finish_packet() for an answer of the lower level. The order among walks that wait for
\* one block is that of std::partition(), any order.
Answer(b) ==
    /\ Owed(b) > 0
    /\ outstanding' = IF Owed(b) = 1
                      THEN [c \in DOMAIN outstanding \ {b} |-> outstanding[c]]
                      ELSE [outstanding EXCEPT ![b] = @ - 1]
    /\ \E order \in SetToSeqs(Waiting(b)) :
          LET after == FoldLeft(Learned, vmem, order)
              answered == [i \in DOMAIN order |-> WithPage(after, order[i])]
          IN  /\ vmem' = after
              /\ finished' = finished \o SelectSeq(answered, LAMBDA w : w.level > 0)
              /\ completed' = completed \o SelectSeq(answered, LAMBDA w : w.level = 0)
    /\ MSHR' = MSHR \ Waiting(b)
    /\ UNCHANGED <<RQ, pscl, asked, returned>>

\* operate(): the first walk with a next step takes it. If the lower level refuses, the
\* page structure cache has been filled all the same.
Continue ==
    /\ finished # <<>>
    /\ LET w == Head(finished)
       IN  /\ pscl' = With(pscl, w.level, [v |-> w.read.v, page |-> w.page])
           /\ \/ /\ Step(NextStep(w))
                 /\ finished' = Tail(finished)
              \/ /\ LowerOccupancy >= LowerSize
                 /\ UNCHANGED <<MSHR, outstanding, finished>>
    /\ UNCHANGED <<RQ, completed, vmem, asked, returned>>

\* operate(): the first walk with an answer returns it.
Return ==
    /\ completed # <<>>
    /\ returned' = returned \cup {Head(completed).read.id}
    /\ completed' = Tail(completed)
    /\ UNCHANGED <<RQ, pscl, MSHR, finished, outstanding, vmem, asked>>

Operate ==
    \/ BeginWalk
    \/ \E b \in DOMAIN outstanding : Answer(b)
    \/ Continue
    \/ Return

Next == (\E v \in VPages : Ask(v)) \/ Operate

\* operate() runs in every cycle, and the lower level answers what it took. No step can be
\* taken for ever, so that it is enough that some step is taken while any can be.
Fairness == WF_ptwVars(Operate)

Spec == Init /\ [][Next]_ptwVars /\ Fairness
-----------------------------------------------------------------------------
(* Properties *)

\* Every read of the TLB is answered in the end: no walk is left behind when an answer
\* moves on several, when the lower level joins reads or answers a block once more than
\* walks wait for it, or when it refuses a step.
WalksAnswered ==
    \A i \in 1 .. MaxReads :
        (i <= asked) ~> (i \in returned)
=============================================================================
