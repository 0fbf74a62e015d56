------------------------------- MODULE Cache -------------------------------
(***************************************************************************)
(* One set of a CACHE with its miss registers, between its upper levels,   *)
(* reached through channels, and a lower level that refuses requests when  *)
(* it likes and answers the accepted ones in any order.                    *)
(*                                                                         *)
(* A call of operate() checks the new requests for collisions, takes the   *)
(* answers from below, fills, starts lookups, orders translations and      *)
(* finishes lookups, in this order.  Latencies, bandwidths and refusals by *)
(* the lower level may cut each of these to nothing, so a call that fills  *)
(* and then finishes a lookup looks like two calls that do one each, and   *)
(* every step below is a call of its own.  What the order within a call    *)
(* does ensure is kept: no lookup starts before all requests are checked,  *)
(* and answers are taken before anything else sees what they change.       *)
(***************************************************************************)
EXTENDS Channel, FiniteSets

CONSTANTS
    Lines,                 \* the blocks of this set
    NoLine,                \* the address of a way that was never filled
    Uppers,                \* the upper levels, numbered in their order
    Ways,                  \* NUM_WAY, numbered
    RQ_SIZE, WQ_SIZE, PQ_SIZE,  \* of a channel
    IPQ_SIZE,              \* PQ_SIZE of the cache: its own prefetches
    TAG_SIZE,              \* MAX_TAG * HIT_LATENCY, the lookups under way at most
    Caches,                \* the caches of the hierarchy this may be: records of
                           \*   offset    match_offset_bits
                           \*   physical  the upper levels whose requests come translated
                           \*   virtual   virtual_prefetch
                           \*   walker    the upper levels that are page table walkers:
                           \*             they read to translate for lower_translate
                           \*   issues    the kinds of request it gets
                           \*   words     the words of a block its writes tell apart
                           \*   mshrs     MSHR_SIZE
                           \*   requests  bound on the requests of a behaviour
                           \*   bypass    may the replacement policy choose no way?
    MaxRequests            \* the largest of those bounds

ASSUME CacheAssumption ==
    /\ Uppers \subseteq Nat /\ Ways \subseteq Nat /\ NoLine \notin Lines
    /\ {RQ_SIZE, WQ_SIZE, PQ_SIZE, IPQ_SIZE, TAG_SIZE, MaxRequests} \subseteq Nat
    /\ \A c \in Caches : /\ {c.offset, c.virtual} \subseteq BOOLEAN
                         /\ 0 \in c.words /\ c.mshrs \in Nat /\ c.requests \in 0..MaxRequests

VARIABLES
    cache,                 \* which of Caches this is
    wq, rq, pq,            \* the queues of every upper channel
    returned,              \* the answers every upper channel holds
    internalPQ,            \* internal_PQ
    tagCheck,              \* inflight_tag_check
    stash,                 \* translation_stash
    mshr,                  \* MSHR
    inflightWrites,        \* inflight_writes
    block,                 \* the ways of the set
    asked,                 \* how many answers the lower level owes per line
    walks,                 \* the lines being translated by lower_translate
    walkRead,              \* the read its walk is waiting for, per line, or 0
    issued,                \* requests so far; the next one is its number
    waiting,               \* reads accepted and not yet answered, with the level
                           \* that sent them (history)
    unwritten              \* writes accepted and not yet sent below (history)

queues   == <<wq, rq, pq, internalPQ>>
lookups  == <<tagCheck, stash, walks, walkRead>>
misses   == <<mshr, inflightWrites, asked>>
history  == <<issued, waiting, unwritten>>
vars     == <<cache, queues, returned, lookups, misses, block, history>>

TagEntry(p, ret, local, skip) ==
    [line |-> p.line, type |-> p.type, ret |-> ret, local |-> local,
     skip |-> skip, trans |-> p.trans, sent |-> FALSE, deps |-> p.deps]

\* to_return is the set of channels ret; done: event_cycle is set.
MshrEntry(e) == [line |-> e.line, type |-> e.type, ret |-> e.ret, deps |-> e.deps,
                 done |-> FALSE]

InvalidBlock == [valid |-> FALSE, line |-> NoLine, dirty |-> FALSE, held |-> {}]

Init ==
    /\ cache \in Caches
    /\ wq = [u \in Uppers |-> <<>>] /\ rq = wq /\ pq = wq /\ returned = wq
    /\ internalPQ = <<>> /\ tagCheck = <<>> /\ stash = <<>>
    /\ mshr = <<>> /\ inflightWrites = <<>>
    /\ block = [w \in Ways |-> InvalidBlock]
    /\ asked = [l \in Lines |-> 0] /\ walks = {}
    /\ walkRead = [l \in Lines |-> 0]
    /\ issued = 0 /\ waiting = {} /\ unwritten = {}

----------------------------------------------------------------------------
(* The upper levels: add_rq, add_wq, add_pq, and taking the answers.       *)

Arrive(kind) ==
    /\ issued < cache.requests /\ kind \in cache.issues
    /\ issued' = issued + 1
    /\ UNCHANGED <<cache, internalPQ, returned, misses, block>>

SendRead(u, l, w) ==
    /\ Len(rq[u]) < RQ_SIZE
    /\ rq' = [rq EXCEPT ![u] =
                Append(@, RequestOf(l, w, "LOAD", TRUE, u \in cache.physical, {issued + 1}))]
    /\ waiting' = waiting \cup {<<issued + 1, u>>}

AddRead(u, l, w) ==
    /\ Arrive("LOAD") /\ u \notin cache.walker
    /\ SendRead(u, l, w)
    /\ UNCHANGED <<wq, pq, lookups, unwritten>>

\* The walker needs line p to translate line l.
WalkRead(u, l, p) ==
    /\ Arrive("LOAD") /\ u \in cache.walker /\ l \in walks /\ walkRead[l] = 0
    /\ SendRead(u, p, 0)
    /\ walkRead' = [walkRead EXCEPT ![l] = issued + 1]
    /\ UNCHANGED <<wq, pq, tagCheck, stash, walks, unwritten>>

AddWrite(u, l, w) ==
    /\ Arrive("WRITE") /\ u \notin cache.walker /\ Len(wq[u]) < WQ_SIZE
    /\ wq' = [wq EXCEPT ![u] =
                Append(@, RequestOf(l, w, "WRITE", FALSE, u \in cache.physical, {issued + 1}))]
    /\ unwritten' = unwritten \cup {issued + 1}
    /\ UNCHANGED <<rq, pq, lookups, waiting>>

\* A prefetch that fills the upper level asks for an answer.
AddPrefetch(u, l, w, resp) ==
    /\ Arrive("PREFETCH") /\ u \notin cache.walker /\ Len(pq[u]) < PQ_SIZE
    /\ LET who == IF resp THEN {issued + 1} ELSE {} IN
       /\ pq' = [pq EXCEPT ![u] =
                   Append(@, RequestOf(l, w, "PREFETCH", resp, u \in cache.physical, who))]
       /\ waiting' = waiting \cup (who \X {u})
    /\ UNCHANGED <<wq, rq, lookups, unwritten>>

TakeAnswers(u) ==
    /\ returned[u] # <<>>
    /\ returned' = [returned EXCEPT ![u] = <<>>]
    /\ waiting' = waiting \ ((UNION Range(returned[u])) \X {u})
    /\ UNCHANGED <<cache, queues, lookups, misses, block, issued, unwritten>>

\* prefetch_line(), called by the prefetcher.
PrefetchLine(l, fillThis) ==
    /\ issued < cache.requests /\ "LOCAL" \in cache.issues
    /\ Len(internalPQ) < IPQ_SIZE
    /\ LET p == RequestOf(l, 0, "PREFETCH", FALSE, ~cache.virtual, {}) IN
       internalPQ' = Append(internalPQ, TagEntry(p, {}, TRUE, ~fillThis))
    /\ issued' = issued + 1
    /\ UNCHANGED <<cache, wq, rq, pq, returned, lookups, misses, block, waiting,
                   unwritten>>

----------------------------------------------------------------------------
(* Answers from below.  operate() takes them before it reads anything they *)
(* change, so taking them is one step with their arrival.                  *)

Swap(s, i, j) == [s EXCEPT ![i] = s[j], ![j] = s[i]]

MshrOf(l)       == First({k \in 1..Len(mshr) : mshr[k].line = l})
FirstUnanswered == First({k \in 1..Len(mshr) : ~mshr[k].done})

\* A mutant of Settled: the register stays where it is.
SettledInPlace(l) == [mshr EXCEPT ![MshrOf(l)].done = TRUE]

\* The registers after the answer for line l: the answered ones stay in
\* front of the others.
Settled(l) == Swap([mshr EXCEPT ![MshrOf(l)].done = TRUE], MshrOf(l), FirstUnanswered)

\* finish_packet
FinishPacket(l) ==
    /\ asked[l] > 0
    /\ asked' = [asked EXCEPT ![l] = @ - 1]
    /\ mshr' = Settled(l)
    /\ UNCHANGED <<cache, queues, returned, lookups, inflightWrites, block, history>>

MarkTranslated(e, l) == IF e.line = l THEN [e EXCEPT !.trans = TRUE] ELSE e

\* stable_partition moves the lookups of the line in front of those that
\* still wait.
Restarted(l) ==
    LET ready  == {k \in DOMAIN stash : stash[k].trans}
        match  == {k \in DOMAIN stash : ~stash[k].trans /\ stash[k].line = l}
        others == {k \in DOMAIN stash : ~stash[k].trans /\ stash[k].line # l}
        marked == [k \in DOMAIN stash |-> MarkTranslated(stash[k], l)]
    IN  Picked(marked, ready) \o Picked(marked, match) \o Picked(marked, others)

MarkedLookups(l) == [k \in DOMAIN tagCheck |-> MarkTranslated(tagCheck[k], l)]

\* finish_translation
FinishTranslation(l) ==
    /\ l \in walks /\ \A u \in Uppers : <<walkRead[l], u>> \notin waiting
    /\ walks' = walks \ {l}
    /\ walkRead' = [walkRead EXCEPT ![l] = 0]
    /\ stash' = Restarted(l)
    /\ tagCheck' = MarkedLookups(l)
    /\ UNCHANGED <<cache, queues, returned, misses, block, history>>

----------------------------------------------------------------------------
(* operate()                                                               *)

AllChecked == \A u \in Uppers : \A p \in Range(wq[u]) \cup Range(rq[u]) \cup Range(pq[u]) : p.fwd

\* check_collision() of every upper channel.
CheckCollisions ==
    /\ ~AllChecked
    /\ wq' = [u \in Uppers |-> CheckedWrites(wq[u], cache.offset)]
    /\ rq' = [u \in Uppers |-> CheckedReads(wq'[u], rq[u], cache.offset)]
    /\ pq' = [u \in Uppers |-> CheckedReads(wq'[u], pq[u], cache.offset)]
    /\ returned' = [u \in Uppers |-> returned[u]
                       \o ForwardedAnswers(wq'[u], rq[u], cache.offset)
                       \o ForwardedAnswers(wq'[u], pq[u], cache.offset)]
    /\ UNCHANGED <<cache, internalPQ, lookups, misses, block, history>>

Answer(e) == [u \in Uppers |-> IF u \in e.ret THEN Append(returned[u], e.deps)
                                              ELSE returned[u]]

\* The way a fill may use: the first invalid one, or the policy's victim.
FillWays == LET invalid == {w \in Ways : ~block[w].valid} IN
            IF invalid # {} THEN {First(invalid)} ELSE Ways

\* BLOCK(mshr): dirty when the miss is a write.
BlockOf(e) == [valid |-> TRUE, line |-> e.line, dirty |-> e.type = "WRITE",
               held |-> IF e.type = "WRITE" THEN e.deps ELSE {}]

\* A mutant of FillWay: the lower level's refusal of a write-back is ignored.
FillAnyway(e, w) ==
    /\ w \in FillWays
    /\ block' = [block EXCEPT ![w] = BlockOf(e)]
    /\ returned' = Answer(e)
    /\ UNCHANGED unwritten

\* handle_fill into way w, the lower level accepting the write-back of a
\* dirty victim.
FillWay(e, w) ==
    /\ w \in FillWays
    /\ unwritten' = IF block[w].valid /\ block[w].dirty
                    THEN unwritten \ block[w].held ELSE unwritten
    /\ block' = [block EXCEPT ![w] = BlockOf(e)]
    /\ returned' = Answer(e)

\* handle_fill when the policy takes no way; it must not do so for a write.
BypassFill(e) ==
    /\ cache.bypass /\ e.type # "WRITE" /\ \A w \in Ways : block[w].valid
    /\ returned' = Answer(e)
    /\ UNCHANGED <<block, unwritten>>

HandleFill(e) == BypassFill(e) \/ \E w \in Ways : FillWay(e, w)

FillFromMshr ==
    /\ mshr # <<>> /\ Head(mshr).done
    /\ HandleFill(Head(mshr))
    /\ mshr' = Tail(mshr)
    /\ UNCHANGED <<cache, queues, lookups, inflightWrites, asked, issued, waiting>>

FillFromWrites ==
    /\ inflightWrites # <<>>
    /\ HandleFill(Head(inflightWrites))
    /\ inflightWrites' = Tail(inflightWrites)
    /\ UNCHANGED <<cache, queues, lookups, mshr, asked, issued, waiting>>

\* A mutant of CanStart: translated lookups wait for room in the stash, too.
CanStartWithRoom(queue) == queue # <<>> /\ Len(stash) < cache.mshrs

\* can_translate
CanStart(queue) == queue # <<>> /\ (Len(stash) < cache.mshrs \/ Head(queue).trans)

Take(queue, u) == [queue EXCEPT ![u] = Tail(@)]

\* initiate_tag_check<true>
StartEntry(p, u) == Append(tagCheck, TagEntry(p, IF p.resp THEN {u} ELSE {}, FALSE, FALSE))

StashReady == stash # <<>> /\ Head(stash).trans

\* The queues of a channel are served in the order WQ, RQ, PQ, the channels
\* in theirs, after the stash and before the cache's own prefetches.
NoneBefore(u) ==
    /\ ~StashReady
    /\ \A v \in Uppers : v < u => ~CanStart(wq[v]) /\ ~CanStart(rq[v]) /\ ~CanStart(pq[v])

StartStashed ==
    /\ Len(tagCheck) < TAG_SIZE /\ StashReady
    /\ tagCheck' = Append(tagCheck, Head(stash))
    /\ stash' = Tail(stash)
    /\ UNCHANGED <<cache, queues, returned, walks, walkRead, misses, block, history>>

StartQueued(u) ==
    /\ AllChecked /\ Len(tagCheck) < TAG_SIZE /\ NoneBefore(u)
    /\ \/ /\ CanStart(wq[u])
          /\ tagCheck' = StartEntry(Head(wq[u]), u)
          /\ wq' = Take(wq, u)
          /\ UNCHANGED <<rq, pq>>
       \/ /\ CanStart(rq[u]) /\ ~CanStart(wq[u])
          /\ tagCheck' = StartEntry(Head(rq[u]), u)
          /\ rq' = Take(rq, u)
          /\ UNCHANGED <<wq, pq>>
       \/ /\ CanStart(pq[u]) /\ ~CanStart(wq[u]) /\ ~CanStart(rq[u])
          /\ tagCheck' = StartEntry(Head(pq[u]), u)
          /\ pq' = Take(pq, u)
          /\ UNCHANGED <<wq, rq>>
    /\ UNCHANGED <<cache, internalPQ, returned, stash, walks, walkRead, misses, block, history>>

StartPrefetch ==
    /\ AllChecked /\ Len(tagCheck) < TAG_SIZE /\ CanStart(internalPQ)
    /\ \A u \in Uppers : NoneBefore(u) /\ ~CanStart(wq[u]) /\ ~CanStart(rq[u]) /\ ~CanStart(pq[u])
    /\ tagCheck' = Append(tagCheck, Head(internalPQ))
    /\ internalPQ' = Tail(internalPQ)
    /\ UNCHANGED <<cache, wq, rq, pq, returned, stash, walks, walkRead, misses, block, history>>

Unsent(s) == {i \in 1..Len(s) : ~s[i].trans /\ ~s[i].sent}

\* issue_translation: lower_translate accepts the next request.
IssueTranslation ==
    \/ /\ Unsent(tagCheck) # {}
       /\ LET i == First(Unsent(tagCheck)) IN
          /\ tagCheck' = [tagCheck EXCEPT ![i].sent = TRUE]
          /\ walks' = walks \cup {tagCheck[i].line}
       /\ UNCHANGED <<cache, queues, returned, stash, walkRead, misses, block, history>>
    \/ /\ Unsent(tagCheck) = {} /\ Unsent(stash) # {}
       /\ LET i == First(Unsent(stash)) IN
          /\ stash' = [stash EXCEPT ![i].sent = TRUE]
          /\ walks' = walks \cup {stash[i].line}
       /\ UNCHANGED <<cache, queues, returned, tagCheck, walkRead, misses, block, history>>

\* A lookup past its cycle that is not translated waits in the stash; the
\* lookups come of age in their order.
StashLate ==
    LET late == {i \in 1..Len(tagCheck) : ~tagCheck[i].trans} IN
    /\ late # {}
    /\ stash' = Append(stash, tagCheck[First(late)])
    /\ tagCheck' = RemoveAt(tagCheck, First(late))
    /\ UNCHANGED <<cache, queues, returned, walks, walkRead, misses, block, history>>

WaysWith(l) == {w \in Ways : block[w].line = l}

MshrWith(l) == {i \in 1..Len(mshr) : mshr[i].line = l}

\* try_hit
Hit(e) ==
    /\ WaysWith(e.line) # {}
    /\ returned' = Answer(e)
    /\ block' = IF e.type = "WRITE"
                THEN [block EXCEPT ![First(WaysWith(e.line))].dirty = TRUE,
                                   ![First(WaysWith(e.line))].held  = @ \cup e.deps]
                ELSE block
    /\ UNCHANGED <<misses, history>>

\* handle_write: a write-back that misses waits to be filled.
WriteMiss(e) ==
    /\ WaysWith(e.line) = {} /\ e.type = "WRITE" /\ ~cache.offset
    /\ inflightWrites' = Append(inflightWrites, [MshrEntry(e) EXCEPT !.done = TRUE])
    /\ UNCHANGED <<mshr, asked, block, returned, history>>

IsReadMiss(e) == WaysWith(e.line) = {} /\ (e.type = "WRITE" => cache.offset)

\* A mutant of Merged: only the later request is answered.
MergedOver(old, new) ==
    [(IF new.type = "PREFETCH" THEN old ELSE new) EXCEPT
        !.deps = old.deps \cup new.deps, !.done = old.done]

\* mshr_type::merge
Merged(old, new) ==
    [(IF new.type = "PREFETCH" THEN old ELSE new) EXCEPT
        !.ret = old.ret \cup new.ret, !.deps = old.deps \cup new.deps, !.done = old.done]

\* handle_miss, the line being on its way already
MergeMiss(e) ==
    /\ IsReadMiss(e) /\ MshrWith(e.line) # {}
    /\ mshr' = [mshr EXCEPT ![First(MshrWith(e.line))] = Merged(@, MshrEntry(e))]
    /\ UNCHANGED <<inflightWrites, asked, block, returned, history>>

HasRegister == Len(mshr) < cache.mshrs

\* handle_miss, the lower level accepting the request; a prefetch that is
\* not to be filled here asks for no answer and takes no register.
AllocateMiss(e) ==
    /\ IsReadMiss(e) /\ MshrWith(e.line) = {} /\ HasRegister
    /\ IF e.local /\ e.skip
       THEN UNCHANGED <<mshr, asked>>
       ELSE /\ mshr' = Append(mshr, MshrEntry(e))
            /\ asked' = [asked EXCEPT ![e.line] = @ + 1]
    /\ UNCHANGED <<inflightWrites, block, returned, history>>

CheckTag ==
    /\ tagCheck # <<>> /\ Head(tagCheck).trans
    /\ LET e == Head(tagCheck) IN Hit(e) \/ WriteMiss(e) \/ MergeMiss(e) \/ AllocateMiss(e)
    /\ tagCheck' = Tail(tagCheck)
    /\ UNCHANGED <<cache, queues, stash, walks, walkRead>>

----------------------------------------------------------------------------
Environment ==
    \/ \E u \in Uppers, l \in Lines, w \in cache.words :
          \/ AddRead(u, l, w) \/ AddWrite(u, l, w)
          \/ \E resp \in BOOLEAN : AddPrefetch(u, l, w, resp)
    \/ \E u \in Uppers, l, p \in Lines : WalkRead(u, l, p)
    \/ \E l \in Lines, fillThis \in BOOLEAN : PrefetchLine(l, fillThis)

Deliver ==
    \/ \E u \in Uppers : TakeAnswers(u)
    \/ \E l \in Lines : FinishPacket(l) \/ FinishTranslation(l)

Operate ==
    \/ CheckCollisions
    \/ FillFromMshr \/ FillFromWrites
    \/ StartStashed \/ StartPrefetch \/ \E u \in Uppers : StartQueued(u)
    \/ IssueTranslation \/ StashLate
    \/ CheckTag

Next == Environment \/ Deliver \/ Operate

\* Latencies pass, bandwidths are at least one, and every other level takes
\* its requests and answers in the end.
Fairness ==
    /\ \A u \in Uppers : WF_vars(TakeAnswers(u)) /\ WF_vars(StartQueued(u))
    /\ \A l \in Lines : WF_vars(FinishPacket(l)) /\ WF_vars(FinishTranslation(l))
    /\ WF_vars(CheckCollisions) /\ WF_vars(FillFromMshr) /\ WF_vars(FillFromWrites)
    /\ WF_vars(StartStashed) /\ WF_vars(StartPrefetch)
    /\ WF_vars(IssueTranslation) /\ WF_vars(StashLate) /\ WF_vars(CheckTag)

Spec == Init /\ [][Next]_vars /\ Fairness

----------------------------------------------------------------------------
(* Properties                                                              *)

Requests == [line : Lines, word : cache.words, type : Types, resp : BOOLEAN,
             trans : BOOLEAN, deps : SUBSET (1..issued), fwd : BOOLEAN]
Lookups  == [line : Lines, type : Types, ret : SUBSET Uppers, local : BOOLEAN,
             skip : BOOLEAN, trans : BOOLEAN, sent : BOOLEAN,
             deps : SUBSET (1..issued)]
Misses   == [line : Lines, type : Types, ret : SUBSET Uppers,
             deps : SUBSET (1..issued), done : BOOLEAN]
Blocks   == [valid : BOOLEAN, line : Lines \cup {NoLine}, dirty : BOOLEAN,
             held : SUBSET (1..issued)]

\* The queues hold what they should and never more than they may.
TypeOK ==
    /\ cache \in Caches
    /\ {wq, rq, pq} \subseteq [Uppers -> Seq(Requests)]
    /\ returned \in [Uppers -> Seq(SUBSET (1..issued))]
    /\ \A u \in Uppers :
          Len(wq[u]) <= WQ_SIZE /\ Len(rq[u]) <= RQ_SIZE /\ Len(pq[u]) <= PQ_SIZE
    /\ internalPQ \in Seq(Lookups) /\ Len(internalPQ) <= IPQ_SIZE
    /\ tagCheck \in Seq(Lookups) /\ Len(tagCheck) <= TAG_SIZE
    /\ stash \in Seq(Lookups)
    /\ mshr \in Seq(Misses) /\ Len(mshr) <= cache.mshrs
    /\ inflightWrites \in Seq(Misses)
    /\ block \in [Ways -> Blocks]
    /\ asked \in [Lines -> Nat] /\ walks \subseteq Lines
    /\ walkRead \in [Lines -> 0..issued]
    /\ issued \in 0..cache.requests
    /\ waiting \subseteq (1..issued) \X Uppers /\ unwritten \subseteq 1..issued

\* What is ready stays in front: finish_packet keeps the miss registers that
\* have their data before those that wait, and finish_translation the stashed
\* lookups that are translated. operate() relies on it: it looks at a prefix
\* of each and stops at the first that is not ready.
ReadyFirst ==
    /\ \A i, j \in 1..Len(mshr) : i < j /\ mshr[j].done => mshr[i].done
    /\ \A i, j \in 1..Len(stash) : i < j /\ stash[j].trans => stash[i].trans

\* Part of AnsweredOnce: the queues keep their limits,
\* a line is in one miss register at most, and the lower level owes exactly
\* one answer for every register without data: no answer finds no register
\* (the assertion of finish_packet), and no register waits for an answer
\* that is not coming.
OneAnswerPerMiss ==
    /\ TypeOK
    /\ \A i, j \in 1..Len(mshr) : mshr[i].line = mshr[j].line => i = j
    /\ \A l \in Lines :
          asked[l] = Cardinality({i \in 1..Len(mshr) : mshr[i].line = l /\ ~mshr[i].done})

CountIn(s, P(_)) == Cardinality({i \in DOMAIN s : P(s[i])})

\* How often request r of u is still to be answered: by a queued request
\* that asks for a response, a lookup or a miss that knows the channel, or
\* an answer on its way up.
Obligations(r, u) ==
    LET queued(p) == p.resp /\ r \in p.deps
        inside(e) == u \in e.ret /\ r \in e.deps
        answer(d) == r \in d
    IN  CountIn(wq[u], queued) + CountIn(rq[u], queued) + CountIn(pq[u], queued)
           + CountIn(returned[u], answer)
           + CountIn(tagCheck, inside) + CountIn(stash, inside)
           + CountIn(mshr, inside) + CountIn(inflightWrites, inside)

\* Whatever collides, is forwarded, merged into a miss, stashed or refused
\* by the lower level: a read that waits is owed exactly one answer, as is
\* a miss.
AnsweredOnce ==
    /\ OneAnswerPerMiss
    /\ \A r \in 1..issued, u \in Uppers : <<r, u>> \in waiting => Obligations(r, u) = 1

\* The writes that something in this cache still knows it has to write back.
Carried ==
    UNION ({p.deps : p \in {q \in UNION {Range(wq[u]) : u \in Uppers} : q.type = "WRITE"}}
           \cup {e.deps : e \in {x \in Range(tagCheck) \cup Range(stash) : x.type = "WRITE"}}
           \cup {e.deps : e \in {x \in Range(mshr) \cup Range(inflightWrites) : x.type = "WRITE"}}
           \cup {b.held : b \in {x \in Range(block) : x.valid /\ x.dirty}})

\* Where writes are write-backs of an upper level, none is forgotten before
\* it has been sent to the lower level.
WriteBacksKept == ~cache.offset => unwritten \subseteq Carried

\* A miss register holds all misses to a line: a store among them leaves the
\* line dirty.
StoresKept == unwritten \subseteq Carried

\* Every read is answered, also when the page table walker has to read
\* through this cache to translate the ones before it: as a behaviour has
\* MaxRequests requests at most, the time comes when nobody waits.
ReadsAnswered == []<>(waiting = {})
============================================================================
