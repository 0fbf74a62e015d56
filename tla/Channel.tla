------------------------------ MODULE Channel ------------------------------
(***************************************************************************)
(* champsim::channel: the read, write and prefetch queues between two      *)
(* levels of the memory hierarchy, and what the lower level does with      *)
(* requests to the same place before it looks at them.                     *)
(*                                                                         *)
(* A request stands for the set deps of those who wait for it or, for a    *)
(* write, of the writes it carries.  line is the block (physical once      *)
(* trans holds, virtual before), word the offset in it that only a write   *)
(* queue with match_offset_bits tells apart, resp is response_requested    *)
(* and fwd is forward_checked.                                             *)
(***************************************************************************)
EXTENDS Naturals, Sequences, SequencesExt, FiniteSets

\* The elements of s at the positions S, in their order.
Nth(S, n) == CHOOSE i \in S : Cardinality({j \in S : j <= i}) = n
Picked(s, S) == [n \in 1 .. Cardinality(S) |-> s[Nth(S, n)]]

Types == {"LOAD", "WRITE", "PREFETCH"}

RequestOf(l, w, type, resp, trans, deps) ==
    [line |-> l, word |-> w, type |-> type, resp |-> resp, trans |-> trans,
     deps |-> deps, fwd |-> FALSE]

SameLine(p, x) == p.line = x.line /\ p.trans = x.trans

SameWord(p, x) == SameLine(p, x) /\ p.word = x.word

\* A write queue with match_offset_bits compares whole addresses.
Collide(p, x, offset) == IF offset THEN SameWord(p, x) ELSE SameLine(p, x)

\* The positions of queue that collide with p.
Collisions(queue, p, offset) == {i \in 1..Len(queue) : Collide(p, queue[i], offset)}

First(S) == CHOOSE i \in S : \A j \in S : i <= j

\* do_collision_for_merge: an unchecked request joins the first one it collides
\* with, of those at positions S, or stays.
JoinedAt(queue, S, offset, j) ==
    IF queue[j].fwd THEN j
                    ELSE First({i \in S : i <= j /\ Collide(queue[j], queue[i], offset)})

\* The requests at positions S after check_collision: all of them checked,
\* each with those that joined it.
Checked(queue, S, offset) ==
    LET joining(i) == {queue[j] : j \in {k \in S : JoinedAt(queue, S, offset, k) = i}}
        kept == {i \in S : JoinedAt(queue, S, offset, i) = i}
    IN  Picked([i \in kept |-> [queue[i] EXCEPT !.fwd = TRUE,
                                               !.resp = \E p \in joining(i) : p.resp,
                                               !.deps = UNION {p.deps : p \in joining(i)}]],
               kept)

\* The write queue after check_collision.
CheckedWrites(wq, offset) == Checked(wq, 1 .. Len(wq), offset)

\* A new read is answered from the write queue when it collides with a write.
Forwarded(wq, p, offset) == ~p.fwd /\ Collisions(wq, p, offset) # {}

\* A read or prefetch queue after check_collision ...
CheckedReads(wq, queue, offset) ==
    Checked(queue, {i \in 1 .. Len(queue) : ~Forwarded(wq, queue[i], offset)}, FALSE)

\* ... and the answers it gave from the write queue: each names who waited.
ForwardedAnswers(wq, queue, offset) ==
    LET hit == {i \in 1 .. Len(queue) : Forwarded(wq, queue[i], offset) /\ queue[i].resp}
    IN  Picked([i \in hit |-> queue[i].deps], hit)
============================================================================
