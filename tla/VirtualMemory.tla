--------------------------- MODULE VirtualMemory ---------------------------
(***************************************************************************)
(* Virtual memory (source/ChampSim/vmem.cc, include/ChampSim/vmem.h): the  *)
(* frames of virtual pages and of page-table pages, both handed out in the *)
(* order of first use from one counter, and never taken back. One virtual  *)
(* address space; pages and frames are numbers, frame 0 is reserved. A     *)
(* page-table page is as long as a frame (PAGE_SIZE), and memory is large  *)
(* enough (the assert() of ppage_front()). Fault penalties only take time. *)
(***************************************************************************)
EXTENDS Integers

CONSTANT Fanout         \* entries of a page-table page: pte_page_size / PTE_BYTES

\* The entries of a page-table page of level l are one per Fanout^(l-1) pages: shamt().
Prefix(v, l) == v \div Fanout ^ (l - 1)

\* get_offset() for a level above 0, where it is a part of the page's number.
Offset(v, l) == Prefix(v, l) % Fanout

\* next_pte_page = 0 stands for none.
EmptyMemory == [vpage_to_ppage_map |-> <<>>, page_table |-> <<>>,
                next_ppage |-> 1, next_pte_page |-> 0]

With(f, key, value) == [k \in DOMAIN f \cup {key} |-> IF k = key THEN value ELSE f[k]]

\* ppage_front() and ppage_pop() as the next page-table page.
Reserved(m) == [m EXCEPT !.next_pte_page = m.next_ppage, !.next_ppage = @ + 1]

\* va_to_pa() of virtual page v: the memory after it; v has a frame there.
Mapped(m, v) ==
    IF v \in DOMAIN m.vpage_to_ppage_map THEN m
    ELSE [m EXCEPT !.vpage_to_ppage_map = With(@, v, m.next_ppage), !.next_ppage = @ + 1]

\* get_pte_pa() of virtual page v at level l: the memory after it; the key has a
\* page-table page there.
Tabled(m, v, l) ==
    LET key   == <<Prefix(v, l), l>>
        ready == IF m.next_pte_page = 0 THEN Reserved(m) ELSE m
    IN  IF key \in DOMAIN m.page_table THEN ready
        ELSE Reserved([ready EXCEPT !.page_table = With(@, key, ready.next_pte_page)])
=============================================================================
