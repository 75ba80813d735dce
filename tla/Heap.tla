-------------------------------- MODULE Heap --------------------------------
(***************************************************************************)
(* The C library's malloc, free, calloc and realloc over brk               *)
(* (libc/src/malloc.rs).  Sizes are in units of the 16-byte alignment; the *)
(* header is one unit.  The free list of linked_list_allocator is the set  *)
(* of free units: holes that touch are one hole, and an allocation takes   *)
(* the lowest hole it fits in.                                             *)
(***************************************************************************)
EXTENDS Integers, FiniteSets, FiniteSetsExt

CONSTANTS
    GROW_CHUNK,    \* units one growth asks for at least
    PAGE,          \* units in a page: the kernel rounds the break up
    Available,     \* pages the kernel can still map for this process
    MaxSize        \* largest request, in units

HEADER == 1
NULL == 0 - 1
JUNK == 0 - 1
VARIABLES
    inited, brk,   \* INITED; the program break, in units above the heap's base
    free_units,    \* the units on the free list
    header,        \* block address -> the size written in its header
    live,          \* payload address -> [size, tag]: what the program holds
    byte           \* unit -> the tag stored there (JUNK: not a live payload)
heap_vars == <<inited, brk, free_units, header, live, byte>>

Top == Available * PAGE
Units == 0..(Top - 1)
Hi(a, b) == IF a > b THEN a ELSE b
Lo(a, b) == IF a < b THEN a ELSE b

(* do_brk: the break rounded up to a page, or unchanged when frames run    *)
(* out.                                                                    *)
sys_brk(b, by) == LET t == ((b + by + PAGE - 1) \div PAGE) * PAGE IN IF t > Top THEN b ELSE t

(* A state of the allocator, to thread through an operation.               *)
Now == [inited |-> inited, brk |-> brk, holes |-> free_units, header |-> header]
grow(h, by) ==
    LET new == sys_brk(h.brk, by)
    IN  [h EXCEPT !.brk = new, !.holes = @ \cup h.brk..(new - 1)]
ensure_init(h) == IF h.inited THEN h ELSE [grow(h, GROW_CHUNK) EXCEPT !.inited = TRUE]

Fits(h, n) == {a \in Units : a..(a + n - 1) \subseteq h.holes}
allocate_first_fit(h, n) == IF Fits(h, n) = {} THEN NULL ELSE Min(Fits(h, n))

(* malloc: the block's address past the header, growing once if no hole    *)
(* fits.                                                                   *)
malloc(h0, size) ==
    LET total == size + HEADER
        h == ensure_init(h0)
        g == IF allocate_first_fit(h, total) = NULL THEN grow(h, Hi(total, GROW_CHUNK)) ELSE h
        a == allocate_first_fit(g, total)
    IN  IF size = 0 THEN [h |-> h0, ptr |-> NULL]
        ELSE IF a = NULL THEN [h |-> g, ptr |-> NULL]
        ELSE [h |-> [g EXCEPT !.holes = @ \ a..(a + total - 1), !.header[a] = size],
              ptr |-> a + HEADER]
\* Mutant: the layout given back leaves the header out.
heap_free_NoHeader(h, ptr) ==
    LET a == ptr - HEADER IN [h EXCEPT !.holes = @ \cup a..(a + h.header[a] - 1), !.header[a] = 0]
heap_free(h, ptr) ==
    LET a == ptr - HEADER IN [h EXCEPT !.holes = @ \cup a..(a + h.header[a] + HEADER - 1), !.header[a] = 0]

-----------------------------------------------------------------------------
HeapInit ==
    /\ inited = FALSE /\ brk = 0 /\ free_units = {}
    /\ header = [u \in Units |-> 0] /\ live = <<>> /\ byte = [u \in Units |-> JUNK]

HeapBecomes(h) == inited' = h.inited /\ brk' = h.brk /\ free_units' = h.holes /\ header' = h.header
Held(l, ptr, size, tag) ==
    [p \in DOMAIN l \cup {ptr} |-> IF p = ptr THEN [size |-> size, tag |-> tag] ELSE l[p]]
Without(l, ptr) == [p \in DOMAIN l \ {ptr} |-> l[p]]
(* Freed memory holds the allocator's own list, whatever was there.        *)
Stored(b, h, ptr, size, tag) ==
    [u \in Units |-> IF u >= ptr /\ u < ptr + size THEN tag
                     ELSE IF u \in h.holes THEN JUNK ELSE b[u]]

(* The program allocates: what calloc zeroes has mark 0, what malloc gives *)
(* the program fills with a mark of its own.                               *)
Tags == 1..3
FreshMark == Min({t \in Tags : \A p \in DOMAIN live : live[p].tag # t})
Allocates(size, tag) ==
    LET m == malloc(Now, size)
    IN  /\ HeapBecomes(m.h)
        /\ IF m.ptr = NULL THEN UNCHANGED <<live, byte>>
           ELSE /\ live' = Held(live, m.ptr, size, tag)
                /\ byte' = Stored(byte, m.h, m.ptr, size, tag)
calloc(size) == Allocates(size, 0)
Frees(ptr) ==
    LET h == heap_free(Now, ptr)
    IN  /\ HeapBecomes(h)
        /\ live' = Without(live, ptr) /\ byte' = Stored(byte, h, ptr, 0, JUNK)

(* realloc: NULL and 0 are malloc's and free's; else allocate, copy the    *)
(* smaller size, free.  A failed allocation leaves the block.              *)
realloc(ptr, size) ==
    LET m == malloc(Now, size)
        kept == Lo(header[ptr - HEADER], size)
        copied == [u \in Units |-> IF u >= m.ptr /\ u < m.ptr + kept
                                   THEN byte[ptr + (u - m.ptr)] ELSE byte[u]]
        h == heap_free(m.h, ptr)
    IN  IF size = 0 THEN Frees(ptr)
        ELSE IF m.ptr = NULL THEN HeapBecomes(m.h) /\ UNCHANGED <<live, byte>>
        ELSE /\ HeapBecomes(h)
             /\ live' = Held(Without(live, ptr), m.ptr, Lo(live[ptr].size, size), live[ptr].tag)
             /\ byte' = Stored(copied, h, ptr, 0, JUNK)

MarkFree == \E t \in Tags : \A p \in DOMAIN live : live[p].tag # t
HeapNext ==
    \/ MarkFree /\ \E size \in 0..MaxSize : Allocates(size, FreshMark)
    \/ \E size \in 1..MaxSize : calloc(size)
    \/ \E ptr \in DOMAIN live : Frees(ptr)
    \/ \E ptr \in DOMAIN live, size \in 0..MaxSize : realloc(ptr, size)

-----------------------------------------------------------------------------
Block(ptr) == (ptr - HEADER)..(ptr + header[ptr - HEADER] - 1)
(* No two blocks a program holds share a unit, none lies past the break or *)
(* on the free list, each still holds what the program put in it, and      *)
(* every unit below the break is in a block or free: nothing is lost over  *)
(* any sequence of malloc, free and realloc, failures included.            *)
HeapExact ==
    /\ \A p \in DOMAIN live : Block(p) \subseteq 0..(brk - 1)
                              /\ Block(p) \cap free_units = {}
    /\ \A p, q \in DOMAIN live : p # q => Block(p) \cap Block(q) = {}
    /\ 0..(brk - 1) = free_units \cup UNION {Block(p) : p \in DOMAIN live}
    /\ \A p \in DOMAIN live : \A u \in p..(p + live[p].size - 1) : byte[u] = live[p].tag
=============================================================================
