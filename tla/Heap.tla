-------------------------------- MODULE Heap --------------------------------
(***************************************************************************)
(* The kernel heap, src/kernel/memory/heap.c: one static arena carved into *)
(* blocks by in-band headers that form a doubly linked list in address     *)
(* order.  kmalloc is first fit with a split of the tail; kfree coalesces  *)
(* with both neighbours.                                                   *)
(*                                                                         *)
(* Addresses are offsets into the arena; an address stands for the header  *)
(* that starts there.  Headers are memory: the header of a block absorbed  *)
(* by a merge stays readable until something else is written over it, and  *)
(* kfree trusts whatever header it finds in front of the pointer it gets.  *)
(* hdr holds the headers as memory does; magic = FALSE stands for bytes    *)
(* that do not hold the magic.  The magic is the header's last field, so a *)
(* write over the front of a leftover may change its is_free and keep its  *)
(* magic: such a header is torn.                                           *)
(*                                                                         *)
(* Nothing that runs in an interrupt handler calls the heap, and system    *)
(* calls run with interrupts off, so each call is one step.                *)
(***************************************************************************)
EXTENDS Integers, FiniteSets, FiniteSetsExt

CONSTANTS
    HeaderSize,     \* sizeof(struct clks_heap_block)
    FreeField,      \* the bytes of is_free and of magic in a header, counted
    MagicField,     \* from its start: 8..11 and 32..39
    Align,          \* CLKS_HEAP_ALIGN
    ArenaSize,      \* CLKS_HEAP_ARENA_SIZE
    WordSize,       \* 2^64: usize arithmetic is modulo WordSize
    Requests,       \* the sizes callers ask for, any value of usize
    MaxCalls        \* bound on alloc_count, so that the counters stay finite

ASSUME HeapAssumption ==
    /\ HeaderSize \in Nat \ {0}
    /\ FreeField \subseteq 0..(HeaderSize - 1)
    /\ MagicField \subseteq 0..(HeaderSize - 1)
    /\ MagicField # {}
    /\ Align \in Nat \ {0}
    /\ ArenaSize \in Nat
    /\ ArenaSize > HeaderSize
    /\ WordSize \in Nat
    /\ WordSize > ArenaSize + HeaderSize + Align
    /\ Requests \subseteq 0..(WordSize - 1)
    /\ MaxCalls \in Nat

VARIABLES
    hdr,            \* header bytes found at each address
    blocks,         \* the addresses on the list that starts at clks_heap_head
    torn,           \* history: leftovers that lost their is_free, not their magic
    want,           \* history: the size its caller asked for, per address
    used_bytes,     \* clks_heap_used_bytes
    alloc_count,    \* clks_heap_alloc_count
    free_count      \* clks_heap_free_count

vars == <<hdr, blocks, torn, want, used_bytes, alloc_count, free_count>>

Addr == 0..(ArenaSize - 1)
NULL == -1
Link == Addr \cup {NULL}

Header == [size : 0..ArenaSize, is_free : BOOLEAN, next : Link, prev : Link,
           magic : BOOLEAN]
NoHeader == [size |-> 0, is_free |-> FALSE, next |-> NULL, prev |-> NULL,
             magic |-> FALSE]

\* The first byte behind block b.
End(h, b) == b + HeaderSize + h[b].size

-----------------------------------------------------------------------------
(* Helpers of heap.c                                                        *)

align_up_rounding_down(value) == (value \div Align) * Align

\* clks_heap_align_up; the addition wraps at the width of usize.
align_up(value) == (((value + (Align - 1)) % WordSize) \div Align) * Align

\* The headers that have a byte of the field among lo .. hi-1.
Hit(field, lo, hi) == {a \in Addr : \E i \in field : lo <= a + i /\ a + i < hi}

\* Memory after bytes lo .. hi-1 have been overwritten with something else.
Clobber(h, lo, hi) ==
    [a \in Addr |-> IF a \in Hit(MagicField, lo, hi)
                    THEN [h[a] EXCEPT !.magic = FALSE] ELSE h[a]]

\* What is torn then: a header that has lost its magic does not count any more.
TornBy(h, t, lo, hi) ==
    {a \in (t \cup Hit(FreeField, lo, hi)) \ Hit(MagicField, lo, hi) : h[a].magic}

\* Memory after a header has been written at address b.
WriteHeader(h, b, header) ==
    [Clobber(h, b, b + HeaderSize) EXCEPT ![b] = header]

min_tail_size == HeaderSize + Align

\* The tail block that clks_heap_split_block cuts off block b.
Tail(b, need) == b + HeaderSize + need

Splits(h, b, need) == h[b].size >= need + min_tail_size

\* clks_heap_split_block: memory after the call.
split_block(h, b, need) ==
    IF Splits(h, b, need)
    THEN LET n == Tail(b, need)
             w == WriteHeader(h, n, [size |-> h[b].size - need - HeaderSize,
                                     is_free |-> TRUE, next |-> h[b].next,
                                     prev |-> b, magic |-> TRUE])
         IN  [a \in Addr |->
                IF a = b THEN [h[b] EXCEPT !.next = n, !.size = need]
                ELSE IF a = h[b].next THEN [w[a] EXCEPT !.prev = n]
                ELSE w[a]]
    ELSE h

MergesAnything(h, b) == h[b].next # NULL /\ h[h[b].next].magic

\* The early returns of clks_heap_merge_next.
Merges(h, b) ==
    /\ h[b].next # NULL
    /\ h[h[b].next].is_free
    /\ h[h[b].next].magic

merge_next_one_way(h, b) ==
    IF Merges(h, b)
    THEN LET n == h[b].next
         IN  [h EXCEPT ![b].size = h[b].size + HeaderSize + h[n].size,
                       ![b].next = h[n].next]
    ELSE h

\* clks_heap_merge_next: memory after the call.
merge_next(h, b) ==
    IF Merges(h, b)
    THEN LET n == h[b].next
         IN  [a \in Addr |->
                IF a = b THEN [h[b] EXCEPT !.size = @ + HeaderSize + h[n].size,
                                           !.next = h[n].next]
                ELSE IF a = h[n].next THEN [h[a] EXCEPT !.prev = b]
                ELSE h[a]]
    ELSE h

\* What merge_next(h, b) takes off the list.
Absorbed(h, b) == IF Merges(h, b) THEN {h[b].next} ELSE {}

-----------------------------------------------------------------------------
(* The scan of clks_kmalloc: position n of the walk along the next links    *)
(* from the head.  A header without the magic ends it.                      *)
Walk(h) ==
    LET w[n \in 0..ArenaSize] ==
            IF n = 0 THEN 0
            ELSE IF w[n - 1] = NULL \/ ~h[w[n - 1]].magic THEN NULL
            ELSE h[w[n - 1]].next
    IN  w

Fits(h, b, need) ==
    b \in blocks /\ h[b].magic /\ h[b].is_free /\ h[b].size >= need

\* The positions of the walk at which kmalloc would stop.
FitsAt(h, need) == {n \in 0..ArenaSize : Fits(h, Walk(h)[n], need)}

\* Block b is the first one on the walk that fits.
FirstFit(h, need, b) ==
    \E n \in FitsAt(h, need) : /\ \A m \in FitsAt(h, need) : n <= m
                               /\ b = Walk(h)[n]

-----------------------------------------------------------------------------
\* clks_heap_init
Init ==
    /\ hdr = [a \in Addr |->
                IF a = 0
                THEN [size |-> ArenaSize - HeaderSize, is_free |-> TRUE,
                      next |-> NULL, prev |-> NULL, magic |-> TRUE]
                ELSE NoHeader]
    /\ blocks = {0}
    /\ torn = {}
    /\ want = [a \in Addr |-> 0]
    /\ used_bytes = 0
    /\ alloc_count = 0
    /\ free_count = 0

TakeCountingRequest(b, size) ==
    LET need == align_up(size)
        h    == split_block(hdr, b, need)
    IN  /\ hdr' = [h EXCEPT ![b].is_free = FALSE]
        /\ blocks' = IF Splits(hdr, b, need)
                     THEN blocks \cup {Tail(b, need)} ELSE blocks
        /\ torn' = IF Splits(hdr, b, need)
                   THEN TornBy(hdr, torn, Tail(b, need), Tail(b, need) + HeaderSize)
                   ELSE torn
        /\ used_bytes' = used_bytes + need
        /\ alloc_count' = alloc_count + 1
        /\ want' = [want EXCEPT ![b] = size]
        /\ UNCHANGED free_count

\* clks_kmalloc hands out block b for a request of size bytes.
Take(b, size) ==
    LET need == align_up(size)
        h    == split_block(hdr, b, need)
    IN  /\ hdr' = [h EXCEPT ![b].is_free = FALSE]
        /\ blocks' = IF Splits(hdr, b, need)
                     THEN blocks \cup {Tail(b, need)} ELSE blocks
        /\ torn' = IF Splits(hdr, b, need)
                   THEN TornBy(hdr, torn, Tail(b, need), Tail(b, need) + HeaderSize)
                   ELSE torn
        /\ used_bytes' = used_bytes + h[b].size
        /\ alloc_count' = alloc_count + 1
        /\ want' = [want EXCEPT ![b] = size]
        /\ UNCHANGED free_count

\* clks_kmalloc; a request of 0 bytes or one that nothing fits returns NULL.
kmalloc(size) ==
    /\ alloc_count < MaxCalls
    /\ \/ /\ size # 0
          /\ \E b \in blocks : FirstFit(hdr, align_up(size), b) /\ Take(b, size)
       \/ /\ size = 0 \/ FitsAt(hdr, align_up(size)) = {}
          /\ UNCHANGED vars

\* The caller that holds block b writes bytes lo .. hi-1, all in its buffer.
Use(b, lo, hi) ==
    /\ b \in blocks
    /\ ~hdr[b].is_free
    /\ b + HeaderSize <= lo /\ lo < hi /\ hi <= End(hdr, b)
    /\ hdr' = Clobber(hdr, lo, hi)
    /\ torn' = TornBy(hdr, torn, lo, hi)
    /\ UNCHANGED <<blocks, want, used_bytes, alloc_count, free_count>>

\* The release of block b, once kfree has found a header to trust.
Release(b) ==
    LET h0 == [hdr EXCEPT ![b].is_free = TRUE]
        h1 == merge_next(h0, b)
        p  == h1[b].prev
        back == p # NULL /\ h1[p].is_free
    IN  /\ hdr' = IF back THEN merge_next(h1, p) ELSE h1
        /\ blocks' = (blocks \ Absorbed(h0, b))
                       \ (IF back THEN Absorbed(h1, p) ELSE {})
        /\ used_bytes' = IF used_bytes >= hdr[b].size
                         THEN used_bytes - hdr[b].size ELSE 0
        /\ free_count' = free_count + 1
        /\ want' = [want EXCEPT ![b] = 0]
        /\ UNCHANGED <<torn, alloc_count>>

\* clks_kfree of the buffer behind a header that is still readable: the one of
\* a block in use, or the leftover of a buffer that was freed before.  A second
\* free whose header is torn is the one thing left to the callers not to do:
\* kfree takes what it finds there for a block in use, and no check of it tells.
kfree(b) ==
    /\ hdr[b].magic
    /\ b \notin torn
    /\ \/ ~hdr[b].is_free /\ Release(b)
       \/ hdr[b].is_free /\ UNCHANGED vars

Next ==
    \/ \E size \in Requests : kmalloc(size)
    \/ \E b \in Addr, lo \in Addr, hi \in 1..ArenaSize : Use(b, lo, hi)
    \/ \E b \in Addr : kfree(b)

Spec == Init /\ [][Next]_vars

-----------------------------------------------------------------------------
(* Properties                                                               *)

\* The type of every variable: links stay inside the arena.
TypeOK ==
    /\ hdr \in [Addr -> Header]
    /\ blocks \subseteq Addr
    /\ torn \subseteq Addr
    /\ want \in [Addr -> 0..(WordSize - 1)]
    /\ used_bytes \in Nat
    /\ alloc_count \in 0..MaxCalls
    /\ free_count \in Nat

\* The blocks tile the arena: every header on the list is readable, none torn, each
\* block ends where its next link points, and the last one ends with the arena.
Tiling ==
    /\ 0 \in blocks
    /\ blocks \cap torn = {}
    /\ \A b \in blocks :
        /\ hdr[b].magic
        /\ End(hdr, b) <= ArenaSize
        /\ IF End(hdr, b) = ArenaSize
           THEN hdr[b].next = NULL
           ELSE hdr[b].next = End(hdr, b) /\ End(hdr, b) \in blocks

\* No two blocks share a byte: a live buffer never covers another block.
Disjoint == \A b, c \in blocks : b < c => End(hdr, b) <= c

\* prev is the inverse of next, on every block and after every split and merge.
BackLinks ==
    \A b \in blocks :
        IF b = 0 THEN hdr[b].prev = NULL
        ELSE hdr[b].prev \in blocks /\ hdr[hdr[b].prev].next = b

\* The list that kmalloc and kfree keep is a tiling of the arena, linked both
\* ways (split_block and merge_next of heap.c).
ListIntact == Tiling /\ Disjoint /\ BackLinks

\* Coalescing is complete: kfree never leaves two free neighbours, so a request
\* fails only if no run of free bytes could hold it.
Coalesced ==
    \A b \in blocks : hdr[b].is_free /\ hdr[b].next # NULL
                        => ~hdr[hdr[b].next].is_free

\* The block list is sound after every split, merge and write into a buffer, and
\* after a second free of a buffer whose leftover header is not torn: its links stay
\* inside the arena, it tiles the arena both ways, and no two neighbours are free.
ListSound == TypeOK /\ ListIntact /\ Coalesced

\* A header left behind by a merge reads as free for as long as the bytes of its
\* is_free are not reused, so that freeing its buffer a second time takes the early
\* return of clks_kfree and changes nothing.  Nothing is said of a torn one: a later
\* tail header or buffer may have put anything where its is_free was.
StaleHeadersFree ==
    \A a \in Addr : hdr[a].magic /\ a \notin blocks \cup torn => hdr[a].is_free

\* clks_heap_used_bytes is the sum of the sizes of the blocks in use, and the
\* saturation in clks_kfree never hides a loss; so free_bytes of
\* clks_heap_get_stats never underflows; alloc_count - free_count is the number
\* of buffers that are held.
UsedBytesExact ==
    LET held == {b \in blocks : ~hdr[b].is_free}
    IN  /\ used_bytes = MapThenSumSet(LAMBDA b : hdr[b].size, held)
        /\ alloc_count - free_count = Cardinality(held)

\* A buffer holds at least the bytes its caller asked for, unless the request is
\* so large that rounding it up wraps around.
BufferLargeEnough ==
    \A b \in blocks : ~hdr[b].is_free /\ want[b] <= WordSize - Align
                        => hdr[b].size >= want[b]
=============================================================================
