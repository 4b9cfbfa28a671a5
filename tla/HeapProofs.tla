----------------------------- MODULE HeapProofs -----------------------------
(***************************************************************************)
(* The block list of the heap stays a doubly linked, fully coalesced       *)
(* tiling of the arena, for every arena, header and alignment size and     *)
(* every sequence of calls, writes into buffers and second frees whose     *)
(* leftover header is not torn.                                            *)
(*                                                                         *)
(* The invariants of module Heap are first restated for any memory h and   *)
(* any sets B of blocks and T of torn leftovers, so that what split_block, merge_next and a  *)
(* write into a buffer do to them are lemmas about operators; the proof of *)
(* an action then chains the lemmas in the order of the calls.             *)
(***************************************************************************)
EXTENDS Heap, TLAPS

\* Memory h, with the blocks B on the list and the headers T torn, is typed, tiled,
\* disjoint, linked both ways, and its leftovers that are not torn read as free.
WF(h, B, T) ==
    /\ h \in [Addr -> Header]
    /\ B \subseteq Addr
    /\ T \subseteq Addr
    /\ B \cap T = {}
    /\ 0 \in B
    /\ \A b \in B : h[b].magic
    /\ \A b \in B : End(h, b) <= ArenaSize
    /\ \A b \in B : End(h, b) = ArenaSize => h[b].next = NULL
    /\ \A b \in B : End(h, b) # ArenaSize
                      => h[b].next = End(h, b) /\ End(h, b) \in B
    /\ \A b, c \in B : b < c => End(h, b) <= c
    /\ h[0].prev = NULL
    /\ \A b \in B : b # 0 => h[b].prev \in B /\ h[h[b].prev].next = b
    /\ \A a \in Addr : h[a].magic /\ a \notin B \cup T => h[a].is_free

\* No two free neighbours.
CoalescedIn(h, B) ==
    \A b \in B : h[b].is_free /\ h[b].next # NULL => ~h[h[b].next].is_free

USE DEF NULL

\* A header whose size is not known to be in range yet.
RawHeader == [size : Int, is_free : BOOLEAN, next : Link, prev : Link,
              magic : BOOLEAN]

\* What an update of prev does to a header.
LEMMA UpdatePrev ==
    ASSUME NEW r \in Header, NEW x \in Link
    PROVE  LET q == [r EXCEPT !.prev = x]
           IN  /\ q \in Header
               /\ q.size = r.size
               /\ q.next = r.next
               /\ q.is_free = r.is_free
               /\ q.prev = x
               /\ q.magic = r.magic
BY DEF Header

\* WF is what TypeOK, ListIntact and StaleHeadersFree say of the heap's state.
LEMMA WFIsInvariant ==
    TypeOK => (WF(hdr, blocks, torn) <=> ListIntact /\ StaleHeadersFree)
BY HeapAssumption DEF TypeOK, WF, ListIntact, Tiling, Disjoint, BackLinks,
                      StaleHeadersFree, Addr

\* A write inside the buffer of a block leaves the list as it is.
LEMMA ClobberPreserves ==
    ASSUME NEW h, NEW B, NEW T, WF(h, B, T), CoalescedIn(h, B),
           NEW b \in B, ~h[b].is_free, NEW lo \in Addr, NEW hi \in 1..ArenaSize,
           b + HeaderSize <= lo, hi <= End(h, b)
    PROVE  LET g == Clobber(h, lo, hi)
               U == TornBy(h, T, lo, hi)
           IN  WF(g, B, U) /\ CoalescedIn(g, B)
<1> DEFINE g == Clobber(h, lo, hi)
           U == TornBy(h, T, lo, hi)
<1> HIDE DEF g, U
<1>1. /\ h \in [Addr -> Header] /\ B \subseteq Addr
      /\ HeaderSize \in Nat /\ ArenaSize \in Nat
  BY HeapAssumption DEF WF
<1>2. /\ g \in [Addr -> Header]
      /\ \A a \in Addr : /\ g[a].size = h[a].size
                         /\ g[a].is_free = h[a].is_free
                         /\ g[a].next = h[a].next
                         /\ g[a].prev = h[a].prev
                         /\ g[a].magic => h[a].magic
  BY <1>1 DEF g, Clobber, Header
<1>3. \A c \in B : \A F \in SUBSET (0..(HeaderSize - 1)) : c \notin Hit(F, lo, hi)
  <2> SUFFICES ASSUME NEW c \in B, NEW i \in 0..(HeaderSize - 1),
                      lo <= c + i, c + i < hi
               PROVE  FALSE
    BY DEF Hit
  <2>1. \/ c = b
        \/ c < b /\ End(h, c) <= b
        \/ b < c /\ End(h, b) <= c
    BY <1>1 DEF WF, Addr
  <2> QED
    BY <1>1, <2>1 DEF End, Header, Addr
<1>3a. /\ \A c \in B : c \notin Hit(MagicField, lo, hi) /\ c \notin Hit(FreeField, lo, hi)
       /\ \A c \in B : g[c].magic
  <2>1. \A c \in B : c \notin Hit(MagicField, lo, hi) /\ c \notin Hit(FreeField, lo, hi)
    BY <1>3, HeapAssumption
  <2> QED
    BY <1>1, <2>1 DEF WF, g, Clobber
<1>3b. U \subseteq Addr /\ B \cap U = {}
  BY <1>3a DEF U, TornBy, Hit, WF
<1>3c. \A a \in Addr : g[a].magic /\ a \notin B \cup U => g[a].is_free
  <2> SUFFICES ASSUME NEW a \in Addr, g[a].magic, a \notin B \cup U
               PROVE  g[a].is_free
    OBVIOUS
  <2>1. a \notin Hit(MagicField, lo, hi) /\ h[a].magic
    BY <1>1, <1>2 DEF g, Clobber, Header
  <2>2. a \notin T
    BY <2>1 DEF U, TornBy
  <2>3. \A c \in Addr : h[c].magic /\ c \notin B \cup T => h[c].is_free
    BY DEF WF
  <2>4. h[a].is_free /\ g[a].is_free = h[a].is_free
    BY <1>2, <2>1, <2>2, <2>3
  <2> QED
    BY <2>4
<1>4. \A a \in Addr : End(g, a) = End(h, a)
  BY <1>2 DEF End
<1>5. WF(g, B, U)
  <2>1. /\ 0 \in B
        /\ \A c \in B : End(h, c) <= ArenaSize
        /\ \A c \in B : End(h, c) = ArenaSize => h[c].next = NULL
        /\ \A c \in B : End(h, c) # ArenaSize
                         => h[c].next = End(h, c) /\ End(h, c) \in B
        /\ \A c, d \in B : c < d => End(h, c) <= d
        /\ h[0].prev = NULL
        /\ \A c \in B : c # 0 => h[c].prev \in B /\ h[h[c].prev].next = c
    BY DEF WF
  <2>2. \A c \in B : c \in Addr /\ End(g, c) = End(h, c) /\ g[c].next = h[c].next
                        /\ g[c].prev = h[c].prev
    BY <1>1, <1>2, <1>4
  <2>3. /\ \A c \in B : End(g, c) <= ArenaSize
        /\ \A c \in B : End(g, c) = ArenaSize => g[c].next = NULL
        /\ \A c \in B : End(g, c) # ArenaSize
                         => g[c].next = End(g, c) /\ End(g, c) \in B
        /\ \A c, d \in B : c < d => End(g, c) <= d
        /\ g[0].prev = NULL
        /\ \A c \in B : c # 0 => g[c].prev \in B /\ g[g[c].prev].next = c
    BY <2>1, <2>2
  <2> QED
    BY <1>1, <1>2, <1>3a, <1>3b, <1>3c, <2>1, <2>3 DEF WF
<1>6. CoalescedIn(g, B)
  BY <1>1, <1>2 DEF CoalescedIn, Addr, Header, Link, WF
<1> QED
  BY <1>5, <1>6 DEF g, U

\* merge_next keeps the list well formed without the absorbed block; it keeps
\* b, its prev link and which blocks are free.
LEMMA MergePreserves ==
    ASSUME NEW h, NEW B, NEW T, WF(h, B, T), NEW b \in B
    PROVE  LET g == merge_next(h, b)
               C == B \ Absorbed(h, b)
           IN  /\ WF(g, C, T)
               /\ b \in C
               /\ h[b].prev \in C \cup {NULL}
               /\ g[b].prev = h[b].prev
               /\ Merges(h, b) => g[b].next = h[h[b].next].next
               /\ \A a \in Addr : g[a].is_free = h[a].is_free
               /\ \A a \in Addr \ {b} :
                    g[a].next = h[a].next /\ g[a].size = h[a].size
<1> DEFINE g == merge_next(h, b)
           C == B \ Absorbed(h, b)
           n == h[b].next
           m == h[n].next
<1> HIDE DEF g, C, n, m
<1>1. /\ h \in [Addr -> Header] /\ B \subseteq Addr /\ 0 \in Addr
      /\ b \in Addr /\ HeaderSize \in Nat \ {0} /\ ArenaSize \in Nat
      /\ \A a \in Addr : h[a] \in Header
  BY HeapAssumption DEF WF, Addr
<1>2. CASE ~Merges(h, b)
  <2>1. g = h /\ C = B
    BY <1>2 DEF g, C, merge_next, Absorbed
  <2> QED
    BY <1>2, <2>1 DEF WF, g, C
<1>3. CASE Merges(h, b)
  <2>1. /\ n \in B /\ n = End(h, b) /\ b < n /\ n \in Addr
        /\ h[n].is_free
        /\ m \in Link
    BY <1>1, <1>3 DEF Merges, WF, n, m, End, Addr, Link, Header
  <2>2. C = B \ {n}
    BY <1>3 DEF C, Absorbed, n
  <2>2a. b # n /\ b \in C /\ C \subseteq Addr
    <3>1. b # n
      BY <1>1, <2>1 DEF Addr
    <3> QED
      BY <1>1, <2>2, <3>1
  <2>3. /\ g \in [Addr -> RawHeader]
        /\ g[b].size = h[b].size + HeaderSize + h[n].size
        /\ g[b].next = m
        /\ g[b].prev = h[b].prev
        /\ \A a \in Addr : a # b => g[a].size = h[a].size /\ g[a].next = h[a].next
        /\ \A a \in Addr : a # b /\ a # m => g[a].prev = h[a].prev
        /\ m # b => (m \in Addr => g[m].prev = b)
        /\ \A a \in Addr : g[a].is_free = h[a].is_free /\ g[a].magic = h[a].magic
    <3>1. g = [a \in Addr |->
                IF a = b THEN [h[b] EXCEPT !.size = @ + HeaderSize + h[n].size,
                                           !.next = m]
                ELSE IF a = m THEN [h[a] EXCEPT !.prev = b]
                ELSE h[a]]
      BY <1>3 DEF g, merge_next, n, m
    <3>2. g[b] = [h[b] EXCEPT !.size = @ + HeaderSize + h[n].size, !.next = m]
      BY <1>1, <3>1
    <3>3. \A a \in Addr : a # b => g[a] = IF a = m THEN [h[a] EXCEPT !.prev = b]
                                         ELSE h[a]
      BY <3>1
    <3>4. /\ g[b] \in RawHeader
          /\ g[b].size = h[b].size + HeaderSize + h[n].size
          /\ g[b].next = m
          /\ g[b].prev = h[b].prev
          /\ g[b].is_free = h[b].is_free
          /\ g[b].magic = h[b].magic
      <4>1. h[b] \in Header /\ h[b].size \in Int /\ h[n].size \in Int
        BY <1>1, <2>1 DEF Header
      <4>2. h[b].size + HeaderSize + h[n].size \in Int
        BY <1>1, <4>1
      <4> DEFINE s == h[b].size + HeaderSize + h[n].size
                 r == h[b]
                 q == g[b]
      <4>3. /\ q = [r EXCEPT !.size = s, !.next = m]
            /\ s \in Int /\ r \in Header
        BY <3>2, <4>1, <4>2
      <4> HIDE DEF s, r, q
      <4>4. /\ q \in RawHeader
            /\ q.size = s
            /\ q.next = m
            /\ q.is_free = r.is_free
            /\ q.prev = r.prev
            /\ q.magic = r.magic
        BY <2>1, <4>3 DEF Header, RawHeader
      <4> QED
        BY <4>4 DEF s, r, q
    <3>5. ASSUME NEW a \in Addr, a # b
          PROVE  /\ g[a] \in RawHeader
                 /\ g[a].size = h[a].size
                 /\ g[a].next = h[a].next
                 /\ g[a].is_free = h[a].is_free
                 /\ g[a].magic = h[a].magic
                 /\ a = m => g[a].prev = b
                 /\ a # m => g[a].prev = h[a].prev
      <4>1. h[a] \in Header /\ h[a] \in RawHeader /\ b \in Link
        BY <1>1 DEF Header, RawHeader, Link
      <4>2. CASE a = m
        <5>1. g[a] = [h[a] EXCEPT !.prev = b]
          BY <3>3, <3>5, <4>2
        <5>2. g[a] \in Header => g[a] \in RawHeader
          BY DEF Header, RawHeader
        <5> QED
          BY <4>1, <4>2, <5>1, <5>2, UpdatePrev
      <4>3. CASE a # m
        BY <3>3, <3>5, <4>1, <4>3
      <4> QED
        BY <4>2, <4>3
    <3> QED
      BY <1>1, <3>1, <3>4, <3>5
  <2>4. /\ End(g, b) = End(h, n)
        /\ \A a \in Addr : a # b => End(g, a) = End(h, a)
    BY <1>1, <2>1, <2>3 DEF End, Header, Addr
  <2>5. End(h, n) <= ArenaSize /\ n < End(h, n)
    BY <1>1, <2>1 DEF WF, End, Addr, Header
  <2>6. g \in [Addr -> Header]
    <3>1. g[b].size \in 0..ArenaSize
      <4>1. /\ h[b].size \in 0..ArenaSize /\ h[n].size \in 0..ArenaSize
            /\ g[b].size = h[b].size + HeaderSize + h[n].size
        BY <1>1, <2>1, <2>3 DEF Header
      <4>2. b + HeaderSize + g[b].size <= ArenaSize
        BY <2>4, <2>5 DEF End
      <4> QED
        BY <1>1, <4>1, <4>2, SMTT(30) DEF Addr
    <3>2. \A a \in Addr : g[a].size \in 0..ArenaSize
      BY <1>1, <2>3, <3>1 DEF Header
    <3> QED
      BY <2>3, <3>2 DEF Header, RawHeader
  <2>8. m # NULL => m = End(h, n) /\ m \in B
    BY <1>1, <2>1 DEF WF, m
  <2>7. m # b /\ m # n
    BY <1>1, <2>1, <2>5, <2>8, SMTT(30) DEF Addr, End, Header
  <2>9. \A c \in B : c # n /\ c # b /\ c # m
                       => c = 0 \/ (h[c].prev \in B \ {n, b})
    BY <1>1 DEF WF, n, m
  <2>10. h[b].prev # n /\ (b # 0 => h[b].prev \in B \ {n, b})
    <3>1. CASE b = 0
      BY <2>1, <3>1 DEF WF, Addr
    <3>2. CASE b # 0
      <4>1. h[b].prev \in B /\ h[h[b].prev].next = b
        BY <3>2 DEF WF
      <4>2. h[b].prev # n
        BY <2>7, <4>1 DEF m
      <4>3. h[b].prev # b
        BY <2>1, <4>1 DEF n, Addr
      <4> QED
        BY <4>1, <4>2, <4>3
    <3> QED
      BY <3>1, <3>2
  <2>11. 0 # n
    BY <1>1, <2>1 DEF Addr
  <2>12. \A c \in C : End(g, c) <= ArenaSize
    BY <1>1, <2>2, <2>4, <2>5 DEF WF
  <2>13. \A c \in C : End(g, c) = ArenaSize => g[c].next = NULL
    <3>1. End(g, b) = ArenaSize => g[b].next = NULL
      <4>1. End(h, n) = ArenaSize => h[n].next = NULL
        BY <2>1 DEF WF
      <4> QED
        BY <2>3, <2>4, <4>1 DEF m
    <3> QED
      BY <1>1, <2>2, <2>3, <2>4, <3>1 DEF WF
  <2>14. \A c \in C : End(g, c) # ArenaSize
                        => g[c].next = End(g, c) /\ End(g, c) \in C
    <3>1. End(g, b) # ArenaSize => g[b].next = End(g, b) /\ End(g, b) \in C
      BY <2>1, <2>2, <2>3, <2>4, <2>7 DEF WF, m
    <3>2. \A c \in C : c # b /\ End(h, c) # ArenaSize
                         => h[c].next = End(h, c) /\ End(h, c) \in B
      BY <2>2 DEF WF
    <3>3. \A c \in C : c # b => End(h, c) # n
      <4> SUFFICES ASSUME NEW c \in C, c # b, End(h, c) = n PROVE FALSE
        OBVIOUS
      <4>1. c < b \/ b < c
        BY <1>1, <2>2 DEF Addr
      <4>2. c < b => End(h, c) <= b
        BY <2>2 DEF WF
      <4>3. b < c => n <= c /\ c < End(h, c)
        BY <1>1, <2>1, <2>2, SMTT(30) DEF WF, End, Addr, Header
      <4>4. End(h, c) \in Int /\ c \in Int /\ b \in Int
        BY <1>1, <2>2 DEF End, Addr, Header
      <4> QED
        BY <2>1, <4>1, <4>2, <4>3, <4>4 DEF Addr
    <3> QED
      BY <1>1, <2>2, <2>3, <2>4, <3>1, <3>2, <3>3
  <2>15. \A c, d \in C : c < d => End(g, c) <= d
    <3>1. \A d \in C : b < d => End(h, n) <= d
      <4> SUFFICES ASSUME NEW d \in C, b < d PROVE End(h, n) <= d
        OBVIOUS
      <4>1. n <= d /\ n # d
        BY <2>1, <2>2 DEF WF
      <4> QED
        BY <1>1, <2>1, <2>2, <4>1 DEF WF, Addr
    <3> QED
      BY <1>1, <2>2, <2>4, <3>1 DEF WF
  <2>16. g[0].prev = NULL
    <3>1. CASE m = 0
      BY <1>1, <2>1, <2>5, <2>8, <3>1 DEF Addr
    <3>2. CASE m # 0
      BY <1>1, <2>3, <3>2 DEF WF
    <3> QED
      BY <3>1, <3>2
  <2>17. \A c \in C : c # 0 => g[c].prev \in C /\ g[g[c].prev].next = c
    <3> SUFFICES ASSUME NEW c \in C, c # 0
                 PROVE  g[c].prev \in C /\ g[g[c].prev].next = c
      OBVIOUS
    <3>1. CASE c = m
      BY <2>2a, <2>3, <2>7, <3>1
    <3>2. CASE c = b
      BY <1>1, <2>2, <2>3, <2>10, <3>2 DEF WF
    <3>3. CASE c # m /\ c # b
      BY <1>1, <2>2, <2>3, <2>9, <3>3 DEF WF
    <3> QED
      BY <3>1, <3>2, <3>3
  <2>18. \A a \in Addr : g[a].magic /\ a \notin C \cup T => g[a].is_free
    BY <2>1, <2>2, <2>3 DEF WF
  <2>19. WF(g, C, T)
    BY <1>1, <2>2, <2>3, <2>6, <2>11, <2>12, <2>13, <2>14, <2>15, <2>16, <2>17,
       <2>18 DEF WF
  <2>20. h[b].prev \in C \cup {NULL}
    BY <2>2, <2>10 DEF WF
  <2> QED
    BY <2>2a, <2>3, <2>19, <2>20 DEF g, C, n, m
<1> QED
  BY <1>2, <1>3

\* What handing out block b, cut down to need bytes, does to the list.
SplitKeeps(h, B, T, b, need) ==
    LET s == split_block(h, b, need)
        g == [s EXCEPT ![b].is_free = FALSE]
        C == IF Splits(h, b, need) THEN B \cup {Tail(b, need)} ELSE B
        U == IF Splits(h, b, need)
             THEN TornBy(h, T, Tail(b, need), Tail(b, need) + HeaderSize)
             ELSE T
    IN  /\ WF(g, C, U)
        /\ CoalescedIn(g, C)
        /\ s[b].size \in Nat
        /\ s[b].size >= need
        /\ g[b].size = s[b].size
        /\ ~g[b].is_free
        /\ \A a \in C \ {b} : g[a].is_free <=> a \notin B \/ h[a].is_free
        /\ \A a \in B \ {b} : g[a].size = h[a].size

\* Cutting the tail off a free block and handing the block out keeps the list
\* well formed and coalesced; the block is as large as was needed.
LEMMA SplitPreserves ==
    ASSUME NEW h, NEW B, NEW T, WF(h, B, T), CoalescedIn(h, B),
           NEW b \in B, h[b].is_free, NEW need \in Nat, need <= h[b].size
    PROVE  SplitKeeps(h, B, T, b, need)
<1> DEFINE s == split_block(h, b, need)
           g == [s EXCEPT ![b].is_free = FALSE]
           C == IF Splits(h, b, need) THEN B \cup {Tail(b, need)} ELSE B
           U == IF Splits(h, b, need)
                THEN TornBy(h, T, Tail(b, need), Tail(b, need) + HeaderSize)
                ELSE T
           n == Tail(b, need)
           m == h[b].next
<1> HIDE DEF s, g, C, U, n, m
<1>1. /\ h \in [Addr -> Header] /\ B \subseteq Addr /\ 0 \in Addr
      /\ b \in Addr /\ HeaderSize \in Nat \ {0} /\ ArenaSize \in Nat
      /\ Align \in Nat \ {0}
      /\ \A a \in Addr : h[a] \in Header
      /\ h[b].size \in 0..ArenaSize
  BY HeapAssumption DEF WF, Addr, Header
<1>2. CASE ~Splits(h, b, need)
  <2>1. s = h /\ C = B /\ U = T
    BY <1>2 DEF s, C, U, split_block
  <2>2. /\ g \in [Addr -> Header]
        /\ g[b].size = h[b].size /\ g[b].next = h[b].next
        /\ g[b].prev = h[b].prev /\ g[b].magic = h[b].magic
        /\ ~g[b].is_free
        /\ \A a \in Addr \ {b} : g[a] = h[a]
    <3> DEFINE r == h[b]
               q == g[b]
    <3>1. q = [r EXCEPT !.is_free = FALSE] /\ r \in Header
      BY <1>1, <2>1 DEF g
    <3>2. /\ g = [h EXCEPT ![b] = q]
          /\ \A a \in Addr \ {b} : g[a] = h[a]
      BY <1>1, <2>1 DEF g
    <3> HIDE DEF r, q
    <3>3. /\ q \in Header /\ q.size = r.size /\ q.next = r.next
          /\ q.prev = r.prev /\ q.magic = r.magic /\ ~q.is_free
      BY <3>1 DEF Header
    <3> QED
      BY <1>1, <3>2, <3>3 DEF r, q
  <2>3. \A a \in Addr : End(g, a) = End(h, a)
    BY <2>2 DEF End
  <2>4. \A a \in Addr : /\ g[a].next = h[a].next /\ g[a].prev = h[a].prev
                         /\ g[a].magic = h[a].magic /\ g[a].size = h[a].size
                         /\ a # b => g[a].is_free = h[a].is_free
    BY <2>2
  <2>5. WF(g, C, U)
    BY <1>1, <2>1, <2>2, <2>3, <2>4 DEF WF
  <2>6. CoalescedIn(g, C)
    BY <1>1, <2>1, <2>2, <2>4 DEF CoalescedIn, WF
  <2> QED
    BY <1>1, <2>1, <2>2, <2>4, <2>5, <2>6 DEF g, C, U, s, SplitKeeps
<1>3. CASE Splits(h, b, need)
  <2>1. /\ n = b + HeaderSize + need /\ n \in Addr
        /\ b + HeaderSize <= n
        /\ n + HeaderSize < End(h, b)
        /\ n # b
    BY <1>1, <1>3 DEF n, Tail, Splits, min_tail_size, Addr, End, WF
  <2>2. C = B \cup {n} /\ C \subseteq Addr
    BY <1>1, <1>3, <2>1 DEF C, n
  <2>3. \A c \in B : c + HeaderSize <= n \/ n + HeaderSize < c
    <3> SUFFICES ASSUME NEW c \in B
                 PROVE  c + HeaderSize <= n \/ n + HeaderSize < c
      OBVIOUS
    <3>1. c \in Addr /\ h[c].size \in 0..ArenaSize
      BY <1>1 DEF Header
    <3>2. c < b => End(h, c) <= b
      BY DEF WF
    <3>3. b < c => End(h, b) <= c
      BY DEF WF
    <3> QED
      BY <1>1, <2>1, <3>1, <3>2, <3>3 DEF End, Addr
  <2>3a. \A c \in B : \A F \in SUBSET (0..(HeaderSize - 1)) :
            c \notin Hit(F, n, n + HeaderSize)
    <3> SUFFICES ASSUME NEW c \in B, NEW i \in 0..(HeaderSize - 1),
                        n <= c + i, c + i < n + HeaderSize
                 PROVE  FALSE
      BY DEF Hit
    <3> QED
      BY <1>1, <2>1, <2>3 DEF Addr
  <2>3b. \A c \in B : /\ c \notin Hit(MagicField, n, n + HeaderSize)
                      /\ c \notin Hit(FreeField, n, n + HeaderSize)
    <3>1. /\ MagicField \in SUBSET (0..(HeaderSize - 1))
          /\ FreeField \in SUBSET (0..(HeaderSize - 1))
      BY HeapAssumption
    <3> QED
      BY <2>3a, <3>1, Zenon
  <2>3c. n \in Hit(MagicField, n, n + HeaderSize)
    <3>1. PICK i \in MagicField : i \in 0..(HeaderSize - 1)
      BY HeapAssumption
    <3>2. n <= n + i /\ n + i < n + HeaderSize
      BY <1>1, <2>1, <3>1 DEF Addr
    <3> QED
      BY <2>1, <3>1, <3>2 DEF Hit
  <2>3d. /\ U = TornBy(h, T, n, n + HeaderSize)
         /\ U \subseteq Addr /\ C \cap U = {}
    <3>1. U = TornBy(h, T, n, n + HeaderSize)
      BY <1>3 DEF U, n
    <3> QED
      BY <2>2, <2>3b, <2>3c, <3>1 DEF TornBy, Hit, WF
  <2>4. n \notin B
    BY <1>1, <2>1, <2>3 DEF Addr
  <2>5. /\ m \in Link /\ m # n /\ m # b
        /\ m # NULL => m = End(h, b) /\ m \in B
        /\ End(h, b) = ArenaSize => m = NULL
        /\ End(h, b) # ArenaSize => m = End(h, b)
    <3>1. /\ m # NULL => m = End(h, b) /\ m \in B
          /\ End(h, b) = ArenaSize => m = NULL
          /\ End(h, b) # ArenaSize => m = End(h, b)
      BY DEF WF, m
    <3>2. m \in Link
      BY <1>1 DEF m, Header
    <3>3. m # b
      BY <1>1, <2>1, <3>1 DEF Addr
    <3> QED
      BY <2>4, <3>1, <3>2, <3>3, <2>1 DEF Addr
  <2> DEFINE nh == [size |-> h[b].size - need - HeaderSize, is_free |-> TRUE,
                    next |-> m, prev |-> b, magic |-> TRUE]
             w == WriteHeader(h, n, nh)
  <2>6. nh \in Header
    <3>1. h[b].size - need - HeaderSize \in 0..ArenaSize
      BY <1>1, <2>1 DEF End, Addr
    <3>2. b \in Link
      BY <1>1 DEF Link
    <3> QED
      BY <2>5, <3>1, <3>2 DEF Header
  <2> HIDE DEF nh, w
  <2>7. /\ w \in [Addr -> Header]
        /\ w[n] = nh
        /\ \A a \in Addr \ {n} :
              /\ w[a].size = h[a].size /\ w[a].is_free = h[a].is_free
              /\ w[a].next = h[a].next /\ w[a].prev = h[a].prev
              /\ w[a].magic => h[a].magic /\ a \notin Hit(MagicField, n, n + HeaderSize)
        /\ \A c \in B : w[c] = h[c]
    <3> DEFINE k == Clobber(h, n, n + HeaderSize)
    <3>1. /\ k \in [Addr -> Header]
          /\ \A a \in Addr :
              /\ k[a].size = h[a].size /\ k[a].is_free = h[a].is_free
              /\ k[a].next = h[a].next /\ k[a].prev = h[a].prev
              /\ k[a].magic => h[a].magic /\ a \notin Hit(MagicField, n, n + HeaderSize)
      BY <1>1 DEF Clobber, Header
    <3>2. \A c \in B : k[c] = h[c]
      BY <1>1, <2>3b DEF Clobber
    <3>3. w = [k EXCEPT ![n] = nh]
      BY DEF w, WriteHeader
    <3> HIDE DEF k
    <3> QED
      BY <1>1, <2>1, <2>4, <2>6, <3>1, <3>2, <3>3
  <2>8. s = [a \in Addr |->
                IF a = b THEN [h[b] EXCEPT !.next = n, !.size = need]
                ELSE IF a = m THEN [w[a] EXCEPT !.prev = n]
                ELSE w[a]]
    BY <1>3 DEF s, split_block, n, m, w, nh
  <2>9. /\ s[b] \in Header /\ g[b] \in Header
        /\ s[b].size = need
        /\ g[b].size = need /\ g[b].next = n /\ g[b].prev = h[b].prev
        /\ g[b].magic = h[b].magic /\ ~g[b].is_free
        /\ \A a \in Addr \ {b} : g[a] = s[a]
    <3> DEFINE r == h[b]
               q == s[b]
               u == g[b]
    <3>1. q = [r EXCEPT !.next = n, !.size = need] /\ r \in Header
      BY <1>1, <2>8
    <3>2. /\ u = [q EXCEPT !.is_free = FALSE]
          /\ \A a \in Addr \ {b} : g[a] = s[a]
      BY <1>1, <2>8 DEF g
    <3>3. n \in Link /\ need \in 0..ArenaSize
      BY <1>1, <2>1 DEF Link
    <3> HIDE DEF r, q, u
    <3>4. /\ q \in Header /\ q.next = n /\ q.size = need
          /\ q.prev = r.prev /\ q.magic = r.magic
      BY <3>1, <3>3 DEF Header
    <3>5. /\ u \in Header /\ u.next = q.next /\ u.size = q.size
          /\ u.prev = q.prev /\ u.magic = q.magic /\ ~u.is_free
      BY <3>2, <3>4 DEF Header
    <3> QED
      BY <3>2, <3>4, <3>5 DEF r, q, u
  <2>10. g[n] = nh
    BY <2>1, <2>5, <2>7, <2>8, <2>9
  <2>11. ASSUME NEW a \in Addr, a # b, a # n
         PROVE  /\ g[a] \in Header
                /\ g[a].size = h[a].size /\ g[a].is_free = h[a].is_free
                /\ g[a].next = h[a].next
                /\ a = m => g[a].prev = n
                /\ a # m => g[a].prev = h[a].prev
                /\ g[a].magic => h[a].magic /\ a \notin Hit(MagicField, n, n + HeaderSize)
                /\ a \in B => g[a].magic = h[a].magic
    <3>1. CASE a = m
      <4>1. g[a] = [w[a] EXCEPT !.prev = n] /\ w[a] \in Header /\ n \in Link
        BY <2>1, <2>7, <2>8, <2>9, <2>11, <3>1 DEF Link
      <4>2. /\ g[a] \in Header /\ g[a].size = w[a].size
            /\ g[a].is_free = w[a].is_free /\ g[a].next = w[a].next
            /\ g[a].prev = n /\ g[a].magic = w[a].magic
        BY <4>1, UpdatePrev
      <4> QED
        BY <2>7, <2>11, <3>1, <4>2
    <3>2. CASE a # m
      <4>1. g[a] = w[a]
        BY <2>8, <2>9, <2>11, <3>2
      <4> QED
        BY <2>7, <2>11, <3>2, <4>1
    <3> QED
      BY <3>1, <3>2
  <2>12. /\ g \in [Addr -> Header]
         /\ g[n].size = h[b].size - need - HeaderSize /\ g[n].is_free
         /\ g[n].next = m /\ g[n].prev = b /\ g[n].magic
    <3>1. \A a \in Addr : g[a] \in Header
      BY <2>6, <2>9, <2>10, <2>11
    <3>2. g = [a \in Addr |-> g[a]]
      BY <2>8 DEF g
    <3>3. g \in [Addr -> Header]
      BY <3>1, <3>2
    <3> QED
      BY <2>10, <3>3 DEF nh
  <2> HIDE DEF nh, w
  <2>13. /\ End(g, b) = n
         /\ End(g, n) = End(h, b)
         /\ \A a \in Addr \ {b, n} : End(g, a) = End(h, a)
    <3>1. End(g, b) = n
      BY <2>1, <2>9 DEF End
    <3>2. End(g, n) = End(h, b)
      BY <1>1, <2>1, <2>12 DEF End, Addr
    <3> QED
      BY <2>11, <3>1, <3>2 DEF End
  <2>14. \A c \in C : g[c].magic
    BY <1>1, <2>2, <2>4, <2>9, <2>11, <2>12 DEF WF
  <2>15. \A c \in C : End(g, c) <= ArenaSize
    BY <1>1, <2>1, <2>2, <2>4, <2>13 DEF WF, Addr
  <2>16. \A c \in C : End(g, c) = ArenaSize => g[c].next = NULL
    <3>1. End(g, b) # ArenaSize
      BY <1>1, <2>1, <2>13 DEF Addr
    <3>2. End(g, n) = ArenaSize => g[n].next = NULL
      BY <2>5, <2>12, <2>13
    <3>3. \A c \in B \ {b} : End(g, c) = ArenaSize => g[c].next = NULL
      BY <1>1, <2>4, <2>11, <2>13 DEF WF
    <3> QED
      BY <2>2, <3>1, <3>2, <3>3
  <2>17. \A c \in C : End(g, c) # ArenaSize
                         => g[c].next = End(g, c) /\ End(g, c) \in C
    <3>1. g[b].next = End(g, b) /\ End(g, b) \in C
      BY <2>2, <2>9, <2>13
    <3>2. End(g, n) # ArenaSize => g[n].next = End(g, n) /\ End(g, n) \in C
      BY <2>2, <2>5, <2>12, <2>13 DEF WF
    <3>3. \A c \in B \ {b} : End(g, c) # ArenaSize
                               => g[c].next = End(g, c) /\ End(g, c) \in C
      BY <1>1, <2>2, <2>4, <2>11, <2>13 DEF WF
    <3> QED
      BY <2>2, <3>1, <3>2, <3>3
  <2>18. \A c, d \in C : c < d => End(g, c) <= d
    <3> SUFFICES ASSUME NEW c \in C, NEW d \in C, c < d
                 PROVE  End(g, c) <= d
      OBVIOUS
    <3>1. CASE c \in B \ {b} /\ d \in B
      BY <1>1, <2>4, <2>13, <3>1 DEF WF
    <3>2. CASE c \in B \ {b} /\ d = n
      <4>1. c \in Addr /\ h[c].size \in 0..ArenaSize
        BY <1>1, <3>2 DEF Header
      <4>2. c < b => End(h, c) <= b
        BY <3>2 DEF WF
      <4>3. b < c => End(h, b) <= c
        BY <3>2 DEF WF
      <4> QED
        BY <1>1, <2>1, <2>4, <2>13, <3>2, <4>1, <4>2, <4>3 DEF Addr, End
    <3>3. CASE c = b
      <4>1. CASE d = n
        BY <1>1, <2>1, <2>13, <3>3, <4>1 DEF Addr
      <4>2. CASE d \in B
        <5>1. End(h, b) <= d /\ d \in Addr
          BY <1>1, <3>3, <4>2 DEF WF
        <5> QED
          BY <1>1, <2>1, <2>13, <3>3, <5>1 DEF Addr, End
      <4> QED
        BY <2>2, <4>1, <4>2
    <3>4. CASE c = n /\ d \in B
      <4>1. d \in Addr /\ b < d
        BY <1>1, <2>1, <3>4 DEF Addr
      <4>2. End(h, b) <= d
        BY <3>4, <4>1 DEF WF
      <4> QED
        BY <2>13, <3>4, <4>2
    <3> QED
      BY <1>1, <2>1, <2>2, <3>1, <3>2, <3>3, <3>4 DEF Addr
  <2>19. g[0].prev = NULL
    <3>1. 0 # n
      BY <2>4 DEF WF
    <3>2. 0 # m
      BY <1>1, <2>1, <2>5 DEF Addr
    <3> QED
      BY <1>1, <2>9, <2>11, <3>1, <3>2 DEF WF
  <2>20. \A c \in C : c # 0 => g[c].prev \in C /\ g[g[c].prev].next = c
    <3> SUFFICES ASSUME NEW c \in C, c # 0
                 PROVE  g[c].prev \in C /\ g[g[c].prev].next = c
      OBVIOUS
    <3>1. CASE c = n
      BY <2>2, <2>9, <2>12, <3>1
    <3>2. CASE c = b
      <4>1. h[b].prev \in B /\ h[h[b].prev].next = b
        BY <3>2 DEF WF
      <4>2. h[b].prev # b
        BY <2>5, <4>1 DEF m
      <4> QED
        BY <1>1, <2>2, <2>4, <2>9, <2>11, <3>2, <4>1, <4>2
    <3>3. CASE c = m /\ c # b
      BY <1>1, <2>2, <2>4, <2>5, <2>11, <2>12, <3>3
    <3>4. CASE c # n /\ c # b /\ c # m
      <4>1. c \in B /\ h[c].prev \in B /\ h[h[c].prev].next = c
        BY <2>2, <3>4 DEF WF
      <4>2. h[c].prev # b
        BY <3>4, <4>1 DEF m
      <4> QED
        BY <1>1, <2>2, <2>4, <2>11, <3>4, <4>1, <4>2
    <3> QED
      BY <3>1, <3>2, <3>3, <3>4
  <2>21. \A a \in Addr : g[a].magic /\ a \notin C \cup U => g[a].is_free
    <3> SUFFICES ASSUME NEW a \in Addr, g[a].magic, a \notin C \cup U
                 PROVE  g[a].is_free
      OBVIOUS
    <3>1. a # b /\ a # n /\ a \notin B
      BY <2>2
    <3>2. h[a].magic /\ a \notin Hit(MagicField, n, n + HeaderSize)
      BY <2>11, <3>1
    <3>3. a \notin T
      BY <2>3d, <3>2 DEF TornBy
    <3> QED
      BY <2>11, <3>1, <3>2, <3>3 DEF WF
  <2>22. WF(g, C, U)
    BY <1>1, <2>2, <2>3d, <2>12, <2>14, <2>15, <2>16, <2>17, <2>18, <2>19, <2>20,
       <2>21 DEF WF
  <2>23. CoalescedIn(g, C)
    <3> SUFFICES ASSUME NEW c \in C, g[c].is_free, g[c].next # NULL
                 PROVE  ~g[g[c].next].is_free
      BY DEF CoalescedIn
    <3>1. CASE c = n
      BY <1>1, <2>4, <2>5, <2>11, <2>12, <3>1 DEF CoalescedIn, m
    <3>2. CASE c \in B /\ c # b
      <4>1. /\ c \in Addr /\ g[c].next = h[c].next /\ h[c].is_free
            /\ h[c].next \in B /\ ~h[h[c].next].is_free
        BY <1>1, <2>4, <2>11, <3>2 DEF CoalescedIn, WF
      <4> QED
        BY <1>1, <2>4, <2>9, <2>11, <4>1
    <3> QED
      BY <2>2, <2>9, <3>1, <3>2
  <2> QED
    BY <1>1, <2>2, <2>4, <2>9, <2>11, <2>12, <2>22, <2>23 DEF g, C, U, s, SplitKeeps
<1> QED
  BY <1>2, <1>3

\* The release of a block in use keeps the list well formed and, by merging in
\* both directions, coalesced.
LEMMA ReleasePreserves ==
    ASSUME NEW h, NEW B, NEW T, WF(h, B, T), CoalescedIn(h, B),
           NEW b \in B, ~h[b].is_free
    PROVE  LET h0 == [h EXCEPT ![b].is_free = TRUE]
               h1 == merge_next(h0, b)
               p  == h1[b].prev
               back == p # NULL /\ h1[p].is_free
               g  == IF back THEN merge_next(h1, p) ELSE h1
               C  == (B \ Absorbed(h0, b)) \ (IF back THEN Absorbed(h1, p) ELSE {})
           IN  /\ WF(g, C, T)
               /\ CoalescedIn(g, C)
               /\ \A a \in C : ~g[a].is_free
                     => a \in B /\ ~h[a].is_free /\ a # b /\ g[a].size = h[a].size
<1> DEFINE h0 == [h EXCEPT ![b].is_free = TRUE]
           h1 == merge_next(h0, b)
           C1 == B \ Absorbed(h0, b)
           p  == h1[b].prev
           back == p # NULL /\ h1[p].is_free
           g  == IF back THEN merge_next(h1, p) ELSE h1
           C  == C1 \ (IF back THEN Absorbed(h1, p) ELSE {})
<1> HIDE DEF h0, h1, C1, p, back, g, C
<1>1. /\ h \in [Addr -> Header] /\ B \subseteq Addr /\ b \in Addr
      /\ \A a \in Addr : h[a] \in Header
  BY DEF WF
<1>2. /\ h0 \in [Addr -> Header]
      /\ h0[b].is_free
      /\ \A a \in Addr : /\ h0[a].size = h[a].size /\ h0[a].next = h[a].next
                         /\ h0[a].prev = h[a].prev /\ h0[a].magic = h[a].magic
                         /\ a # b => h0[a].is_free = h[a].is_free
  <2> DEFINE r == h[b]
             q == h0[b]
  <2>1. q = [r EXCEPT !.is_free = TRUE] /\ r \in Header
    BY <1>1 DEF h0
  <2>2. h0 = [h EXCEPT ![b] = q] /\ \A a \in Addr \ {b} : h0[a] = h[a]
    BY <1>1 DEF h0
  <2> HIDE DEF r, q
  <2>3. /\ q \in Header /\ q.size = r.size /\ q.next = r.next
        /\ q.prev = r.prev /\ q.magic = r.magic /\ q.is_free
    BY <2>1 DEF Header
  <2> QED
    BY <1>1, <2>2, <2>3 DEF r, q
<1>3. WF(h0, B, T)
  <2>1. \A a \in Addr : End(h0, a) = End(h, a)
    BY <1>2 DEF End
  <2> QED
    BY <1>1, <1>2, <2>1 DEF WF
<1>4. /\ WF(h1, C1, T) /\ b \in C1 /\ h0[b].prev \in C1 \cup {NULL}
      /\ h1[b].prev = h0[b].prev
      /\ Merges(h0, b) => h1[b].next = h0[h0[b].next].next
      /\ \A a \in Addr : h1[a].is_free = h0[a].is_free
      /\ \A a \in Addr \ {b} : h1[a].next = h0[a].next /\ h1[a].size = h0[a].size
  BY <1>3, MergePreserves DEF h1, C1
<1>5. h1[b].next # NULL => h1[b].next \in C1 /\ ~h1[h1[b].next].is_free
  <2> SUFFICES ASSUME h1[b].next # NULL
               PROVE  h1[b].next \in C1 /\ ~h1[h1[b].next].is_free
    OBVIOUS
  <2>1. h1[b].next \in C1 /\ C1 \subseteq Addr /\ h1[b].next # b
    <3>1. /\ h1[b].next \in C1 /\ C1 \subseteq Addr
          /\ h1[b].next = b + HeaderSize + h1[b].size
          /\ h1[b].size \in Nat
      BY <1>1, <1>4 DEF WF, End, Header
    <3> QED
      BY <1>1, <3>1, HeapAssumption DEF Addr
  <2>2. CASE Merges(h0, b)
    <3> DEFINE n == h0[b].next
    <3>1. n \in B /\ h0[n].is_free /\ n # b
      <4>1. n # NULL /\ h0[n].is_free
        BY <2>2 DEF Merges
      <4>2. n \in B /\ n = b + HeaderSize + h0[b].size /\ h0[b].size \in Nat
        BY <1>1, <1>2, <1>3, <4>1 DEF WF, End, Header
      <4> QED
        BY <1>1, <4>1, <4>2, HeapAssumption DEF Addr
    <3>2. h[n].is_free /\ n \in Addr /\ h[n].next = h1[b].next
      BY <1>1, <1>2, <1>4, <2>2, <3>1
    <3>3. ~h[h1[b].next].is_free
      BY <3>1, <3>2 DEF CoalescedIn
    <3> QED
      BY <1>2, <1>4, <2>1, <3>3
  <2>3. CASE ~Merges(h0, b)
    <3>1. h1 = h0 /\ C1 = B
      BY <2>3 DEF h1, C1, merge_next, Absorbed
    <3>2. h0[h0[b].next].magic
      BY <2>1, <3>1, <1>3 DEF WF
    <3> QED
      BY <2>1, <2>3, <3>1, <3>2 DEF Merges
  <2> QED
    BY <2>2, <2>3
<1>6. \A c \in C1 : c # b /\ h1[c].is_free /\ h1[c].next # NULL
                        /\ h1[c].next # b => ~h1[h1[c].next].is_free
  <2> SUFFICES ASSUME NEW c \in C1, c # b, h1[c].is_free, h1[c].next # NULL,
                      h1[c].next # b
               PROVE  ~h1[h1[c].next].is_free
    OBVIOUS
  <2>1. c \in B /\ c \in Addr /\ h1[c].next \in C1 /\ h1[c].next \in Addr
    BY <1>1, <1>4 DEF WF, C1
  <2>2. h[c].is_free /\ h[c].next = h1[c].next
    BY <1>2, <1>4, <2>1
  <2> QED
    BY <1>2, <1>4, <2>1, <2>2 DEF CoalescedIn
<1>7. CASE ~back
  <2>1. g = h1 /\ C = C1
    BY <1>7 DEF g, C
  <2>2. CoalescedIn(h1, C1)
    <3> SUFFICES ASSUME NEW c \in C1, h1[c].is_free, h1[c].next # NULL,
                        h1[h1[c].next].is_free
                 PROVE  FALSE
      BY DEF CoalescedIn
    <3>1. c # b
      BY <1>5
    <3>2. h1[c].next = b
      BY <1>6, <3>1
    <3>3. b # 0 /\ c \in Addr
      <4>1. /\ c \in Addr /\ h1[c].next = c + HeaderSize + h1[c].size
            /\ h1[c].size \in Nat
        BY <1>4 DEF WF, End, Header
      <4> QED
        BY <3>2, <4>1, HeapAssumption DEF Addr
    <3>4. p \in C1 /\ h1[p].next = b
      BY <1>4, <3>3 DEF WF, p
    <3>5. p = c
      <4>1. /\ p \in Addr /\ c < b /\ p < b
            /\ End(h1, p) = b /\ End(h1, c) = b
            /\ p < End(h1, p) /\ c < End(h1, c)
        <5>1. p \in Addr /\ h1[p].size \in Nat /\ h1[c].size \in Nat
          BY <1>4, <3>3, <3>4 DEF WF, Header
        <5>2. End(h1, p) = b /\ End(h1, c) = b
          BY <1>1, <1>4, <3>2, <3>4 DEF WF, Addr
        <5>3. b \in Nat /\ p \in Nat /\ c \in Nat
          BY <1>1, <3>3, <5>1, HeapAssumption DEF Addr
        <5>4. b = p + HeaderSize + h1[p].size /\ b = c + HeaderSize + h1[c].size
          BY <5>2 DEF End
        <5>5. HeaderSize \in Nat /\ HeaderSize > 0
          BY HeapAssumption
        <5>6. p < b /\ c < b
          BY <5>1, <5>3, <5>4, <5>5
        <5> QED
          BY <5>1, <5>2, <5>6
      <4>2. p < c => End(h1, p) <= c
        BY <1>4, <3>4 DEF WF
      <4>3. c < p => End(h1, c) <= p
        BY <1>4, <3>4 DEF WF
      <4> QED
        BY <1>1, <3>3, <4>1, <4>2, <4>3 DEF Addr
    <3> QED
      BY <1>4, <1>7, <3>3, <3>5 DEF back, Addr
  <2>3. \A a \in C : ~g[a].is_free
           => a \in B /\ ~h[a].is_free /\ a # b /\ g[a].size = h[a].size
    BY <1>1, <1>2, <1>4, <2>1 DEF C1
  <2> QED
    BY <1>4, <2>1, <2>2, <2>3 DEF g, C, C1, back, p, h1, h0
<1>8. CASE back
  <2>1. /\ p \in C1 /\ h1[p].next = b /\ p # b /\ p \in Addr /\ h1[p].is_free
    <3>1. p \in C1 /\ p \in Addr /\ h1[p].is_free
      BY <1>4, <1>8 DEF back, p, WF
    <3>2. b # 0
      BY <1>4, <1>8 DEF back, p, WF
    <3>3. h1[p].next = b
      BY <1>4, <3>2 DEF WF, p
    <3>4. h1[p].next = p + HeaderSize + h1[p].size /\ h1[p].size \in Nat
      BY <1>4, <3>1, <3>3, <1>1 DEF WF, End, Header, Addr
    <3> QED
      BY <3>1, <3>3, <3>4, HeapAssumption DEF Addr
  <2>2. Merges(h1, p) /\ Absorbed(h1, p) = {b}
    BY <1>1, <1>2, <1>4, <2>1 DEF Merges, Absorbed, WF, Addr
  <2>3. g = merge_next(h1, p) /\ C = C1 \ Absorbed(h1, p) /\ C = C1 \ {b}
    BY <1>8, <2>2 DEF g, C
  <2>4. /\ WF(g, C, T) /\ p \in C
        /\ g[p].next = h1[b].next
        /\ \A a \in Addr : g[a].is_free = h1[a].is_free
        /\ \A a \in Addr \ {p} : g[a].next = h1[a].next /\ g[a].size = h1[a].size
    BY <1>4, <2>1, <2>2, <2>3, MergePreserves
  <2>5. CoalescedIn(g, C)
    <3> SUFFICES ASSUME NEW c \in C, g[c].is_free, g[c].next # NULL
                 PROVE  ~g[g[c].next].is_free
      BY DEF CoalescedIn
    <3>1. c \in C1 /\ c # b /\ c \in Addr /\ g[c].next \in C /\ g[c].next \in Addr
      BY <2>3, <2>4 DEF WF
    <3>2. CASE c = p
      BY <1>5, <2>4, <3>1, <3>2
    <3>3. CASE c # p
      BY <1>6, <2>3, <2>4, <3>1, <3>3
    <3> QED
      BY <3>2, <3>3
  <2>6. \A a \in C : ~g[a].is_free
           => a \in B /\ ~h[a].is_free /\ a # b /\ g[a].size = h[a].size
    BY <1>1, <1>2, <1>4, <2>1, <2>3, <2>4 DEF C1
  <2> QED
    BY <2>4, <2>5, <2>6 DEF g, C, C1, back, p, h1, h0
<1> QED
  BY <1>7, <1>8

\* clks_heap_align_up yields a size, and one that is large enough unless the
\* addition wraps.
LEMMA AlignUp ==
    ASSUME NEW v \in 0..(WordSize - 1)
    PROVE  /\ align_up(v) \in Nat
           /\ v <= WordSize - Align => align_up(v) >= v
<1> DEFINE x == (v + (Align - 1)) % WordSize
           q == x \div Align
<1>1. x \in Nat /\ (v <= WordSize - Align => x = v + (Align - 1))
  BY HeapAssumption
<1> HIDE DEF x
<1>2. q \in Nat /\ x = Align * q + (x % Align) /\ (x % Align) \in 0..(Align - 1)
  BY <1>1, HeapAssumption
<1> HIDE DEF q
<1>3. q * Align = Align * q /\ q * Align \in Nat
  BY <1>2, HeapAssumption
<1>4. align_up(v) = q * Align
  BY DEF align_up, q, x
<1> QED
  BY <1>1, <1>2, <1>3, <1>4, HeapAssumption

-----------------------------------------------------------------------------
\* The inductive invariant.  Disjoint and the leftovers are what BackLinks and
\* Tiling need to survive a split, a merge and a write into a buffer.
IInv == TypeOK /\ ListIntact /\ StaleHeadersFree /\ Coalesced /\ BufferLargeEnough

LEMMA InitIInv == Init => IInv
BY HeapAssumption DEF Init, IInv, TypeOK, ListIntact, Tiling, Disjoint, BackLinks,
      StaleHeadersFree, Coalesced, BufferLargeEnough, Addr, Link, Header,
      NoHeader, End

LEMMA NextIInv == IInv /\ [Next]_vars => IInv'
<1> SUFFICES ASSUME IInv, [Next]_vars PROVE IInv'
  OBVIOUS
<1>1. /\ TypeOK /\ WF(hdr, blocks, torn) /\ CoalescedIn(hdr, blocks)
      /\ BufferLargeEnough
  BY WFIsInvariant DEF IInv, Coalesced, CoalescedIn
<1>2. ASSUME WF(hdr', blocks', torn'), CoalescedIn(hdr', blocks'), BufferLargeEnough',
             want' \in [Addr -> 0..(WordSize - 1)], used_bytes' \in Nat,
             alloc_count' \in 0..MaxCalls, free_count' \in Nat
      PROVE  IInv'
  <2>1. TypeOK'
    BY <1>2 DEF TypeOK, WF
  <2>2. ListIntact' /\ StaleHeadersFree'
    BY <1>2, <2>1, HeapAssumption DEF TypeOK, WF, ListIntact, Tiling, Disjoint,
       BackLinks, StaleHeadersFree, Addr
  <2> QED
    BY <1>2, <2>1, <2>2 DEF IInv, Coalesced, CoalescedIn
<1>3. ASSUME NEW b \in blocks, NEW size \in Requests, hdr[b].is_free,
             hdr[b].size >= align_up(size), alloc_count < MaxCalls, Take(b, size)
      PROVE  IInv'
  <2> DEFINE need == align_up(size)
             s == split_block(hdr, b, need)
             g == [s EXCEPT ![b].is_free = FALSE]
             C == IF Splits(hdr, b, need) THEN blocks \cup {Tail(b, need)}
                  ELSE blocks
             U == IF Splits(hdr, b, need)
                  THEN TornBy(hdr, torn, Tail(b, need), Tail(b, need) + HeaderSize)
                  ELSE torn
  <2>1. /\ need \in Nat /\ size \in 0..(WordSize - 1)
        /\ size <= WordSize - Align => need >= size
    BY AlignUp, HeapAssumption
  <2>2. hdr[b].size \in Nat /\ need <= hdr[b].size /\ b \in Addr
    BY <1>1, <1>3, <2>1 DEF TypeOK, Header
  <2>3. /\ hdr' = g /\ blocks' = C /\ torn' = U
        /\ used_bytes' = used_bytes + s[b].size
        /\ alloc_count' = alloc_count + 1
        /\ want' = [want EXCEPT ![b] = size]
        /\ free_count' = free_count
    BY <1>3 DEF Take
  <2>4. /\ WF(g, C, U) /\ CoalescedIn(g, C)
        /\ s[b].size \in Nat /\ s[b].size >= need
        /\ g[b].size = s[b].size /\ ~g[b].is_free
        /\ \A a \in C \ {b} : g[a].is_free <=> a \notin blocks \/ hdr[a].is_free
        /\ \A a \in blocks \ {b} : g[a].size = hdr[a].size
    <3> HIDE DEF need
    <3>1. /\ need \in Nat /\ need <= hdr[b].size /\ hdr[b].is_free
          /\ WF(hdr, blocks, torn) /\ CoalescedIn(hdr, blocks)
      BY <1>1, <1>3, <2>1, <2>2
    <3>2. SplitKeeps(hdr, blocks, torn, b, need)
      BY <3>1, SplitPreserves
    <3> QED
      BY <3>2, Zenon DEF SplitKeeps
  <2> HIDE DEF need, s, g, C, U
  <2>5. BufferLargeEnough'
    <3> SUFFICES ASSUME NEW c \in blocks', ~hdr'[c].is_free,
                        want'[c] <= WordSize - Align
                 PROVE  hdr'[c].size >= want'[c]
      BY DEF BufferLargeEnough
    <3>1. CASE c = b
      <4>1. want'[c] = size
        BY <1>1, <2>2, <2>3, <3>1 DEF TypeOK
      <4> QED
        BY <2>1, <2>3, <2>4, <3>1, <4>1, HeapAssumption
    <3>2. CASE c # b
      <4>1. c \in blocks /\ ~hdr[c].is_free /\ hdr'[c].size = hdr[c].size
        BY <2>3, <2>4, <3>2
      <4>2. want'[c] = want[c]
        BY <1>1, <2>3, <3>2, <4>1 DEF TypeOK
      <4> QED
        BY <1>1, <4>1, <4>2 DEF BufferLargeEnough
    <3> QED
      BY <3>1, <3>2
  <2>6. /\ want' \in [Addr -> 0..(WordSize - 1)] /\ used_bytes' \in Nat
        /\ alloc_count' \in 0..MaxCalls /\ free_count' \in Nat
    BY <1>1, <1>3, <2>1, <2>3, <2>4, HeapAssumption DEF TypeOK
  <2> QED
    BY <1>2, <2>3, <2>4, <2>5, <2>6
<1>4. ASSUME NEW size \in Requests, kmalloc(size) PROVE IInv'
  <2>1. CASE UNCHANGED vars
    BY <2>1 DEF IInv, vars, TypeOK, ListIntact, Tiling, Disjoint, BackLinks,
       StaleHeadersFree, Coalesced, BufferLargeEnough, End
  <2>2. ASSUME NEW b \in blocks, alloc_count < MaxCalls,
               FirstFit(hdr, align_up(size), b), Take(b, size)
        PROVE  IInv'
    <3>1. Fits(hdr, b, align_up(size))
      BY <2>2 DEF FirstFit, FitsAt
    <3> QED
      BY <1>3, <2>2, <3>1 DEF Fits
  <2> QED
    BY <1>4, <2>1, <2>2 DEF kmalloc
<1>5. ASSUME NEW b \in Addr, NEW lo \in Addr, NEW hi \in 1..ArenaSize, Use(b, lo, hi)
      PROVE  IInv'
  <2> DEFINE g == Clobber(hdr, lo, hi)
             U == TornBy(hdr, torn, lo, hi)
  <2>1. /\ b \in blocks /\ hdr' = g /\ blocks' = blocks /\ torn' = U
        /\ ~hdr[b].is_free /\ b + HeaderSize <= lo /\ hi <= End(hdr, b)
    BY <1>5 DEF Use
  <2>2. WF(g, blocks, U) /\ CoalescedIn(g, blocks)
    BY <1>1, <2>1, ClobberPreserves
  <2>3. \A a \in Addr : g[a].size = hdr[a].size /\ g[a].is_free = hdr[a].is_free
    BY <1>1 DEF Clobber, TypeOK, Header
  <2> HIDE DEF g, U
  <2>4. BufferLargeEnough'
    BY <1>1, <1>5, <2>1, <2>3 DEF BufferLargeEnough, TypeOK, Use
  <2> QED
    BY <1>1, <1>2, <1>5, <2>1, <2>2, <2>4 DEF Use, TypeOK
<1>6. ASSUME NEW b \in Addr, kfree(b) PROVE IInv'
  <2>1. CASE UNCHANGED vars
    BY <2>1 DEF IInv, vars, TypeOK, ListIntact, Tiling, Disjoint, BackLinks,
       StaleHeadersFree, Coalesced, BufferLargeEnough, End
  <2>2. CASE hdr[b].magic /\ ~hdr[b].is_free /\ Release(b)
    <3> DEFINE h0 == [hdr EXCEPT ![b].is_free = TRUE]
               h1 == merge_next(h0, b)
               p  == h1[b].prev
               back == p # NULL /\ h1[p].is_free
               g  == IF back THEN merge_next(h1, p) ELSE h1
               C  == (blocks \ Absorbed(h0, b))
                        \ (IF back THEN Absorbed(h1, p) ELSE {})
    <3>1. b \in blocks
      BY <1>1, <1>6, <2>2 DEF WF, kfree
    <3>2. /\ WF(g, C, torn) /\ CoalescedIn(g, C)
          /\ \A a \in C : ~g[a].is_free
                => /\ a \in blocks /\ ~hdr[a].is_free /\ a # b
                   /\ g[a].size = hdr[a].size
      BY <1>1, <2>2, <3>1, ReleasePreserves
    <3>3. /\ hdr' = g /\ blocks' = C /\ torn' = torn
          /\ used_bytes' = IF used_bytes >= hdr[b].size
                           THEN used_bytes - hdr[b].size ELSE 0
          /\ free_count' = free_count + 1
          /\ want' = [want EXCEPT ![b] = 0]
          /\ alloc_count' = alloc_count
      BY <2>2 DEF Release
    <3> HIDE DEF g, C
    <3>4. BufferLargeEnough'
      <4> SUFFICES ASSUME NEW c \in blocks', ~hdr'[c].is_free,
                          want'[c] <= WordSize - Align
                   PROVE  hdr'[c].size >= want'[c]
        BY DEF BufferLargeEnough
      <4>1. c \in blocks /\ ~hdr[c].is_free /\ c # b /\ hdr'[c].size = hdr[c].size
        BY <3>2, <3>3
      <4>2. want'[c] = want[c]
        BY <1>1, <3>3, <4>1 DEF TypeOK
      <4> QED
        BY <1>1, <4>1, <4>2 DEF BufferLargeEnough
    <3>5. /\ want' \in [Addr -> 0..(WordSize - 1)] /\ used_bytes' \in Nat
          /\ alloc_count' \in 0..MaxCalls /\ free_count' \in Nat
      BY <1>1, <1>6, <3>3, HeapAssumption DEF TypeOK, Header
    <3> QED
      BY <1>2, <3>2, <3>3, <3>4, <3>5
  <2> QED
    BY <1>6, <2>1, <2>2 DEF kfree
<1>7. CASE UNCHANGED vars
  BY <1>7 DEF IInv, vars, TypeOK, ListIntact, Tiling, Disjoint, BackLinks,
     StaleHeadersFree, Coalesced, BufferLargeEnough, End
<1> QED
  BY <1>4, <1>5, <1>6, <1>7 DEF Next

LEMMA Invariance == Spec => []IInv
BY InitIInv, NextIInv, PTL DEF Spec

\* Every link of the list stays inside the arena (heap.c, all calls).
THEOREM TypeCorrect == Spec => []TypeOK
BY Invariance, PTL DEF IInv

\* The list stays a doubly linked tiling of the arena: no call and no write into a
\* buffer, in any order, loses bytes, overlaps two blocks or breaks a link; a second
\* free is among the calls as long as the leftover header is not torn.
THEOREM ListIntegrity == Spec => []ListIntact
BY Invariance, PTL DEF IInv

\* kfree merges in both directions, so free neighbours never stay apart.
THEOREM FullyCoalesced == Spec => []Coalesced
BY Invariance, PTL DEF IInv

\* Together: whatever is allocated, written and freed, in any order, the block list of
\* heap.c stays inside the arena, tiles it, and is fully merged, as long as no second
\* free meets a torn header.
THEOREM ListSoundness == Spec => []ListSound
BY TypeCorrect, ListIntegrity, FullyCoalesced, PTL DEF ListSound

\* A second kfree of a buffer changes nothing as long as the bytes of the leftover's
\* is_free have not been reused: what is not on the list and not torn reads as free.
THEOREM LeftoversReadFree == Spec => []StaleHeadersFree
BY Invariance, PTL DEF IInv

\* kmalloc hands out at least what was asked for, unless align_up wraps.
THEOREM BuffersLargeEnough == Spec => []BufferLargeEnough
BY Invariance, PTL DEF IInv
=============================================================================
