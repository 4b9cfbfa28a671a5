------------------------------ MODULE VmProofs ------------------------------
(***************************************************************************)
(* No frame is in use twice and none is lost, for every memory map, number *)
(* of processes and size of the tables: whatever is mapped, unmapped,      *)
(* failed half way and released.                                           *)
(*                                                                         *)
(* The argument gives each frame a level: free, a table of some level of   *)
(* the hierarchy, a page, or taken by a call that has not used it yet.     *)
(* Entries lead from one level to the next and, below the roots, each      *)
(* frame hangs at one entry.  A call changes the level of a few frames,    *)
(* so that every operator on page tables is a lemma about levels.  None is *)
(* taken when a call returns, a free frame is on the stack, which has room *)
(* for each managed one, and a frame below the roots hangs somewhere: so   *)
(* it is reached from a root, if the roots share the boot loader's tables. *)
(* They then share every mapping, and a page that no area holds is mapped  *)
(* nowhere, so that mapping it overwrites nothing.                         *)
(*                                                                         *)
(* The same lemmas say which pages a call may translate otherwise: the     *)
(* page it maps, protects or unmaps, in every space that shares the table, *)
(* and no other.  Since no page is in two areas, areas, tables and the     *)
(* CPU's cache stay in agreement.                                          *)
(***************************************************************************)
EXTENDS Vm, FiniteSetTheorems, SequenceTheorems, WellFoundedInduction, TLAPS

-----------------------------------------------------------------------------
(* Indices and counts                                                       *)

\* A remainder is an index of a page table.
LEMMA ModInRange ==
    ASSUME NEW a \in Nat, NEW n \in Nat \ {0}
    PROVE  a % n \in 0..(n - 1)
OBVIOUS

\* A set of naturals that is not empty has a least element.
LEMMA LeastNatural ==
    ASSUME NEW S \in SUBSET Nat, S # {}
    PROVE  \E m \in S : \A n \in S : m <= n
<1>1. PICK m \in S : \A n \in S : ~(<<n, m>> \in OpToRel(<, Nat))
  BY NatLessThanWellFounded, WFMin, Zenon
<1>2. \A n \in S : ~(n < m)
  BY <1>1 DEF OpToRel
<1> QED
  BY <1>2

\* A set that has 0, and what follows each of its members up to n, has all up to n:
\* what holds before a loop, and after a pass if it did before, holds at its end.
LEMMA UpTo ==
    ASSUME NEW n \in Nat, NEW T, 0 \in T, \A k \in 1 .. n : k - 1 \in T => k \in T
    PROVE  \A k \in 0 .. n : k \in T
<1> SUFFICES ASSUME \E k \in 0 .. n : k \notin T PROVE FALSE
  OBVIOUS
<1> DEFINE S == {k \in 0 .. n : k \notin T}
<1>1. S \in SUBSET Nat /\ S # {}
  OBVIOUS
<1> HIDE DEF S
<1>2. PICK m \in S : \A k \in S : m <= k
  BY <1>1, LeastNatural
<1>3. m \in 0 .. n /\ m \notin T /\ m # 0
  BY <1>2 DEF S
<1>4. m \in 1 .. n /\ m - 1 \in 0 .. n /\ ~(m <= m - 1)
  BY <1>3
<1>5. m - 1 \in T
  BY <1>2, <1>4 DEF S
<1> QED
  BY <1>3, <1>4, <1>5
-----------------------------------------------------------------------------

\* The levels; the tables below KHigh, made for the network card, have their own.
High == {"hpdpt", "hpd", "hpt"}
TableLevel == {"root", "pdpt", "pd", "pt"} \cup High
Level == TableLevel \cup {"free", "taken", "data"}

\* The level of what entry i of a table of level l leads to.
Target(l, i) ==
    CASE l = "root" -> (IF i = Lo THEN "pdpt" ELSE "hpdpt")
      [] l = "pdpt" -> "pd"
      [] l = "pd" -> "pt"
      [] l = "pt" -> "data"
      [] l = "hpdpt" -> "hpd"
      [] l = "hpd" -> "hpt"
      [] OTHER -> "none"

\* The frames of a machine whose page allocator manages M.
Frames(M) == M \cup BootFrames
Entry == [f : Int, w : BOOLEAN]
Memory(M) ==
    /\ M \subseteq Nat \ {0} /\ M \cap BootFrames = {}
    /\ IsFiniteSet(M) /\ Cardinality(M) <= MaxTracked

LevelsOK(M, L) ==
    /\ L \in [Frames(M) -> Level]
    /\ L[KRoot] = "root" /\ L[KLow] = "pdpt" /\ L[KHigh] = "hpdpt"

\* The free frames, each once.
FreeOK(M, L, fr) ==
    /\ fr \in Seq(M)
    /\ \A j, k \in DOMAIN fr : fr[j] = fr[k] => j = k
    /\ \A k \in DOMAIN fr : L[fr[k]] = "free"

\* Entries lead to the next level; only the card's tables have large pages.
PointsOK(M, L, tb) ==
    \A f \in Frames(M), i \in Index : L[f] \in TableLevel =>
        \/ tb[f][i].f = 0
        \/ tb[f][i].f = Large /\ L[f] \in High
        \/ tb[f][i].f \in Frames(M) /\ L[tb[f][i].f] = Target(L[f], i)

\* Below the roots no two entries lead to the same frame.
OnceOK(M, L, tb) ==
    \A f, g \in Frames(M), i, j \in Index :
        /\ L[f] \in TableLevel \ {"root"} /\ L[g] \in TableLevel \ {"root"}
        /\ tb[f][i].f = tb[g][j].f /\ tb[f][i].f \in Frames(M)
        => f = g /\ i = j

Linked(M, L, fr, tb) ==
    /\ LevelsOK(M, L)
    /\ FreeOK(M, L, fr)
    /\ tb \in [Frames(M) -> [Index -> Entry]]
    /\ PointsOK(M, L, tb)
    /\ OnceOK(M, L, tb)

\* The boot loader's tables map the low half.
LowMapped(tb) == tb[KRoot][Lo].f = KLow

\* An entry of a table below the roots leads to f; frame f is on the free stack.
Hangs(M, L, tb, f) ==
    \E g \in Frames(M), i \in Index : L[g] \in TableLevel \ {"root"} /\ tb[g][i].f = f
Listed(fr, f) == \E k \in DOMAIN fr : fr[k] = f

\* If so, each space shares the boot loader's tables, and no frame is lost: one
\* that is free is on the stack, and one below the roots hangs somewhere.
HungOK(M, L, fr, tb) ==
    LowMapped(tb) =>
      /\ tb[KRoot][Hi].f = KHigh
      /\ \A g \in Frames(M) : L[g] = "root" => tb[g][Lo].f = KLow
      /\ \A f \in M : L[f] \notin {"pdpt", "hpdpt"}
      /\ \A f \in M : L[f] = "free" => Listed(fr, f)
      /\ \A f \in M : L[f] \in {"pd", "pt", "hpd", "hpt", "data"} => Hangs(M, L, tb, f)

Owned(M, L, fr, tb) == Linked(M, L, fr, tb) /\ HungOK(M, L, fr, tb)

-----------------------------------------------------------------------------
(* Changes of a level.                                                      *)

\* Zero and the mark of a large page are no frames; a taken frame is managed.
LEMMA FrameFacts ==
    ASSUME NEW M, Memory(M), NEW L, LevelsOK(M, L)
    PROVE  /\ 0 \notin Frames(M) /\ Large \notin Frames(M)
           /\ \A f \in Frames(M) : f \in Int
           /\ \A f \in Frames(M) : L[f] \in {"free", "taken", "data", "pd", "pt", "hpd", "hpt"} => f \in M
BY DEF Memory, LevelsOK, Frames, BootFrames, Large, KRoot, KLow, KHigh

\* tc is tb except for entry i of t, which leads to f.
Edit(M, tb, tc, t, i, f) ==
    /\ tc \in [Frames(M) -> [Index -> Entry]]
    /\ tc[t][i].f = f
    /\ \A g \in Frames(M), j \in Index : ~(g = t /\ j = i) => tc[g][j] = tb[g][j]

\* Hanging a taken frame at an entry of a table: a cleared one as a table, or a page.
LEMMA AttachLinked ==
    ASSUME NEW M, Memory(M), NEW L, NEW fr, NEW tb, Linked(M, L, fr, tb),
           NEW t \in Frames(M), NEW i \in Index, L[t] \in TableLevel,
           NEW n \in Frames(M), L[n] = "taken", NEW tc, Edit(M, tb, tc, t, i, n),
           Target(L[t], i) \in Level, L[t] # "root" \/ i = Lo,
           L[t] # "pt" => \A j \in Index : tb[n][j].f = 0
    PROVE  Linked(M, [L EXCEPT ![n] = Target(L[t], i)], fr, tc)
<1> DEFINE l == Target(L[t], i)
           K == [L EXCEPT ![n] = l]
<1>1. l \in {"pdpt", "pd", "pt", "data", "hpd", "hpt"} /\ (L[t] # "pt" => l # "data")
      /\ (L[t] = "pt" => l = "data")
  BY DEF Target, Level, TableLevel, High
<1>2. /\ L \in [Frames(M) -> Level] /\ L[KRoot] = "root" /\ L[KLow] = "pdpt" /\ L[KHigh] = "hpdpt"
      /\ KRoot \in Frames(M) /\ KLow \in Frames(M) /\ KHigh \in Frames(M)
  BY DEF Linked, LevelsOK, Frames, BootFrames
<1>3. n # t /\ n # KRoot /\ n # KLow /\ n # KHigh
  BY <1>2 DEF TableLevel, High
<1>4. /\ K[n] = l /\ l \in Level /\ \A f \in Frames(M) : f # n => K[f] = L[f]
      /\ K \in [Frames(M) -> Level]
  BY <1>1, <1>2 DEF Level, TableLevel
<1> HIDE DEF l, K
<1>5. LevelsOK(M, K)
  BY <1>2, <1>3, <1>4 DEF LevelsOK
<1>6. FreeOK(M, K, fr)
  <2>1. /\ fr \in Seq(M) /\ \A k \in DOMAIN fr : L[fr[k]] = "free" /\ fr[k] \in Frames(M)
        /\ \A j, k \in DOMAIN fr : fr[j] = fr[k] => j = k
    BY DEF Linked, FreeOK, Frames
  <2>2. \A k \in DOMAIN fr : fr[k] # n
    BY <2>1
  <2> QED
    BY <1>4, <2>1, <2>2 DEF FreeOK
<1>7. tc \in [Frames(M) -> [Index -> Entry]] /\ tc[t][i].f = n
      /\ \A g \in Frames(M), j \in Index : ~(g = t /\ j = i) => tc[g][j].f = tb[g][j].f
  BY DEF Edit
<1>8. \A f \in Frames(M), j \in Index : L[f] \in TableLevel => tb[f][j].f # n
  BY <1>2, FrameFacts DEF Linked, PointsOK, Target
<1>9. PointsOK(M, K, tc)
  <2> SUFFICES ASSUME NEW f \in Frames(M), NEW j \in Index, K[f] \in TableLevel
               PROVE  \/ tc[f][j].f = 0
                      \/ tc[f][j].f = Large /\ K[f] \in High
                      \/ tc[f][j].f \in Frames(M) /\ K[tc[f][j].f] = Target(K[f], j)
    BY DEF PointsOK
  <2>1. CASE f = n
    <3>1. L[t] # "pt"
      BY <1>1, <1>4, <2>1 DEF TableLevel, High
    <3> QED
      BY <1>3, <1>7, <2>1, <3>1
  <2>2. CASE f = t /\ j = i
    BY <1>3, <1>4, <1>7, <2>2 DEF l
  <2>3. CASE f # n /\ ~(f = t /\ j = i)
    <3>1. tc[f][j].f = tb[f][j].f /\ K[f] = L[f] /\ tb[f][j].f # n
      BY <1>4, <1>7, <1>8, <2>3
    <3>2. \/ tb[f][j].f = 0
          \/ tb[f][j].f = Large /\ L[f] \in High
          \/ tb[f][j].f \in Frames(M) /\ L[tb[f][j].f] = Target(L[f], j)
      BY <3>1 DEF Linked, PointsOK
    <3> QED
      BY <1>4, <3>1, <3>2
  <2> QED
    BY <2>1, <2>2, <2>3
<1>10. OnceOK(M, L, tb)
  BY DEF Linked
<1>11. OnceOK(M, K, tc)
  <2> SUFFICES ASSUME NEW f \in Frames(M), NEW g \in Frames(M), NEW j \in Index, NEW k \in Index,
                      K[f] \in TableLevel \ {"root"}, K[g] \in TableLevel \ {"root"},
                      tc[f][j].f = tc[g][k].f, tc[f][j].f \in Frames(M)
               PROVE  f = g /\ j = k
    BY DEF OnceOK
  <2>1. ASSUME NEW h \in Frames(M), NEW m \in Index, K[h] \in TableLevel \ {"root"}, tc[h][m].f \in Frames(M)
        PROVE  \/ h = t /\ m = i /\ tc[h][m].f = n
               \/ ~(h = t /\ m = i) /\ tc[h][m].f = tb[h][m].f /\ L[h] \in TableLevel \ {"root"} /\ tb[h][m].f # n
    <3>1. CASE h = t /\ m = i
      BY <1>7, <3>1
    <3>2. CASE h = n
      <4>1. L[t] # "pt"
        BY <1>1, <1>4, <2>1, <3>2 DEF TableLevel, High
      <4>2. tc[h][m].f = 0
        BY <1>3, <1>7, <3>2, <4>1
      <4> QED
        BY <2>1, <4>2, FrameFacts DEF Linked
    <3>3. CASE h # n /\ ~(h = t /\ m = i)
      BY <1>4, <1>7, <1>8, <2>1, <3>3
    <3> QED
      BY <3>1, <3>2, <3>3
  <2>2. CASE f = t /\ j = i
    BY <2>1, <2>2
  <2>3. CASE ~(f = t /\ j = i)
    <3>1. tc[f][j].f = tb[f][j].f /\ L[f] \in TableLevel \ {"root"} /\ tb[f][j].f # n
      BY <2>1, <2>3
    <3>2. tc[g][k].f = tb[g][k].f /\ L[g] \in TableLevel \ {"root"}
      BY <2>1, <3>1
    <3>3. tb[f][j].f = tb[g][k].f /\ tb[f][j].f \in Frames(M)
      BY <3>1, <3>2
    <3> QED
      BY <1>10, <3>1, <3>2, <3>3 DEF OnceOK
  <2> QED
    BY <2>2, <2>3
<1> QED
  BY <1>5, <1>6, <1>7, <1>9, <1>11 DEF Linked, K, l

\* The same links: protections may differ.
LEMMA SameLinksLinked ==
    ASSUME NEW M, NEW L, NEW fr, NEW tb, Linked(M, L, fr, tb),
           NEW tc \in [Frames(M) -> [Index -> Entry]],
           \A f \in Frames(M), i \in Index : tc[f][i].f = tb[f][i].f
    PROVE  Linked(M, L, fr, tc)
<1>1. PointsOK(M, L, tb) /\ OnceOK(M, L, tb)
  BY DEF Linked
<1>2. PointsOK(M, L, tc)
  BY <1>1 DEF PointsOK
<1>3. OnceOK(M, L, tc)
  BY <1>1 DEF OnceOK
<1> QED
  BY <1>2, <1>3 DEF Linked

\* Clearing an entry, or making a large page of one of the card's.
LEMMA ClearLinked ==
    ASSUME NEW M, Memory(M), NEW L, NEW fr, NEW tb, Linked(M, L, fr, tb),
           NEW t \in Frames(M), NEW i \in Index, NEW f, f = 0 \/ (f = Large /\ L[t] \in High),
           NEW tc, Edit(M, tb, tc, t, i, f)
    PROVE  Linked(M, L, fr, tc)
<1>1. PointsOK(M, L, tb) /\ OnceOK(M, L, tb) /\ f \notin Frames(M)
  BY FrameFacts DEF Linked
<1>2. tc \in [Frames(M) -> [Index -> Entry]] /\ tc[t][i].f = f
      /\ \A g \in Frames(M), j \in Index : tc[g][j].f = tb[g][j].f \/ (g = t /\ tc[g][j].f = f)
  BY DEF Edit
<1>3. PointsOK(M, L, tc)
  BY <1>1, <1>2 DEF PointsOK
<1>4. OnceOK(M, L, tc)
  BY <1>1, <1>2 DEF OnceOK
<1> QED
  BY <1>2, <1>3, <1>4 DEF Linked

\* A frame that no entry leads to, and that is not the boot loader's, may be let go.
LEMMA LetGoLinked ==
    ASSUME NEW M, Memory(M), NEW L, NEW fr, NEW tb, Linked(M, L, fr, tb),
           NEW n \in M, L[n] \in {"root", "data"},
           \A f \in Frames(M), i \in Index : L[f] \in TableLevel => tb[f][i].f # n
    PROVE  Linked(M, [L EXCEPT ![n] = "taken"], fr, tb)
<1> DEFINE K == [L EXCEPT ![n] = "taken"]
<1>1. /\ n \in Frames(M) /\ n # KRoot /\ n # KLow /\ n # KHigh
      /\ L \in [Frames(M) -> Level] /\ L[KRoot] = "root" /\ L[KLow] = "pdpt" /\ L[KHigh] = "hpdpt"
      /\ FreeOK(M, L, fr) /\ PointsOK(M, L, tb) /\ OnceOK(M, L, tb)
      /\ tb \in [Frames(M) -> [Index -> Entry]]
  BY DEF Linked, LevelsOK, Memory, Frames, BootFrames
<1>2. K[n] = "taken" /\ \A f \in Frames(M) : f # n => K[f] = L[f]
  BY <1>1
<1>3. K \in [Frames(M) -> Level]
  BY <1>1 DEF Level
<1> HIDE DEF K
<1>4. LevelsOK(M, K)
  BY <1>1, <1>2, <1>3 DEF LevelsOK, Frames, BootFrames
<1>5. FreeOK(M, K, fr)
  <2>1. \A k \in DOMAIN fr : fr[k] \in Frames(M) /\ fr[k] # n
    BY <1>1 DEF FreeOK, Frames
  <2> QED
    BY <1>1, <1>2, <2>1 DEF FreeOK
<1>6. "taken" \notin TableLevel
  BY DEF TableLevel, High
<1>7. PointsOK(M, K, tb)
  BY <1>1, <1>2, <1>6 DEF PointsOK
<1>8. OnceOK(M, K, tb)
  BY <1>1, <1>2, <1>6, SMTT(30) DEF OnceOK
<1> QED
  BY <1>1, <1>4, <1>5, <1>7, <1>8 DEF Linked, K

\* A page is unmapped: its frame hung at this entry only.
LEMMA DetachLinked ==
    ASSUME NEW M, Memory(M), NEW L, NEW fr, NEW tb, Linked(M, L, fr, tb),
           NEW t \in Frames(M), NEW i \in Index, L[t] = "pt", tb[t][i].f # 0,
           NEW tc, Edit(M, tb, tc, t, i, 0)
    PROVE  /\ tb[t][i].f \in M /\ L[tb[t][i].f] = "data"
           /\ Linked(M, [L EXCEPT ![tb[t][i].f] = "taken"], fr, tc)
<1> DEFINE n == tb[t][i].f
<1>1. PointsOK(M, L, tb) /\ OnceOK(M, L, tb) /\ LevelsOK(M, L)
  BY DEF Linked
<1>2. "pt" \in TableLevel /\ "pt" # "root" /\ "pt" \notin High /\ Target("pt", i) = "data"
  BY DEF TableLevel, High, Target
<1>3. n \in Frames(M) /\ L[n] = "data"
  BY <1>1, <1>2 DEF PointsOK
<1>4. n \in M
  BY <1>1, <1>3, FrameFacts
<1> HIDE DEF n
<1>5. tc[t][i].f = 0 /\ \A g \in Frames(M), j \in Index : ~(g = t /\ j = i) => tc[g][j].f = tb[g][j].f
  BY DEF Edit
<1>6. ASSUME NEW f \in Frames(M), NEW j \in Index, L[f] \in TableLevel PROVE tc[f][j].f # n
  <2>1. CASE f = t /\ j = i
    BY <1>1, <1>3, <1>5, <2>1, FrameFacts
  <2>2. CASE L[f] = "root"
    <3>1. Target("root", j) # "data" /\ "root" \notin High
      BY DEF Target, High
    <3>2. tb[f][j].f # n
      BY <1>1, <1>3, <1>6, <2>2, <3>1, FrameFacts DEF PointsOK
    <3>3. f # t
      BY <2>2
    <3> QED
      BY <1>5, <3>2, <3>3
  <2>3. CASE ~(f = t /\ j = i) /\ L[f] # "root"
    <3>1. tb[f][j].f # n
      BY <1>1, <1>2, <1>3, <1>6, <2>3 DEF OnceOK, n
    <3> QED
      BY <1>5, <2>3, <3>1
  <2> QED
    BY <2>1, <2>2, <2>3
<1>7. Linked(M, L, fr, tc)
  BY ClearLinked
<1>8. Linked(M, [L EXCEPT ![n] = "taken"], fr, tc)
  BY <1>3, <1>4, <1>6, <1>7, LetGoLinked
<1> QED
  BY <1>3, <1>4, <1>8 DEF n

\* A taken frame becomes the root of an address space: a copy of the kernel's.
LEMMA CopyRootLinked ==
    ASSUME NEW M, Memory(M), NEW L, NEW fr, NEW tb, Linked(M, L, fr, tb),
           NEW n \in M, L[n] = "taken", NEW tc \in [Frames(M) -> [Index -> Entry]],
           tc[n] = tb[KRoot], \A f \in Frames(M) : f # n => tc[f] = tb[f]
    PROVE  Linked(M, [L EXCEPT ![n] = "root"], fr, tc)
<1> DEFINE K == [L EXCEPT ![n] = "root"]
<1>1. /\ n \in Frames(M) /\ KRoot \in Frames(M) /\ n # KRoot /\ n # KLow /\ n # KHigh
      /\ L \in [Frames(M) -> Level] /\ L[KRoot] = "root" /\ L[KLow] = "pdpt" /\ L[KHigh] = "hpdpt"
      /\ FreeOK(M, L, fr) /\ PointsOK(M, L, tb) /\ OnceOK(M, L, tb)
  BY DEF Linked, LevelsOK, Memory, Frames, BootFrames
<1>2. K[n] = "root" /\ \A f \in Frames(M) : f # n => K[f] = L[f]
  BY <1>1
<1>3. K \in [Frames(M) -> Level]
  BY <1>1 DEF Level, TableLevel
<1> HIDE DEF K
<1>4. LevelsOK(M, K)
  BY <1>1, <1>2, <1>3 DEF LevelsOK, Frames, BootFrames
<1>5. FreeOK(M, K, fr)
  <2>1. \A k \in DOMAIN fr : fr[k] \in Frames(M) /\ fr[k] # n
    BY <1>1 DEF FreeOK, Frames
  <2> QED
    BY <1>1, <1>2, <2>1 DEF FreeOK
<1>6. \A f \in Frames(M), i \in Index : L[f] \in TableLevel => tb[f][i].f # n
  BY <1>1, FrameFacts DEF PointsOK, Target, Linked
<1>7. "root" \in TableLevel
  BY DEF TableLevel
<1>8. PointsOK(M, K, tc)
  <2> SUFFICES ASSUME NEW f \in Frames(M), NEW j \in Index, K[f] \in TableLevel
               PROVE  \/ tc[f][j].f = 0
                      \/ tc[f][j].f = Large /\ K[f] \in High
                      \/ tc[f][j].f \in Frames(M) /\ K[tc[f][j].f] = Target(K[f], j)
    BY DEF PointsOK
  <2>1. PICK h \in Frames(M) : tc[f][j] = tb[h][j] /\ K[f] = L[h] /\ L[h] \in TableLevel
    <3>1. CASE f = n
      BY <1>1, <1>2, <1>7, <3>1
    <3>2. CASE f # n
      BY <1>2, <3>2
    <3> QED
      BY <3>1, <3>2
  <2>2. tb[h][j].f # n
    BY <1>6, <2>1
  <2> QED
    BY <1>1, <1>2, <2>1, <2>2 DEF PointsOK
<1>9. \A f \in Frames(M) : K[f] \in TableLevel \ {"root"} => tc[f] = tb[f] /\ K[f] = L[f]
  BY <1>2
<1>10. OnceOK(M, K, tc)
  <2> SUFFICES ASSUME NEW f \in Frames(M), NEW g \in Frames(M), NEW i \in Index, NEW j \in Index,
                      K[f] \in TableLevel \ {"root"}, K[g] \in TableLevel \ {"root"},
                      tc[f][i].f = tc[g][j].f, tc[f][i].f \in Frames(M)
               PROVE  f = g /\ i = j
    BY DEF OnceOK
  <2>1. tc[f] = tb[f] /\ tc[g] = tb[g] /\ K[f] = L[f] /\ K[g] = L[g] /\ OnceOK(M, L, tb)
    BY <1>1, <1>9
  <2> QED
    BY <2>1 DEF OnceOK
<1> QED
  BY <1>4, <1>5, <1>8, <1>10 DEF Linked, K

\* A taken frame is given back, and cleared.
LEMMA GiveLinked ==
    ASSUME NEW M, Memory(M), NEW L, NEW fr, NEW tb, Linked(M, L, fr, tb),
           NEW n \in M, L[n] = "taken", NEW tc \in [Frames(M) -> [Index -> Entry]],
           \A f \in Frames(M) : f # n => tc[f] = tb[f]
    PROVE  Linked(M, [L EXCEPT ![n] = "free"], Append(fr, n), tc)
<1> DEFINE K == [L EXCEPT ![n] = "free"]
           fs == Append(fr, n)
<1>1. /\ n \in Frames(M) /\ n # KRoot /\ n # KLow /\ n # KHigh
      /\ L \in [Frames(M) -> Level] /\ L[KRoot] = "root" /\ L[KLow] = "pdpt" /\ L[KHigh] = "hpdpt"
      /\ FreeOK(M, L, fr) /\ PointsOK(M, L, tb) /\ OnceOK(M, L, tb)
  BY DEF Linked, LevelsOK, Memory, Frames, BootFrames
<1>2. K[n] = "free" /\ \A f \in Frames(M) : f # n => K[f] = L[f]
  BY <1>1
<1>3. K \in [Frames(M) -> Level]
  BY <1>1 DEF Level
<1>4. /\ fs \in Seq(M) /\ DOMAIN fr = 1 .. Len(fr) /\ DOMAIN fs = 1 .. Len(fr) + 1 /\ Len(fr) \in Nat
      /\ fs[Len(fr) + 1] = n /\ \A k \in 1 .. Len(fr) : fs[k] = fr[k]
  BY <1>1, AppendProperties, LenProperties DEF FreeOK
<1> HIDE DEF K, fs
<1>5. LevelsOK(M, K)
  BY <1>1, <1>2, <1>3 DEF LevelsOK, Frames, BootFrames
<1>6. \A k \in 1 .. Len(fr) : fr[k] \in Frames(M) /\ fr[k] # n /\ L[fr[k]] = "free"
  <2>1. \A k \in 1 .. Len(fr) : fr[k] \in M
    BY <1>1, ElementOfSeq DEF FreeOK
  <2>2. \A k \in 1 .. Len(fr) : L[fr[k]] = "free"
    BY <1>1, <1>4 DEF FreeOK
  <2> QED
    BY <2>1, <2>2 DEF Frames
<1>7. FreeOK(M, K, fs)
  <2>1. ASSUME NEW k \in DOMAIN fs PROVE K[fs[k]] = "free"
    <3>1. k \in 1 .. Len(fr) \/ k = Len(fr) + 1
      BY <1>4
    <3> QED
      BY <1>2, <1>4, <1>6, <3>1
  <2>2. ASSUME NEW j \in DOMAIN fs, NEW k \in DOMAIN fs, fs[j] = fs[k] PROVE j = k
    <3>1. (j \in 1 .. Len(fr) \/ j = Len(fr) + 1) /\ (k \in 1 .. Len(fr) \/ k = Len(fr) + 1)
      BY <1>4
    <3>2. \A a, b \in 1 .. Len(fr) : fr[a] = fr[b] => a = b
      BY <1>1, <1>4 DEF FreeOK
    <3> QED
      BY <1>4, <1>6, <2>2, <3>1, <3>2
  <2> QED
    BY <1>4, <2>1, <2>2 DEF FreeOK
<1>8. "free" \notin TableLevel /\ "taken" \notin TableLevel
  BY DEF TableLevel, High
<1>9. \A f \in Frames(M), i \in Index : L[f] \in TableLevel => tb[f][i].f # n
  BY <1>1, FrameFacts, SMTT(30) DEF PointsOK, Target, Linked
<1>10. PointsOK(M, K, tc)
  <2> SUFFICES ASSUME NEW f \in Frames(M), NEW j \in Index, K[f] \in TableLevel
               PROVE  \/ tc[f][j].f = 0
                      \/ tc[f][j].f = Large /\ K[f] \in High
                      \/ tc[f][j].f \in Frames(M) /\ K[tc[f][j].f] = Target(K[f], j)
    BY DEF PointsOK
  <2>1. f # n /\ tc[f] = tb[f] /\ K[f] = L[f]
    BY <1>2, <1>8
  <2> QED
    BY <1>1, <1>2, <1>9, <2>1 DEF PointsOK
<1>11. \A f \in Frames(M) : K[f] \in TableLevel \ {"root"} => tc[f] = tb[f] /\ K[f] = L[f]
  BY <1>2, <1>8
<1>12. OnceOK(M, K, tc)
  BY <1>1, <1>11 DEF OnceOK
<1> QED
  BY <1>5, <1>7, <1>10, <1>12 DEF Linked, K, fs

\* The last free frame is taken.
LEMMA TakeLinked ==
    ASSUME NEW M, Memory(M), NEW L, NEW fr, NEW tb, Linked(M, L, fr, tb), fr # <<>>
    PROVE  /\ fr[Len(fr)] \in M /\ L[fr[Len(fr)]] = "free"
           /\ Linked(M, [L EXCEPT ![fr[Len(fr)]] = "taken"], Front(fr), tb)
<1> DEFINE m == Len(fr)
           n == fr[m]
           K == [L EXCEPT ![n] = "taken"]
           fs == Front(fr)
<1>1. /\ L \in [Frames(M) -> Level] /\ L[KRoot] = "root" /\ L[KLow] = "pdpt" /\ L[KHigh] = "hpdpt"
      /\ FreeOK(M, L, fr) /\ PointsOK(M, L, tb) /\ OnceOK(M, L, tb) /\ fr \in Seq(M)
  BY DEF Linked, LevelsOK, FreeOK
<1>2. m \in Nat \ {0} /\ DOMAIN fr = 1 .. m /\ \A k \in 1 .. m : fr[k] \in M
  BY <1>1, EmptySeq, LenProperties, ElementOfSeq
<1>3. /\ fs = SubSeq(fr, 1, m - 1)
  BY DEF Front
<1>4. /\ fs \in Seq(M) /\ Len(fs) = m - 1 /\ DOMAIN fs = 1 .. m - 1 /\ \A k \in 1 .. m - 1 : fs[k] = fr[k]
  <2>1. 1 \in Int /\ m - 1 \in Int /\ \A k \in 1 .. m - 1 : k \in 1 .. m
    BY <1>2
  <2>2. fs \in Seq(M) /\ Len(fs) = m - 1
    BY <1>1, <1>2, <1>3, SubSeqProperties
  <2>3. \A k \in 1 .. m - 1 : fs[k] = fr[k]
    BY <1>1, <1>2, <1>3, <2>2, SubSeqProperties
  <2> QED
    BY <2>2, <2>3, LenProperties
<1>5. n \in M /\ L[n] = "free" /\ n \in Frames(M)
  BY <1>1, <1>2 DEF FreeOK, Frames
<1> HIDE DEF fs, m
<1>6. K[n] = "taken" /\ \A f \in Frames(M) : f # n => K[f] = L[f]
  BY <1>1, <1>5
<1>7. K \in [Frames(M) -> Level]
  BY <1>1 DEF Level
<1> HIDE DEF K
<1>8. LevelsOK(M, K)
  BY <1>1, <1>5, <1>6, <1>7 DEF LevelsOK, Frames, BootFrames
<1>9. \A k \in 1 .. m - 1 : k \in 1 .. m /\ m \in 1 .. m /\ k # m
  BY <1>2
<1>10. FreeOK(M, K, fs)
  <2>1. \A j, k \in 1 .. m : fr[j] = fr[k] => j = k
    BY <1>1, <1>2 DEF FreeOK
  <2>2. \A k \in 1 .. m : fr[k] \in Frames(M) /\ L[fr[k]] = "free"
    BY <1>1, <1>2 DEF FreeOK, Frames
  <2>3. \A k \in 1 .. m - 1 : fr[k] # n /\ fr[k] \in Frames(M) /\ L[fr[k]] = "free"
    BY <1>9, <2>1, <2>2
  <2>4. \A k \in DOMAIN fs : K[fs[k]] = "free"
    BY <1>4, <1>6, <2>3
  <2>5. \A j, k \in DOMAIN fs : fs[j] = fs[k] => j = k
    BY <1>4, <1>9, <2>1
  <2> QED
    BY <1>4, <2>4, <2>5 DEF FreeOK
<1>11. "free" \notin TableLevel /\ "taken" \notin TableLevel
  BY DEF TableLevel, High
<1>12. \A f \in Frames(M), i \in Index : L[f] \in TableLevel => tb[f][i].f # n
  BY <1>1, <1>5, FrameFacts DEF PointsOK, Target, Linked
<1>13. PointsOK(M, K, tb)
  BY <1>1, <1>6, <1>11, <1>12 DEF PointsOK
<1>14. OnceOK(M, K, tb)
  BY <1>1, <1>6, <1>11 DEF OnceOK
<1> QED
  BY <1>5, <1>8, <1>10, <1>13, <1>14 DEF Linked, K, fs, m

\* What a taken frame contains does not matter.
LEMMA BlankLinked ==
    ASSUME NEW M, Memory(M), NEW L, NEW fr, NEW tb, Linked(M, L, fr, tb),
           NEW n \in M, L[n] = "taken", NEW tc \in [Frames(M) -> [Index -> Entry]],
           \A f \in Frames(M) : f # n => tc[f] = tb[f]
    PROVE  Linked(M, L, fr, tc)
<1>1. FreeOK(M, L, fr) /\ PointsOK(M, L, tb) /\ OnceOK(M, L, tb) /\ LevelsOK(M, L)
  BY DEF Linked
<1>2. "taken" \notin TableLevel
  BY DEF TableLevel, High
<1>3. \A f \in Frames(M) : L[f] \in TableLevel => tc[f] = tb[f]
  BY <1>2
<1>4. PointsOK(M, L, tc)
  BY <1>1, <1>3 DEF PointsOK
<1>5. OnceOK(M, L, tc)
  BY <1>1, <1>3 DEF OnceOK
<1> QED
  BY <1>1, <1>4, <1>5 DEF Linked

(* The same changes, and the frames that are not lost.                      *)

\* Every table has the two entries of a root.
LEMMA RootIndices == Lo \in Index /\ Hi \in Index /\ Lo # Hi
<1>1. Entries \in Nat \ {0, 1}
  BY VmAssumption DEF VmAssumption
<1> QED
  BY <1>1 DEF Index, Lo, Hi

\* The boot loader's tables are no frames of the page allocator's.
LEMMA BootTables ==
    ASSUME NEW M, Memory(M), NEW L, LevelsOK(M, L)
    PROVE  /\ KRoot \in Frames(M) /\ L[KRoot] = "root" /\ KRoot \notin M
           /\ KLow \notin M /\ KHigh \notin M /\ KLow # 0
           /\ \A f \in M : f \in Frames(M) /\ f # 0
           /\ L \in [Frames(M) -> Level]
BY DEF Memory, LevelsOK, Frames, BootFrames, KLow

\* Hanging a taken frame where nothing hangs.
LEMMA Attach ==
    ASSUME NEW M, Memory(M), NEW L, NEW fr, NEW tb, Owned(M, L, fr, tb),
           NEW t \in Frames(M), NEW i \in Index, L[t] \in TableLevel,
           NEW n \in Frames(M), L[n] = "taken", NEW tc, Edit(M, tb, tc, t, i, n),
           Target(L[t], i) \in Level, L[t] # "root" \/ i = Lo,
           L[t] # "pt" => \A j \in Index : tb[n][j].f = 0,
           LowMapped(tb) => tb[t][i].f = 0
    PROVE  Owned(M, [L EXCEPT ![n] = Target(L[t], i)], fr, tc)
<1> DEFINE l == Target(L[t], i)
           K == [L EXCEPT ![n] = l]
<1>1. Linked(M, L, fr, tb) /\ HungOK(M, L, fr, tb) /\ LevelsOK(M, L)
  BY DEF Owned, Linked
<1>2. Linked(M, K, fr, tc)
  BY <1>1, AttachLinked
<1>3. l \in {"pdpt", "pd", "pt", "data", "hpd", "hpt"} /\ (L[t] # "root" => l # "pdpt")
  BY DEF Target, Level, TableLevel, High
<1>4. n \in M /\ n # t /\ KRoot # n
  <2>1. n \in M
    BY <1>1, FrameFacts
  <2> QED
    BY <1>1, <2>1, BootTables DEF TableLevel, High
<1>5. K[n] = l /\ \A f \in Frames(M) : f # n => K[f] = L[f]
  BY <1>1, BootTables
<1>6. tc[t][i].f = n /\ \A g \in Frames(M), j \in Index : ~(g = t /\ j = i) => tc[g][j] = tb[g][j]
  BY DEF Edit
<1> HIDE DEF l, K
<1>7. HungOK(M, K, fr, tc)
  <2> SUFFICES ASSUME LowMapped(tc)
               PROVE  /\ tc[KRoot][Hi].f = KHigh
                      /\ \A g \in Frames(M) : K[g] = "root" => tc[g][Lo].f = KLow
                      /\ \A f \in M : K[f] \notin {"pdpt", "hpdpt"}
                      /\ \A f \in M : K[f] = "free" => Listed(fr, f)
                      /\ \A f \in M : K[f] \in {"pd", "pt", "hpd", "hpt", "data"} => Hangs(M, K, tc, f)
    BY DEF HungOK
  <2>1. LowMapped(tb) /\ tb[t][i].f = 0
    <3>1. CASE t = KRoot /\ i = Lo
      BY <1>1, <1>4, <1>6, <3>1, BootTables DEF LowMapped
    <3>2. CASE ~(t = KRoot /\ i = Lo)
      BY <1>1, <1>6, <3>2, BootTables, RootIndices DEF LowMapped
    <3> QED
      BY <3>1, <3>2
  <2>2. /\ tb[KRoot][Hi].f = KHigh
        /\ \A g \in Frames(M) : L[g] = "root" => tb[g][Lo].f = KLow
        /\ \A f \in M : L[f] \notin {"pdpt", "hpdpt"}
        /\ \A f \in M : L[f] = "free" => Listed(fr, f)
        /\ \A f \in M : L[f] \in {"pd", "pt", "hpd", "hpt", "data"} => Hangs(M, L, tb, f)
    BY <1>1, <2>1 DEF HungOK
  <2>3. L[t] # "root" /\ l # "pdpt" /\ t # KRoot
    BY <1>1, <1>3, <2>1, <2>2, BootTables
  <2>4. tc[KRoot][Hi].f = KHigh
    BY <1>1, <1>6, <2>2, <2>3, BootTables, RootIndices
  <2>5. ASSUME NEW g \in Frames(M), K[g] = "root" PROVE tc[g][Lo].f = KLow
    <3>1. g # n /\ L[g] = "root" /\ g # t
      BY <1>3, <1>5, <2>3, <2>5
    <3> QED
      BY <1>6, <2>2, <3>1, RootIndices
  <2>6. ASSUME NEW f \in M
        PROVE  K[f] \notin {"pdpt", "hpdpt"} /\ (K[f] = "free" => Listed(fr, f))
    <3>1. f \in Frames(M)
      BY DEF Frames
    <3> QED
      BY <1>3, <1>5, <2>2, <2>3, <3>1
  <2>7. ASSUME NEW f \in M, K[f] \in {"pd", "pt", "hpd", "hpt", "data"} PROVE Hangs(M, K, tc, f)
    <3>1. CASE f = n
      BY <1>4, <1>5, <1>6, <2>3, <3>1 DEF Hangs
    <3>2. CASE f # n
      <4>1. L[f] = K[f]
        BY <1>5, <3>2 DEF Frames
      <4>2. PICK g \in Frames(M), j \in Index : L[g] \in TableLevel \ {"root"} /\ tb[g][j].f = f
        BY <2>2, <2>7, <4>1 DEF Hangs
      <4>3. g # n
        BY <4>2 DEF TableLevel, High
      <4>4. ~(g = t /\ j = i)
        BY <1>1, <2>1, <4>2, BootTables
      <4> QED
        BY <1>5, <1>6, <4>2, <4>3, <4>4 DEF Hangs
    <3> QED
      BY <3>1, <3>2
  <2> QED
    BY <2>4, <2>5, <2>6, <2>7
<1> QED
  BY <1>2, <1>7 DEF Owned, K, l

\* Other protections lose no frame.
LEMMA SameLinks ==
    ASSUME NEW M, NEW L, NEW fr, NEW tb, Owned(M, L, fr, tb),
           NEW tc \in [Frames(M) -> [Index -> Entry]],
           \A f \in Frames(M), i \in Index : tc[f][i].f = tb[f][i].f
    PROVE  Owned(M, L, fr, tc)
<1>1. Linked(M, L, fr, tb) /\ HungOK(M, L, fr, tb)
  BY DEF Owned
<1>2. Linked(M, L, fr, tc)
  BY <1>1, SameLinksLinked
<1>3. \A g \in Frames(M) : tc[g][Lo].f = tb[g][Lo].f /\ tc[g][Hi].f = tb[g][Hi].f
  BY RootIndices
<1>4. KRoot \in Frames(M)
  BY DEF Frames, BootFrames
<1>5. \A f \in M : Hangs(M, L, tb, f) => Hangs(M, L, tc, f)
  BY DEF Hangs
<1>6. HungOK(M, L, fr, tc)
  BY <1>1, <1>3, <1>4, <1>5 DEF HungOK, LowMapped
<1> QED
  BY <1>2, <1>6 DEF Owned

\* A large page of the card's, where no frame hung.
LEMMA Clear ==
    ASSUME NEW M, Memory(M), NEW L, NEW fr, NEW tb, Owned(M, L, fr, tb),
           NEW t \in Frames(M), NEW i \in Index, L[t] \in High, tb[t][i].f \notin M,
           NEW tc, Edit(M, tb, tc, t, i, Large)
    PROVE  Owned(M, L, fr, tc)
<1>1. Linked(M, L, fr, tb) /\ HungOK(M, L, fr, tb) /\ LevelsOK(M, L)
  BY DEF Owned, Linked
<1>2. Linked(M, L, fr, tc)
  BY <1>1, ClearLinked
<1>3. \A g \in Frames(M), j \in Index : ~(g = t /\ j = i) => tc[g][j] = tb[g][j]
  BY DEF Edit
<1>4. \A g \in Frames(M) : L[g] = "root" => tc[g][Lo] = tb[g][Lo] /\ tc[g][Hi] = tb[g][Hi]
  BY <1>3, RootIndices DEF High
<1>5. KRoot \in Frames(M) /\ L[KRoot] = "root"
  BY <1>1, BootTables
<1>6. \A f \in M : Hangs(M, L, tb, f) => Hangs(M, L, tc, f)
  BY <1>3 DEF Hangs
<1>7. HungOK(M, L, fr, tc)
  BY <1>1, <1>4, <1>5, <1>6 DEF HungOK, LowMapped
<1> QED
  BY <1>2, <1>7 DEF Owned

\* The frames that hang still do, and the roots are as they were: what a change of
\* the level of frame n, which is no table below the roots, leaves to show.
LEMMA HungStill ==
    ASSUME NEW M, Memory(M), NEW L, NEW fr, NEW tb, Owned(M, L, fr, tb),
           NEW n \in M, L[n] \notin TableLevel \ {"root"}, NEW K, \A f \in Frames(M) : f # n => K[f] = L[f],
           NEW tc, NEW fs,
           \A g \in Frames(M), j \in Index : L[g] \in TableLevel /\ g # n /\ tc[g][j].f # tb[g][j].f =>
              L[g] # "root" /\ tb[g][j].f = n,
           K[n] \in {"taken", "free", "root"},
           K[n] = "root" => tc[n] = tb[KRoot],
           \A f \in M : f # n /\ Listed(fr, f) => Listed(fs, f),
           K[n] = "free" => Listed(fs, n)
    PROVE  HungOK(M, K, fs, tc)
<1>1. HungOK(M, L, fr, tb) /\ LevelsOK(M, L)
  BY DEF Owned, Linked
<1>2. /\ KRoot \in Frames(M) /\ L[KRoot] = "root" /\ KRoot # n
      /\ \A f \in M : f \in Frames(M)
  BY <1>1, BootTables
<1>3. "root" \in TableLevel
  BY DEF TableLevel
<1>4. \A g \in Frames(M) : L[g] = "root" /\ g # n => tc[g][Lo].f = tb[g][Lo].f /\ tc[g][Hi].f = tb[g][Hi].f
  BY <1>3, RootIndices
<1> SUFFICES ASSUME LowMapped(tc)
             PROVE  /\ tc[KRoot][Hi].f = KHigh
                    /\ \A g \in Frames(M) : K[g] = "root" => tc[g][Lo].f = KLow
                    /\ \A f \in M : K[f] \notin {"pdpt", "hpdpt"}
                    /\ \A f \in M : K[f] = "free" => Listed(fs, f)
                    /\ \A f \in M : K[f] \in {"pd", "pt", "hpd", "hpt", "data"} => Hangs(M, K, tc, f)
  BY DEF HungOK
<1>5. LowMapped(tb)
  BY <1>2, <1>4 DEF LowMapped
<1>6. /\ tb[KRoot][Hi].f = KHigh
      /\ \A g \in Frames(M) : L[g] = "root" => tb[g][Lo].f = KLow
      /\ \A f \in M : L[f] \notin {"pdpt", "hpdpt"}
      /\ \A f \in M : L[f] = "free" => Listed(fr, f)
      /\ \A f \in M : L[f] \in {"pd", "pt", "hpd", "hpt", "data"} => Hangs(M, L, tb, f)
  BY <1>1, <1>5 DEF HungOK
<1>7. tc[KRoot][Hi].f = KHigh
  BY <1>2, <1>4, <1>6
<1>8. \A g \in Frames(M) : K[g] = "root" => tc[g][Lo].f = KLow
  BY <1>2, <1>4, <1>6
<1>9. \A f \in M : K[f] \notin {"pdpt", "hpdpt"} /\ (K[f] = "free" => Listed(fs, f))
  BY <1>2, <1>6
<1>10. ASSUME NEW f \in M, K[f] \in {"pd", "pt", "hpd", "hpt", "data"} PROVE Hangs(M, K, tc, f)
  <2>1. f # n /\ L[f] = K[f]
    BY <1>2, <1>10
  <2>2. PICK g \in Frames(M), j \in Index : L[g] \in TableLevel \ {"root"} /\ tb[g][j].f = f
    BY <1>6, <1>10, <2>1 DEF Hangs
  <2>3. g # n /\ K[g] = L[g]
    BY <2>2
  <2>4. tc[g][j].f = f
    BY <2>1, <2>2, <2>3
  <2> QED
    BY <2>2, <2>3, <2>4 DEF Hangs
<1> QED
  BY <1>7, <1>8, <1>9, <1>10

\* A root is let go.
LEMMA LetGo ==
    ASSUME NEW M, Memory(M), NEW L, NEW fr, NEW tb, Owned(M, L, fr, tb),
           NEW n \in M, L[n] = "root",
           \A f \in Frames(M), i \in Index : L[f] \in TableLevel => tb[f][i].f # n
    PROVE  Owned(M, [L EXCEPT ![n] = "taken"], fr, tb)
<1> DEFINE K == [L EXCEPT ![n] = "taken"]
<1>1. Linked(M, K, fr, tb)
  BY LetGoLinked DEF Owned
<1>2. LevelsOK(M, L)
  BY DEF Owned, Linked
<1>3. K[n] = "taken" /\ \A f \in Frames(M) : f # n => K[f] = L[f]
  BY <1>2, BootTables
<1> HIDE DEF K
<1>4. HungOK(M, K, fr, tb)
  BY <1>3, HungStill
<1> QED
  BY <1>1, <1>4 DEF Owned, K

\* A page is unmapped.
LEMMA Detach ==
    ASSUME NEW M, Memory(M), NEW L, NEW fr, NEW tb, Owned(M, L, fr, tb),
           NEW t \in Frames(M), NEW i \in Index, L[t] = "pt", tb[t][i].f # 0,
           NEW tc, Edit(M, tb, tc, t, i, 0)
    PROVE  /\ tb[t][i].f \in M /\ L[tb[t][i].f] = "data"
           /\ Owned(M, [L EXCEPT ![tb[t][i].f] = "taken"], fr, tc)
<1> DEFINE n == tb[t][i].f
           K == [L EXCEPT ![n] = "taken"]
<1>1. n \in M /\ L[n] = "data" /\ Linked(M, K, fr, tc)
  BY DetachLinked DEF Owned
<1>2. LevelsOK(M, L)
  BY DEF Owned, Linked
<1>3. K[n] = "taken" /\ \A f \in Frames(M) : f # n => K[f] = L[f]
  BY <1>1, <1>2, BootTables
<1>4. \A g \in Frames(M), j \in Index : tc[g][j].f # tb[g][j].f => L[g] # "root" /\ tb[g][j].f = n
  BY DEF Edit
<1> HIDE DEF K, n
<1>5. L[n] \notin TableLevel \ {"root"}
  BY <1>1 DEF TableLevel, High
<1>6. HungOK(M, K, fr, tc)
  BY <1>1, <1>3, <1>4, <1>5, HungStill
<1> QED
  BY <1>1, <1>6 DEF Owned, K, n

\* A new root shares what the kernel's does.
LEMMA CopyRoot ==
    ASSUME NEW M, Memory(M), NEW L, NEW fr, NEW tb, Owned(M, L, fr, tb),
           NEW n \in M, L[n] = "taken", NEW tc \in [Frames(M) -> [Index -> Entry]],
           tc[n] = tb[KRoot], \A f \in Frames(M) : f # n => tc[f] = tb[f]
    PROVE  Owned(M, [L EXCEPT ![n] = "root"], fr, tc)
<1> DEFINE K == [L EXCEPT ![n] = "root"]
<1>1. Linked(M, K, fr, tc)
  BY CopyRootLinked DEF Owned
<1>2. LevelsOK(M, L)
  BY DEF Owned, Linked
<1>3. K[n] = "root" /\ \A f \in Frames(M) : f # n => K[f] = L[f]
  BY <1>2, BootTables
<1> HIDE DEF K
<1>4. L[n] \notin TableLevel \ {"root"}
  BY DEF TableLevel, High
<1>5. HungOK(M, K, fr, tc)
  BY <1>3, <1>4, HungStill
<1> QED
  BY <1>1, <1>5 DEF Owned, K

\* A frame given back is on the stack.
LEMMA Give ==
    ASSUME NEW M, Memory(M), NEW L, NEW fr, NEW tb, Owned(M, L, fr, tb),
           NEW n \in M, L[n] = "taken", NEW tc \in [Frames(M) -> [Index -> Entry]],
           \A f \in Frames(M) : f # n => tc[f] = tb[f]
    PROVE  Owned(M, [L EXCEPT ![n] = "free"], Append(fr, n), tc)
<1> DEFINE K == [L EXCEPT ![n] = "free"]
           fs == Append(fr, n)
<1>1. Linked(M, K, fs, tc)
  BY GiveLinked DEF Owned
<1>2. LevelsOK(M, L) /\ fr \in Seq(M)
  BY DEF Owned, Linked, FreeOK
<1>3. K[n] = "free" /\ \A f \in Frames(M) : f # n => K[f] = L[f]
  BY <1>2, BootTables
<1>4. /\ DOMAIN fr = 1 .. Len(fr) /\ DOMAIN fs = 1 .. Len(fr) + 1 /\ Len(fr) \in Nat
      /\ fs[Len(fr) + 1] = n /\ \A k \in 1 .. Len(fr) : fs[k] = fr[k]
  BY <1>2, AppendProperties, LenProperties
<1> HIDE DEF K, fs
<1>5. Listed(fs, n) /\ \A f \in M : Listed(fr, f) => Listed(fs, f)
  BY <1>4 DEF Listed
<1>6. L[n] \notin TableLevel \ {"root"}
  BY DEF TableLevel, High
<1>7. HungOK(M, K, fs, tc)
  BY <1>3, <1>5, <1>6, HungStill
<1> QED
  BY <1>1, <1>7 DEF Owned, K, fs

\* The frame that leaves the stack is the one taken.
LEMMA Take ==
    ASSUME NEW M, Memory(M), NEW L, NEW fr, NEW tb, Owned(M, L, fr, tb), fr # <<>>
    PROVE  /\ fr[Len(fr)] \in M /\ L[fr[Len(fr)]] = "free"
           /\ Owned(M, [L EXCEPT ![fr[Len(fr)]] = "taken"], Front(fr), tb)
<1> DEFINE m == Len(fr)
           n == fr[m]
           K == [L EXCEPT ![n] = "taken"]
           fs == Front(fr)
<1>1. n \in M /\ L[n] = "free" /\ Linked(M, K, fs, tb)
  BY TakeLinked DEF Owned
<1>2. LevelsOK(M, L) /\ fr \in Seq(M)
  BY DEF Owned, Linked, FreeOK
<1>3. K[n] = "taken" /\ \A f \in Frames(M) : f # n => K[f] = L[f]
  BY <1>1, <1>2, BootTables
<1>4. m \in Nat \ {0} /\ DOMAIN fr = 1 .. m
  BY <1>2, EmptySeq, LenProperties
<1>5. fs = SubSeq(fr, 1, m - 1)
  BY DEF Front
<1>6. DOMAIN fs = 1 .. m - 1 /\ \A k \in 1 .. m - 1 : fs[k] = fr[k]
  <2>1. 1 \in Int /\ m - 1 \in Int /\ \A k \in 1 .. m - 1 : k \in 1 .. m
    BY <1>4
  <2>2. fs \in Seq(M) /\ Len(fs) = m - 1
    BY <1>2, <1>4, <1>5, <2>1, SubSeqProperties
  <2>3. \A k \in 1 .. m - 1 : fs[k] = fr[k]
    BY <1>2, <1>4, <1>5, <2>1, <2>2, SubSeqProperties
  <2> QED
    BY <2>2, <2>3, LenProperties
<1> HIDE DEF m, fs
<1>7. \A f \in M : f # n /\ Listed(fr, f) => Listed(fs, f)
  <2> SUFFICES ASSUME NEW f \in M, f # n, NEW k \in DOMAIN fr, fr[k] = f PROVE Listed(fs, f)
    BY DEF Listed
  <2>1. k # m
    OBVIOUS
  <2>2. k \in 1 .. m - 1
    BY <1>4, <2>1
  <2> QED
    BY <1>6, <2>2 DEF Listed
<1> HIDE DEF n, K
<1>8. L[n] \notin TableLevel \ {"root"}
  BY <1>1 DEF TableLevel, High
<1>9. HungOK(M, K, fs, tb)
  BY <1>1, <1>3, <1>7, <1>8, HungStill
<1> QED
  BY <1>1, <1>9 DEF Owned, K, n, fs, m

\* No frame hangs at a taken one.
LEMMA Blank ==
    ASSUME NEW M, Memory(M), NEW L, NEW fr, NEW tb, Owned(M, L, fr, tb),
           NEW n \in M, L[n] = "taken", NEW tc \in [Frames(M) -> [Index -> Entry]],
           \A f \in Frames(M) : f # n => tc[f] = tb[f]
    PROVE  Owned(M, L, fr, tc)
<1>1. Linked(M, L, fr, tc)
  BY BlankLinked DEF Owned
<1>2. L[n] \notin TableLevel \ {"root"}
  BY DEF TableLevel, High
<1>3. HungOK(M, L, fr, tc)
  BY <1>2, HungStill
<1> QED
  BY <1>1, <1>3 DEF Owned

-----------------------------------------------------------------------------
(* The state record that the operators of Vm pass along.                    *)

Good(M, s, L) ==
    /\ s = [free |-> s.free, tab |-> s.tab, tlb |-> s.tlb]
    /\ Owned(M, L, s.free, s.tab)

\* Whoever is a table stays one.
Keeps(M, L, K) == \A f \in Frames(M) : L[f] \in TableLevel => K[f] = L[f]

\* No frame becomes a root, or is taken at the end.
Quiet(M, L, K) == \A f \in Frames(M) : K[f] \in {"taken", "root"} => L[f] = K[f]

\* Over two calls.
LEMMA QuietTransitive ==
    ASSUME NEW M, NEW L, NEW K, NEW J, Quiet(M, L, K), Quiet(M, K, J)
    PROVE  Quiet(M, L, J)
BY DEF Quiet

\* Over two calls.
LEMMA KeepsTransitive ==
    ASSUME NEW M, NEW L, NEW K, NEW J, Keeps(M, L, K), Keeps(M, K, J)
    PROVE  Keeps(M, L, J)
BY DEF Keeps

\* clks_pmm_alloc_page.
LEMMA Allocated ==
    ASSUME NEW M, Memory(M), NEW s, NEW L, Good(M, s, L), PmmTop(s) # 0
    PROVE  /\ PmmTop(s) \in M /\ L[PmmTop(s)] = "free"
           /\ Good(M, PmmAlloc(s), [L EXCEPT ![PmmTop(s)] = "taken"])
           /\ PmmAlloc(s).tab = s.tab
           /\ Keeps(M, L, [L EXCEPT ![PmmTop(s)] = "taken"])
<1> DEFINE fr == s.free
           n == PmmTop(s)
           x == PmmAlloc(s)
           K == [L EXCEPT ![n] = "taken"]
           fs == Front(fr)
<1>1. s = [free |-> fr, tab |-> s.tab, tlb |-> s.tlb] /\ Owned(M, L, fr, s.tab)
  BY DEF Good
<1>2. fr # <<>> /\ n = fr[Len(fr)]
  BY DEF PmmTop
<1>3. x = [s EXCEPT !.free = fs]
  BY <1>2 DEF PmmAlloc
<1>4. n \in M /\ L[n] = "free" /\ Owned(M, K, fs, s.tab)
  BY <1>1, <1>2, Take
<1> HIDE DEF x, K, fs, n
<1>5. x = [free |-> fs, tab |-> s.tab, tlb |-> s.tlb]
  BY <1>1, <1>3
<1>6. Good(M, x, K) /\ x.tab = s.tab
  BY <1>4, <1>5 DEF Good
<1>7. Keeps(M, L, K)
  <2>1. "free" \notin TableLevel /\ L \in [Frames(M) -> Level]
    BY <1>1 DEF TableLevel, High, Owned, Linked, LevelsOK
  <2> QED
    BY <1>4, <2>1 DEF Keeps, K
<1> QED
  BY <1>4, <1>6, <1>7 DEF x, K, n

\* The stack has room for each frame that is not on it.
LEMMA Room ==
    ASSUME VmAssumption, NEW M, Memory(M), NEW s, NEW L, Good(M, s, L), NEW n \in M, L[n] # "free"
    PROVE  Len(s.free) \in Nat /\ Len(s.free) < MaxTracked
<1> DEFINE fr == s.free
           S == M \ {n}
           k == Len(fr)
<1>1. /\ fr \in Seq(M) /\ \A i, j \in DOMAIN fr : fr[i] = fr[j] => i = j
      /\ \A i \in DOMAIN fr : L[fr[i]] = "free"
      /\ IsFiniteSet(M) /\ Cardinality(M) <= MaxTracked /\ MaxTracked \in Nat
  BY DEF Good, Owned, Linked, FreeOK, Memory, VmAssumption
<1> HIDE DEF fr
<1>2. k \in Nat /\ DOMAIN fr = 1 .. k /\ fr \in [1 .. k -> M]
  BY <1>1, LenProperties, ElementOfSeq
<1> HIDE DEF k
<1>3. fr \in [1 .. k -> S]
  BY <1>1, <1>2
<1>4. fr \in Injection(1 .. k, S)
  BY <1>1, <1>2, <1>3 DEF Injection, IsInjective
<1>5. IsFiniteSet(S) /\ Cardinality(S) = Cardinality(M) - 1 /\ Cardinality(M) \in Nat
  BY <1>1, FS_RemoveElement, FS_CardinalityType
<1> HIDE DEF S
<1>6. Cardinality(1 .. k) <= Cardinality(S)
  BY <1>4, <1>5, FS_Injection
<1>7. Cardinality(1 .. k) = k
  BY <1>2, FS_Interval
<1>8. k < MaxTracked
  BY <1>1, <1>2, <1>5, <1>6, <1>7
<1> QED
  BY <1>2, <1>8 DEF k, fr

\* clks_pmm_free_page: the frame is free; the stack is never full.
LEMMA Freed ==
    ASSUME VmAssumption, NEW M, Memory(M), NEW s, NEW L, Good(M, s, L), NEW n \in M, L[n] = "taken"
    PROVE  \E K : /\ Good(M, PmmFree(s, n), K) /\ Keeps(M, L, K)
                  /\ Quiet(M, L, K) /\ K[n] # "taken"
<1> DEFINE x == PmmFree(s, n)
           fs == Append(s.free, n)
           tc == [s.tab EXCEPT ![n] = Empty]
           K == [L EXCEPT ![n] = "free"]
<1>1. /\ s = [free |-> s.free, tab |-> s.tab, tlb |-> s.tlb] /\ Owned(M, L, s.free, s.tab)
      /\ L \in [Frames(M) -> Level] /\ n \in Frames(M) /\ n # 0
      /\ s.tab \in [Frames(M) -> [Index -> Entry]]
  BY DEF Good, Owned, Linked, LevelsOK, Frames, Memory
<1>2. Empty \in [Index -> Entry]
  BY DEF Empty, NoEntry, Entry
<1>3. tc \in [Frames(M) -> [Index -> Entry]] /\ \A f \in Frames(M) : f # n => tc[f] = s.tab[f]
  BY <1>1, <1>2
<1> HIDE DEF tc
<1>4. Owned(M, K, fs, tc)
  BY <1>1, <1>3, Give
<1>5. "taken" \notin TableLevel
  BY DEF TableLevel, High
<1>6. Keeps(M, L, K) /\ Quiet(M, L, K) /\ K[n] # "taken"
  BY <1>1, <1>5 DEF Keeps, Quiet
<1> HIDE DEF K, fs
<1>7. Len(s.free) \in Nat /\ Len(s.free) < MaxTracked /\ MaxTracked \in Nat
  BY Room DEF VmAssumption
<1>8. ~(Len(s.free) >= MaxTracked)
  BY <1>7
<1>9. x = [s EXCEPT !.free = fs, !.tab[n] = Empty]
  BY <1>1, <1>8 DEF PmmFree, fs
<1>10. x = [s EXCEPT !.free = fs, !.tab = tc]
  BY <1>9 DEF tc
<1> HIDE DEF x
<1>11. x = [free |-> fs, tab |-> tc, tlb |-> s.tlb]
  BY <1>1, <1>10
<1>12. Good(M, x, K)
  BY <1>4, <1>11 DEF Good
<1> QED
  BY <1>6, <1>12 DEF x

\* Whoever is a table or taken stays so, and no other frame is taken or becomes a root.
Steady(M, L, K) ==
    /\ \A f \in Frames(M) : L[f] \in TableLevel \cup {"taken"} => K[f] = L[f]
    /\ Quiet(M, L, K)

\* A walk that keeps tables and taken frames keeps tables.
LEMMA SteadyKeeps ==
    ASSUME NEW M, NEW L, NEW K, Steady(M, L, K)
    PROVE  Keeps(M, L, K) /\ Quiet(M, L, K)
BY DEF Keeps, Steady

\* Over two levels of the walk.
LEMMA SteadyTransitive ==
    ASSUME NEW M, NEW L, NEW K, NEW J, Steady(M, L, K), Steady(M, K, J)
    PROVE  Steady(M, L, J)
BY DEF Steady, Quiet

\* clks_vm_next_table: the table found or hung is one of the next level.
LEMMA NextFound ==
    ASSUME NEW M, Memory(M), NEW s, NEW L, Good(M, s, L), NEW t \in Frames(M), NEW i \in Index,
           L[t] \in TableLevel, Target(L[t], i) \in TableLevel, L[t] # "root" \/ i = Lo
    PROVE  \E K : LET a == NextTable(s, t, i) IN
             /\ Good(M, a.s, K) /\ Steady(M, L, K) /\ a.ok \in BOOLEAN
             /\ a.ok => a.f \in Frames(M) /\ K[a.f] = Target(L[t], i)
<1> DEFINE e == s.tab[t][i].f
           n == PmmTop(s)
           a == NextTable(s, t, i)
<1>1. /\ s = [free |-> s.free, tab |-> s.tab, tlb |-> s.tlb] /\ Owned(M, L, s.free, s.tab)
      /\ L \in [Frames(M) -> Level] /\ LevelsOK(M, L) /\ PointsOK(M, L, s.tab)
      /\ s.tab \in [Frames(M) -> [Index -> Entry]]
  BY DEF Good, Owned, Linked, LevelsOK
<1>2. Steady(M, L, L)
  BY DEF Steady, Quiet
<1>3. CASE e = Large
  <2>1. a = [ok |-> FALSE, s |-> s, f |-> 0]
    BY <1>3, ZenonT(90) DEF NextTable, Large
  <2> QED
    BY <1>2, <2>1
<1>4. CASE e # Large /\ e # 0
  <2>1. a = [ok |-> TRUE, s |-> s, f |-> e]
    BY <1>4, ZenonT(90) DEF NextTable
  <2>2. e \in Frames(M) /\ L[e] = Target(L[t], i)
    BY <1>1, <1>4 DEF PointsOK
  <2> QED
    BY <1>2, <2>1, <2>2
<1>5. CASE e = 0 /\ n = 0
  <2>1. a = [ok |-> FALSE, s |-> s, f |-> 0]
    BY <1>5, ZenonT(90) DEF NextTable, Large
  <2> QED
    BY <1>2, <2>1
<1>6. CASE e = 0 /\ n # 0
  <2> DEFINE p == PmmAlloc(s)
             J == [L EXCEPT ![n] = "taken"]
             tb == [s.tab EXCEPT ![n] = Empty]
             row == [tb[t] EXCEPT ![i] = Pointer(n)]
             tc == [tb EXCEPT ![t] = row]
             x == [p EXCEPT !.tab[n] = Empty, !.tab[t][i] = Pointer(n)]
             l == Target(L[t], i)
             K == [J EXCEPT ![n] = l]
  <2>1. a = [ok |-> TRUE, f |-> n, s |-> x]
    BY <1>6, SMTT(90) DEF NextTable, Large
  <2>2. n \in M /\ L[n] = "free" /\ Good(M, p, J) /\ p.tab = s.tab
    BY <1>6, Allocated
  <2>3. n \in Frames(M) /\ n # t /\ J[n] = "taken" /\ J[t] = L[t] /\ J \in [Frames(M) -> Level]
        /\ \A f \in Frames(M) : f # n => J[f] = L[f]
    BY <1>1, <2>2 DEF Frames, TableLevel, High, Level
  <2>4. x = [p EXCEPT !.tab = tc]
    BY <2>2
  <2>5. tb \in [Frames(M) -> [Index -> Entry]] /\ tb[n] = Empty /\ \A f \in Frames(M) : f # n => tb[f] = s.tab[f]
    BY <1>1, <2>3 DEF Empty, NoEntry, Entry
  <2>6. Owned(M, J, p.free, s.tab) /\ p = [free |-> p.free, tab |-> p.tab, tlb |-> p.tlb]
    BY <2>2 DEF Good
  <2> HIDE DEF tb, p, J, n
  <2>7. Owned(M, J, p.free, tb)
    BY <2>2, <2>3, <2>5, <2>6, Blank
  <2>8. Pointer(n) \in Entry /\ Pointer(n).f = n
    BY <1>1, <2>3, FrameFacts DEF Pointer, Entry
  <2>9. tb[t] \in [Index -> Entry]
    BY <2>5
  <2>10. row \in [Index -> Entry] /\ row[i] = Pointer(n) /\ \A j \in Index : j # i => row[j] = tb[t][j]
    BY <2>8, <2>9
  <2> HIDE DEF row
  <2>11. tc \in [Frames(M) -> [Index -> Entry]] /\ tc[t] = row /\ \A f \in Frames(M) : f # t => tc[f] = tb[f]
    BY <2>5, <2>10
  <2>12. Edit(M, tb, tc, t, i, n)
    BY <2>8, <2>10, <2>11 DEF Edit
  <2> HIDE DEF tc
  <2>13. \A j \in Index : tb[n][j].f = 0
    BY <2>5 DEF Empty, NoEntry
  <2>14. l \in Level /\ J[t] \in TableLevel /\ Target(J[t], i) = l
    BY <2>3 DEF Level
  <2>15. Owned(M, [J EXCEPT ![n] = Target(J[t], i)], p.free, tc)
    <3>1. tb[t][i].f = 0
      BY <1>6, <2>3, <2>5
    <3> QED
      BY <2>3, <2>7, <2>12, <2>13, <2>14, <3>1, Attach
  <2>16. K = [J EXCEPT ![n] = Target(J[t], i)]
    BY <2>3
  <2>17. K[n] = l /\ \A f \in Frames(M) : f # n => K[f] = L[f]
    BY <2>3
  <2> HIDE DEF x, K
  <2>18. x = [free |-> p.free, tab |-> tc, tlb |-> p.tlb]
    BY <2>4, <2>6
  <2>19. Good(M, x, K)
    BY <2>15, <2>16, <2>18 DEF Good
  <2>20. Steady(M, L, K)
    <3>1. "free" \notin TableLevel \cup {"taken"} /\ l \notin {"taken", "root"}
      BY DEF TableLevel, High, Target
    <3> QED
      BY <2>2, <2>17, <3>1 DEF Steady, Quiet, n
  <2> QED
    BY <2>1, <2>3, <2>17, <2>19, <2>20
<1> QED
  BY <1>3, <1>4, <1>5, <1>6

\* The indices of a user page.
LEMMA Indexed ==
    ASSUME VmAssumption, NEW v \in VPages
    PROVE  I1(v) \in Index /\ I2(v) \in Index /\ I3(v) \in Index /\ Lo \in Index
<1>1. Entries \in Nat \ {0, 1} /\ v \in Nat /\ v < Entries * Entries
  <2>1. NPages \in Nat /\ NPages <= Entries * Entries /\ Entries \in Nat \ {0, 1}
    BY DEF VmAssumption
  <2>2. v \in Nat /\ v < NPages
    BY <2>1 DEF VPages
  <2> DEFINE q == Entries * Entries
  <2>3. q \in Nat
    BY <2>1
  <2> HIDE DEF q
  <2>4. v < q
    BY <2>1, <2>2, <2>3 DEF q
  <2> QED
    BY <2>1, <2>2, <2>4 DEF q
<1>2. v % Entries \in 0 .. Entries - 1
  BY <1>1, ModInRange
<1>3. v \div Entries \in 0 .. Entries - 1
  <2> DEFINE q == v \div Entries
             m == v % Entries
  <2>1. v = Entries * q + m /\ q \in Int /\ m \in 0 .. Entries - 1
    BY <1>1, <1>2
  <2> HIDE DEF q, m
  <2>2. q >= 0
    <3>1. CASE q <= -1
      <4>1. Entries * q <= -Entries
        BY <1>1, <2>1, <3>1
      <4> QED
        BY <1>1, <2>1, <4>1
    <3> QED
      BY <2>1, <3>1
  <2>3. q < Entries
    <3>1. CASE q >= Entries
      <4>1. Entries * q >= Entries * Entries
        BY <1>1, <2>1, <3>1
      <4> QED
        BY <1>1, <2>1, <4>1
    <3> QED
      BY <1>1, <2>1, <3>1
  <2> QED
    BY <1>1, <2>1, <2>2, <2>3 DEF q
<1> QED
  BY <1>1, <1>2, <1>3 DEF I1, I2, I3, Index, Lo

\* A page is where its indices say.
LEMMA SamePage ==
    ASSUME VmAssumption, NEW v \in VPages, NEW u \in VPages, I1(v) = I1(u), I2(v) = I2(u)
    PROVE  v = u
<1>1. Entries \in Nat \ {0} /\ v \in Int /\ u \in Int
  BY DEF VmAssumption, VPages
<1>2. v = (Entries * (v \div Entries)) + (v % Entries) /\ u = (Entries * (u \div Entries)) + (u % Entries)
  BY <1>1
<1> QED
  BY <1>2 DEF I1, I2

\* The tables on the walk from root r to page v; 0 where a level is absent.
Pdpt(tb, r) == tb[r][Lo].f
Pd(tb, r, v) == IF Pdpt(tb, r) = 0 THEN 0 ELSE tb[Pdpt(tb, r)][I3(v)].f
Pt(tb, r, v) == IF Pd(tb, r, v) = 0 THEN 0 ELSE tb[Pd(tb, r, v)][I2(v)].f

\* The walk in any tables, when no large page stops it.
LEMMA WalkOf ==
    ASSUME NEW tb, NEW r, r # 0, r # Large, NEW v,
           Pdpt(tb, r) # Large, Pd(tb, r, v) # Large, Pt(tb, r, v) # Large
    PROVE  /\ LeafTable(tb, r, v) = Pt(tb, r, v)
           /\ Translate(tb, r, v) = IF Pt(tb, r, v) = 0 THEN NoEntry ELSE tb[Pt(tb, r, v)][I1(v)]
<1> DEFINE x == Pdpt(tb, r)
           y == Pd(tb, r, v)
           z == Pt(tb, r, v)
<1>1. x = tb[r][Lo].f /\ y = (IF x = 0 THEN 0 ELSE tb[x][I3(v)].f) /\ z = (IF y = 0 THEN 0 ELSE tb[y][I2(v)].f)
  BY DEF Pdpt, Pd, Pt
<1>2. x # Large /\ y # Large /\ z # Large
  OBVIOUS
<1> HIDE DEF x, y, z
<1>3. LeafTable(tb, r, v) = z
  BY <1>1, <1>2 DEF LeafTable, Large
<1> QED
  BY <1>3 DEF Translate, z

\* Below a root there are tables of each level, or an absent one.
LEMMA Walked ==
    ASSUME VmAssumption, NEW M, Memory(M), NEW s, NEW L, Good(M, s, L),
           NEW r \in Frames(M), L[r] = "root", NEW v \in VPages
    PROVE  /\ Pdpt(s.tab, r) = 0 \/ (Pdpt(s.tab, r) \in Frames(M) /\ L[Pdpt(s.tab, r)] = "pdpt")
           /\ Pd(s.tab, r, v) = 0 \/ (Pd(s.tab, r, v) \in Frames(M) /\ L[Pd(s.tab, r, v)] = "pd")
           /\ Pt(s.tab, r, v) = 0 \/ (Pt(s.tab, r, v) \in Frames(M) /\ L[Pt(s.tab, r, v)] = "pt")
           /\ LeafTable(s.tab, r, v) = Pt(s.tab, r, v)
           /\ Translate(s.tab, r, v) =
                 IF Pt(s.tab, r, v) = 0 THEN NoEntry ELSE s.tab[Pt(s.tab, r, v)][I1(v)]
<1> DEFINE tb == s.tab
           x == Pdpt(tb, r)
           y == Pd(tb, r, v)
           z == Pt(tb, r, v)
<1>1. I1(v) \in Index /\ I2(v) \in Index /\ I3(v) \in Index /\ Lo \in Index
  BY Indexed
<1>2. PointsOK(M, L, tb) /\ 0 \notin Frames(M) /\ Large \notin Frames(M) /\ Large # 0
  BY FrameFacts DEF Good, Owned, Linked, Large
<1>3. /\ "root" \in TableLevel \ High /\ "pdpt" \in TableLevel \ High /\ "pd" \in TableLevel \ High
      /\ \A i \in Index : Target("pdpt", i) = "pd" /\ Target("pd", i) = "pt"
      /\ Target("root", Lo) = "pdpt"
  BY DEF TableLevel, High, Target
<1>4. x = 0 \/ (x \in Frames(M) /\ L[x] = "pdpt")
  BY <1>1, <1>2, <1>3 DEF PointsOK, Pdpt
<1>5. y = IF x = 0 THEN 0 ELSE tb[x][I3(v)].f
  BY DEF Pd
<1>6. z = IF y = 0 THEN 0 ELSE tb[y][I2(v)].f
  BY DEF Pt
<1> HIDE DEF x, y, z
<1>7. y = 0 \/ (y \in Frames(M) /\ L[y] = "pd")
  BY <1>1, <1>2, <1>3, <1>4, <1>5 DEF PointsOK
<1>8. z = 0 \/ (z \in Frames(M) /\ L[z] = "pt")
  BY <1>1, <1>2, <1>3, <1>6, <1>7 DEF PointsOK
<1>9. x # Large /\ y # Large /\ z # Large /\ r # 0 /\ r # Large
  BY <1>2, <1>4, <1>7, <1>8
<1> QED
  BY <1>4, <1>7, <1>8, <1>9, WalkOf DEF x, y, z

\* The walk ends at a table of pages, or is stopped by an absent level.
LEMMA LeafFound ==
    ASSUME VmAssumption, NEW M, Memory(M), NEW s, NEW L, Good(M, s, L),
           NEW r \in Frames(M), L[r] = "root", NEW v \in VPages
    PROVE  LET t == LeafTable(s.tab, r, v) IN
             /\ t = 0 \/ (t \in Frames(M) /\ L[t] = "pt")
             /\ Translate(s.tab, r, v) = IF t = 0 THEN NoEntry ELSE s.tab[t][I1(v)]
BY Walked

\* Translations follow from the tables below the root alone.
LEMMA SameWalk ==
    ASSUME VmAssumption, NEW M, Memory(M), NEW s, NEW L, Good(M, s, L),
           NEW r \in Frames(M), L[r] = "root", NEW v \in VPages, NEW tc,
           tc[r][Lo] = s.tab[r][Lo],
           \A f \in Frames(M), i \in Index : L[f] \in {"pdpt", "pd", "pt"} => tc[f][i] = s.tab[f][i]
    PROVE  /\ LeafTable(tc, r, v) = LeafTable(s.tab, r, v)
           /\ Translate(tc, r, v) = Translate(s.tab, r, v)
<1> DEFINE tb == s.tab
           x == Pdpt(tb, r)
           y == Pd(tb, r, v)
           z == Pt(tb, r, v)
<1>1. /\ x = 0 \/ (x \in Frames(M) /\ L[x] = "pdpt")
      /\ y = 0 \/ (y \in Frames(M) /\ L[y] = "pd")
      /\ z = 0 \/ (z \in Frames(M) /\ L[z] = "pt")
      /\ LeafTable(tb, r, v) = z
      /\ Translate(tb, r, v) = IF z = 0 THEN NoEntry ELSE tb[z][I1(v)]
  BY Walked
<1>2. I1(v) \in Index /\ I2(v) \in Index /\ I3(v) \in Index
  BY Indexed
<1>3. 0 \notin Frames(M) /\ Large \notin Frames(M) /\ Large # 0
  BY FrameFacts DEF Good, Owned, Linked, Large
<1>4. Pdpt(tc, r) = x
  BY DEF Pdpt
<1>5. y = (IF x = 0 THEN 0 ELSE tb[x][I3(v)].f) /\ z = (IF y = 0 THEN 0 ELSE tb[y][I2(v)].f)
  BY DEF Pd, Pt
<1> HIDE DEF x, y, z
<1>6. Pd(tc, r, v) = y
  BY <1>1, <1>2, <1>4, <1>5 DEF Pd
<1>7. Pt(tc, r, v) = z
  BY <1>1, <1>2, <1>5, <1>6 DEF Pt
<1>8. r # 0 /\ r # Large /\ x # Large /\ y # Large /\ z # Large
  BY <1>1, <1>3
<1>9. LeafTable(tc, r, v) = z /\ Translate(tc, r, v) = IF z = 0 THEN NoEntry ELSE tc[z][I1(v)]
  BY <1>4, <1>6, <1>7, <1>8, WalkOf
<1>10. z # 0 => tc[z][I1(v)] = tb[z][I1(v)]
  BY <1>1, <1>2
<1> QED
  BY <1>1, <1>9, <1>10

\* Changing the entry of one page changes no other page's translation in any space.
LEMMA EntryEdited ==
    ASSUME VmAssumption, NEW M, Memory(M), NEW s, NEW L, Good(M, s, L),
           NEW q \in Frames(M), L[q] = "root", NEW u \in VPages, LeafTable(s.tab, q, u) # 0,
           NEW tc, \A f \in Frames(M), i \in Index :
                     ~(f = LeafTable(s.tab, q, u) /\ i = I1(u)) => tc[f][i] = s.tab[f][i]
    PROVE  /\ Translate(tc, q, u) = tc[LeafTable(s.tab, q, u)][I1(u)]
           /\ \A r \in Frames(M), v \in VPages : L[r] = "root" /\ v # u =>
                 Translate(tc, r, v) = Translate(s.tab, r, v)
<1> DEFINE tb == s.tab
           t == LeafTable(tb, q, u)
           b == Pd(tb, q, u)
           Walks(r, v) ==
             /\ Pdpt(tb, r) = 0 \/ (Pdpt(tb, r) \in Frames(M) /\ L[Pdpt(tb, r)] = "pdpt")
             /\ Pd(tb, r, v) = 0 \/ (Pd(tb, r, v) \in Frames(M) /\ L[Pd(tb, r, v)] = "pd")
             /\ Pt(tb, r, v) = 0 \/ (Pt(tb, r, v) \in Frames(M) /\ L[Pt(tb, r, v)] = "pt")
             /\ LeafTable(tb, r, v) = Pt(tb, r, v)
             /\ Translate(tb, r, v) = IF Pt(tb, r, v) = 0 THEN NoEntry ELSE tb[Pt(tb, r, v)][I1(v)]
<1>1. \A r \in Frames(M), v \in VPages : L[r] = "root" => Walks(r, v)
  BY Walked
<1>2. \A v \in VPages : I1(v) \in Index /\ I2(v) \in Index /\ I3(v) \in Index /\ Lo \in Index
  BY Indexed
<1>3. 0 \notin Frames(M) /\ Large \notin Frames(M) /\ Large # 0 /\ OnceOK(M, L, tb)
  BY FrameFacts DEF Good, Owned, Linked, Large
<1>4. t \in Frames(M) /\ L[t] = "pt" /\ t = Pt(tb, q, u)
  BY <1>1
<1>5. b \in Frames(M) /\ L[b] = "pd" /\ tb[b][I2(u)].f = t
  BY <1>1, <1>3, <1>4 DEF Pt
<1>6. \A f \in Frames(M), i \in Index : L[f] # "pt" => tc[f][i] = tb[f][i]
  BY <1>4
<1>7. \A f \in Frames(M), i \in Index : ~(f = t /\ i = I1(u)) => tc[f][i] = tb[f][i]
  OBVIOUS
<1> HIDE DEF t, b
<1>8. ASSUME NEW r \in Frames(M), NEW v \in VPages, L[r] = "root"
      PROVE Translate(tc, r, v) = IF Pt(tb, r, v) = 0 THEN NoEntry ELSE tc[Pt(tb, r, v)][I1(v)]
  <2> DEFINE x == Pdpt(tb, r)
             y == Pd(tb, r, v)
             z == Pt(tb, r, v)
  <2>1. /\ x = 0 \/ (x \in Frames(M) /\ L[x] = "pdpt")
        /\ y = 0 \/ (y \in Frames(M) /\ L[y] = "pd")
        /\ z = 0 \/ (z \in Frames(M) /\ L[z] = "pt")
    BY <1>1, <1>8
  <2>2. Pdpt(tc, r) = x
    BY <1>2, <1>6, <1>8 DEF Pdpt
  <2>3. y = (IF x = 0 THEN 0 ELSE tb[x][I3(v)].f) /\ z = (IF y = 0 THEN 0 ELSE tb[y][I2(v)].f)
    BY DEF Pd, Pt
  <2> HIDE DEF x, y, z
  <2>4. Pd(tc, r, v) = y
    BY <1>2, <1>6, <2>1, <2>2, <2>3 DEF Pd
  <2>5. Pt(tc, r, v) = z
    BY <1>2, <1>6, <2>1, <2>3, <2>4, SMTT(90) DEF Pt
  <2>6. r # 0 /\ r # Large /\ x # Large /\ y # Large /\ z # Large
    BY <1>3, <2>1
  <2>7. Translate(tc, r, v) = IF z = 0 THEN NoEntry ELSE tc[z][I1(v)]
    BY <2>2, <2>4, <2>5, <2>6, WalkOf
  <2> QED
    BY <2>7 DEF z
<1>9. Translate(tc, q, u) = tc[t][I1(u)]
  BY <1>3, <1>4, <1>8
<1>10. ASSUME NEW r \in Frames(M), NEW v \in VPages, L[r] = "root", v # u
       PROVE Translate(tc, r, v) = Translate(tb, r, v)
  <2> DEFINE y == Pd(tb, r, v)
             z == Pt(tb, r, v)
  <2>1. /\ y = 0 \/ (y \in Frames(M) /\ L[y] = "pd")
        /\ z = 0 \/ (z \in Frames(M) /\ L[z] = "pt")
        /\ Translate(tb, r, v) = IF z = 0 THEN NoEntry ELSE tb[z][I1(v)]
        /\ Translate(tc, r, v) = IF z = 0 THEN NoEntry ELSE tc[z][I1(v)]
    BY <1>1, <1>8, <1>10
  <2>2. z = IF y = 0 THEN 0 ELSE tb[y][I2(v)].f
    BY DEF Pt
  <2> HIDE DEF y, z
  <2>3. ~(z = t /\ I1(v) = I1(u))
    <3> SUFFICES ASSUME z = t, I1(v) = I1(u) PROVE FALSE
      OBVIOUS
    <3>1. y \in Frames(M) /\ L[y] = "pd" /\ tb[y][I2(v)].f = t
      BY <1>3, <1>4, <2>1, <2>2
    <3>2. "pd" \in TableLevel \ {"root"}
      BY DEF TableLevel
    <3>3. I2(v) = I2(u)
      BY <1>2, <1>3, <1>4, <1>5, <3>1, <3>2 DEF OnceOK
    <3> QED
      BY <1>10, <3>3, SamePage
  <2>4. z # 0 => tc[z][I1(v)] = tb[z][I1(v)]
    BY <1>2, <1>7, <2>1, <2>3
  <2> QED
    BY <2>1, <2>4
<1> QED
  BY <1>9, <1>10 DEF t

\* The TLB holds an entry for each page.
Cached(s) == s.tlb \in [VPages -> Entry]

\* From s to x page v translates as before in every space, and is cached as before.
Same(M, L, s, x, v) ==
    /\ x.tlb[v] = s.tlb[v]
    /\ \A r \in Frames(M) : L[r] = "root" => Translate(x.tab, r, v) = Translate(s.tab, r, v)

\* So does each page, unless it is one of V, which is then cached no longer.
Local(M, L, s, x, V) ==
    /\ Cached(s) => /\ Cached(x)
                    /\ \A v \in VPages : Same(M, L, s, x, v) \/ (v \in V /\ x.tlb[v] = NoEntry)
    /\ LowMapped(x.tab) => LowMapped(s.tab)
    /\ \A r \in Frames(M), v \in VPages \ V :
          L[r] = "root" => Translate(x.tab, r, v) = Translate(s.tab, r, v)

\* Over two calls.
LEMMA LocalTransitive ==
    ASSUME NEW M, NEW L, NEW K, NEW s, NEW x, NEW y, NEW V, NEW W, NEW U, V \subseteq U, W \subseteq U,
           Local(M, L, s, x, V), Keeps(M, L, K), Local(M, K, x, y, W)
    PROVE  Local(M, L, s, y, U)
<1>1. \A r \in Frames(M) : L[r] = "root" => K[r] = "root"
  BY DEF Keeps, TableLevel
<1>2. ASSUME Cached(s) PROVE Cached(x) /\ Cached(y)
  BY <1>2 DEF Local
<1>3. ASSUME Cached(s), NEW v \in VPages PROVE Same(M, L, s, y, v) \/ (v \in U /\ y.tlb[v] = NoEntry)
  <2>1. Same(M, L, s, x, v) \/ (v \in U /\ x.tlb[v] = NoEntry)
    BY <1>3 DEF Local
  <2>2. Same(M, K, x, y, v) \/ (v \in U /\ y.tlb[v] = NoEntry)
    BY <1>2, <1>3 DEF Local
  <2> QED
    BY <1>1, <2>1, <2>2 DEF Same
<1>4. LowMapped(y.tab) => LowMapped(s.tab)
  BY DEF Local
<1>5. ASSUME NEW r \in Frames(M), NEW v \in VPages \ U, L[r] = "root"
      PROVE  Translate(y.tab, r, v) = Translate(s.tab, r, v)
  BY <1>1, <1>5 DEF Local
<1> QED
  BY <1>2, <1>3, <1>4, <1>5 DEF Local

\* A state with the same tables.
LEMMA LocalSame ==
    ASSUME NEW M, NEW L, NEW s, NEW x, x.tab = s.tab, x.tlb = s.tlb, NEW V
    PROVE  Local(M, L, s, x, V)
BY DEF Local, Same, Cached

\* Other tables in which each page translates as before.
LEMMA LocalTables ==
    ASSUME NEW M, NEW L, NEW s, NEW x, x.tlb = s.tlb, NEW V, LowMapped(x.tab) => LowMapped(s.tab),
           \A r \in Frames(M), v \in VPages : L[r] = "root" => Translate(x.tab, r, v) = Translate(s.tab, r, v)
    PROVE  Local(M, L, s, x, V)
BY DEF Local, Same, Cached

\* Another translation of page u, which is no longer cached.
LEMMA LocalEdit ==
    ASSUME NEW M, NEW L, NEW s, NEW x, NEW u \in VPages, x.tlb = [s.tlb EXCEPT ![u] = NoEntry],
           LowMapped(x.tab) => LowMapped(s.tab),
           \A r \in Frames(M), v \in VPages :
              L[r] = "root" /\ v # u => Translate(x.tab, r, v) = Translate(s.tab, r, v)
    PROVE  Local(M, L, s, x, {u})
<1> SUFFICES ASSUME Cached(s)
             PROVE  Cached(x) /\ \A v \in VPages : Same(M, L, s, x, v) \/ (v \in {u} /\ x.tlb[v] = NoEntry)
  BY DEF Local
<1>1. NoEntry \in Entry
  BY DEF NoEntry, Entry
<1>2. Cached(x) /\ x.tlb[u] = NoEntry /\ \A v \in VPages : v # u => x.tlb[v] = s.tlb[v]
  BY <1>1 DEF Cached
<1> QED
  BY <1>2 DEF Same

\* No page of V is mapped, when all spaces share the tables of the low half.
Bare(s, V) == LowMapped(s.tab) => \A v \in V : Translate(s.tab, KRoot, v).f = 0

\* When they do, a page translates alike in all of them.
LEMMA SharedSpace ==
    ASSUME VmAssumption, NEW M, Memory(M), NEW s, NEW L, Good(M, s, L), LowMapped(s.tab),
           NEW r \in Frames(M), L[r] = "root", NEW v \in VPages
    PROVE  Translate(s.tab, r, v) = Translate(s.tab, KRoot, v)
<1> DEFINE tb == s.tab
<1>1. LevelsOK(M, L) /\ HungOK(M, L, s.free, tb)
  BY DEF Good, Owned, Linked
<1>2. KRoot \in Frames(M) /\ L[KRoot] = "root"
  BY <1>1, BootTables
<1>3. Pdpt(tb, r) = Pdpt(tb, KRoot)
  BY <1>1, <1>2 DEF HungOK, Pdpt
<1>4. Pd(tb, r, v) = Pd(tb, KRoot, v)
  BY <1>3 DEF Pd
<1>5. Pt(tb, r, v) = Pt(tb, KRoot, v)
  BY <1>4 DEF Pt
<1>6. Translate(tb, r, v) = IF Pt(tb, r, v) = 0 THEN NoEntry ELSE tb[Pt(tb, r, v)][I1(v)]
  BY Walked
<1>7. Translate(tb, KRoot, v) = IF Pt(tb, KRoot, v) = 0 THEN NoEntry ELSE tb[Pt(tb, KRoot, v)][I1(v)]
  BY <1>2, Walked
<1> QED
  BY <1>5, <1>6, <1>7

\* A page that no space maps.
LEMMA BareFound ==
    ASSUME VmAssumption, NEW M, Memory(M), NEW s, NEW L, Good(M, s, L),
           NEW r \in Frames(M), L[r] = "root", NEW v \in VPages
    PROVE  /\ Translate(s.tab, r, v).f = 0 => Bare(s, {v})
           /\ Bare(s, {v}) /\ LowMapped(s.tab) => Translate(s.tab, r, v).f = 0
<1>1. LowMapped(s.tab) => Translate(s.tab, r, v) = Translate(s.tab, KRoot, v)
  BY SharedSpace
<1> QED
  BY <1>1 DEF Bare

\* A call that leaves a page alone leaves it bare.
LEMMA BareKept ==
    ASSUME NEW M, Memory(M), NEW s, NEW L, Good(M, s, L), NEW W \in SUBSET VPages, Bare(s, W),
           NEW x, NEW V, Local(M, L, s, x, V), W \cap V = {}
    PROVE  Bare(x, W)
<1>1. KRoot \in Frames(M) /\ L[KRoot] = "root"
  BY BootTables DEF Good, Owned, Linked
<1>2. \A v \in W : v \in VPages \ V
  OBVIOUS
<1> QED
  BY <1>1, <1>2 DEF Bare, Local

\* Clearing a frame that is neither a table nor a page.
LEMMA LocalFreed ==
    ASSUME VmAssumption, NEW M, Memory(M), NEW s, NEW L, Good(M, s, L), NEW n \in M, L[n] = "taken"
    PROVE  Local(M, L, s, PmmFree(s, n), {})
<1> DEFINE x == PmmFree(s, n)
           tc == [s.tab EXCEPT ![n] = Empty]
           fs == Append(s.free, n)
<1>1. /\ s = [free |-> s.free, tab |-> s.tab, tlb |-> s.tlb]
      /\ s.tab \in [Frames(M) -> [Index -> Entry]] /\ n \in Frames(M)
  BY DEF Good, Owned, Linked, Frames
<1>2. x = s \/ x = [s EXCEPT !.free = fs, !.tab = tc]
  BY DEF PmmFree
<1>3. \A f \in Frames(M) : f # n => tc[f] = s.tab[f]
  BY <1>1
<1> HIDE DEF x, fs, tc
<1>4. CASE x = s
  BY <1>4, LocalSame DEF x
<1>5. CASE x # s
  <2>1. x.tab = tc /\ x.tlb = s.tlb
    BY <1>1, <1>2, <1>5
  <2>2. ASSUME NEW r \in Frames(M), L[r] = "root", NEW v \in VPages
        PROVE Translate(tc, r, v) = Translate(s.tab, r, v)
    BY <1>3, <2>2, SameWalk
  <2>3. LowMapped(x.tab) => LowMapped(s.tab)
    <3>1. KRoot \in Frames(M) /\ KRoot # n
      BY BootTables DEF Good, Owned, Linked
    <3> QED
      BY <1>3, <2>1, <3>1 DEF LowMapped
  <2>4. Local(M, L, s, x, {})
    BY <2>1, <2>2, <2>3, LocalTables
  <2> QED
    BY <2>4 DEF x
<1> QED
  BY <1>4, <1>5

\* clks_vm_next_table: an empty table hung where none was translates nothing more.
LEMMA NextLocal ==
    ASSUME VmAssumption, NEW M, Memory(M), NEW s, NEW L, Good(M, s, L), NEW t \in Frames(M), NEW i \in Index,
           L[t] \in TableLevel, Target(L[t], i) \in TableLevel, L[t] # "root" \/ i = Lo
    PROVE  LET a == NextTable(s, t, i) IN
             /\ Local(M, L, s, a.s, {})
             /\ a.ok => a.s.tab[t][i].f = a.f /\ a.f # 0
             /\ \A f \in Frames(M), j \in Index :
                   L[f] \in TableLevel /\ s.tab[f][j].f # 0 => a.s.tab[f][j] = s.tab[f][j]
<1> DEFINE e == s.tab[t][i].f
           n == PmmTop(s)
           a == NextTable(s, t, i)
<1>1. /\ s = [free |-> s.free, tab |-> s.tab, tlb |-> s.tlb]
      /\ s.tab \in [Frames(M) -> [Index -> Entry]]
  BY DEF Good, Owned, Linked
<1>2. CASE a = [ok |-> FALSE, s |-> s, f |-> 0] \/ (e # 0 /\ a = [ok |-> TRUE, s |-> s, f |-> e])
  <2>1. Local(M, L, s, s, {})
    BY LocalSame
  <2>2. a.s = s /\ (a.ok => a.f = e /\ e # 0)
    BY <1>2
  <2> HIDE DEF a
  <2>3. Local(M, L, s, a.s, {})
    BY <2>1, <2>2
  <2> QED
    BY <2>2, <2>3 DEF a
<1>3. CASE e = 0 /\ n # 0
  <2> DEFINE p == PmmAlloc(s)
             J == [L EXCEPT ![n] = "taken"]
             tb == [s.tab EXCEPT ![n] = Empty]
             row == [tb[t] EXCEPT ![i] = Pointer(n)]
             tc == [tb EXCEPT ![t] = row]
             x == [p EXCEPT !.tab[n] = Empty, !.tab[t][i] = Pointer(n)]
  <2>1. a = [ok |-> TRUE, f |-> n, s |-> x]
    BY <1>3, SMTT(90) DEF NextTable, Large
  <2>2. n \in M /\ L[n] = "free" /\ Good(M, p, J) /\ p.tab = s.tab
    BY <1>3, Allocated
  <2>3. p = [free |-> p.free, tab |-> p.tab, tlb |-> p.tlb]
    BY <2>2 DEF Good
  <2>4. p.tlb = s.tlb
    <3> DEFINE fs == Front(s.free)
    <3>1. p = s \/ p = [s EXCEPT !.free = fs]
      BY DEF PmmAlloc
    <3> HIDE DEF p, fs
    <3> QED
      BY <1>1, <3>1
  <2>5. n \in Frames(M) /\ n # t
    BY <2>2 DEF Frames, TableLevel, High
  <2>6. x = [p EXCEPT !.tab = tc]
    BY <2>2
  <2>7. tb \in [Frames(M) -> [Index -> Entry]] /\ tb[n] = Empty /\ \A f \in Frames(M) : f # n => tb[f] = s.tab[f]
    BY <1>1, <2>5 DEF Empty, NoEntry, Entry
  <2> HIDE DEF x, p, n, tb
  <2>8. tb[t] \in [Index -> Entry] /\ Pointer(n).f = n
    BY <2>7 DEF Pointer
  <2>9. row[i] = Pointer(n) /\ \A j \in Index : j # i => row[j] = tb[t][j]
    BY <2>8
  <2> HIDE DEF row
  <2>10. tc[t] = row /\ \A f \in Frames(M) : f # t => tc[f] = tb[f]
    BY <2>7
  <2> HIDE DEF tc
  <2>11. /\ tc[t][i].f = n /\ \A j \in Index : tc[n][j] = NoEntry
         /\ \A f \in Frames(M), j \in Index : f # n /\ ~(f = t /\ j = i) => tc[f][j] = s.tab[f][j]
    BY <2>5, <2>7, <2>8, <2>9, <2>10 DEF Empty
  <2>12. x.tab = tc /\ x.tlb = s.tlb
    BY <2>3, <2>4, <2>6
  <2>13. ASSUME NEW r \in Frames(M), L[r] = "root", NEW v \in VPages
         PROVE Translate(tc, r, v) = Translate(s.tab, r, v)
    <3> DEFINE sb == s.tab
               u == Pdpt(sb, r)
               y == Pd(sb, r, v)
               z == Pt(sb, r, v)
               u2 == Pdpt(tc, r)
               y2 == Pd(tc, r, v)
               z2 == Pt(tc, r, v)
    <3>1. /\ u = 0 \/ (u \in Frames(M) /\ L[u] = "pdpt")
          /\ y = 0 \/ (y \in Frames(M) /\ L[y] = "pd")
          /\ z = 0 \/ (z \in Frames(M) /\ L[z] = "pt")
          /\ Translate(sb, r, v) = IF z = 0 THEN NoEntry ELSE sb[z][I1(v)]
      BY <2>13, Walked
    <3>2. I1(v) \in Index /\ I2(v) \in Index /\ I3(v) \in Index /\ Lo \in Index
      BY Indexed
    <3>3. 0 \notin Frames(M) /\ Large \notin Frames(M) /\ Large # 0 /\ NoEntry.f = 0
      BY FrameFacts DEF Good, Owned, Linked, Large, NoEntry
    <3>4. r # 0 /\ r # Large /\ n # 0 /\ n # Large /\ r # n
      BY <2>2, <2>5, <2>13, <3>3
    <3>5. u2 # Large /\ y2 # Large /\ z2 # Large =>
            Translate(tc, r, v) = IF z2 = 0 THEN NoEntry ELSE tc[z2][I1(v)]
      BY <3>4, WalkOf
    <3>6. /\ u = sb[r][Lo].f /\ y = (IF u = 0 THEN 0 ELSE sb[u][I3(v)].f)
          /\ z = (IF y = 0 THEN 0 ELSE sb[y][I2(v)].f)
          /\ u2 = tc[r][Lo].f /\ y2 = (IF u2 = 0 THEN 0 ELSE tc[u2][I3(v)].f)
          /\ z2 = (IF y2 = 0 THEN 0 ELSE tc[y2][I2(v)].f)
      BY DEF Pdpt, Pd, Pt
    <3> HIDE DEF u, y, z, u2, y2, z2
    <3>7. CASE r = t /\ i = Lo
      <4>1. z = 0 /\ u2 = n
        BY <1>3, <2>11, <3>6, <3>7
      <4>2. y2 = 0 /\ z2 = 0
        BY <2>11, <3>2, <3>3, <3>4, <3>6, <4>1
      <4> QED
        BY <3>1, <3>3, <3>4, <3>5, <4>1, <4>2
    <3>8. ASSUME ~(r = t /\ i = Lo) PROVE u2 = u /\ (u = 0 \/ (u \in Frames(M) /\ u # n))
      BY <2>2, <2>11, <3>1, <3>2, <3>4, <3>6, <3>8
    <3>9. CASE ~(r = t /\ i = Lo) /\ u # 0 /\ u = t /\ i = I3(v)
      <4>1. y = 0 /\ z = 0 /\ u2 = u
        BY <1>3, <3>6, <3>8, <3>9
      <4>2. y2 = n
        BY <2>11, <3>6, <3>9, <4>1
      <4>3. z2 = 0
        BY <2>11, <3>2, <3>3, <3>4, <3>6, <4>2
      <4> QED
        BY <3>1, <3>3, <3>4, <3>5, <4>1, <4>2, <4>3
    <3>10. ASSUME ~(r = t /\ i = Lo), ~(u # 0 /\ u = t /\ i = I3(v))
           PROVE u2 = u /\ y2 = y /\ (y = 0 \/ (y \in Frames(M) /\ y # n))
      <4>1. u2 = u /\ (u = 0 \/ (u \in Frames(M) /\ u # n))
        BY <3>8, <3>10
      <4>2. u # 0 => tc[u][I3(v)] = sb[u][I3(v)]
        BY <2>11, <3>2, <3>10, <4>1
      <4> QED
        BY <2>2, <3>1, <3>6, <4>1, <4>2
    <3>11. CASE ~(r = t /\ i = Lo) /\ ~(u # 0 /\ u = t /\ i = I3(v)) /\ y # 0 /\ y = t /\ i = I2(v)
      <4>1. z = 0 /\ y2 = y /\ u2 = u
        BY <1>3, <3>6, <3>10, <3>11
      <4>2. z2 = n
        BY <2>11, <3>6, <3>11, <4>1
      <4>3. tc[n][I1(v)] = NoEntry
        BY <2>11, <3>2
      <4> QED
        BY <3>1, <3>3, <3>4, <3>5, <4>1, <4>2, <4>3
    <3>12. CASE /\ ~(r = t /\ i = Lo) /\ ~(u # 0 /\ u = t /\ i = I3(v))
                /\ ~(y # 0 /\ y = t /\ i = I2(v))
      <4>1. u2 = u /\ y2 = y /\ (y = 0 \/ (y \in Frames(M) /\ y # n))
        BY <3>10, <3>12
      <4>2. y # 0 => tc[y][I2(v)] = sb[y][I2(v)]
        BY <2>11, <3>2, <3>12, <4>1
      <4>3. z2 = z
        BY <3>6, <4>1, <4>2
      <4>4. z = 0 \/ (z \in Frames(M) /\ z # n /\ z # t)
        <5>1. L[t] # "pt"
          BY DEF Target, TableLevel, High
        <5> QED
          BY <2>2, <3>1, <5>1
      <4>5. z # 0 => tc[z][I1(v)] = sb[z][I1(v)]
        BY <2>11, <3>2, <4>4
      <4> QED
        BY <3>1, <3>3, <3>5, <4>1, <4>3, <4>5
    <3> QED
      BY <3>7, <3>9, <3>11, <3>12
  <2>14. Local(M, L, s, x, {})
    <3>1. KRoot \in Frames(M) /\ KRoot # n /\ n # KLow /\ Lo \in Index
      BY <2>2, BootTables, RootIndices DEF Good, Owned, Linked
    <3>2. LowMapped(tc) => LowMapped(s.tab)
      BY <2>11, <3>1 DEF LowMapped
    <3> QED
      BY <2>12, <2>13, <3>2, LocalTables
  <2>15. \A f \in Frames(M), j \in Index : L[f] \in TableLevel /\ s.tab[f][j].f # 0 => tc[f][j] = s.tab[f][j]
    <3>1. "free" \notin TableLevel
      BY DEF TableLevel, High
    <3> QED
      BY <1>3, <2>2, <2>11, <3>1
  <2>16. a.s = x /\ a.ok /\ a.f = n
    BY <2>1
  <2> HIDE DEF a
  <2>17. Local(M, L, s, a.s, {}) /\ a.s.tab = tc
    BY <2>12, <2>14, <2>16
  <2> QED
    BY <1>3, <2>11, <2>15, <2>16, <2>17 DEF a, n
<1>4. \/ a = [ok |-> FALSE, s |-> s, f |-> 0] \/ (e # 0 /\ a = [ok |-> TRUE, s |-> s, f |-> e])
      \/ (e = 0 /\ n # 0)
  BY ZenonT(30) DEF NextTable, Large
<1> QED
  BY <1>2, <1>3, <1>4

\* A walk that hangs what is missing: the tables so far, and the last one.
LEMMA PathFound ==
    ASSUME VmAssumption, NEW M, Memory(M), NEW s, NEW L, Good(M, s, L),
           NEW r \in Frames(M), L[r] = "root", NEW v \in VPages
    PROVE  LET a == NextTable(s, r, Lo)
               b == NextTable(a.s, a.f, I3(v))
               c == NextTable(b.s, b.f, I2(v))
               Reached(x) == \E K : Good(M, x, K) /\ Steady(M, L, K) /\ Local(M, L, s, x, {})
           IN /\ a.ok \in BOOLEAN /\ Reached(a.s)
              /\ a.ok => b.ok \in BOOLEAN /\ Reached(b.s)
              /\ a.ok /\ b.ok =>
                   /\ c.ok \in BOOLEAN
                   /\ \E K : /\ Good(M, c.s, K) /\ Steady(M, L, K) /\ Local(M, L, s, c.s, {})
                             /\ c.ok => /\ c.f \in Frames(M) /\ K[c.f] = "pt"
                                        /\ LeafTable(c.s.tab, r, v) = c.f
<1> DEFINE a == NextTable(s, r, Lo)
           b == NextTable(a.s, a.f, I3(v))
           c == NextTable(b.s, b.f, I2(v))
<1>1. I1(v) \in Index /\ I2(v) \in Index /\ I3(v) \in Index /\ Lo \in Index
  BY Indexed
<1>2. /\ "root" \in TableLevel /\ "pdpt" \in TableLevel /\ "pd" \in TableLevel /\ "pt" \in TableLevel
      /\ \A i \in Index : Target("pdpt", i) = "pd" /\ Target("pd", i) = "pt"
      /\ Target("root", Lo) = "pdpt"
  BY DEF TableLevel, Target
<1>3. 0 \notin Frames(M) /\ Large \notin Frames(M)
  BY FrameFacts DEF Good, Owned, Linked
<1>4. PICK A : /\ Good(M, a.s, A) /\ Steady(M, L, A) /\ a.ok \in BOOLEAN
               /\ a.ok => a.f \in Frames(M) /\ A[a.f] = "pdpt"
  <2>1. \E A : /\ Good(M, a.s, A) /\ Steady(M, L, A) /\ a.ok \in BOOLEAN
               /\ a.ok => a.f \in Frames(M) /\ A[a.f] = Target(L[r], Lo)
    BY <1>1, <1>2, NextFound
  <2> QED
    BY <1>2, <2>1
<1>5. Local(M, L, s, a.s, {}) /\ (a.ok => a.s.tab[r][Lo].f = a.f)
  BY <1>1, <1>2, NextLocal
<1>6. A[r] = "root" /\ Keeps(M, L, A)
  BY <1>2, <1>4, SteadyKeeps DEF Steady
<1> HIDE DEF a
<1>7. CASE ~a.ok
  BY <1>4, <1>5, <1>7 DEF a
<1>8. CASE a.ok
  <2>1. a.f \in Frames(M) /\ A[a.f] \in TableLevel /\ Target(A[a.f], I3(v)) = "pd" /\ A[a.f] # "root"
    BY <1>1, <1>2, <1>4, <1>8
  <2>2. PICK B : /\ Good(M, b.s, B) /\ Steady(M, A, B) /\ b.ok \in BOOLEAN
                 /\ b.ok => b.f \in Frames(M) /\ B[b.f] = "pd"
    <3>1. \E B : /\ Good(M, b.s, B) /\ Steady(M, A, B) /\ b.ok \in BOOLEAN
                 /\ b.ok => b.f \in Frames(M) /\ B[b.f] = Target(A[a.f], I3(v))
      BY <1>1, <1>2, <1>4, <2>1, NextFound
    <3> QED
      BY <2>1, <3>1
  <2>3. /\ Local(M, A, a.s, b.s, {}) /\ (b.ok => b.s.tab[a.f][I3(v)].f = b.f)
        /\ b.s.tab[r][Lo] = a.s.tab[r][Lo]
    <3>1. /\ Local(M, A, a.s, b.s, {}) /\ (b.ok => b.s.tab[a.f][I3(v)].f = b.f)
          /\ \A f \in Frames(M), j \in Index :
                   A[f] \in TableLevel /\ a.s.tab[f][j].f # 0 => b.s.tab[f][j] = a.s.tab[f][j]
      BY <1>1, <1>2, <1>4, <2>1, NextLocal
    <3> QED
      BY <1>1, <1>2, <1>3, <1>5, <1>6, <1>8, <2>1, <3>1
  <2>4. Steady(M, L, B) /\ Local(M, L, s, b.s, {})
    BY <1>4, <1>5, <1>6, <2>2, <2>3, SteadyTransitive, LocalTransitive
  <2>5. B[r] = "root" /\ B[a.f] = "pdpt" /\ Keeps(M, L, B)
    BY <1>2, <1>4, <1>8, <2>1, <2>2, <2>4, SteadyKeeps DEF Steady
  <2> HIDE DEF b
  <2>6. CASE ~b.ok
    BY <1>4, <1>5, <2>2, <2>4, <2>6 DEF a, b
  <2>7. CASE b.ok
    <3>1. b.f \in Frames(M) /\ B[b.f] \in TableLevel /\ Target(B[b.f], I2(v)) = "pt" /\ B[b.f] # "root"
      BY <1>1, <1>2, <2>2, <2>7
    <3>2. PICK C : /\ Good(M, c.s, C) /\ Steady(M, B, C) /\ c.ok \in BOOLEAN
                   /\ c.ok => c.f \in Frames(M) /\ C[c.f] = "pt"
      <4>1. \E C : /\ Good(M, c.s, C) /\ Steady(M, B, C) /\ c.ok \in BOOLEAN
                   /\ c.ok => c.f \in Frames(M) /\ C[c.f] = Target(B[b.f], I2(v))
        BY <1>1, <1>2, <2>2, <3>1, NextFound
      <4> QED
        BY <3>1, <4>1
    <3>3. /\ Local(M, B, b.s, c.s, {}) /\ (c.ok => c.s.tab[b.f][I2(v)].f = c.f)
          /\ c.s.tab[r][Lo] = b.s.tab[r][Lo] /\ c.s.tab[a.f][I3(v)] = b.s.tab[a.f][I3(v)]
      <4>1. /\ Local(M, B, b.s, c.s, {}) /\ (c.ok => c.s.tab[b.f][I2(v)].f = c.f)
            /\ \A f \in Frames(M), j \in Index :
                   B[f] \in TableLevel /\ b.s.tab[f][j].f # 0 => c.s.tab[f][j] = b.s.tab[f][j]
        BY <1>1, <1>2, <2>2, <3>1, NextLocal
      <4> QED
        BY <1>1, <1>2, <1>3, <1>5, <1>8, <2>1, <2>3, <2>5, <2>7, <3>1, <4>1
    <3>4. Steady(M, L, C) /\ Local(M, L, s, c.s, {})
      BY <2>4, <2>5, <3>2, <3>3, SteadyTransitive, LocalTransitive
    <3> HIDE DEF c
    <3>5. c.ok => LeafTable(c.s.tab, r, v) = c.f
      <4> SUFFICES ASSUME c.ok PROVE LeafTable(c.s.tab, r, v) = c.f
        OBVIOUS
      <4> DEFINE tb == c.s.tab
      <4>1. r # 0 /\ r # Large
        BY <1>3
      <4>2. Pdpt(tb, r) = a.f /\ a.f # Large /\ a.f # 0
        BY <1>3, <1>5, <1>8, <2>1, <2>3, <3>3 DEF Pdpt
      <4>3. Pd(tb, r, v) = b.f /\ b.f # Large /\ b.f # 0
        BY <1>3, <2>3, <2>7, <3>1, <3>3, <4>2 DEF Pd
      <4>4. Pt(tb, r, v) = c.f /\ c.f # Large
        BY <1>3, <3>2, <3>3, <4>3 DEF Pt
      <4> QED
        BY <4>1, <4>2, <4>3, <4>4, WalkOf
    <3> QED
      BY <1>4, <1>5, <2>2, <2>4, <3>2, <3>4, <3>5 DEF a, b, c
  <2> QED
    BY <2>2, <2>6, <2>7
<1> QED
  BY <1>4, <1>7, <1>8

\* What mapping page v to frame f may do to s.
MappedOK(M, L, s, r, v, f, w, m) ==
    \E K : /\ m.ok \in BOOLEAN /\ Good(M, m.s, K) /\ Keeps(M, L, K) /\ Local(M, L, s, m.s, {v})
           /\ Quiet(M, L, K) /\ (m.ok <=> K[f] # "taken")
           /\ ~m.ok => Bare(m.s, {v})
           /\ m.ok => Translate(m.s.tab, r, v).f = f /\ Translate(m.s.tab, r, v).w = w

\* clks_vm_map_page_current: the frame becomes a page, or is still taken.
LEMMA Mapped ==
    ASSUME VmAssumption, NEW M, Memory(M), NEW s, NEW L, Good(M, s, L),
           NEW r \in Frames(M), L[r] = "root", NEW v \in VPages, Bare(s, {v}),
           NEW f \in M, L[f] = "taken", NEW w \in BOOLEAN
    PROVE  MappedOK(M, L, s, r, v, f, w, MapPage(s, r, v, f, w))
<1> DEFINE a == NextTable(s, r, Lo)
           b == NextTable(a.s, a.f, I3(v))
           c == NextTable(b.s, b.f, I2(v))
           m == MapPage(s, r, v, f, w)
           Reached(x) == \E K : Good(M, x, K) /\ Steady(M, L, K) /\ Local(M, L, s, x, {})
           i == I1(v)
           p == c.s
           t == c.f
           e == [f |-> f, w |-> w]
           x == [p EXCEPT !.tab[t][i] = e, !.tlb[v] = NoEntry]
<1>1. I1(v) \in Index
  BY Indexed
<1>2. f \in Frames(M)
  BY DEF Frames
<1>3. /\ a.ok \in BOOLEAN /\ Reached(a.s)
      /\ a.ok => b.ok \in BOOLEAN /\ Reached(b.s)
      /\ a.ok /\ b.ok =>
           /\ c.ok \in BOOLEAN
           /\ \E K : /\ Good(M, p, K) /\ Steady(M, L, K) /\ Local(M, L, s, p, {})
                     /\ c.ok => /\ t \in Frames(M) /\ K[t] = "pt"
                                /\ LeafTable(p.tab, r, v) = t
  BY PathFound
<1>4. m = IF ~a.ok THEN [ok |-> FALSE, s |-> a.s]
          ELSE IF ~b.ok THEN [ok |-> FALSE, s |-> b.s]
          ELSE IF ~c.ok THEN [ok |-> FALSE, s |-> p]
          ELSE [ok |-> TRUE, s |-> x]
  BY DEF MapPage
<1> HIDE DEF m, a, b, c, i
<1>5. ASSUME NEW y, Reached(y), m = [ok |-> FALSE, s |-> y]
      PROVE \E K : /\ m.ok = FALSE /\ Good(M, m.s, K) /\ Keeps(M, L, K) /\ Local(M, L, s, m.s, {v})
                   /\ K[f] = "taken" /\ Quiet(M, L, K) /\ Bare(m.s, {v})
  <2>1. PICK K : Good(M, y, K) /\ Steady(M, L, K) /\ Local(M, L, s, y, {})
    BY <1>5
  <2>2. K[f] = "taken" /\ Keeps(M, L, K) /\ Quiet(M, L, K) /\ Keeps(M, K, K)
    BY <1>2, <2>1, SteadyKeeps DEF Steady, Keeps
  <2>3. Local(M, K, y, y, {})
    BY LocalSame
  <2>4. Local(M, L, s, y, {v})
    BY <2>1, <2>2, <2>3, LocalTransitive
  <2>5. Bare(y, {v})
    BY <2>1, BareKept
  <2> QED
    BY <1>5, <2>1, <2>2, <2>4, <2>5
<1>6. CASE ~(a.ok /\ b.ok /\ c.ok)
  <2>1. \E y : Reached(y) /\ m = [ok |-> FALSE, s |-> y]
    BY <1>3, <1>4, <1>6
  <2> HIDE DEF Reached
  <2>2. PICK K : /\ m.ok = FALSE /\ Good(M, m.s, K) /\ Keeps(M, L, K) /\ Local(M, L, s, m.s, {v})
                 /\ K[f] = "taken" /\ Quiet(M, L, K) /\ Bare(m.s, {v})
    BY <1>5, <2>1
  <2>3. MappedOK(M, L, s, r, v, f, w, m)
    BY <2>2 DEF MappedOK
  <2> QED
    BY <2>3 DEF m
<1>7. CASE a.ok /\ b.ok /\ c.ok
  <2> DEFINE row == [p.tab[t] EXCEPT ![i] = e]
             tc == [p.tab EXCEPT ![t] = row]
             tl == [p.tlb EXCEPT ![v] = NoEntry]
  <2>1. PICK C : /\ Good(M, p, C) /\ Steady(M, L, C) /\ Local(M, L, s, p, {})
                 /\ t \in Frames(M) /\ C[t] = "pt" /\ LeafTable(p.tab, r, v) = t
    BY <1>3, <1>7
  <2> DEFINE K == [C EXCEPT ![f] = "data"]
  <2>2. C[f] = "taken" /\ Keeps(M, L, C) /\ Quiet(M, L, C) /\ C[r] = "root"
    BY <1>2, <2>1, SteadyKeeps DEF Steady, TableLevel
  <2>3. m = [ok |-> TRUE, s |-> x]
    BY <1>4, <1>7
  <2>4. x = [p EXCEPT !.tab = tc, !.tlb = tl]
    OBVIOUS
  <2>5. /\ p = [free |-> p.free, tab |-> p.tab, tlb |-> p.tlb] /\ Owned(M, C, p.free, p.tab)
        /\ p.tab \in [Frames(M) -> [Index -> Entry]] /\ C \in [Frames(M) -> Level]
    BY <2>1 DEF Good, Owned, Linked, LevelsOK
  <2>6. i \in Index
    BY <1>1 DEF i
  <2> HIDE DEF p, t, x, tl
  <2>7. e \in Entry /\ e.f = f
    BY FrameFacts, <1>2, <2>5 DEF Entry, Owned, Linked
  <2> HIDE DEF e
  <2>8. p.tab[t] \in [Index -> Entry]
    BY <2>1, <2>5
  <2>9. row \in [Index -> Entry] /\ row[i] = e /\ \A j \in Index : j # i => row[j] = p.tab[t][j]
    BY <2>6, <2>7, <2>8
  <2> HIDE DEF row
  <2>10. /\ tc \in [Frames(M) -> [Index -> Entry]] /\ tc[t] = row
         /\ \A g \in Frames(M) : g # t => tc[g] = p.tab[g]
    BY <2>1, <2>5, <2>9
  <2> HIDE DEF tc
  <2>11. Edit(M, p.tab, tc, t, i, f)
    BY <2>7, <2>9, <2>10 DEF Edit
  <2>12. Target(C[t], i) = "data" /\ "data" \in Level /\ C[t] \in TableLevel /\ C[t] # "root"
    BY <2>1 DEF Level, Target, TableLevel
  <2>27. LowMapped(p.tab) => p.tab[t][i].f = 0
    <3>1. Bare(p, {v})
      BY <2>1, BareKept
    <3>2. LowMapped(p.tab) => Translate(p.tab, r, v).f = 0
      BY <2>1, <2>2, <3>1, BareFound
    <3>3. t # 0
      BY <2>1, <2>5, FrameFacts DEF Owned, Linked
    <3>4. Translate(p.tab, r, v) = p.tab[t][i]
      BY <2>1, <2>2, <3>3, LeafFound DEF i
    <3> QED
      BY <3>2, <3>4
  <2>13. Owned(M, [C EXCEPT ![f] = Target(C[t], i)], p.free, tc)
    BY <1>2, <2>1, <2>2, <2>5, <2>6, <2>11, <2>12, <2>27, Attach, ZenonT(60)
  <2>14. x = [free |-> p.free, tab |-> tc, tlb |-> tl]
    BY <2>4, <2>5
  <2>15. Good(M, x, K)
    BY <2>12, <2>13, <2>14 DEF Good
  <2>16. Keeps(M, L, K) /\ Quiet(M, L, K) /\ K[f] # "taken"
    <3>1. "taken" \notin TableLevel
      BY DEF TableLevel, High
    <3> QED
      BY <1>2, <2>2, <2>5, <3>1 DEF Keeps, Quiet
  <2>17. t # 0
    BY <2>1, <2>5, FrameFacts DEF Owned, Linked
  <2>18. \A g \in Frames(M), j \in Index : ~(g = t /\ j = i) => tc[g][j] = p.tab[g][j]
    BY <2>9, <2>10
  <2>19. /\ Translate(tc, r, v) = tc[t][i]
         /\ \A q \in Frames(M), u \in VPages : C[q] = "root" /\ u # v =>
               Translate(tc, q, u) = Translate(p.tab, q, u)
    BY <2>1, <2>2, <2>17, <2>18, EntryEdited DEF i
  <2>20. x.tlb = [p.tlb EXCEPT ![v] = NoEntry] /\ x.tab = tc
    BY <2>14 DEF tl
  <2>21. Local(M, C, p, x, {v})
    <3>1. LowMapped(tc) => LowMapped(p.tab)
      <4>1. LevelsOK(M, C) /\ C[t] # "root"
        BY <2>1, <2>5 DEF Owned, Linked
      <4>2. KRoot \in Frames(M) /\ KRoot # t /\ Lo \in Index
        BY <4>1, BootTables, RootIndices
      <4> QED
        BY <2>18, <4>2 DEF LowMapped
    <3> QED
      BY <2>19, <2>20, <3>1, LocalEdit
  <2>22. Local(M, L, s, x, {v})
    BY <2>1, <2>2, <2>21, LocalTransitive
  <2>23. Translate(x.tab, r, v) = e
    BY <2>9, <2>10, <2>19, <2>20
  <2>24. e.f = f /\ e.w = w
    BY DEF e
  <2>25. m.ok = TRUE /\ m.s = x
    BY <2>3
  <2> HIDE DEF K
  <2>26. MappedOK(M, L, s, r, v, f, w, m)
    BY <2>15, <2>16, <2>22, <2>23, <2>24, <2>25 DEF MappedOK
  <2> QED
    BY <2>26 DEF m
<1> QED
  BY <1>6, <1>7

\* clks_vm_unmap_page_current and clks_pmm_free_page: the frame hung nowhere else.
LEMMA Unmapped ==
    ASSUME VmAssumption, NEW M, Memory(M), NEW s, NEW L, Good(M, s, L),
           NEW r \in Frames(M), L[r] = "root", NEW v \in VPages
    PROVE  \E K : /\ Good(M, UnmapPage(s, r, v), K) /\ Keeps(M, L, K) /\ Quiet(M, L, K)
                  /\ Local(M, L, s, UnmapPage(s, r, v), {v}) /\ Bare(UnmapPage(s, r, v), {v})
<1> DEFINE t == LeafTable(s.tab, r, v)
           i == I1(v)
           f == Translate(s.tab, r, v).f
           x == UnmapPage(s, r, v)
           y == [s EXCEPT !.tab[t][i] = NoEntry, !.tlb[v] = NoEntry]
           row == [s.tab[t] EXCEPT ![i] = NoEntry]
           tc == [s.tab EXCEPT ![t] = row]
           tl == [s.tlb EXCEPT ![v] = NoEntry]
<1>1. /\ t = 0 \/ (t \in Frames(M) /\ L[t] = "pt")
      /\ Translate(s.tab, r, v) = IF t = 0 THEN NoEntry ELSE s.tab[t][i]
  BY LeafFound
<1>2. i \in Index
  BY Indexed
<1>3. /\ s = [free |-> s.free, tab |-> s.tab, tlb |-> s.tlb] /\ Owned(M, L, s.free, s.tab)
      /\ s.tab \in [Frames(M) -> [Index -> Entry]] /\ L \in [Frames(M) -> Level]
  BY DEF Good, Owned, Linked, LevelsOK
<1>4. x = IF f = 0 THEN s ELSE PmmFree(y, f)
  BY DEF UnmapPage
<1>5. y = [s EXCEPT !.tab = tc, !.tlb = tl]
  OBVIOUS
<1> HIDE DEF t, i, x, y, tl
<1>6. CASE f = 0
  <2>1. x = s /\ Keeps(M, L, L) /\ Quiet(M, L, L)
    BY <1>4, <1>6 DEF Keeps, Quiet
  <2>2. Local(M, L, s, x, {v})
    BY <2>1, LocalSame
  <2>3. Bare(x, {v})
    BY <1>6, <2>1, BareFound
  <2> QED
    BY <2>1, <2>2, <2>3 DEF x
<1>7. CASE f # 0
  <2>1. t \in Frames(M) /\ L[t] = "pt" /\ f = s.tab[t][i].f
    BY <1>1, <1>7 DEF NoEntry
  <2> HIDE DEF f
  <2>2. s.tab[t] \in [Index -> Entry] /\ NoEntry \in Entry /\ NoEntry.f = 0
    BY <1>3, <2>1 DEF NoEntry, Entry
  <2>3. row \in [Index -> Entry] /\ row[i] = NoEntry /\ \A j \in Index : j # i => row[j] = s.tab[t][j]
    BY <1>2, <2>2
  <2> HIDE DEF row
  <2>4. /\ tc \in [Frames(M) -> [Index -> Entry]] /\ tc[t] = row
        /\ \A g \in Frames(M) : g # t => tc[g] = s.tab[g]
    BY <1>3, <2>1, <2>3
  <2>5. Edit(M, s.tab, tc, t, i, 0)
    BY <2>2, <2>3, <2>4 DEF Edit
  <2> HIDE DEF tc
  <2> DEFINE J == [L EXCEPT ![f] = "taken"]
  <2>6. s.tab[t][i].f # 0
    BY <1>7, <2>1
  <2>7. /\ s.tab[t][i].f \in M /\ L[s.tab[t][i].f] = "data"
         /\ Owned(M, [L EXCEPT ![s.tab[t][i].f] = "taken"], s.free, tc)
    BY <1>2, <1>3, <2>1, <2>5, <2>6, Detach
  <2>8. f \in M /\ L[f] = "data" /\ Owned(M, J, s.free, tc)
    BY <2>1, <2>7
  <2>9. y = [free |-> s.free, tab |-> tc, tlb |-> tl]
    BY <1>3, <1>5
  <2>10. Good(M, y, J)
    BY <2>8, <2>9 DEF Good
  <2>11. J[f] = "taken" /\ Keeps(M, L, J) /\ \A g \in Frames(M) : g # f => J[g] = L[g]
    <3>1. "data" \notin TableLevel /\ f \in Frames(M)
      BY <2>8 DEF TableLevel, High, Frames
    <3> QED
      BY <1>3, <2>8, <3>1 DEF Keeps
  <2> HIDE DEF J
  <2>12. PICK K : Good(M, PmmFree(y, f), K) /\ Keeps(M, J, K) /\ Quiet(M, J, K) /\ K[f] # "taken"
    BY <2>8, <2>10, <2>11, Freed
  <2>13. Keeps(M, L, K) /\ Quiet(M, L, K)
    <3>1. Quiet(M, L, K)
      BY <2>11, <2>12 DEF Quiet
    <3> QED
      BY <2>11, <2>12, <3>1, KeepsTransitive
  <2>14. t # 0 /\ t = LeafTable(s.tab, r, v)
    BY <2>1, <1>3, FrameFacts DEF Owned, Linked, t
  <2>15. \A g \in Frames(M), j \in Index : ~(g = t /\ j = i) => tc[g][j] = s.tab[g][j]
    BY <2>3, <2>4
  <2>16. \A q \in Frames(M), u \in VPages : L[q] = "root" /\ u # v =>
            Translate(tc, q, u) = Translate(s.tab, q, u)
    BY <2>14, <2>15, EntryEdited DEF i
  <2>17. y.tlb = [s.tlb EXCEPT ![v] = NoEntry] /\ y.tab = tc
    BY <2>9 DEF tl
  <2>18. Local(M, L, s, y, {v})
    <3>1. LowMapped(tc) => LowMapped(s.tab)
      <4>1. LevelsOK(M, L) /\ L[t] # "root"
        BY <1>3, <2>1 DEF Owned, Linked
      <4>2. KRoot \in Frames(M) /\ KRoot # t /\ Lo \in Index
        BY <4>1, BootTables, RootIndices
      <4> QED
        BY <2>15, <4>2 DEF LowMapped
    <3> QED
      BY <2>16, <2>17, <3>1, LocalEdit
  <2>19. Local(M, J, y, PmmFree(y, f), {})
    BY <2>8, <2>10, <2>11, LocalFreed
  <2>20. Local(M, L, s, PmmFree(y, f), {v})
    BY <2>11, <2>18, <2>19, LocalTransitive
  <2>21. Bare(PmmFree(y, f), {v})
    <3>1. Translate(tc, r, v).f = 0
      BY <2>2, <2>3, <2>4, <2>14, <2>15, EntryEdited DEF i
    <3>2. J[r] = "root"
      BY <2>11 DEF Keeps, TableLevel
    <3>3. Bare(y, {v})
      BY <2>10, <2>17, <3>1, <3>2, BareFound
    <3> QED
      BY <2>10, <2>19, <3>3, BareKept
  <2> QED
    BY <1>4, <1>7, <2>12, <2>13, <2>20, <2>21 DEF x
<1> QED
  BY <1>6, <1>7

\* What protecting page v of s may make of it.
ProtectedOK(M, L, s, r, v, w, x) ==
    /\ Good(M, x, L) /\ Local(M, L, s, x, {v})
    /\ Translate(s.tab, r, v).f # 0 =>
         Translate(x.tab, r, v).f = Translate(s.tab, r, v).f /\ Translate(x.tab, r, v).w = w

\* clks_vm_protect_page_current: links stay as they are.
LEMMA Protected ==
    ASSUME VmAssumption, NEW M, Memory(M), NEW s, NEW L, Good(M, s, L),
           NEW r \in Frames(M), L[r] = "root", NEW v \in VPages, NEW w \in BOOLEAN
    PROVE  ProtectedOK(M, L, s, r, v, w, ProtectPage(s, r, v, w))
<1> DEFINE t == LeafTable(s.tab, r, v)
           i == I1(v)
           x == ProtectPage(s, r, v, w)
           e == [s.tab[t][i] EXCEPT !.w = w]
           row == [s.tab[t] EXCEPT ![i] = e]
           tc == [s.tab EXCEPT ![t] = row]
           tl == [s.tlb EXCEPT ![v] = NoEntry]
<1>1. /\ t = 0 \/ (t \in Frames(M) /\ L[t] = "pt")
      /\ Translate(s.tab, r, v) = IF t = 0 THEN NoEntry ELSE s.tab[t][i]
  BY LeafFound
<1>2. i \in Index
  BY Indexed
<1>3. /\ s = [free |-> s.free, tab |-> s.tab, tlb |-> s.tlb] /\ Owned(M, L, s.free, s.tab)
      /\ s.tab \in [Frames(M) -> [Index -> Entry]]
  BY DEF Good, Owned, Linked
<1>4. CASE Translate(s.tab, r, v).f = 0
  <2>1. x = s
    BY <1>4 DEF ProtectPage
  <2>2. Local(M, L, s, x, {v})
    BY <2>1, LocalSame
  <2> QED
    BY <1>4, <2>1, <2>2 DEF ProtectedOK
<1>5. CASE Translate(s.tab, r, v).f # 0
  <2>1. x = [s EXCEPT !.tab[t][i].w = w, !.tlb[v] = NoEntry]
    BY <1>5 DEF ProtectPage
  <2>2. x = [s EXCEPT !.tab = tc, !.tlb = tl]
    BY <2>1
  <2>3. t \in Frames(M) /\ Translate(s.tab, r, v) = s.tab[t][i]
    BY <1>1, <1>5 DEF NoEntry
  <2>4. t # 0 /\ t = LeafTable(s.tab, r, v)
    BY <1>3, <2>3, FrameFacts DEF Owned, Linked
  <2> HIDE DEF x, t, i, tl
  <2>5. s.tab[t][i] \in Entry /\ s.tab[t] \in [Index -> Entry]
    BY <1>2, <1>3, <2>3
  <2>6. e \in Entry /\ e.f = s.tab[t][i].f /\ e.w = w
    BY <2>5 DEF Entry
  <2> HIDE DEF e
  <2>7. row \in [Index -> Entry] /\ row[i] = e /\ \A j \in Index : j # i => row[j] = s.tab[t][j]
    BY <1>2, <2>5, <2>6
  <2> HIDE DEF row
  <2>8. /\ tc \in [Frames(M) -> [Index -> Entry]] /\ tc[t] = row
        /\ \A g \in Frames(M) : g # t => tc[g] = s.tab[g]
    BY <1>3, <2>3, <2>7
  <2> HIDE DEF tc
  <2>9. \A g \in Frames(M), j \in Index : tc[g][j].f = s.tab[g][j].f
    BY <2>6, <2>7, <2>8
  <2>10. Owned(M, L, s.free, tc)
    BY <1>3, <2>8, <2>9, SameLinks
  <2>11. x = [free |-> s.free, tab |-> tc, tlb |-> tl]
    BY <1>3, <2>2
  <2>12. Good(M, x, L)
    BY <2>10, <2>11 DEF Good
  <2>13. \A g \in Frames(M), j \in Index : ~(g = t /\ j = i) => tc[g][j] = s.tab[g][j]
    BY <2>7, <2>8
  <2>14. /\ Translate(tc, r, v) = tc[t][i]
         /\ \A q \in Frames(M), u \in VPages : L[q] = "root" /\ u # v =>
               Translate(tc, q, u) = Translate(s.tab, q, u)
    BY <2>4, <2>13, EntryEdited DEF i
  <2>15. x.tlb = [s.tlb EXCEPT ![v] = NoEntry] /\ x.tab = tc
    BY <2>11 DEF tl
  <2>16. Local(M, L, s, x, {v})
    <3>1. LowMapped(tc) => LowMapped(s.tab)
      <4>1. LevelsOK(M, L) /\ L[t] # "root"
        BY <1>1, <1>3, <2>3, <2>4 DEF Owned, Linked
      <4>2. KRoot \in Frames(M) /\ KRoot # t /\ Lo \in Index
        BY <4>1, BootTables, RootIndices
      <4> QED
        BY <2>13, <4>2 DEF LowMapped
    <3> QED
      BY <2>14, <2>15, <3>1, LocalEdit
  <2>17. Translate(x.tab, r, v).f = Translate(s.tab, r, v).f /\ Translate(x.tab, r, v).w = w
    BY <2>3, <2>6, <2>7, <2>8, <2>14, <2>15
  <2> QED
    BY <2>12, <2>16, <2>17 DEF x, ProtectedOK
<1> QED
  BY <1>4, <1>5

-----------------------------------------------------------------------------
(* The loops over pages.                                                    *)

\* Unmapping page after page.
LEMMA UnmappedEach ==
    ASSUME VmAssumption, NEW M, Memory(M), NEW s, NEW L, Good(M, s, L),
           NEW r \in Frames(M), L[r] = "root", NEW pages, Len(pages) \in Nat, NEW V \in SUBSET VPages,
           \A k \in 1 .. Len(pages) : pages[k] \in V
    PROVE  \E K : /\ Good(M, UnmapEach(s, r, pages), K) /\ Keeps(M, L, K) /\ Quiet(M, L, K)
                  /\ Local(M, L, s, UnmapEach(s, r, pages), V)
                  /\ \A k \in 1 .. Len(pages) : Bare(UnmapEach(s, r, pages), {pages[k]})
<1> DEFINE n == Len(pages)
           Pass(g, k) == IF k = 0 THEN s ELSE UnmapPage(g[k - 1], r, pages[k])
           Passes(g, m) == g = [k \in 0 .. m |-> Pass(g, k)]
           loop == CHOOSE g : Passes(g, n)
           Fine(k) == \E K : /\ Good(M, loop[k], K) /\ Keeps(M, L, K) /\ Local(M, L, s, loop[k], V)
                             /\ Quiet(M, L, K) /\ \A j \in 1 .. k : Bare(loop[k], {pages[j]})
<1>1. n \in Nat /\ \A k \in 1 .. n : pages[k] \in V /\ pages[k] \in VPages
  OBVIOUS
<1>2. UnmapEach(s, r, pages) = loop[n]
  BY DEF UnmapEach
<1> HIDE DEF n
<1>3. \E g : Passes(g, n)
  <2> DEFINE T == {m \in 0 .. n : \E g : Passes(g, m)}
  <2>1. 0 \in T
    <3> DEFINE g == [k \in 0 .. 0 |-> s]
    <3>1. Passes(g, 0)
      OBVIOUS
    <3> HIDE DEF g, Passes
    <3>2. \E x : Passes(x, 0)
      BY <3>1
    <3> QED
      BY <1>1, <3>2
  <2>2. ASSUME NEW m \in 1 .. n, m - 1 \in T PROVE m \in T
    <3>1. PICK g : Passes(g, m - 1)
      BY <2>2
    <3> DEFINE h == [k \in 0 .. m |-> IF k = m THEN Pass(g, m) ELSE g[k]]
    <3>2. \A k \in 0 .. m : k # m => k \in 0 .. m - 1 /\ (k # 0 => k - 1 \in 0 .. m /\ k - 1 # m)
      BY <1>1
    <3>3. m # 0 /\ m - 1 \in 0 .. m /\ m - 1 # m
      BY <1>1
    <3>4. \A k \in 0 .. m - 1 : g[k] = Pass(g, k)
      BY <3>1
    <3>5. \A k \in 0 .. m : h[k] = Pass(h, k)
      BY <3>2, <3>3, <3>4
    <3>6. Passes(h, m)
      BY <3>5
    <3> HIDE DEF h, Passes
    <3>7. \E x : Passes(x, m)
      BY <3>6
    <3> QED
      BY <1>1, <3>7
  <2> HIDE DEF T
  <2>3. \A k \in 0 .. n : k \in T
    BY <1>1, <2>1, <2>2, UpTo
  <2>4. n \in T
    BY <1>1, <2>3
  <2> QED
    BY <2>4 DEF T
<1>4. Passes(loop, n)
  BY <1>3
<1> HIDE DEF loop
<1>5. loop[0] = s /\ \A k \in 1 .. n : loop[k] = UnmapPage(loop[k - 1], r, pages[k])
  BY <1>1, <1>4
<1>6. Fine(0)
  <2>1. Local(M, L, s, s, V)
    BY LocalSame
  <2>2. Keeps(M, L, L) /\ Quiet(M, L, L)
    BY DEF Keeps, Quiet
  <2> QED
    BY <1>5, <2>1, <2>2
<1>7. ASSUME NEW k \in 1 .. n, Fine(k - 1) PROVE Fine(k)
  <2>1. PICK K : /\ Good(M, loop[k - 1], K) /\ Keeps(M, L, K) /\ Local(M, L, s, loop[k - 1], V)
                 /\ Quiet(M, L, K) /\ \A j \in 1 .. k - 1 : Bare(loop[k - 1], {pages[j]})
    BY <1>7
  <2> DEFINE v == pages[k]
             y == loop[k - 1]
             z == UnmapPage(y, r, v)
  <2>2. K[r] = "root" /\ v \in VPages /\ v \in V
    BY <1>1, <2>1 DEF Keeps, TableLevel
  <2>3. /\ Good(M, y, K) /\ Keeps(M, L, K) /\ Local(M, L, s, y, V) /\ loop[k] = z
        /\ Quiet(M, L, K) /\ \A j \in 1 .. k - 1 : Bare(y, {pages[j]})
    BY <1>5, <2>1
  <2> HIDE DEF y
  <2>8. \A j \in 1 .. k : /\ pages[j] \in VPages
                          /\ j \in 1 .. k - 1 \/ pages[j] = v
    BY <1>1
  <2> HIDE DEF v
  <2>4. PICK J : /\ Good(M, z, J) /\ Keeps(M, K, J) /\ Local(M, K, y, z, {v})
                 /\ Quiet(M, K, J) /\ Bare(z, {v})
    BY <2>2, <2>3, Unmapped
  <2> HIDE DEF z
  <2>9. ASSUME NEW j \in 1 .. k PROVE Bare(z, {pages[j]})
    <3> DEFINE u == pages[j]
    <3>1. u \in VPages /\ (u # v => Bare(y, {u}))
      BY <2>3, <2>8
    <3> HIDE DEF u
    <3>2. CASE u = v
      BY <2>4, <3>2 DEF u
    <3>3. CASE u # v
      <4>1. {u} \in SUBSET VPages /\ {u} \cap {v} = {}
        BY <3>1, <3>3
      <4>2. Bare(z, {u})
        BY <2>3, <2>4, <3>1, <3>3, <4>1, BareKept
      <4> QED
        BY <4>2 DEF u
    <3> QED
      BY <3>2, <3>3
  <2>5. {v} \subseteq V /\ V \subseteq V
    BY <2>2
  <2>6. Local(M, L, s, z, V)
    BY <2>3, <2>4, <2>5, LocalTransitive
  <2>7. Keeps(M, L, J) /\ Quiet(M, L, J)
    BY <2>3, <2>4, KeepsTransitive, QuietTransitive
  <2> QED
    BY <2>3, <2>4, <2>6, <2>7, <2>9
<1> DEFINE T == {k \in 0 .. n : Fine(k)}
<1> HIDE DEF Fine
<1>8. \A k \in 0 .. n : k \in T
  <2>1. 0 \in T /\ \A k \in 1 .. n : k - 1 \in T => k \in T
    BY <1>1, <1>6, <1>7
  <2> HIDE DEF T
  <2> QED
    BY <1>1, <2>1, UpTo
<1>9. Fine(n)
  BY <1>1, <1>8
<1> QED
  BY <1>2, <1>9 DEF Fine, n

\* The pages of a range that ends in the window.
LEMMA Ranged ==
    ASSUME NEW b \in Int, NEW n \in Nat, \A k \in 1 .. n : b + k - 1 \in VPages
    PROVE  Pages(b, n) \subseteq VPages
<1> SUFFICES ASSUME NEW v \in Pages(b, n) PROVE v \in VPages
  OBVIOUS
<1> DEFINE k == v - b + 1
<1>1. k \in 1 .. n /\ b + k - 1 = v
  BY DEF Pages
<1> HIDE DEF k
<1> QED
  BY <1>1

\* What protecting the n pages from b may do to s.
RangeOK(M, L, s, r, b, n, w, x) ==
    /\ Good(M, x, L) /\ Local(M, L, s, x, Pages(b, n))
    /\ Cached(s) /\ (\A v \in Pages(b, n) : Translate(s.tab, r, v).f \in M) =>
         \A v \in Pages(b, n) : Translate(x.tab, r, v).f \in M /\ Translate(x.tab, r, v).w = w

\* Protecting page after page of a range.
LEMMA ProtectedRange ==
    ASSUME VmAssumption, NEW M, Memory(M), NEW s, NEW L, Good(M, s, L),
           NEW r \in Frames(M), L[r] = "root", NEW b \in Int, NEW n \in Nat, NEW w \in BOOLEAN,
           \A k \in 1 .. n : b + k - 1 \in VPages
    PROVE  RangeOK(M, L, s, r, b, n, w, ProtectRange(s, r, b, n, w))
<1> DEFINE mapped == Cached(s) /\ \A v \in Pages(b, n) : Translate(s.tab, r, v).f \in M
           Pass(g, k) == IF k = 0 THEN s ELSE ProtectPage(g[k - 1], r, b + k - 1, w)
           Passes(g, m) == g = [k \in 0 .. m |-> Pass(g, k)]
           loop == CHOOSE g : Passes(g, n)
<1>1. ProtectRange(s, r, b, n, w) = loop[n]
  BY DEF ProtectRange
<1>2. \E g : Passes(g, n)
  <2> DEFINE T == {m \in 0 .. n : \E g : Passes(g, m)}
  <2>1. 0 \in T
    <3> DEFINE g == [k \in 0 .. 0 |-> s]
    <3>1. Passes(g, 0)
      OBVIOUS
    <3> HIDE DEF g, Passes
    <3>2. \E x : Passes(x, 0)
      BY <3>1
    <3> QED
      BY <3>2
  <2>2. ASSUME NEW m \in 1 .. n, m - 1 \in T PROVE m \in T
    <3>1. PICK g : Passes(g, m - 1)
      BY <2>2
    <3> DEFINE h == [k \in 0 .. m |-> IF k = m THEN Pass(g, m) ELSE g[k]]
    <3>2. \A k \in 0 .. m : k # m => k \in 0 .. m - 1 /\ (k # 0 => k - 1 \in 0 .. m /\ k - 1 # m)
      OBVIOUS
    <3>3. m # 0 /\ m - 1 \in 0 .. m /\ m - 1 # m
      OBVIOUS
    <3>4. \A k \in 0 .. m - 1 : g[k] = Pass(g, k)
      BY <3>1
    <3>5. \A k \in 0 .. m : h[k] = Pass(h, k)
      BY <3>2, <3>3, <3>4
    <3>6. Passes(h, m)
      BY <3>5
    <3> HIDE DEF h, Passes
    <3>7. \E x : Passes(x, m)
      BY <3>6
    <3> QED
      BY <3>7
  <2> HIDE DEF T
  <2>3. \A k \in 0 .. n : k \in T
    BY <2>1, <2>2, UpTo
  <2>4. n \in T
    BY <2>3
  <2> QED
    BY <2>4 DEF T
<1>3. Passes(loop, n)
  BY <1>2
<1> HIDE DEF loop
<1>4. loop[0] = s /\ \A k \in 1 .. n : loop[k] = ProtectPage(loop[k - 1], r, b + k - 1, w)
  BY <1>3
<1> DEFINE Fine(x, k) ==
             /\ Good(M, x, L) /\ Local(M, L, s, x, Pages(b, n))
             /\ mapped => /\ \A v \in Pages(b, n) : Translate(x.tab, r, v).f \in M
                          /\ \A j \in 1 .. k : Translate(x.tab, r, b + j - 1).w = w
           T == {k \in 0 .. n : Fine(loop[k], k)}
<1>5. 0 \in T
  <2>1. Local(M, L, s, s, Pages(b, n))
    BY LocalSame
  <2> QED
    BY <1>4, <2>1
<1>6. ASSUME NEW k \in 1 .. n, k - 1 \in T PROVE k \in T
  <2> DEFINE v == b + k - 1
             y == loop[k - 1]
             x == ProtectPage(y, r, v, w)
  <2>1. v \in VPages /\ v \in Pages(b, n) /\ {v} \subseteq Pages(b, n)
    BY DEF Pages
  <2>2. Fine(y, k - 1) /\ loop[k] = x
    BY <1>4, <1>6
  <2>3. \A j \in 1 .. k : b + j - 1 \in Pages(b, n) /\ (j # k => j \in 1 .. k - 1 /\ b + j - 1 # v)
    BY DEF Pages
  <2>4. \A j \in 1 .. k : j = k => b + j - 1 = v
    OBVIOUS
  <2>5. Pages(b, n) \subseteq VPages
    BY Ranged
  <2> HIDE DEF v, y
  <2>6. v \in VPages /\ Good(M, y, L)
    BY <2>1, <2>2
  <2>7. ProtectedOK(M, L, y, r, v, w, x)
    BY <2>6, Protected
  <2>8. /\ Good(M, x, L) /\ Local(M, L, y, x, {v})
        /\ Translate(y.tab, r, v).f # 0 =>
             Translate(x.tab, r, v).f = Translate(y.tab, r, v).f /\ Translate(x.tab, r, v).w = w
    BY <2>7 DEF ProtectedOK
  <2>9. 0 \notin M
    BY DEF Memory
  <2>10. mapped => Translate(x.tab, r, v).f \in M /\ Translate(x.tab, r, v).w = w
    BY <2>1, <2>2, <2>8, <2>9
  <2> HIDE DEF x
  <2>11. Keeps(M, L, L) /\ (mapped => Cached(y))
    BY <2>2 DEF Keeps, Local
  <2>12. Local(M, L, s, x, Pages(b, n))
    BY <2>1, <2>2, <2>8, <2>11, LocalTransitive
  <2>13. mapped => \A u \in Pages(b, n) : u # v => Translate(x.tab, r, u) = Translate(y.tab, r, u)
    BY <2>8, <2>11, <2>5 DEF Local, Same
  <2>14. Fine(x, k)
    BY <2>2, <2>3, <2>8, <2>10, <2>12, <2>13, <2>4
  <2> HIDE DEF Fine
  <2> QED
    BY <2>2, <2>14
<1> HIDE DEF Fine
<1>7. \A k \in 0 .. n : k \in T
  <2> HIDE DEF T
  <2> QED
    BY <1>5, <1>6, UpTo
<1>8. Fine(loop[n], n)
  BY <1>7
<1>9. ASSUME mapped, NEW v \in Pages(b, n) PROVE Translate(loop[n].tab, r, v).w = w
  <2> DEFINE j == v - b + 1
  <2>1. j \in 1 .. n /\ b + j - 1 = v
    BY DEF Pages
  <2> HIDE DEF j
  <2> QED
    BY <1>8, <1>9, <2>1 DEF Fine
<1> QED
  BY <1>1, <1>8, <1>9 DEF Fine, RangeOK

\* One pass of the loop of clks_exec_vm_alloc, after the pass with result q.
MapPass(q, r, v, k, w) ==
    LET f == PmmTop(q.s)
        m == MapPage(PmmAlloc(q.s), r, v, f, w)
    IN CASE ~q.ok -> q
         [] q.ok /\ f = 0 -> [q EXCEPT !.ok = FALSE]
         [] q.ok /\ f # 0 /\ m.ok -> [k |-> k, ok |-> TRUE, s |-> m.s]
         [] OTHER -> [q EXCEPT !.ok = FALSE, !.s = PmmFree(m.s, f)]

\* The pages of a range are mapped, with a protection.
MappedPages(M, x, r, b, n, w) ==
    \A j \in 1 .. n : Translate(x.tab, r, b + j - 1).f \in M /\ Translate(x.tab, r, b + j - 1).w = w

\* The same, page by page.
LEMMA PagesMapped ==
    ASSUME NEW M, NEW x, NEW r, NEW b \in Int, NEW n \in Nat, NEW w, MappedPages(M, x, r, b, n, w)
    PROVE  \A v \in Pages(b, n) : Translate(x.tab, r, v).f \in M /\ Translate(x.tab, r, v).w = w
<1> SUFFICES ASSUME NEW v \in Pages(b, n)
             PROVE  Translate(x.tab, r, v).f \in M /\ Translate(x.tab, r, v).w = w
  OBVIOUS
<1> DEFINE j == v - b + 1
<1>1. j \in 1 .. n /\ b + j - 1 = v
  BY DEF Pages
<1> HIDE DEF j
<1> QED
  BY <1>1 DEF MappedPages

\* The result of n passes from s: which pages are mapped, in a sound state.
PassOK(M, L, s, r, b, w, V, q, n) ==
    /\ q = [k |-> q.k, ok |-> q.ok, s |-> q.s]
    /\ q.ok \in BOOLEAN /\ q.k \in 0 .. n
    /\ \E K : Good(M, q.s, K) /\ Keeps(M, L, K) /\ Quiet(M, L, K) /\ Local(M, L, s, q.s, V)
    /\ q.ok /\ Cached(s) => MappedPages(M, q.s, r, b, n, w)
    /\ q.ok => q.k = n
    /\ Bare(q.s, V \ Pages(b, q.k))

\* A frame taken and mapped, or given back.
LEMMA Passed ==
    ASSUME VmAssumption, NEW M, Memory(M), NEW L, NEW s,
           NEW r \in Frames(M), L[r] = "root", NEW b \in Int, NEW w \in BOOLEAN, NEW V \in SUBSET VPages,
           NEW n \in Nat, NEW k \in 1 .. n, \A j \in 1 .. n : b + j - 1 \in V,
           NEW q, PassOK(M, L, s, r, b, w, V, q, k - 1)
    PROVE  PassOK(M, L, s, r, b, w, V, MapPass(q, r, b + k - 1, k, w), k)
<1> DEFINE v == b + k - 1
           f == PmmTop(q.s)
           m == MapPage(PmmAlloc(q.s), r, v, f, w)
           x == MapPass(q, r, v, k, w)
<1>1. {v} \subseteq V
  OBVIOUS
<1>2. v \in VPages
  OBVIOUS
<1>3. \A j \in 1 .. k : /\ b + j - 1 \in VPages /\ (j = k => b + j - 1 = v)
                        /\ j # k => j \in 1 .. k - 1 /\ b + j - 1 # v
  OBVIOUS
<1> HIDE DEF v
<1>4. /\ q = [k |-> q.k, ok |-> q.ok, s |-> q.s] /\ q.ok \in BOOLEAN /\ q.k \in 0 .. k - 1
  BY DEF PassOK
<1>5. PICK K : Good(M, q.s, K) /\ Keeps(M, L, K) /\ Quiet(M, L, K) /\ Local(M, L, s, q.s, V)
  BY DEF PassOK
<1>6. q.k \in 0 .. k /\ k \in 0 .. k
  BY <1>4
<1>10. Bare(q.s, V \ Pages(b, q.k))
  BY DEF PassOK
<1>7. CASE ~q.ok
  <2>1. x = q
    BY <1>7 DEF MapPass
  <2> QED
    BY <1>4, <1>5, <1>6, <1>7, <1>10, <2>1 DEF PassOK, v
<1>8. CASE q.ok /\ f = 0
  <2>1. x = [q EXCEPT !.ok = FALSE]
    BY <1>8 DEF MapPass
  <2> HIDE DEF x
  <2>2. x = [k |-> q.k, ok |-> FALSE, s |-> q.s]
    BY <1>4, <2>1
  <2>3. PassOK(M, L, s, r, b, w, V, x, k)
    BY <1>5, <1>6, <1>10, <2>2 DEF PassOK
  <2> QED
    BY <2>3 DEF x, v
<1>9. CASE q.ok /\ f # 0
  <2> DEFINE p == PmmAlloc(q.s)
             J == [K EXCEPT ![f] = "taken"]
  <2>13. q.k = k - 1 /\ v \in V /\ v \notin Pages(b, q.k) /\ Pages(b, q.k) \cup {v} = Pages(b, k)
    BY <1>9 DEF PassOK, Pages, v
  <2>1. f \in M /\ Good(M, p, J) /\ Keeps(M, K, J)
    BY <1>5, <1>9, Allocated
  <2>2. J[f] = "taken" /\ f \in Frames(M) /\ \A g \in Frames(M) : g # f => J[g] = K[g]
    BY <1>5, <2>1 DEF Good, Owned, Linked, LevelsOK, Frames
  <2>3. J[r] = "root" /\ Keeps(M, L, J)
    BY <1>5, <2>1, KeepsTransitive DEF Keeps, TableLevel
  <2>4. p.tlb = q.s.tlb /\ p.tab = q.s.tab
    <3> DEFINE g == q.s
               fs == Front(g.free)
    <3>1. p = g \/ p = [g EXCEPT !.free = fs]
      BY DEF PmmAlloc
    <3>2. g = [free |-> g.free, tab |-> g.tab, tlb |-> g.tlb]
      BY <1>5 DEF Good
    <3> HIDE DEF p, fs, g
    <3>3. p.tlb = g.tlb /\ p.tab = g.tab
      BY <3>1, <3>2
    <3> QED
      BY <3>3 DEF g
  <2>5. Local(M, K, q.s, p, {})
    BY <2>4, LocalSame
  <2>6. Local(M, L, s, p, V)
    BY <1>5, <2>5, LocalTransitive
  <2> HIDE DEF p, J, f
  <2>14. Bare(p, V \ Pages(b, q.k)) /\ Bare(p, {v})
    BY <1>10, <2>4, <2>13 DEF Bare
  <2>7. PICK I : /\ m.ok \in BOOLEAN /\ Good(M, m.s, I) /\ Keeps(M, J, I) /\ Local(M, J, p, m.s, {v})
                 /\ Quiet(M, J, I) /\ (m.ok <=> I[f] # "taken")
                 /\ ~m.ok => Bare(m.s, {v})
                 /\ m.ok => Translate(m.s.tab, r, v).f = f /\ Translate(m.s.tab, r, v).w = w
    <3>1. MappedOK(M, J, p, r, v, f, w, MapPage(p, r, v, f, w))
      BY <1>2, <2>1, <2>2, <2>3, <2>14, Mapped
    <3> QED
      BY <3>1 DEF MappedOK, p
  <2>15. Bare(m.s, V \ Pages(b, k))
    <3> DEFINE W == V \ Pages(b, k)
    <3>1. W \in SUBSET VPages /\ W \cap {v} = {} /\ W \subseteq V \ Pages(b, q.k)
      BY <2>13
    <3>2. Bare(p, W)
      BY <2>14, <3>1 DEF Bare
    <3> HIDE DEF W
    <3>3. Bare(m.s, W)
      BY <2>1, <2>7, <3>1, <3>2, BareKept
    <3> QED
      BY <3>3 DEF W
  <2>8. Keeps(M, L, I)
    BY <2>3, <2>7, KeepsTransitive
  <2>9. Local(M, L, s, m.s, V)
    BY <1>1, <2>3, <2>7, <2>6, LocalTransitive
  <2>10. m.ok /\ Cached(s) => MappedPages(M, m.s, r, b, k, w)
    <3> SUFFICES ASSUME m.ok, Cached(s), NEW j \in 1 .. k
                 PROVE  Translate(m.s.tab, r, b + j - 1).f \in M /\ Translate(m.s.tab, r, b + j - 1).w = w
      BY DEF MappedPages
    <3> DEFINE u == b + j - 1
    <3>1. u \in VPages /\ (j = k => u = v) /\ (j # k => j \in 1 .. k - 1 /\ u # v)
      BY <1>3
    <3>2. MappedPages(M, q.s, r, b, k - 1, w)
      BY <1>9 DEF PassOK
    <3>3. j # k => Translate(p.tab, r, u).f \in M /\ Translate(p.tab, r, u).w = w
      BY <2>4, <3>1, <3>2 DEF MappedPages
    <3>4. Cached(p)
      BY <2>6 DEF Local
    <3> HIDE DEF u
    <3>5. j # k => Translate(m.s.tab, r, u) = Translate(p.tab, r, u)
      BY <2>3, <2>7, <3>1, <3>4 DEF Local, Same
    <3>6. j = k => Translate(m.s.tab, r, u).f \in M /\ Translate(m.s.tab, r, u).w = w
      BY <2>1, <2>7, <3>1
    <3> QED
      BY <3>3, <3>5, <3>6 DEF u
  <2> HIDE DEF m
  <2>11. CASE m.ok
    <3>1. x = [k |-> k, ok |-> TRUE, s |-> m.s]
      BY <1>9, <2>11 DEF MapPass, m, f, p
    <3> HIDE DEF x
    <3>3. Quiet(M, L, I)
      BY <1>5, <2>2, <2>7, <2>11 DEF Quiet
    <3>2. PassOK(M, L, s, r, b, w, V, x, k)
      BY <1>6, <2>7, <2>8, <2>11, <2>9, <2>10, <2>15, <3>1, <3>3 DEF PassOK
    <3> QED
      BY <3>2 DEF x, v
  <2>12. CASE ~m.ok
    <3> DEFINE y == PmmFree(m.s, f)
    <3>1. PICK H : Good(M, y, H) /\ Keeps(M, I, H) /\ Quiet(M, I, H) /\ H[f] # "taken"
      BY <2>1, <2>7, <2>12, Freed
    <3>2. Keeps(M, L, H) /\ Quiet(M, L, H)
      <4>1. Quiet(M, L, H)
        BY <1>5, <2>2, <2>7, <3>1 DEF Quiet
      <4> QED
        BY <2>8, <3>1, <4>1, KeepsTransitive
    <3>3. Local(M, I, m.s, y, {})
      BY <2>1, <2>7, <2>12, LocalFreed
    <3>4. Local(M, L, s, y, V)
      BY <2>8, <2>9, <3>3, LocalTransitive
    <3>5. x = [q EXCEPT !.ok = FALSE, !.s = y]
      BY <1>9, <2>12 DEF MapPass, m, f, p
    <3>8. Bare(y, V \ Pages(b, q.k))
      <4> DEFINE W == V \ Pages(b, q.k)
      <4>1. W \in SUBSET VPages /\ W \cap {} = {} /\ W = (V \ Pages(b, k)) \cup {v}
        BY <2>13
      <4>2. Bare(m.s, W)
        BY <2>7, <2>12, <2>15, <4>1 DEF Bare
      <4> HIDE DEF W, y
      <4>3. Bare(y, W)
        BY <2>7, <3>3, <4>1, <4>2, BareKept
      <4> QED
        BY <4>3 DEF W
    <3> HIDE DEF x, y
    <3>6. x = [k |-> q.k, ok |-> FALSE, s |-> y]
      BY <1>4, <3>5
    <3>7. PassOK(M, L, s, r, b, w, V, x, k)
      BY <1>6, <3>1, <3>2, <3>6, <3>4, <3>8 DEF PassOK
    <3> QED
      BY <3>7 DEF x, v
  <2> QED
    BY <2>7, <2>11, <2>12
<1> QED
  BY <1>4, <1>7, <1>8, <1>9

\* Mapping page after page.
LEMMA MappedLoop ==
    ASSUME VmAssumption, NEW M, Memory(M), NEW s, NEW L, Good(M, s, L),
           NEW r \in Frames(M), L[r] = "root", NEW b \in Int, NEW n \in Nat, NEW w \in BOOLEAN,
           NEW V \in SUBSET VPages, Bare(s, V), \A k \in 1 .. n : b + k - 1 \in V
    PROVE  PassOK(M, L, s, r, b, w, V, MapLoop(s, r, b, n, w), n)
<1> DEFINE first == [k |-> 0, ok |-> TRUE, s |-> s]
           Pass(g, k) == IF k = 0 THEN first ELSE MapPass(g[k - 1], r, b + k - 1, k, w)
           Passes(g, m) == g = [k \in 0 .. m |-> Pass(g, k)]
           loop == CHOOSE g : Passes(g, n)
<1>1. MapLoop(s, r, b, n, w) = loop[n]
  BY DEF MapLoop, MapPass
<1>2. \E g : Passes(g, n)
  <2> DEFINE T == {m \in 0 .. n : \E g : Passes(g, m)}
  <2> HIDE DEF first
  <2>1. 0 \in T
    <3> DEFINE g == [k \in 0 .. 0 |-> first]
    <3>1. Passes(g, 0)
      OBVIOUS
    <3> HIDE DEF g, Passes
    <3>2. \E x : Passes(x, 0)
      BY <3>1
    <3> QED
      BY <3>2
  <2>2. ASSUME NEW m \in 1 .. n, m - 1 \in T PROVE m \in T
    <3>1. PICK g : Passes(g, m - 1)
      BY <2>2
    <3> DEFINE h == [k \in 0 .. m |-> IF k = m THEN Pass(g, m) ELSE g[k]]
    <3>2. \A k \in 0 .. m : k # m => k \in 0 .. m - 1 /\ (k # 0 => k - 1 \in 0 .. m /\ k - 1 # m)
      OBVIOUS
    <3>3. m # 0 /\ m - 1 \in 0 .. m /\ m - 1 # m
      OBVIOUS
    <3>4. \A k \in 0 .. m - 1 : g[k] = Pass(g, k)
      BY <3>1
    <3>5. \A k \in 0 .. m : h[k] = Pass(h, k)
      BY <3>2, <3>3, <3>4
    <3>6. Passes(h, m)
      BY <3>5
    <3> HIDE DEF h, Passes
    <3>7. \E x : Passes(x, m)
      BY <3>6
    <3> QED
      BY <3>7
  <2> HIDE DEF T
  <2>3. \A k \in 0 .. n : k \in T
    BY <2>1, <2>2, UpTo
  <2> QED
    BY <2>3 DEF T
<1>3. Passes(loop, n)
  BY <1>2
<1> HIDE DEF loop, first
<1>4. \A k \in 0 .. n : loop[k] = Pass(loop, k)
  <2> HIDE DEF Pass
  <2> QED
    BY <1>3
<1>5. loop[0] = first /\ \A k \in 1 .. n : loop[k] = MapPass(loop[k - 1], r, b + k - 1, k, w)
  <2>1. 0 \in 0 .. n /\ \A k \in 1 .. n : k \in 0 .. n /\ k # 0
    OBVIOUS
  <2> QED
    BY <1>4, <2>1
<1> DEFINE T == {k \in 0 .. n : PassOK(M, L, s, r, b, w, V, loop[k], k)}
<1>6. 0 \in T
  <2>1. /\ first = [k |-> first.k, ok |-> first.ok, s |-> first.s]
        /\ first.k = 0 /\ first.ok = TRUE /\ first.s = s /\ 0 \in 0 .. 0
    BY DEF first
  <2>2. Keeps(M, L, L) /\ Quiet(M, L, L)
    BY DEF Keeps, Quiet
  <2>3. Local(M, L, s, first.s, V)
    BY <2>1, LocalSame
  <2>4. MappedPages(M, first.s, r, b, 0, w)
    BY DEF MappedPages
  <2>6. Bare(first.s, V \ Pages(b, first.k))
    BY <2>1 DEF Bare
  <2>5. PassOK(M, L, s, r, b, w, V, first, 0)
    BY <2>1, <2>2, <2>3, <2>4, <2>6 DEF PassOK
  <2> QED
    BY <1>5, <2>5
<1>7. ASSUME NEW k \in 1 .. n, k - 1 \in T PROVE k \in T
  <2> DEFINE q == loop[k - 1]
  <2>1. PassOK(M, L, s, r, b, w, V, q, k - 1)
    BY <1>7
  <2>2. loop[k] = MapPass(q, r, b + k - 1, k, w)
    BY <1>5
  <2> HIDE DEF q
  <2>3. PassOK(M, L, s, r, b, w, V, MapPass(q, r, b + k - 1, k, w), k)
    BY <2>1, Passed
  <2> QED
    BY <2>2, <2>3
<1> HIDE DEF T
<1>8. \A k \in 0 .. n : k \in T
  BY <1>6, <1>7, UpTo
<1> QED
  BY <1>1, <1>8 DEF T

\* How long a tuple given as a function is.
LEMMA LengthOf ==
    ASSUME NEW n \in Nat, NEW S, NEW f \in [1 .. n -> S]
    PROVE  Len(f) = n
<1>1. f \in Seq(S)
  BY SeqDef
<1>2. Len(f) \in Nat /\ 1 .. n = 1 .. Len(f)
  BY <1>1, LenProperties
<1> DEFINE l == Len(f)
<1> HIDE DEF l
<1>3. l \in Nat /\ \A k \in Int : k \in 1 .. n <=> k \in 1 .. l
  BY <1>2 DEF l
<1>4. (n \in 1 .. n <=> n \in 1 .. l) /\ (l \in 1 .. n <=> l \in 1 .. l)
  BY <1>3
<1>5. l = n
  BY <1>3, <1>4
<1> QED
  BY <1>5 DEF l

\* Unmapping a range, in either direction.
LEMMA UnmappedRange ==
    ASSUME VmAssumption, NEW M, Memory(M), NEW s, NEW L, Good(M, s, L),
           NEW r \in Frames(M), L[r] = "root", NEW b \in Int, NEW n \in Nat,
           NEW V \in SUBSET VPages, \A k \in 1 .. n : b + k - 1 \in V
    PROVE  /\ \E K : /\ Good(M, UnmapUp(s, r, b, n), K) /\ Keeps(M, L, K) /\ Quiet(M, L, K)
                     /\ Local(M, L, s, UnmapUp(s, r, b, n), V)
                     /\ Bare(UnmapUp(s, r, b, n), Pages(b, n))
           /\ \E K : /\ Good(M, UnmapDown(s, r, b, n), K) /\ Keeps(M, L, K) /\ Quiet(M, L, K)
                     /\ Local(M, L, s, UnmapDown(s, r, b, n), V)
                     /\ Bare(UnmapDown(s, r, b, n), Pages(b, n))
<1> DEFINE up == [k \in 1 .. n |-> b + k - 1]
           down == [k \in 1 .. n |-> b + n - k]
<1>1. up \in [1 .. n -> Int] /\ down \in [1 .. n -> Int]
  OBVIOUS
<1>2. \A k \in 1 .. n : up[k] \in V
  OBVIOUS
<1>3. \A k \in 1 .. n : down[k] \in V
  <2> SUFFICES ASSUME NEW k \in 1 .. n PROVE b + n - k \in V
    OBVIOUS
  <2> DEFINE j == n - k + 1
  <2>1. j \in 1 .. n /\ b + j - 1 = b + n - k
    OBVIOUS
  <2> HIDE DEF j
  <2>2. b + j - 1 \in V
    BY <2>1
  <2> QED
    BY <2>1, <2>2
<1>4. UnmapUp(s, r, b, n) = UnmapEach(s, r, up) /\ UnmapDown(s, r, b, n) = UnmapEach(s, r, down)
  BY DEF UnmapUp, UnmapDown
<1>9. \A v \in Pages(b, n) : (\E k \in 1 .. n : up[k] = v) /\ (\E k \in 1 .. n : down[k] = v)
  <2> SUFFICES ASSUME NEW v \in Pages(b, n)
               PROVE  (\E k \in 1 .. n : up[k] = v) /\ (\E k \in 1 .. n : down[k] = v)
    OBVIOUS
  <2>1. v - b + 1 \in 1 .. n /\ b + (v - b + 1) - 1 = v
    BY DEF Pages
  <2>2. b + n - v \in 1 .. n /\ b + n - (b + n - v) = v
    BY DEF Pages
  <2>3. up[v - b + 1] = v
    BY <2>1
  <2>4. down[b + n - v] = v
    BY <2>2
  <2> QED
    BY <2>1, <2>2, <2>3, <2>4
<1> HIDE DEF up, down
<1>5. Len(up) = n /\ Len(down) = n
  BY <1>1, LengthOf
<1>6. /\ Len(up) \in Nat /\ \A k \in 1 .. Len(up) : up[k] \in V
      /\ Len(down) \in Nat /\ \A k \in 1 .. Len(down) : down[k] \in V
  BY <1>2, <1>3, <1>5
<1> DEFINE x == UnmapEach(s, r, up)
           y == UnmapEach(s, r, down)
<1>7. PICK K : /\ Good(M, x, K) /\ Keeps(M, L, K) /\ Quiet(M, L, K) /\ Local(M, L, s, x, V)
               /\ \A k \in 1 .. Len(up) : Bare(x, {up[k]})
  BY <1>6, UnmappedEach
<1>8. PICK J : /\ Good(M, y, J) /\ Keeps(M, L, J) /\ Quiet(M, L, J) /\ Local(M, L, s, y, V)
               /\ \A k \in 1 .. Len(down) : Bare(y, {down[k]})
  BY <1>6, UnmappedEach
<1> HIDE DEF x, y
<1>10. Bare(x, Pages(b, n)) /\ Bare(y, Pages(b, n))
  BY <1>5, <1>7, <1>8, <1>9 DEF Bare
<1> QED
  BY <1>4, <1>7, <1>8, <1>10 DEF x, y

\* What an allocation of n pages from b may do to s, its result being m.
AllocOK(M, L, s, r, b, n, w, V, m) ==
    /\ m.ok \in BOOLEAN
    /\ \E K : Good(M, m.s, K) /\ Keeps(M, L, K) /\ Quiet(M, L, K) /\ Local(M, L, s, m.s, V)
    /\ ~m.ok => Bare(m.s, V)
    /\ m.ok /\ Cached(s) => MappedPages(M, m.s, r, b, n, w)

\* clks_exec_vm_alloc, finished or undone.
LEMMA AreaAllocated ==
    ASSUME VmAssumption, NEW M, Memory(M), NEW s, NEW L, Good(M, s, L),
           NEW r \in Frames(M), L[r] = "root", NEW b \in Int, NEW n \in Nat, NEW w \in BOOLEAN,
           NEW V \in SUBSET VPages, Bare(s, V), \A k \in 1 .. n : b + k - 1 \in V
    PROVE  AllocOK(M, L, s, r, b, n, w, V, AllocArea(s, r, b, n, w))
<1> DEFINE q == MapLoop(s, r, b, n, w)
           d == UnmapDown(q.s, r, b, q.k)
           m == AllocArea(s, r, b, n, w)
<1>1. PassOK(M, L, s, r, b, w, V, q, n)
  BY MappedLoop
<1>2. m = IF q.ok THEN q ELSE [q EXCEPT !.s = d]
  BY DEF AllocArea, Undone
<1> HIDE DEF q, m
<1>3. q = [k |-> q.k, ok |-> q.ok, s |-> q.s] /\ q.ok \in BOOLEAN /\ q.k \in 0 .. n
  BY <1>1 DEF PassOK
<1>4. PICK K : Good(M, q.s, K) /\ Keeps(M, L, K) /\ Quiet(M, L, K) /\ Local(M, L, s, q.s, V)
  BY <1>1 DEF PassOK
<1>5. CASE q.ok
  <2>1. Cached(s) => MappedPages(M, q.s, r, b, n, w)
    BY <1>1, <1>5 DEF PassOK
  <2> QED
    BY <1>2, <1>3, <1>4, <1>5, <2>1 DEF AllocOK, m
<1>6. CASE ~q.ok
  <2>1. K[r] = "root"
    BY <1>4 DEF Keeps, TableLevel
  <2> DEFINE W == Pages(b, q.k)
  <2>2. q.k \in Nat /\ \A k \in 1 .. q.k : b + k - 1 \in V /\ b + k - 1 \in W
    BY <1>3 DEF Pages
  <2>8. W \in SUBSET V /\ W \in SUBSET VPages
    <3> SUFFICES ASSUME NEW v \in Pages(b, q.k) PROVE v \in V
      OBVIOUS
    <3> DEFINE j == v - b + 1
    <3>1. j \in 1 .. q.k /\ b + j - 1 = v
      BY <2>2 DEF Pages
    <3> HIDE DEF j
    <3> QED
      BY <2>2, <3>1
  <2>9. Bare(q.s, V \ W)
    BY <1>1 DEF PassOK
  <2> HIDE DEF W
  <2>3. PICK J : /\ Good(M, d, J) /\ Keeps(M, K, J) /\ Quiet(M, K, J) /\ Local(M, K, q.s, d, W)
                 /\ Bare(d, W)
    BY <1>4, <2>1, <2>2, <2>8, UnmappedRange DEF W
  <2> HIDE DEF d
  <2>10. Bare(d, V)
    <3> DEFINE U == V \ W
    <3>1. U \in SUBSET VPages /\ U \cap W = {} /\ V = U \cup W
      BY <2>8
    <3>2. Bare(q.s, U)
      BY <2>9
    <3> HIDE DEF U
    <3>3. Bare(d, U)
      BY <1>4, <2>3, <3>1, <3>2, BareKept
    <3> QED
      BY <2>3, <3>1, <3>3 DEF Bare
  <2>4. m = [k |-> q.k, ok |-> q.ok, s |-> d]
    BY <1>2, <1>3, <1>6
  <2>5. m.ok = FALSE /\ m.s = d
    BY <1>3, <1>6, <2>4
  <2>6. Keeps(M, L, J) /\ Quiet(M, L, J)
    BY <1>4, <2>3, KeepsTransitive, QuietTransitive
  <2>7. Local(M, L, s, d, V)
    BY <1>4, <2>3, <2>8, LocalTransitive
  <2> QED
    BY <2>3, <2>5, <2>6, <2>7, <2>10 DEF AllocOK, m
<1> QED
  BY <1>3, <1>5, <1>6

\* The pages of some areas, in whatever order.
LEMMA PagesListed ==
    ASSUME VmAssumption, NEW S \in SUBSET VPages
    PROVE  /\ Len(SetToSeq(S)) \in Nat /\ \A k \in 1 .. Len(SetToSeq(S)) : SetToSeq(S)[k] \in S
           /\ \A v \in S : \E k \in 1 .. Len(SetToSeq(S)) : SetToSeq(S)[k] = v
<1>1. 0 \in Int /\ NPages - 1 \in Int
  BY DEF VmAssumption
<1>2. IsFiniteSet(S)
  BY <1>1, FS_Interval, FS_Subset DEF VPages
<1> DEFINE c == Cardinality(S)
           q == SetToSeq(S)
<1>3. c \in Nat /\ \E f \in [1 .. c -> S] : IsInjective(f)
  BY <1>2, FS_CardinalityType DEF ExistsBijection, Bijection, Injection
<1>4. q = CHOOSE f \in [1 .. c -> S] : IsInjective(f)
  BY DEF SetToSeq
<1> HIDE DEF c, q
<1>5. q \in [1 .. c -> S] /\ IsInjective(q)
  BY <1>3, <1>4
<1>6. Len(q) = c
  BY <1>3, <1>5, LengthOf
<1>7. Len(q) \in Nat /\ \A k \in 1 .. Len(q) : q[k] \in S
  BY <1>3, <1>5, <1>6
<1>8. \A v \in S : \E k \in 1 .. c : q[k] = v
  <2>1. q \in Injection(1 .. c, S)
    BY <1>5 DEF Injection
  <2>2. IsFiniteSet(1 .. c) /\ Cardinality(1 .. c) = Cardinality(S)
    BY <1>3, FS_Interval DEF c
  <2>3. q \in Surjection(1 .. c, S)
    BY <1>2, <2>1, <2>2, FS_Injection
  <2> QED
    BY <2>3 DEF Surjection
<1> QED
  BY <1>6, <1>7, <1>8 DEF q

\* clks_exec_proc_release_user_vm.
LEMMA AreasReleased ==
    ASSUME VmAssumption, NEW M, Memory(M), NEW s, NEW L, Good(M, s, L),
           NEW p \in Procs, root[p] \in Frames(M), L[root[p]] = "root",
           \A a \in areas[p] : Pages(a.base, a.n) \subseteq VPages
    PROVE  \E K : /\ Good(M, ReleaseAreas(s, p), K) /\ Keeps(M, L, K) /\ Quiet(M, L, K)
                  /\ Local(M, L, s, ReleaseAreas(s, p), UNION {Pages(a.base, a.n) : a \in areas[p]})
                  /\ Bare(ReleaseAreas(s, p), UNION {Pages(a.base, a.n) : a \in areas[p]})
<1> DEFINE S == UNION {Pages(a.base, a.n) : a \in areas[p]}
           q == SetToSeq(S)
           r == root[p]
<1>1. S \in SUBSET VPages
  OBVIOUS
<1>2. ReleaseAreas(s, p) = UnmapEach(s, r, q)
  BY DEF ReleaseAreas
<1> HIDE DEF S
<1>3. /\ Len(q) \in Nat /\ \A k \in 1 .. Len(q) : q[k] \in S
      /\ \A v \in S : \E k \in 1 .. Len(q) : q[k] = v
  BY <1>1, PagesListed
<1> HIDE DEF q, r
<1>4. r \in Frames(M) /\ L[r] = "root"
  BY DEF r
<1> DEFINE x == UnmapEach(s, r, q)
<1>5. PICK K : /\ Good(M, x, K) /\ Keeps(M, L, K) /\ Quiet(M, L, K) /\ Local(M, L, s, x, S)
               /\ \A k \in 1 .. Len(q) : Bare(x, {q[k]})
  BY <1>1, <1>3, <1>4, UnmappedEach
<1> HIDE DEF x
<1>6. Bare(x, S)
  BY <1>3, <1>5 DEF Bare
<1> QED
  BY <1>2, <1>5, <1>6 DEF S, x

\* The other spaces translate as before, and the CPU has the same translations.
OthersSame(M, L, s, r, x) ==
    Cached(s) => /\ Cached(x)
                 /\ \A v \in VPages : x.tlb[v] = s.tlb[v]
                 /\ \A q \in Frames(M), v \in VPages : L[q] = "root" /\ (q # r \/ r = KRoot) =>
                       Translate(x.tab, q, v) = Translate(s.tab, q, v)

\* clks_vm_destroy_address_space: no entry leads to a root.
LEMMA Destroyed ==
    ASSUME VmAssumption, NEW M, Memory(M), NEW s, NEW L, Good(M, s, L),
           NEW r \in Frames(M), L[r] = "root", r = KRoot \/ r \in M
    PROVE  \E K : /\ Good(M, Destroy(s, r), K)
                  /\ \A f \in Frames(M) : L[f] \in TableLevel /\ f # r => K[f] = L[f]
                  /\ r = KRoot => K[r] = "root"
                  /\ Quiet(M, L, K) /\ (r # KRoot => K[r] # "root")
                  /\ \A V \in SUBSET VPages : Bare(s, V) => Bare(Destroy(s, r), V)
                  /\ OthersSame(M, L, s, r, Destroy(s, r))
<1>1. /\ s = [free |-> s.free, tab |-> s.tab, tlb |-> s.tlb] /\ Owned(M, L, s.free, s.tab)
      /\ s.tab \in [Frames(M) -> [Index -> Entry]] /\ L \in [Frames(M) -> Level] /\ PointsOK(M, L, s.tab)
  BY DEF Good, Owned, Linked, LevelsOK
<1>2. CASE r = KRoot
  <2>1. Destroy(s, r) = s
    BY <1>2 DEF Destroy
  <2>2. OthersSame(M, L, s, r, s)
    BY DEF OthersSame
  <2>3. Quiet(M, L, L)
    BY DEF Quiet
  <2> QED
    BY <1>2, <2>1, <2>2, <2>3
<1>3. CASE r # KRoot
  <2> DEFINE x == [s EXCEPT !.tab[r][Lo] = NoEntry]
             row == [s.tab[r] EXCEPT ![Lo] = NoEntry]
             tc == [s.tab EXCEPT ![r] = row]
             J == [L EXCEPT ![r] = "taken"]
  <2>1. Destroy(s, r) = PmmFree(x, r) /\ r \in M
    BY <1>3 DEF Destroy
  <2>2. Lo \in Index
    BY DEF Index, Lo, VmAssumption
  <2>3. x = [s EXCEPT !.tab = tc]
    OBVIOUS
  <2>4. s.tab[r] \in [Index -> Entry] /\ NoEntry \in Entry /\ NoEntry.f = 0
    BY <1>1 DEF NoEntry, Entry
  <2>5. row \in [Index -> Entry] /\ row[Lo] = NoEntry /\ \A j \in Index : j # Lo => row[j] = s.tab[r][j]
    BY <2>2, <2>4
  <2> HIDE DEF row
  <2>6. /\ tc \in [Frames(M) -> [Index -> Entry]] /\ tc[r] = row
        /\ \A g \in Frames(M) : g # r => tc[g] = s.tab[g]
    BY <1>1, <2>5
  <2> HIDE DEF tc
  <2>9. \A f \in Frames(M), i \in Index : L[f] \in TableLevel => s.tab[f][i].f # r
    <3>1. 0 \notin Frames(M) /\ Large \notin Frames(M)
      BY <1>1, FrameFacts DEF Owned, Linked
    <3>2. \A l \in Level, i \in Index : Target(l, i) # "root"
      BY DEF Target
    <3> QED
      BY <1>1, <3>1, <3>2 DEF PointsOK
  <2>8. J[r] = "taken" /\ \A q \in Frames(M) : q # r => J[q] = L[q]
    BY <1>1
  <2>7. Owned(M, J, s.free, s.tab)
    BY <1>1, <2>1, <2>9, LetGo
  <2> HIDE DEF J
  <2>10. Owned(M, J, s.free, tc)
    BY <2>1, <2>6, <2>7, <2>8, Blank
  <2> HIDE DEF x
  <2>11. x = [free |-> s.free, tab |-> tc, tlb |-> s.tlb]
    BY <1>1, <2>3
  <2>12. Good(M, x, J) /\ J[r] = "taken"
    BY <2>8, <2>10, <2>11 DEF Good
  <2>13. PICK K : Good(M, PmmFree(x, r), K) /\ Keeps(M, J, K) /\ Quiet(M, J, K) /\ K[r] # "taken"
    BY <2>1, <2>12, Freed
  <2>14. \A f \in Frames(M) : L[f] \in TableLevel /\ f # r => K[f] = L[f]
    BY <2>8, <2>13 DEF Keeps
  <2>21. Quiet(M, L, K) /\ K[r] # "root"
    BY <2>8, <2>13 DEF Quiet
  <2> DEFINE y == PmmFree(x, r)
  <2>15. Local(M, J, x, y, {})
    BY <2>1, <2>12, LocalFreed
  <2>17. ASSUME NEW q \in Frames(M), L[q] = "root", q # r, NEW v \in VPages
         PROVE Translate(tc, q, v) = Translate(s.tab, q, v)
    <3>1. \A f \in Frames(M), i \in Index : L[f] \in {"pdpt", "pd", "pt"} => tc[f][i] = s.tab[f][i]
      BY <2>6
    <3>2. tc[q][Lo] = s.tab[q][Lo]
      BY <2>6, <2>17
    <3> QED
      BY <2>17, <3>1, <3>2, SameWalk
  <2> HIDE DEF y
  <2>18. x.tab = tc /\ x.tlb = s.tlb
    BY <2>11
  <2>19. Cached(s) => Cached(x)
    BY <2>18 DEF Cached
  <2>20. OthersSame(M, L, s, r, y)
    BY <1>3, <2>8, <2>15, <2>17, <2>18, <2>19 DEF OthersSame, Local, Same
  <2>16. ASSUME NEW V \in SUBSET VPages, Bare(s, V) PROVE Bare(y, V)
    <3>1. KRoot \in Frames(M) /\ L[KRoot] = "root" /\ KRoot # r
      BY <1>1, <2>1, BootTables DEF Owned, Linked
    <3>2. Bare(x, V)
      BY <2>6, <2>16, <2>17, <2>18, <3>1 DEF Bare, LowMapped
    <3> QED
      BY <2>12, <2>15, <3>2, BareKept
  <2> QED
    BY <1>3, <2>1, <2>13, <2>14, <2>16, <2>20, <2>21 DEF y
<1> QED
  BY <1>2, <1>3

-----------------------------------------------------------------------------
(* The invariant.                                                           *)

Area == [base : Int, n : Nat, w : BOOLEAN]
AreasOK ==
    /\ areas = [p \in Procs |-> areas[p]]
    /\ \A p \in Procs : \A a \in areas[p] : a \in Area /\ Pages(a.base, a.n) \subseteq VPages

\* Each process has a root of its own, or the kernel's; what else was a root is lost.
RootsOK(L) ==
    /\ root = [p \in Procs |-> root[p]]
    /\ \A p \in Procs : root[p] = 0 \/ (root[p] \in Frames(managed) /\ L[root[p]] = "root")
    /\ \A p, q \in Procs : root[p] = root[q] /\ root[p] \notin {0, KRoot} => p = q
    /\ \A f \in managed : L[f] # "taken"
                          /\ (L[f] = "root" => f \in lost \/ \E p \in Procs : root[p] = f)

VmInv ==
    /\ Memory(managed)
    /\ AreasOK
    /\ \E L : Good(managed, State, L) /\ RootsOK(L)
    /\ Bare(State, VPages \ Held)

\* The levels and the bare pages of the next state.
LEMMA NextState ==
    ASSUME NEW s, NEW K, Good(managed, s, K), Apply(s), UNCHANGED managed, Bare(s, VPages \ Held')
    PROVE  Good(managed, State, K)' /\ Bare(State, VPages \ Held)'
<1>1. State' = s
  BY DEF State, Apply, Good
<1>2. Good(managed', State', K) /\ Bare(State', VPages \ Held')
  BY <1>1
<1>3. Good(managed, State, K)'
  BY <1>2 DEF Good, Owned, Linked, LevelsOK, FreeOK, PointsOK, OnceOK, HungOK, LowMapped, Hangs, Listed, State
<1>5. tab'[KRoot][Lo].f = KLow => \A v \in VPages \ Held' : Translate(tab', KRoot, v).f = 0
  BY <1>2 DEF Bare, LowMapped, State
<1>6. (tab[KRoot][Lo].f = KLow => \A v \in VPages \ Held : Translate(tab, KRoot, v).f = 0)'
  BY <1>5, Zenon
<1>4. Bare(State, VPages \ Held)'
  BY <1>6, Zenon DEF Bare, LowMapped, State
<1> QED
  BY <1>3, <1>4

\* Pages that were bare and are left alone, and pages that are bare now.
LEMMA BareStep ==
    ASSUME NEW M, Memory(M), NEW s, NEW L, Good(M, s, L), NEW W \in SUBSET VPages, Bare(s, W),
           NEW x, NEW V, Local(M, L, s, x, V), NEW T, Bare(x, T), NEW U, U \subseteq (W \ V) \cup T
    PROVE  Bare(x, U)
<1> DEFINE X == W \ V
<1>1. X \in SUBSET VPages /\ X \cap V = {} /\ Bare(s, X) /\ U \subseteq X \cup T
  BY DEF Bare
<1> HIDE DEF X
<1>2. Bare(x, X)
  BY <1>1, BareKept
<1> QED
  BY <1>1, <1>2 DEF Bare

\* A page is held when it is a page of some area.
LEMMA HeldPages ==
    /\ \A v : v \in Held <=> \E q \in Procs : \E a \in areas[q] : v \in Pages(a.base, a.n)
    /\ \A v : v \in Held' <=> \E q \in Procs : \E a \in areas'[q] : v \in Pages(a.base, a.n)
<1>1. \A v : v \in Held <=> \E q \in Procs : \E a \in areas[q] : v \in Pages(a.base, a.n)
  BY DEF Held
<1>2. \A v : v \in Held' <=> \E q \in Procs : \E a \in areas'[q] : v \in Pages(a.base, a.n)
  BY DEF Held, Pages
<1> QED
  BY <1>1, <1>2

\* The same areas hold the same pages.
LEMMA HeldStays ==
    ASSUME UNCHANGED areas
    PROVE  Held' = Held
BY DEF Held, Pages

\* A call leaves the tables in a sound state, and the roots with their processes.
LEMMA Applied ==
    ASSUME NEW L, Memory(managed), RootsOK(L), NEW s, NEW K, Good(managed, s, K), Keeps(managed, L, K),
           Quiet(managed, L, K), Bare(s, VPages \ Held'), Apply(s), AreasOK', UNCHANGED <<managed, lost, root>>
    PROVE  VmInv'
<1>1. Good(managed, State, K)' /\ Bare(State, VPages \ Held)'
  BY NextState
<1>2. RootsOK(K)'
  <2>1. \A p \in Procs : root[p] = 0 \/ (root[p] \in Frames(managed) /\ K[root[p]] = "root")
    BY DEF RootsOK, Keeps, TableLevel
  <2>2. \A f \in managed : K[f] # "taken" /\ (K[f] = "root" => f \in lost \/ \E p \in Procs : root[p] = f)
    BY DEF RootsOK, Quiet, Frames
  <2> QED
    BY <2>1, <2>2 DEF RootsOK, Frames
<1> QED
  BY <1>1, <1>2 DEF VmInv, Memory

\* A step that leaves the areas alone.
LEMMA AreasStay ==
    ASSUME AreasOK, UNCHANGED areas
    PROVE  AreasOK'
BY DEF AreasOK

\* A state reached from this one in which no page translates otherwise.
Unseen(L, s) ==
    \E K : /\ Good(managed, s, K) /\ Keeps(managed, L, K) /\ Quiet(managed, L, K)
           /\ Local(managed, L, State, s, {})

\* clks_net_map_page_4k: the tables it hangs are on no user page's walk.
LEMMA MmioMapped ==
    ASSUME VmAssumption, Memory(managed), NEW L, Good(managed, State, L), MapMmio
    PROVE  \E s : Apply(s) /\ Unseen(L, s)
<1> DEFINE M == managed
           b == NextTable(State, KHigh, 0)
           c == NextTable(b.s, b.f, 0)
           x == [c.s EXCEPT !.tab[c.f][0] = Pointer(Large)]
           s == IF ~b.ok THEN b.s ELSE IF ~c.ok THEN c.s ELSE x
<1>1. Good(M, State, L) /\ Memory(M)
  OBVIOUS
<1>2. Apply(s)
  BY DEF MapMmio
<1>3. /\ "hpdpt" \in TableLevel /\ "hpd" \in TableLevel /\ "hpt" \in High
      /\ \A i \in Index : Target("hpdpt", i) = "hpd" /\ Target("hpd", i) = "hpt"
      /\ "hpt" \in TableLevel
  BY DEF TableLevel, High, Target
<1>4. KHigh \in Frames(M) /\ L[KHigh] = "hpdpt" /\ 0 \in Index
  BY <1>1 DEF Good, Owned, Linked, LevelsOK, Frames, BootFrames, Index, VmAssumption
<1>5. PICK B : /\ Good(M, b.s, B) /\ Steady(M, L, B) /\ b.ok \in BOOLEAN
               /\ b.ok => b.f \in Frames(M) /\ B[b.f] = "hpd"
  <2>1. \E B : /\ Good(M, b.s, B) /\ Steady(M, L, B) /\ b.ok \in BOOLEAN
               /\ b.ok => b.f \in Frames(M) /\ B[b.f] = Target(L[KHigh], 0)
    BY <1>1, <1>3, <1>4, NextFound
  <2> QED
    BY <1>3, <1>4, <2>1
<1>6. Keeps(M, L, B) /\ Quiet(M, L, B) /\ Local(M, L, State, b.s, {})
  BY <1>1, <1>3, <1>4, <1>5, SteadyKeeps, NextLocal
<1> HIDE DEF b
<1>7. CASE ~b.ok
  BY <1>2, <1>5, <1>6, <1>7 DEF Unseen
<1>8. CASE b.ok
  <2>1. PICK C : /\ Good(M, c.s, C) /\ Steady(M, B, C) /\ c.ok \in BOOLEAN
                 /\ c.ok => c.f \in Frames(M) /\ C[c.f] = "hpt"
    <3>1. b.f \in Frames(M) /\ B[b.f] \in TableLevel /\ Target(B[b.f], 0) = "hpt" /\ B[b.f] # "root"
      BY <1>3, <1>4, <1>5, <1>8
    <3>2. \E C : /\ Good(M, c.s, C) /\ Steady(M, B, C) /\ c.ok \in BOOLEAN
                 /\ c.ok => c.f \in Frames(M) /\ C[c.f] = Target(B[b.f], 0)
      BY <1>1, <1>3, <1>4, <1>5, <3>1, NextFound
    <3> QED
      BY <3>1, <3>2
  <2>2. Keeps(M, B, C) /\ Keeps(M, L, C) /\ Quiet(M, L, C)
    BY <1>6, <2>1, SteadyKeeps, KeepsTransitive, QuietTransitive
  <2>3. Local(M, L, State, c.s, {})
    <3>1. b.f \in Frames(M) /\ B[b.f] \in TableLevel /\ Target(B[b.f], 0) \in TableLevel /\ B[b.f] # "root"
      BY <1>3, <1>4, <1>5, <1>8
    <3>2. Local(M, B, b.s, c.s, {})
      BY <1>1, <1>4, <1>5, <3>1, NextLocal
    <3> QED
      BY <1>6, <3>2, LocalTransitive
  <2> HIDE DEF c
  <2>4. CASE ~c.ok
    BY <1>2, <1>8, <2>1, <2>2, <2>4, <2>3 DEF Unseen
  <2>5. CASE c.ok
    <3> DEFINE p == c.s
               t == c.f
               row == [p.tab[t] EXCEPT ![0] = Pointer(Large)]
               tc == [p.tab EXCEPT ![t] = row]
    <3>1. x = [p EXCEPT !.tab = tc]
      OBVIOUS
    <3>2. /\ p = [free |-> p.free, tab |-> p.tab, tlb |-> p.tlb] /\ Owned(M, C, p.free, p.tab)
          /\ p.tab \in [Frames(M) -> [Index -> Entry]]
      BY <2>1 DEF Good, Owned, Linked
    <3>3. t \in Frames(M) /\ C[t] = "hpt"
      BY <2>1, <2>5
    <3> HIDE DEF p, t, x
    <3>4. Pointer(Large) \in Entry /\ Pointer(Large).f = Large /\ p.tab[t] \in [Index -> Entry]
      BY <3>2, <3>3 DEF Pointer, Entry, Large
    <3>5. row \in [Index -> Entry] /\ row[0] = Pointer(Large) /\ \A j \in Index : j # 0 => row[j] = p.tab[t][j]
      BY <1>4, <3>4
    <3> HIDE DEF row
    <3>6. /\ tc \in [Frames(M) -> [Index -> Entry]] /\ tc[t] = row
          /\ \A g \in Frames(M) : g # t => tc[g] = p.tab[g]
      BY <3>2, <3>3, <3>5
    <3>7. Edit(M, p.tab, tc, t, 0, Large)
      BY <3>4, <3>5, <3>6 DEF Edit
    <3> HIDE DEF tc
    <3>8. Owned(M, C, p.free, tc)
      <4>1. PointsOK(M, C, p.tab) /\ LevelsOK(M, C)
        BY <3>2 DEF Owned, Linked
      <4>2. Target(C[t], 0) = "none" /\ "none" \notin Level /\ C[t] \in TableLevel
        BY <1>3, <3>3 DEF Target, Level, TableLevel, High
      <4>3. p.tab[t][0].f \notin M
        <5>1. p.tab[t][0].f = 0 \/ p.tab[t][0].f = Large \/ (C[p.tab[t][0].f] = "none" /\ p.tab[t][0].f \in Frames(M))
          BY <1>4, <3>3, <4>1, <4>2 DEF PointsOK
        <5>2. C \in [Frames(M) -> Level] /\ 0 \notin M /\ Large \notin M
          BY <1>1, <4>1 DEF LevelsOK, Memory, Large
        <5> QED
          BY <4>2, <5>1, <5>2
      <4> QED
        BY <1>1, <1>3, <1>4, <3>2, <3>3, <3>7, <4>3, Clear
    <3>9. x = [free |-> p.free, tab |-> tc, tlb |-> p.tlb]
      BY <3>1, <3>2
    <3>10. Good(M, x, C)
      BY <3>8, <3>9 DEF Good
    <3>11. Apply(x)
      BY <1>2, <1>8, <2>5
    <3>12. ASSUME NEW r \in Frames(M), C[r] = "root", NEW v \in VPages
           PROVE Translate(tc, r, v) = Translate(p.tab, r, v)
      <4>1. tc[r][Lo] = p.tab[r][Lo]
        BY <3>3, <3>6, <3>12
      <4>2. \A f \in Frames(M), i \in Index : C[f] \in {"pdpt", "pd", "pt"} => tc[f][i] = p.tab[f][i]
        BY <3>3, <3>6
      <4>3. Good(M, p, C)
        BY <2>1 DEF p
      <4> QED
        BY <1>1, <3>12, <4>1, <4>2, <4>3, SameWalk
    <3>13. Local(M, C, p, x, {})
      <4>1. x.tab = tc /\ x.tlb = p.tlb
        BY <3>9
      <4>2. LowMapped(tc) => LowMapped(p.tab)
        <5>1. KRoot \in Frames(M) /\ KRoot # t
          BY <1>1, <3>2, <3>3, BootTables DEF Owned, Linked
        <5> QED
          BY <3>6, <5>1 DEF LowMapped
      <4> QED
        BY <3>12, <4>1, <4>2, LocalTables
    <3>14. Local(M, L, State, x, {})
      BY <2>2, <2>3, <3>13, LocalTransitive DEF p
    <3> QED
      BY <2>2, <3>10, <3>11, <3>14 DEF Unseen
  <2> QED
    BY <2>1, <2>4, <2>5
<1> QED
  BY <1>5, <1>7, <1>8

LEMMA MmioKeeps ==
    ASSUME VmAssumption, VmInv, MapMmio
    PROVE  VmInv'
<1>1. PICK L : Good(managed, State, L) /\ RootsOK(L)
  BY DEF VmInv
<1>2. Memory(managed) /\ AreasOK' /\ UNCHANGED <<managed, lost, root>>
  BY AreasStay DEF VmInv, MapMmio
<1>3. PICK s : Apply(s) /\ Unseen(L, s)
  BY <1>1, <1>2, MmioMapped
<1>4. PICK K : /\ Good(managed, s, K) /\ Keeps(managed, L, K) /\ Quiet(managed, L, K)
               /\ Local(managed, L, State, s, {})
  BY <1>3 DEF Unseen
<1>5. Bare(s, VPages \ Held')
  <2>1. Bare(State, VPages \ Held) /\ Held' = Held
    BY HeldStays DEF VmInv, MapMmio
  <2>2. Bare(s, VPages \ Held)
    BY <1>1, <1>2, <1>4, <2>1, BareKept
  <2> QED
    BY <2>1, <2>2
<1> QED
  BY <1>1, <1>2, <1>3, <1>4, <1>5, Applied

\* The invariant after a step, from the state its operators return.
LEMMA Restated ==
    ASSUME Memory(managed), NEW s, NEW K, Good(managed, s, K), Apply(s), AreasOK',
           RootsOK(K)', UNCHANGED managed, Bare(s, VPages \ Held')
    PROVE  VmInv'
<1>1. Good(managed, State, K)' /\ Bare(State, VPages \ Held)'
  BY NextState
<1> QED
  BY <1>1 DEF VmInv, Memory

\* A new PML4, a copy of the kernel's, in the frame on top of the free stack.
CopiedRoot == [PmmAlloc(State) EXCEPT !.tab[PmmTop(State)] = tab[KRoot]]

\* The levels after that, when only the new root differs, and pages still bare.
Copied(L, s, f, W) ==
    /\ f \in managed /\ L[f] = "free" /\ f # 0 /\ f # KRoot
    /\ \E J : Good(managed, s, J) /\ J[f] = "root" /\ \A g \in Frames(managed) : g # f => J[g] = L[g]
    /\ Bare(s, W)

LEMMA RootCopied ==
    ASSUME VmAssumption, Memory(managed), NEW L, Good(managed, State, L), PmmTop(State) # 0,
           NEW W \in SUBSET VPages, Bare(State, W)
    PROVE  Copied(L, CopiedRoot, PmmTop(State), W)
<1> DEFINE M == managed
           f == PmmTop(State)
           a == PmmAlloc(State)
           A == [L EXCEPT ![f] = "taken"]
           K == [A EXCEPT ![f] = "root"]
           tc == [tab EXCEPT ![f] = tab[KRoot]]
           s == [a EXCEPT !.tab[f] = tab[KRoot]]
<1>1. s = CopiedRoot
  BY DEF CopiedRoot
<1>2. f \in M /\ L[f] = "free" /\ Good(M, a, A) /\ a.tab = State.tab
  BY Allocated
<1>3. State.tab = tab
  BY DEF State
<1>4. KRoot \in Frames(M) /\ L[KRoot] = "root" /\ "root" \in Level /\ L \in [Frames(M) -> Level]
  BY DEF Good, Owned, Linked, LevelsOK, Frames, BootFrames, Level, TableLevel
<1>5. a = [free |-> a.free, tab |-> tab, tlb |-> a.tlb] /\ Owned(M, A, a.free, tab)
  BY <1>2, <1>3 DEF Good
<1>6. tab \in [Frames(M) -> [Index -> Entry]]
  BY <1>5 DEF Owned, Linked
<1>7. s = [a EXCEPT !.tab = tc]
  BY <1>5
<1>8. f \in Frames(M) /\ A[f] = "taken"
  BY <1>2, <1>4 DEF Frames
<1>9. /\ K \in [Frames(M) -> Level] /\ K[f] = "root"
      /\ \A g \in Frames(M) : g # f => K[g] = L[g]
  BY <1>4, <1>8
<1>10. f # 0
  OBVIOUS
<1> HIDE DEF a, f, s
<1>11. /\ tc \in [Frames(M) -> [Index -> Entry]] /\ tc[f] = tab[KRoot]
       /\ \A g \in Frames(M) : g # f => tc[g] = tab[g]
  BY <1>4, <1>6, <1>8
<1> HIDE DEF tc, A
<1>12. Owned(M, K, a.free, tc)
  BY <1>2, <1>5, <1>8, <1>11, CopyRoot
<1>13. s = [free |-> a.free, tab |-> tc, tlb |-> a.tlb]
  BY <1>5, <1>7
<1>14. Good(M, s, K)
  BY <1>12, <1>13 DEF Good
<1> HIDE DEF K
<1>15. f # KRoot
  BY <1>2, <1>4
<1>16. Bare(s, W)
  <2> SUFFICES ASSUME LowMapped(s.tab), NEW v \in W PROVE Translate(s.tab, KRoot, v).f = 0
    BY DEF Bare
  <2>1. s.tab = tc /\ tc[KRoot] = tab[KRoot]
    BY <1>4, <1>11, <1>13, <1>15
  <2>2. Translate(State.tab, KRoot, v).f = 0
    BY <1>3, <2>1 DEF Bare, LowMapped
  <2>3. \A g \in Frames(M), i \in Index : L[g] \in {"pdpt", "pd", "pt"} => tc[g][i] = State.tab[g][i]
    BY <1>2, <1>3, <1>11
  <2>4. tc[KRoot][Lo] = State.tab[KRoot][Lo] /\ v \in VPages
    BY <1>3, <2>1
  <2>5. Translate(tc, KRoot, v) = Translate(State.tab, KRoot, v)
    BY <1>4, <2>3, <2>4, SameWalk
  <2> QED
    BY <2>1, <2>2, <2>5
<1>17. Copied(L, s, f, W)
  BY <1>2, <1>9, <1>10, <1>14, <1>15, <1>16 DEF Copied
<1> QED
  BY <1>1, <1>17 DEF f

\* clks_vm_create_address_space.
LEMMA CreateKeeps ==
    ASSUME VmAssumption, VmInv, NEW p \in Procs, Create(p)
    PROVE  VmInv'
<1>1. PICK L : Good(managed, State, L) /\ RootsOK(L)
  BY DEF VmInv
<1> DEFINE M == managed
           f == PmmTop(State)
           s == CopiedRoot
<1>2. Memory(M) /\ AreasOK' /\ M' = M /\ lost' = lost /\ root = [q \in Procs |-> root[q]]
  BY <1>1, AreasStay DEF VmInv, Create, RootsOK
<1>3. /\ \A q \in Procs : root[q] = 0 \/ (root[q] \in Frames(M) /\ L[root[q]] = "root")
      /\ \A q, o \in Procs : root[q] = root[o] /\ root[q] \notin {0, KRoot} => q = o
      /\ \A g \in M : L[g] # "taken"
                      /\ (L[g] = "root" => g \in lost \/ \E q \in Procs : q # p /\ root[q] = g)
  <2>1. root[p] = 0 /\ 0 \notin M
    BY <1>2 DEF Create, Memory
  <2> QED
    BY <1>1, <2>1 DEF RootsOK
<1>7. Bare(State, VPages \ Held) /\ Held' = Held
  BY HeldStays DEF VmInv, Create
<1>4. KRoot \in Frames(M) /\ L[KRoot] = "root"
  BY <1>1 DEF Good, Owned, Linked, LevelsOK, Frames, BootFrames
<1>5. CASE f = 0
  <2>1. root' = [root EXCEPT ![p] = KRoot] /\ Apply(State)
    BY <1>5 DEF Create
  <2>2. RootsOK(L)'
    BY <1>2, <1>3, <1>4, <2>1 DEF RootsOK, Frames
  <2> QED
    BY <1>1, <1>2, <1>7, <2>1, <2>2, Restated
<1>6. CASE f # 0
  <2>1. root' = [root EXCEPT ![p] = f] /\ Apply(s)
    BY <1>6 DEF Create, CopiedRoot
  <2>2. Copied(L, s, f, VPages \ Held)
    BY <1>1, <1>2, <1>6, <1>7, RootCopied
  <2> HIDE DEF f, s
  <2>3. f \in M /\ L[f] = "free" /\ f # 0 /\ f # KRoot /\ f \in Frames(M) /\ Bare(s, VPages \ Held')
    BY <1>7, <2>2 DEF Copied, Frames
  <2>13. PICK J : Good(M, s, J) /\ J[f] = "root" /\ \A g \in Frames(M) : g # f => J[g] = L[g]
    BY <2>2 DEF Copied
  <2>14. \A q \in Procs : root'[q] = IF q = p THEN f ELSE root[q]
    BY <1>2, <2>1
  <2>15. \A q \in Procs : root[q] # f
    BY <1>3, <2>3
  <2>17. \A q \in Procs : root'[q] = 0 \/ (root'[q] \in Frames(M) /\ J[root'[q]] = "root")
    BY <1>3, <2>3, <2>13, <2>14, <2>15
  <2>18. \A q, o \in Procs : root'[q] = root'[o] /\ root'[q] \notin {0, KRoot} => q = o
    BY <1>3, <2>14, <2>15
  <2>19. root' = [q \in Procs |-> root'[q]]
    BY <1>2, <2>1
  <2>21. \A g \in M : J[g] # "taken" /\ (J[g] = "root" => g \in lost \/ \E q \in Procs : root'[q] = g)
    <3> SUFFICES ASSUME NEW g \in M
                 PROVE  J[g] # "taken" /\ (J[g] = "root" => g \in lost \/ \E q \in Procs : root'[q] = g)
      OBVIOUS
    <3>1. CASE g = f
      BY <2>13, <2>14, <3>1
    <3>2. CASE g # f
      BY <1>3, <2>13, <2>14, <3>2 DEF Frames
    <3> QED
      BY <3>1, <3>2
  <2>20. RootsOK(J)'
    BY <1>2, <2>17, <2>18, <2>19, <2>21 DEF RootsOK, Frames
  <2> QED
    BY <1>2, <2>1, <2>3, <2>13, <2>20, Restated
<1> QED
  BY <1>5, <1>6

\* The failed stdio override: the new root stays one, and is lost.
LEMMA ForgottenKeeps ==
    ASSUME VmAssumption, VmInv, NEW p \in Procs, CreateForgotten(p)
    PROVE  VmInv'
<1>1. PICK L : Good(managed, State, L) /\ RootsOK(L)
  BY DEF VmInv
<1> DEFINE M == managed
           f == PmmTop(State)
           s == CopiedRoot
<1>2. /\ Memory(M) /\ AreasOK' /\ M' = M /\ lost' = lost \cup {f} /\ root' = root /\ Apply(s) /\ f # 0
      /\ Bare(State, VPages \ Held) /\ Held' = Held
  BY AreasStay, HeldStays DEF VmInv, CreateForgotten, CopiedRoot
<1>3. Copied(L, s, f, VPages \ Held)
  BY <1>1, <1>2, RootCopied
<1> HIDE DEF f, s
<1>4. f \in M /\ L[f] = "free" /\ f \in Frames(M) /\ Bare(s, VPages \ Held')
  BY <1>2, <1>3 DEF Copied, Frames
<1>5. PICK J : Good(M, s, J) /\ J[f] = "root" /\ \A g \in Frames(M) : g # f => J[g] = L[g]
  BY <1>3 DEF Copied
<1>6. \A q \in Procs : root[q] = 0 \/ (root[q] \in Frames(M) /\ J[root[q]] = "root")
  BY <1>1, <1>5 DEF RootsOK
<1>7. \A g \in M : J[g] # "taken" /\ (J[g] = "root" => g \in lost' \/ \E q \in Procs : root[q] = g)
  BY <1>1, <1>2, <1>5 DEF RootsOK, Frames
<1>8. RootsOK(J)'
  BY <1>1, <1>2, <1>6, <1>7 DEF RootsOK, Frames
<1> QED
  BY <1>2, <1>4, <1>5, <1>8, Restated

\* Writing CR3 touches no table.
LEMMA Reloaded ==
    ASSUME NEW M, NEW s, NEW L, Good(M, s, L), NEW from, NEW to
    PROVE  /\ Good(M, Flushed(s), L) /\ Flushed(s).tab = s.tab
           /\ Good(M, SwitchTo(s, from, to), L) /\ SwitchTo(s, from, to).tab = s.tab
<1> DEFINE tl == [v \in VPages |-> NoEntry]
           x == Flushed(s)
<1>1. s = [free |-> s.free, tab |-> s.tab, tlb |-> s.tlb] /\ Owned(M, L, s.free, s.tab)
  BY DEF Good
<1>2. x = [s EXCEPT !.tlb = tl]
  BY DEF Flushed
<1> HIDE DEF x, tl
<1>3. x = [free |-> s.free, tab |-> s.tab, tlb |-> tl]
  BY <1>1, <1>2
<1>4. Good(M, x, L) /\ x.tab = s.tab
  BY <1>1, <1>3 DEF Good
<1> QED
  BY <1>4 DEF SwitchTo, x

\* clks_exec_switch_address_space, clks_exec_restore_address_space.
LEMMA SwitchKeeps ==
    ASSUME VmInv, NEW r, Switch(r)
    PROVE  VmInv'
<1>1. PICK L : Good(managed, State, L) /\ RootsOK(L)
  BY DEF VmInv
<1>2. Keeps(managed, L, L) /\ Quiet(managed, L, L)
  BY DEF Keeps, Quiet
<1>3. Good(managed, SwitchTo(State, cr3, r), L) /\ SwitchTo(State, cr3, r).tab = State.tab
  BY <1>1, Reloaded
<1>5. Bare(SwitchTo(State, cr3, r), VPages \ Held')
  BY <1>3, HeldStays DEF Bare, VmInv, Switch
<1>4. Apply(SwitchTo(State, cr3, r)) /\ Memory(managed) /\ UNCHANGED <<managed, lost, root>> /\ AreasOK'
  BY AreasStay DEF Switch, VmInv
<1> QED
  BY <1>1, <1>2, <1>3, <1>4, <1>5, Applied

\* The pages of a range, counted.
LEMMA Counted ==
    ASSUME VmAssumption, NEW b \in VPages, NEW n \in 1 .. NPages, Pages(b, n) \subseteq VPages
    PROVE  b \in Int /\ n \in Nat /\ \A k \in 1 .. n : b + k - 1 \in VPages /\ b + k - 1 \in Pages(b, n)
<1>1. NPages \in Nat
  BY DEF VmAssumption
<1>2. b \in Int /\ n \in Nat
  BY <1>1 DEF VPages
<1>3. \A k \in 1 .. n : b + k - 1 \in b .. b + n - 1
  BY <1>2
<1> QED
  BY <1>2, <1>3 DEF Pages

\* A new area lies in the user window, like the others.
LEMMA AreaAdded ==
    ASSUME VmAssumption, AreasOK, NEW p \in Procs, NEW b \in VPages, NEW n \in 1 .. NPages, NEW w \in BOOLEAN,
           Pages(b, n) \subseteq VPages,
           areas' = [areas EXCEPT ![p] = @ \cup {[base |-> b, n |-> n, w |-> w]}]
    PROVE  AreasOK'
<1> DEFINE c == [base |-> b, n |-> n, w |-> w]
<1>1. b \in Int /\ n \in Nat
  BY Counted
<1>2. c \in Area /\ c.base = b /\ c.n = n
  BY <1>1 DEF Area
<1>3. areas = [q \in Procs |-> areas[q]]
  BY DEF AreasOK
<1> HIDE DEF c
<1>4. \A q \in Procs : areas'[q] = IF q = p THEN areas[p] \cup {c} ELSE areas[q]
  BY <1>3 DEF c
<1>5. areas' = [q \in Procs |-> areas'[q]]
  BY <1>3
<1>6. \A q \in Procs : \A a \in areas'[q] : a \in Area /\ Pages(a.base, a.n) \subseteq VPages
  BY <1>2, <1>4 DEF AreasOK
<1> QED
  BY <1>5, <1>6 DEF AreasOK, Pages, VPages

\* Nor is a page held no longer.
LEMMA HeldAdded ==
    ASSUME AreasOK, NEW p \in Procs, NEW c, areas' = [areas EXCEPT ![p] = @ \cup {c}]
    PROVE  Held \subseteq Held' /\ Pages(c.base, c.n) \subseteq Held'
<1>1. \A q \in Procs : areas'[q] = IF q = p THEN areas[p] \cup {c} ELSE areas[q]
  BY DEF AreasOK
<1> QED
  BY <1>1, HeldPages

\* The pages nobody holds, when those of V are held now or bare now.
LEMMA StillBare ==
    ASSUME Memory(managed), NEW L, Good(managed, State, L), Bare(State, VPages \ Held),
           NEW s, NEW V, Local(managed, L, State, s, V), Held \subseteq Held' \cup V, V \subseteq Held' \/ Bare(s, V)
    PROVE  Bare(s, VPages \ Held')
<1> DEFINE W == VPages \ Held
           U == VPages \ Held'
<1>1. CASE V \subseteq Held'
  <2>1. U \subseteq (W \ V) \cup {} /\ Bare(s, {}) /\ W \in SUBSET VPages
    BY <1>1 DEF Bare
  <2> HIDE DEF U, W
  <2> QED
    BY <2>1, BareStep DEF W, U
<1>2. CASE Bare(s, V)
  <2>1. U \subseteq (W \ V) \cup V /\ W \in SUBSET VPages
    OBVIOUS
  <2> HIDE DEF U, W
  <2> QED
    BY <1>2, <2>1, BareStep DEF W, U
<1> QED
  BY <1>1, <1>2

\* clks_exec_vm_alloc.
LEMMA VmAllocKeeps ==
    ASSUME VmAssumption, VmInv, NEW p \in Procs, NEW b \in VPages, NEW n \in 1 .. NPages,
           NEW w \in BOOLEAN, VmAlloc(p, b, n, w)
    PROVE  VmInv'
<1>1. PICK L : Good(managed, State, L) /\ RootsOK(L)
  BY DEF VmInv
<1> DEFINE m == AllocArea(State, cr3, b, n, w)
<1>2. /\ Memory(managed) /\ UNCHANGED <<managed, lost, root>> /\ Pages(b, n) \subseteq VPages /\ Apply(m.s)
      /\ areas' = IF m.ok THEN [areas EXCEPT ![p] = @ \cup {[base |-> b, n |-> n, w |-> w]}] ELSE areas
  BY DEF VmAlloc, VmInv
<1>3. cr3 \in Frames(managed) /\ L[cr3] = "root"
  BY <1>1 DEF VmAlloc, RootsOK
<1>4. b \in Int /\ n \in Nat /\ \A k \in 1 .. n : b + k - 1 \in VPages /\ b + k - 1 \in Pages(b, n)
  BY <1>2, Counted
<1> DEFINE V == Pages(b, n)
<1>8. V \in SUBSET VPages /\ Bare(State, V) /\ AreasOK /\ Bare(State, VPages \ Held)
  BY <1>2 DEF VmInv, VmAlloc, Bare
<1>9. \A k \in 1 .. n : b + k - 1 \in V
  BY <1>4
<1> HIDE DEF V
<1>5. AllocOK(managed, L, State, cr3, b, n, w, V, m)
  BY <1>1, <1>2, <1>3, <1>4, <1>8, <1>9, AreaAllocated
<1>6. PICK K : /\ Good(managed, m.s, K) /\ Keeps(managed, L, K) /\ Quiet(managed, L, K)
               /\ Local(managed, L, State, m.s, V)
  BY <1>5 DEF AllocOK
<1>10. m.ok \in BOOLEAN /\ (~m.ok => Bare(m.s, V))
  BY <1>5 DEF AllocOK
<1> HIDE DEF m
<1>7. AreasOK'
  BY <1>2, <1>10, AreaAdded, AreasStay DEF VmInv
<1>11. Bare(m.s, VPages \ Held')
  <2>1. CASE m.ok
    <3> DEFINE c == [base |-> b, n |-> n, w |-> w]
    <3>1. areas' = [areas EXCEPT ![p] = @ \cup {c}] /\ c.base = b /\ c.n = n
      BY <1>2, <2>1
    <3> HIDE DEF c
    <3>2. Held \subseteq Held' /\ V \subseteq Held'
      BY <1>8, <3>1, HeldAdded DEF V
    <3> QED
      BY <1>1, <1>2, <1>6, <1>8, <3>2, StillBare
  <2>2. CASE ~m.ok
    <3>1. Held' = Held
      BY <1>2, <2>2, HeldStays
    <3> QED
      BY <1>1, <1>2, <1>6, <1>8, <1>10, <2>2, <3>1, StillBare
  <2> QED
    BY <1>10, <2>1, <2>2
<1> QED
  BY <1>1, <1>2, <1>6, <1>7, <1>11, Applied

\* clks_exec_mmap.
LEMMA MmapFileKeeps ==
    ASSUME VmAssumption, VmInv, NEW p \in Procs, NEW b \in VPages, NEW n \in 1 .. NPages,
           NEW w \in BOOLEAN, NEW readable \in BOOLEAN, MmapFile(p, b, n, w, readable)
    PROVE  VmInv'
<1>1. PICK L : Good(managed, State, L) /\ RootsOK(L)
  BY DEF VmInv
<1> DEFINE m == AllocArea(State, cr3, b, n, TRUE)
           kept == m.ok /\ readable
           x == IF m.ok THEN UnmapUp(m.s, cr3, b, n) ELSE m.s
           y == ProtectRange(m.s, cr3, b, n, w)
<1>2. /\ Memory(managed) /\ UNCHANGED <<managed, lost, root>> /\ Pages(b, n) \subseteq VPages
      /\ kept => Apply(y) /\ areas' = [areas EXCEPT ![p] = @ \cup {[base |-> b, n |-> n, w |-> w]}]
      /\ ~kept => Apply(x) /\ UNCHANGED areas
  BY DEF MmapFile, VmInv
<1>3. cr3 \in Frames(managed) /\ L[cr3] = "root"
  BY <1>1 DEF MmapFile, RootsOK
<1>4. b \in Int /\ n \in Nat /\ \A k \in 1 .. n : b + k - 1 \in VPages /\ b + k - 1 \in Pages(b, n)
  BY <1>2, Counted
<1> DEFINE V == Pages(b, n)
<1>10. V \in SUBSET VPages /\ Bare(State, V) /\ AreasOK /\ Bare(State, VPages \ Held)
  BY <1>2 DEF VmInv, MmapFile, Bare
<1>11. \A k \in 1 .. n : b + k - 1 \in V
  BY <1>4
<1> HIDE DEF V
<1>5. AllocOK(managed, L, State, cr3, b, n, TRUE, V, m)
  BY <1>1, <1>2, <1>3, <1>4, <1>10, <1>11, AreaAllocated
<1>6. PICK K : /\ Good(managed, m.s, K) /\ Keeps(managed, L, K) /\ Quiet(managed, L, K)
               /\ Local(managed, L, State, m.s, V)
  BY <1>5 DEF AllocOK
<1>12. m.ok \in BOOLEAN /\ (~m.ok => Bare(m.s, V))
  BY <1>5 DEF AllocOK
<1>7. K[cr3] = "root"
  BY <1>3, <1>6 DEF Keeps, TableLevel
<1> HIDE DEF m
<1>8. CASE kept
  <2>1. Good(managed, y, K) /\ Local(managed, K, m.s, y, V)
    <3>1. Memory(managed) /\ Good(managed, m.s, K) /\ cr3 \in Frames(managed) /\ K[cr3] = "root"
      BY <1>2, <1>3, <1>6, <1>7
    <3>2. RangeOK(managed, K, m.s, cr3, b, n, w, ProtectRange(m.s, cr3, b, n, w))
      BY <1>4, <3>1, ProtectedRange
    <3> QED
      BY <3>2 DEF RangeOK, V
  <2>2. AreasOK'
    BY <1>2, <1>8, AreaAdded DEF VmInv
  <2>3. Held \subseteq Held' /\ V \subseteq Held'
    <3> DEFINE c == [base |-> b, n |-> n, w |-> w]
    <3>1. areas' = [areas EXCEPT ![p] = @ \cup {c}] /\ c.base = b /\ c.n = n
      BY <1>2, <1>8
    <3> HIDE DEF c
    <3> QED
      BY <1>10, <3>1, HeldAdded DEF V
  <2> HIDE DEF y
  <2>4. Local(managed, L, State, y, V)
    BY <1>6, <2>1, LocalTransitive
  <2>5. Bare(y, VPages \ Held')
    BY <1>1, <1>2, <1>10, <2>3, <2>4, StillBare
  <2>6. Apply(y)
    BY <1>2, <1>8
  <2> QED
    BY <1>1, <1>2, <1>6, <2>1, <2>2, <2>5, <2>6, Applied
<1>9. CASE ~kept
  <2>1. \E J : /\ Good(managed, x, J) /\ Keeps(managed, L, J) /\ Quiet(managed, L, J)
               /\ Local(managed, L, State, x, V) /\ Bare(x, V)
    <3>1. CASE ~m.ok
      BY <1>6, <1>12, <3>1
    <3>2. CASE m.ok
      <4>1. PICK J : LET z == UnmapUp(m.s, cr3, b, n) IN
                       /\ Good(managed, z, J) /\ Keeps(managed, K, J) /\ Quiet(managed, K, J)
                       /\ Local(managed, K, m.s, z, V) /\ Bare(z, V)
        BY <1>2, <1>3, <1>4, <1>6, <1>7, <1>10, <1>11, UnmappedRange DEF V
      <4>2. Keeps(managed, L, J) /\ Quiet(managed, L, J) /\ Local(managed, L, State, x, V)
        BY <1>6, <3>2, <4>1, KeepsTransitive, QuietTransitive, LocalTransitive
      <4> QED
        BY <3>2, <4>1, <4>2
    <3> QED
      BY <1>12, <3>1, <3>2
  <2>2. AreasOK' /\ Held' = Held
    BY <1>2, <1>9, AreasStay, HeldStays DEF VmInv
  <2> HIDE DEF x
  <2>3. Apply(x)
    BY <1>2, <1>9
  <2>4. PICK J : /\ Good(managed, x, J) /\ Keeps(managed, L, J) /\ Quiet(managed, L, J)
                 /\ Local(managed, L, State, x, V) /\ Bare(x, V)
    BY <2>1
  <2>5. Bare(x, VPages \ Held')
    BY <1>1, <1>2, <1>10, <2>2, <2>4, StillBare
  <2> QED
    BY <1>1, <1>2, <2>2, <2>3, <2>4, <2>5, Applied
<1> QED
  BY <1>8, <1>9

\* What is left of an area when pages are cut out: the others, none of them twice.
LEMMA Remains ==
    ASSUME NEW a \in Area, NEW u \in Int, NEW n \in Nat, n > 0, Pages(u, n) \subseteq Pages(a.base, a.n)
    PROVE  /\ \A c \in Cut(a, u, n) :
                 c \in Area /\ c.w = a.w /\ Pages(c.base, c.n) \subseteq Pages(a.base, a.n) \ Pages(u, n)
           /\ \A c, d \in Cut(a, u, n) : Pages(c.base, c.n) \cap Pages(d.base, d.n) # {} => c = d
           /\ \A v \in Pages(a.base, a.n) : v \in Pages(u, n) \/ \E c \in Cut(a, u, n) : v \in Pages(c.base, c.n)
<1> DEFINE m1 == u - a.base
           b2 == u + n
           m2 == a.base + a.n - (u + n)
           low == [base |-> a.base, n |-> m1, w |-> a.w]
           up == [base |-> b2, n |-> m2, w |-> a.w]
<1>1. /\ a = [base |-> a.base, n |-> a.n, w |-> a.w]
      /\ a.base \in Int /\ a.n \in Nat /\ a.w \in BOOLEAN
  BY DEF Area
<1>2. u \in a.base .. a.base + a.n - 1 /\ u + n - 1 \in a.base .. a.base + a.n - 1
  <2>1. u \in u .. u + n - 1 /\ u + n - 1 \in u .. u + n - 1
    OBVIOUS
  <2> QED
    BY <2>1 DEF Pages
<1>3. \A c \in Cut(a, u, n) : c.n > 0 /\ (c = [a EXCEPT !.n = m1] \/ c = [a EXCEPT !.base = b2, !.n = m2])
  BY DEF Cut
<1>9. \A v \in Pages(a.base, a.n) : \/ v \in Pages(u, n)
                                    \/ m1 > 0 /\ v \in Pages(a.base, m1)
                                    \/ m2 > 0 /\ v \in Pages(b2, m2)
  BY <1>1, <1>2 DEF Pages
<1>10. \A c : c.n > 0 /\ (c = [a EXCEPT !.n = m1] \/ c = [a EXCEPT !.base = b2, !.n = m2]) => c \in Cut(a, u, n)
  BY DEF Cut
<1>4. /\ m1 \in Int /\ b2 \in Int /\ m2 \in Int
      /\ Pages(a.base, m1) \subseteq Pages(a.base, a.n) \ Pages(u, n)
      /\ Pages(b2, m2) \subseteq Pages(a.base, a.n) \ Pages(u, n)
      /\ Pages(a.base, m1) \cap Pages(b2, m2) = {}
  BY <1>1, <1>2 DEF Pages
<1> HIDE DEF m1, b2, m2
<1>5. ASSUME NEW c \in Cut(a, u, n) PROVE c.n > 0 /\ (c = low \/ c = up)
  <2>1. c.n > 0 /\ (c = [a EXCEPT !.n = m1] \/ c = [a EXCEPT !.base = b2, !.n = m2])
    BY <1>3
  <2> QED
    BY <1>1, <2>1
<1>6. /\ low.base = a.base /\ low.n = m1 /\ low.w = a.w /\ (m1 > 0 => low \in Area)
      /\ up.base = b2 /\ up.n = m2 /\ up.w = a.w /\ (m2 > 0 => up \in Area)
  BY <1>1, <1>4 DEF Area
<1> HIDE DEF low, up
<1>7. ASSUME NEW c \in Cut(a, u, n)
      PROVE  c \in Area /\ c.w = a.w /\ Pages(c.base, c.n) \subseteq Pages(a.base, a.n) \ Pages(u, n)
  BY <1>4, <1>5, <1>6
<1>8. ASSUME NEW c \in Cut(a, u, n), NEW d \in Cut(a, u, n), Pages(c.base, c.n) \cap Pages(d.base, d.n) # {}
      PROVE  c = d
  BY <1>4, <1>5, <1>6, <1>8
<1>11. (m1 > 0 => low \in Cut(a, u, n)) /\ (m2 > 0 => up \in Cut(a, u, n))
  <2>1. PICK c, d : c = [a EXCEPT !.n = m1] /\ d = [a EXCEPT !.base = b2, !.n = m2]
    OBVIOUS
  <2>2. c = [base |-> a.base, n |-> m1, w |-> a.w] /\ d = [base |-> b2, n |-> m2, w |-> a.w]
    BY <1>1, <2>1
  <2>3. (c.n > 0 => c \in Cut(a, u, n)) /\ (d.n > 0 => d \in Cut(a, u, n))
    BY <1>10, <2>1
  <2>4. c = low /\ d = up
    BY <2>2 DEF low, up
  <2> QED
    BY <1>6, <2>3, <2>4
<1>12. \A v \in Pages(a.base, a.n) : v \in Pages(u, n) \/ \E c \in Cut(a, u, n) : v \in Pages(c.base, c.n)
  BY <1>6, <1>9, <1>11
<1> QED
  BY <1>7, <1>8, <1>12

\* clks_exec_vm_free: what is left of an area lies where the area did.
LEMMA VmFreeKeeps ==
    ASSUME VmAssumption, VmInv, NEW p \in Procs, NEW a \in areas[p], NEW u \in VPages,
           NEW n \in 1 .. NPages, VmFree(p, a, u, n)
    PROVE  VmInv'
<1>1. PICK L : Good(managed, State, L) /\ RootsOK(L)
  BY DEF VmInv
<1> DEFINE x == UnmapUp(State, cr3, u, n)
<1>2. /\ Memory(managed) /\ UNCHANGED <<managed, lost, root>> /\ Apply(x)
      /\ Pages(u, n) \subseteq Pages(a.base, a.n)
      /\ areas' = [areas EXCEPT ![p] = (@ \ {a}) \cup Cut(a, u, n)]
  BY DEF VmFree, VmInv
<1>3. cr3 \in Frames(managed) /\ L[cr3] = "root"
  BY <1>1 DEF VmFree, RootsOK
<1>4. a \in Area /\ Pages(a.base, a.n) \subseteq VPages
  BY DEF VmInv, AreasOK
<1>5. u \in Int /\ n \in Nat /\ n > 0 /\ \A k \in 1 .. n : u + k - 1 \in VPages /\ u + k - 1 \in Pages(u, n)
  <2>1. NPages \in Nat
    BY DEF VmAssumption
  <2>2. n > 0
    BY <2>1
  <2> QED
    BY <1>2, <1>4, <2>2, Counted
<1> DEFINE V == Pages(u, n)
<1>9. V \in SUBSET VPages /\ \A k \in 1 .. n : u + k - 1 \in V
  BY <1>2, <1>4, <1>5
<1> HIDE DEF V
<1>6. PICK K : /\ Good(managed, x, K) /\ Keeps(managed, L, K) /\ Quiet(managed, L, K)
               /\ Local(managed, L, State, x, V) /\ Bare(x, V)
  BY <1>1, <1>2, <1>3, <1>5, <1>9, UnmappedRange DEF V
<1> HIDE DEF x
<1>10. \A v \in Pages(a.base, a.n) : v \in V \/ \E c \in Cut(a, u, n) : v \in Pages(c.base, c.n)
  BY <1>2, <1>4, <1>5, Remains DEF V
<1>7. \A c \in Cut(a, u, n) : c \in Area /\ Pages(c.base, c.n) \subseteq VPages
  BY <1>2, <1>4, <1>5, Remains
<1>8. AreasOK'
  <2>1. /\ areas = [q \in Procs |-> areas[q]]
        /\ \A q \in Procs : \A c \in areas[q] : c \in Area /\ Pages(c.base, c.n) \subseteq VPages
    BY DEF VmInv, AreasOK
  <2>2. \A q \in Procs : areas'[q] = IF q = p THEN (areas[p] \ {a}) \cup Cut(a, u, n) ELSE areas[q]
    BY <1>2, <2>1
  <2>3. areas' = [q \in Procs |-> areas'[q]]
    BY <1>2, <2>1
  <2>4. \A q \in Procs : \A c \in areas'[q] : c \in Area /\ Pages(c.base, c.n) \subseteq VPages
    BY <1>7, <2>1, <2>2
  <2> QED
    BY <2>3, <2>4 DEF AreasOK, Pages, VPages
<1>11. Bare(x, VPages \ Held')
  <2>1. \A q \in Procs : areas'[q] = IF q = p THEN (areas[p] \ {a}) \cup Cut(a, u, n) ELSE areas[q]
    BY <1>2 DEF VmInv, AreasOK
  <2>2. Held \subseteq Held' \cup V
    <3> SUFFICES ASSUME NEW v \in Held PROVE v \in Held' \cup V
      OBVIOUS
    <3>4. PICK q \in Procs : \E d \in areas[q] : v \in Pages(d.base, d.n)
      BY HeldPages
    <3>1. PICK d \in areas[q] : v \in Pages(d.base, d.n)
      BY <3>4
    <3>2. CASE q = p /\ d = a
      BY <1>10, <2>1, <3>1, <3>2, HeldPages
    <3>3. CASE q # p \/ d # a
      BY <2>1, <3>1, <3>3, HeldPages
    <3> QED
      BY <3>2, <3>3
  <2>3. Bare(State, VPages \ Held)
    BY DEF VmInv
  <2> QED
    BY <1>1, <1>2, <1>6, <2>2, <2>3, StillBare
<1> QED
  BY <1>1, <1>2, <1>6, <1>8, <1>11, Applied

\* clks_exec_proc_release_runtime and clks_exec_proc_release_address_space:
\* the root goes with its process, and no other process has it.
LEMMA ExitKeeps ==
    ASSUME VmAssumption, VmInv, NEW p \in Procs, Exit(p)
    PROVE  VmInv'
<1>1. PICK L : Good(managed, State, L) /\ RootsOK(L)
  BY DEF VmInv
<1> DEFINE M == managed
           r == root[p]
           switched == SwitchTo(State, cr3, r)
           inside == Flushed(ReleaseAreas(switched, p))
           after == IF cr3 = r THEN ReleaseAreas(State, p) ELSE inside
           left == IF cr3 = r /\ r # KRoot THEN Flushed(after) ELSE after
           s == Destroy(left, r)
<1>2. /\ Memory(M) /\ M' = M /\ lost' = lost /\ Apply(s) /\ r # 0
      /\ root' = [root EXCEPT ![p] = 0] /\ areas' = [areas EXCEPT ![p] = {}]
  BY DEF Exit, VmInv
<1>3. /\ root = [q \in Procs |-> root[q]]
      /\ \A q \in Procs : root[q] = 0 \/ (root[q] \in Frames(M) /\ L[root[q]] = "root")
      /\ \A q, o \in Procs : root[q] = root[o] /\ root[q] \notin {0, KRoot} => q = o
  BY <1>1 DEF RootsOK
<1>4. r \in Frames(M) /\ L[r] = "root" /\ (r = KRoot \/ r \in M)
  <2>1. L[KLow] # "root" /\ L[KHigh] # "root"
    BY <1>1 DEF Good, Owned, Linked, LevelsOK
  <2> QED
    BY <1>2, <1>3, <2>1 DEF Frames, BootFrames
<1>5. \A a \in areas[p] : Pages(a.base, a.n) \subseteq VPages
  BY DEF VmInv, AreasOK
<1> DEFINE S == UNION {Pages(a.base, a.n) : a \in areas[p]}
           W == VPages \ Held
           U == VPages \ Held'
<1>12. \A q \in Procs : root'[q] = IF q = p THEN 0 ELSE root[q]
  BY <1>2, <1>3
<1>19. U \subseteq (W \ S) \cup S /\ W \in SUBSET VPages /\ Bare(State, W)
  <2>1. \A q \in Procs : areas'[q] = IF q = p THEN {} ELSE areas[q]
    BY <1>2 DEF VmInv, AreasOK
  <2>2. \A v \in Held : v \in Held' \/ \E a \in areas[p] : v \in Pages(a.base, a.n)
    BY <2>1, HeldPages
  <2> QED
    BY <2>2 DEF VmInv
<1>20. U \in SUBSET VPages
  OBVIOUS
<1> HIDE DEF U, W
<1>21. ASSUME NEW z, Good(M, z, L), z.tab = State.tab
       PROVE  \E A : /\ Good(M, ReleaseAreas(z, p), A) /\ Keeps(M, L, A) /\ Quiet(M, L, A)
                     /\ Bare(ReleaseAreas(z, p), U)
  <2>1. PICK A : /\ Good(M, ReleaseAreas(z, p), A) /\ Keeps(M, L, A) /\ Quiet(M, L, A)
                 /\ Local(M, L, z, ReleaseAreas(z, p), S) /\ Bare(ReleaseAreas(z, p), S)
    BY <1>2, <1>4, <1>5, <1>21, AreasReleased
  <2> HIDE DEF S
  <2>2. Bare(z, W)
    BY <1>19, <1>21 DEF Bare
  <2>3. Bare(ReleaseAreas(z, p), U)
    BY <1>2, <1>19, <1>21, <2>1, <2>2, BareStep
  <2> QED
    BY <2>1, <2>3
<1> HIDE DEF S
<1>6. PICK A : Good(M, after, A) /\ Keeps(M, L, A) /\ Quiet(M, L, A) /\ Bare(after, U)
  <2>1. CASE cr3 = r
    BY <1>1, <1>21, <2>1
  <2>2. CASE cr3 # r
    <3>1. Good(M, switched, L) /\ switched.tab = State.tab
      BY <1>1, Reloaded
    <3> HIDE DEF switched
    <3>2. PICK A : /\ Good(M, ReleaseAreas(switched, p), A) /\ Keeps(M, L, A) /\ Quiet(M, L, A)
                   /\ Bare(ReleaseAreas(switched, p), U)
      BY <1>21, <3>1
    <3>3. Good(M, inside, A) /\ Bare(inside, U)
      BY <3>2, Reloaded DEF Bare
    <3> HIDE DEF inside
    <3> QED
      BY <2>2, <3>2, <3>3
  <2> QED
    BY <2>1, <2>2
<1> HIDE DEF after
<1>7. Good(M, left, A) /\ Bare(left, U)
  BY <1>6, Reloaded DEF Bare
<1> HIDE DEF left
<1>8. A[r] = "root"
  BY <1>4, <1>6 DEF Keeps, TableLevel
<1> HIDE DEF r
<1>9. PICK K : /\ Good(M, s, K)
               /\ \A f \in Frames(M) : A[f] \in TableLevel /\ f # r => K[f] = A[f]
               /\ r = KRoot => K[r] = "root"
               /\ Quiet(M, A, K) /\ (r # KRoot => K[r] # "root")
               /\ Bare(s, U)
  BY <1>2, <1>4, <1>7, <1>8, <1>20, Destroyed
<1> HIDE DEF s
<1>10. \A f \in Frames(M) : L[f] = "root" => A[f] = "root"
  BY <1>6 DEF Keeps, TableLevel
<1>11. \A f \in Frames(M) : L[f] = "root" /\ (f # r \/ r = KRoot) => K[f] = "root"
  BY <1>9, <1>10 DEF TableLevel
<1>13. \A q \in Procs : root[q] # 0 /\ q # p => root[q] # r \/ r = KRoot
  BY <1>2, <1>3 DEF r
<1>14. \A q \in Procs : root'[q] = 0 \/ (root'[q] \in Frames(M) /\ K[root'[q]] = "root")
  BY <1>3, <1>11, <1>12, <1>13
<1>15. \A q, o \in Procs : root'[q] = root'[o] /\ root'[q] \notin {0, KRoot} => q = o
  BY <1>3, <1>12
<1>16. root' = [q \in Procs |-> root'[q]]
  BY <1>2, <1>3
<1>22. \A f \in M : K[f] # "taken" /\ (K[f] = "root" => f \in lost' \/ \E q \in Procs : root'[q] = f)
  <2> SUFFICES ASSUME NEW f \in M, K[f] \in {"taken", "root"}, f \notin lost
               PROVE  K[f] # "taken" /\ \E q \in Procs : root'[q] = f
    <3>1. \A f \in M : K[f] # "taken"
      <4> SUFFICES ASSUME NEW f \in M PROVE K[f] # "taken"
        OBVIOUS
      <4>1. f \in Frames(M) /\ L[f] # "taken"
        BY <1>1 DEF Frames, RootsOK
      <4> QED
        BY <1>6, <1>9, <4>1 DEF Quiet
    <3> QED
      BY <1>2, <3>1
  <2>1. f \in Frames(M) /\ f # KRoot
    BY <1>2 DEF Frames, Memory, BootFrames
  <2>2. L[f] = K[f]
    BY <1>6, <1>9, <2>1 DEF Quiet
  <2>3. K[f] = "root" /\ \E q \in Procs : root[q] = f
    BY <1>1, <2>2 DEF RootsOK
  <2>4. f # r
    BY <1>9, <2>1, <2>3
  <2> QED
    BY <1>12, <2>3, <2>4 DEF r
<1>17. RootsOK(K)'
  BY <1>2, <1>14, <1>15, <1>16, <1>22 DEF RootsOK, Frames
<1>18. AreasOK'
  <2>1. /\ areas = [q \in Procs |-> areas[q]]
        /\ \A q \in Procs : \A c \in areas[q] : c \in Area /\ Pages(c.base, c.n) \subseteq VPages
    BY DEF VmInv, AreasOK
  <2>2. \A q \in Procs : areas'[q] = IF q = p THEN {} ELSE areas[q]
    BY <1>2, <2>1
  <2>3. areas' = [q \in Procs |-> areas'[q]]
    BY <1>2, <2>1
  <2>4. \A q \in Procs : \A c \in areas'[q] : c \in Area /\ Pages(c.base, c.n) \subseteq VPages
    BY <2>1, <2>2
  <2> QED
    BY <2>3, <2>4 DEF AreasOK, Pages, VPages
<1> QED
  BY <1>2, <1>9, <1>17, <1>18, Restated DEF U

\* A step that writes no table: the CPU's cache alone, or nothing.
LEMMA TouchKeeps ==
    ASSUME VmInv, UNCHANGED <<free, managed, lost, tab, root, areas>>
    PROVE  VmInv'
<1>1. PICK L : Good(managed, State, L) /\ RootsOK(L)
  BY DEF VmInv
<1>2. Good(managed, State, L)'
  <2>1. State' = [free |-> free, tab |-> tab, tlb |-> tlb'] /\ State = [free |-> free, tab |-> tab, tlb |-> tlb]
    BY DEF State
  <2>2. Good(managed, State', L)
    BY <1>1, <2>1 DEF Good
  <2>3. Good(managed', State', L)
    BY <2>2
  <2> QED
    BY <2>3 DEF Good, Owned, Linked, LevelsOK, FreeOK, PointsOK, OnceOK, HungOK, LowMapped, Hangs, Listed, State
<1>5. Bare(State, VPages \ Held)'
  <2>1. tab'[KRoot][Lo].f = KLow => \A v \in VPages \ Held' : Translate(tab', KRoot, v).f = 0
    BY HeldStays DEF VmInv, Bare, LowMapped, State
  <2>2. (tab[KRoot][Lo].f = KLow => \A v \in VPages \ Held : Translate(tab, KRoot, v).f = 0)'
    BY <2>1, Zenon
  <2> QED
    BY <2>2, Zenon DEF Bare, LowMapped, State
<1>3. RootsOK(L)'
  BY <1>1 DEF RootsOK, Frames
<1>4. AreasOK'
  BY AreasStay DEF VmInv
<1> QED
  BY <1>2, <1>3, <1>4, <1>5 DEF VmInv, Memory

\* Every step keeps the invariant.
LEMMA StepKeeps ==
    ASSUME VmAssumption, VmInv, [Next]_vars
    PROVE  VmInv'
<1>1. CASE MapMmio
  BY <1>1, MmioKeeps
<1>2. ASSUME NEW p \in Procs, Create(p) PROVE VmInv'
  BY <1>2, CreateKeeps
<1>10. ASSUME NEW p \in Procs, CreateForgotten(p) PROVE VmInv'
  BY <1>10, ForgottenKeeps
<1>3. ASSUME NEW p \in Procs, Exit(p) PROVE VmInv'
  BY <1>3, ExitKeeps
<1>4. ASSUME NEW r, Switch(r) PROVE VmInv'
  BY <1>4, SwitchKeeps
<1>5. ASSUME NEW p \in Procs, NEW b \in VPages, NEW n \in 1 .. NPages, NEW w \in BOOLEAN,
             VmAlloc(p, b, n, w)
      PROVE VmInv'
  BY <1>5, VmAllocKeeps
<1>6. ASSUME NEW p \in Procs, NEW b \in VPages, NEW n \in 1 .. NPages, NEW w \in BOOLEAN,
             NEW ok \in BOOLEAN, MmapFile(p, b, n, w, ok)
      PROVE VmInv'
  BY <1>6, MmapFileKeeps
<1>7. ASSUME NEW p \in Procs, NEW a \in areas[p], NEW u \in VPages, NEW n \in 1 .. NPages,
             VmFree(p, a, u, n)
      PROVE VmInv'
  BY <1>7, VmFreeKeeps
<1>8. ASSUME NEW v \in VPages, Touch(v) PROVE VmInv'
  BY <1>8, TouchKeeps DEF Touch
<1>9. CASE UNCHANGED vars
  BY <1>9, TouchKeeps DEF vars
<1> QED
  BY <1>1, <1>2, <1>3, <1>4, <1>5, <1>6, <1>7, <1>8, <1>9, <1>10 DEF Next

-----------------------------------------------------------------------------
(* The initial state: clks_pmm_init pushes each frame once.                 *)

\* Frame f lies in usable entry e.
Covers(e, f) == e.usable /\ e.base <= f * PageSize /\ (f + 1) * PageSize <= e.base + e.length

\* Each element of q is there once.
Distinct(q) == \A j, k \in DOMAIN q : q[j] = q[k] => j = k

\* Rounding down, with a product where the division was.
LEMMA Quotient ==
    ASSUME NEW a \in Int, NEW n \in Nat \ {0}
    PROVE  /\ a \div n \in Int /\ (a \div n) * n <= a /\ a < (a \div n) * n + n
           /\ ((a \div n) * n) \div n = a \div n
<1> DEFINE q == a \div n
<1>1. q \in Int /\ n * q <= a /\ a < n * q + n
  <2>1. a = (n * q) + (a % n) /\ (a % n) \in 0 .. n - 1 /\ q \in Int
    OBVIOUS
  <2> DEFINE m == a % n
             x == n * q
  <2>2. a = x + m /\ m \in 0 .. n - 1 /\ x \in Int /\ n \in Int
    BY <2>1
  <2> HIDE DEF m, x
  <2>3. x <= a /\ a < x + n
    BY <2>2
  <2> QED
    BY <2>1, <2>3 DEF x
<1> HIDE DEF q
<1>2. n * q = q * n /\ q * n \in Int
  BY <1>1
<1>3. (q * n) \div n = q
  BY <1>1, <1>2
<1> QED
  BY <1>1, <1>2, <1>3 DEF q

\* The frames of one entry lie in it, are not the first page, and come once.
LEMMA EntryListed ==
    ASSUME VmAssumption, NEW e \in [usable : BOOLEAN, base : Nat, length : Nat]
    PROVE  /\ EntryFrames(e) \in Seq(Nat \ {0}) /\ Distinct(EntryFrames(e))
           /\ \A k \in DOMAIN EntryFrames(e) : Covers(e, EntryFrames(e)[k])
<1> DEFINE first == AlignUp(e.base) \div PageSize
           last == AlignDown(e.base + e.length) \div PageSize - 1
           low == AlignUp(MinUsable) \div PageSize
           from == IF first < low THEN low ELSE first
           q == EntryFrames(e)
<1>1. /\ PageSize \in Nat \ {0} /\ MinUsable \in Nat /\ MinUsable >= PageSize
      /\ e.base \in Nat /\ e.length \in Nat
  BY DEF VmAssumption
<1>2. first \in Int /\ e.base <= first * PageSize
  <2> DEFINE a == e.base + PageSize - 1
             d == a \div PageSize
             x == d * PageSize
  <2>1. a \in Int
    BY <1>1
  <2>2. d \in Int /\ a < x + PageSize /\ x \div PageSize = d
    BY <1>1, <2>1, Quotient
  <2>3. x \in Int
    BY <1>1, <2>2
  <2> HIDE DEF x, d
  <2>4. e.base <= x
    BY <1>1, <2>2, <2>3
  <2> QED
    BY <2>2, <2>4 DEF AlignUp, x, d
<1>3. last \in Int /\ (last + 1) * PageSize <= e.base + e.length
  <2> DEFINE a == e.base + e.length
             d == a \div PageSize
             x == d * PageSize
  <2>1. a \in Int
    BY <1>1
  <2>2. d \in Int /\ x <= a /\ x \div PageSize = d
    BY <1>1, <2>1, Quotient
  <2>3. last = x \div PageSize - 1
    BY DEF AlignDown
  <2>4. last = d - 1
    BY <2>2, <2>3
  <2> HIDE DEF d, last
  <2>5. last \in Int /\ last + 1 = d
    BY <2>2, <2>4
  <2> QED
    BY <2>2, <2>5
<1>4. low \in Int /\ low >= 1
  <2> DEFINE a == MinUsable + PageSize - 1
             d == a \div PageSize
             x == d * PageSize
  <2>1. a \in Int
    BY <1>1
  <2>2. d \in Int /\ a < x + PageSize /\ x \div PageSize = d
    BY <1>1, <2>1, Quotient
  <2>3. x \in Int
    BY <1>1, <2>2
  <2> HIDE DEF d
  <2>4. x > 0
    <3> HIDE DEF x
    <3> QED
      BY <1>1, <2>2, <2>3
  <2>5. d >= 1
    <3>1. CASE d <= 0
      <4>1. d * PageSize <= 0
        BY <1>1, <2>2, <3>1
      <4> QED
        BY <2>3, <2>4, <4>1
    <3> QED
      BY <2>2, <3>1
  <2> QED
    BY <2>2, <2>5 DEF AlignUp, d
<1> HIDE DEF first, last, low
<1>5. from \in Int /\ from >= 1 /\ from >= first
  BY <1>2, <1>4
<1>6. q = IF e.usable /\ from <= last THEN [k \in 1 .. last - from + 1 |-> from + k - 1] ELSE <<>>
  BY DEF EntryFrames, first, last, low
<1> HIDE DEF from, q
<1>7. CASE ~(e.usable /\ from <= last)
  <2>1. q = <<>>
    BY <1>6, <1>7
  <2> QED
    BY <2>1 DEF q, Distinct
<1>8. CASE e.usable /\ from <= last
  <2> DEFINE n == last - from + 1
  <2>1. n \in Nat
    BY <1>3, <1>5, <1>8
  <2>2. q = [k \in 1 .. n |-> from + k - 1]
    BY <1>6, <1>8
  <2>3. \A k \in 1 .. n : from + k - 1 \in Nat \ {0} /\ first <= from + k - 1 /\ from + k - 1 <= last
    BY <1>2, <1>3, <1>5
  <2> HIDE DEF n
  <2>4. q \in [1 .. n -> Nat \ {0}]
    BY <2>2, <2>3
  <2>5. q \in Seq(Nat \ {0}) /\ DOMAIN q = 1 .. n
    BY <2>1, <2>4, SeqDef
  <2>6. Distinct(q)
    <3>1. \A j, k \in 1 .. n : from + j - 1 = from + k - 1 => j = k
      BY <1>5
    <3> QED
      BY <2>2, <2>5, <3>1 DEF Distinct
  <2>7. ASSUME NEW k \in DOMAIN q PROVE Covers(e, q[k])
    <3> DEFINE f == from + k - 1
    <3>1. q[k] = f /\ f \in Nat /\ first <= f /\ f <= last
      BY <2>2, <2>3, <2>5
    <3> HIDE DEF f
    <3>2. first * PageSize <= f * PageSize
      BY <1>1, <1>2, <3>1
    <3>3. (f + 1) * PageSize <= (last + 1) * PageSize
      <4> DEFINE g == f + 1
                 l == last + 1
      <4>1. g \in Int /\ l \in Int /\ g <= l
        BY <1>3, <3>1
      <4> HIDE DEF g, l
      <4>2. g * PageSize <= l * PageSize
        BY <1>1, <4>1
      <4> QED
        BY <4>2 DEF g, l
    <3> DEFINE A == first * PageSize
               B == f * PageSize
               C == (f + 1) * PageSize
               D == (last + 1) * PageSize
    <3>4. A \in Int /\ B \in Int /\ C \in Int /\ D \in Int
      BY <1>1, <1>2, <1>3, <3>1
    <3>5. e.base <= A /\ A <= B /\ C <= D /\ D <= e.base + e.length
      BY <1>2, <1>3, <3>2, <3>3
    <3> HIDE DEF A, B, C, D
    <3>6. e.base <= B /\ C <= e.base + e.length
      BY <1>1, <3>4, <3>5
    <3> QED
      BY <1>8, <3>1, <3>6 DEF Covers, B, C
  <2> QED
    BY <2>5, <2>6, <2>7 DEF q
<1> QED
  BY <1>7, <1>8

\* No frame lies in two entries, and the boot loader's lie in none.
LEMMA Apart ==
    ASSUME VmAssumption, NEW m, MapSound(m), NEW k \in DOMAIN m, NEW f \in Nat, Covers(m[k], f)
    PROVE  f \notin BootFrames /\ \A j \in DOMAIN m : j < k => ~Covers(m[j], f)
<1> DEFINE x == f * PageSize
           y == (f + 1) * PageSize
<1>1. /\ m \in Seq([usable : BOOLEAN, base : Nat, length : Nat])
      /\ \A j, i \in DOMAIN m : j < i /\ m[j].usable /\ m[i].usable =>
            m[j].base + m[j].length <= m[i].base \/ m[i].base + m[i].length <= m[j].base
      /\ \A i \in DOMAIN m, g \in BootFrames : m[i].usable =>
            (g + 1) * PageSize <= m[i].base \/ m[i].base + m[i].length <= g * PageSize
  BY DEF MapSound
<1>2. PageSize \in Nat \ {0}
  BY DEF VmAssumption
<1>3. x \in Int /\ y \in Int /\ x < y
  <2> DEFINE P == PageSize
  <2>1. P \in Int /\ f \in Int
    BY <1>2
  <2> HIDE DEF P
  <2>2. f * P \in Int /\ (f + 1) * P = (f * P) + P
    BY <2>1
  <2>3. x \in Int /\ y = x + PageSize
    BY <2>2 DEF P
  <2> HIDE DEF x, y
  <2> QED
    BY <1>2, <2>3
<1>4. \A j \in DOMAIN m : m[j].base \in Nat /\ m[j].length \in Nat
  <2> DEFINE E == [usable : BOOLEAN, base : Nat, length : Nat]
  <2>1. m \in Seq(E)
    BY <1>1
  <2> HIDE DEF E
  <2>2. \A j \in DOMAIN m : m[j] \in E
    BY <2>1
  <2> QED
    BY <2>2 DEF E
<1>5. \A j \in DOMAIN m : Covers(m[j], f) => m[j].usable /\ m[j].base <= x /\ y <= m[j].base + m[j].length
  BY DEF Covers
<1>6. f \in BootFrames => y <= m[k].base \/ m[k].base + m[k].length <= x
  BY <1>1, <1>5
<1> HIDE DEF x, y
<1>7. f \notin BootFrames
  BY <1>3, <1>4, <1>5, <1>6
<1>8. ASSUME NEW j \in DOMAIN m, j < k, Covers(m[j], f) PROVE FALSE
  <2>1. m[j].base + m[j].length <= m[k].base \/ m[k].base + m[k].length <= m[j].base
    BY <1>1, <1>5, <1>8
  <2> QED
    BY <1>3, <1>4, <1>5, <1>8, <2>1
<1> QED
  BY <1>7, <1>8

\* Two lists that share nothing, one after the other.
LEMMA Joined ==
    ASSUME NEW S, NEW q \in Seq(S), NEW t \in Seq(S), Distinct(q), Distinct(t),
           \A j \in DOMAIN q, k \in DOMAIN t : q[j] # t[k]
    PROVE  /\ q \o t \in Seq(S) /\ Distinct(q \o t)
           /\ \A k \in DOMAIN (q \o t) :
                 (\E j \in DOMAIN q : (q \o t)[k] = q[j]) \/ \E j \in DOMAIN t : (q \o t)[k] = t[j]
<1> DEFINE c == q \o t
           a == Len(q)
           b == Len(t)
<1>1. /\ c \in Seq(S) /\ DOMAIN c = 1 .. a + b /\ DOMAIN q = 1 .. a /\ DOMAIN t = 1 .. b
      /\ a \in Nat /\ b \in Nat
  BY ConcatProperties, LenProperties
<1>2. \A k \in 1 .. a + b : c[k] = IF k <= a THEN q[k] ELSE t[k - a]
  BY ConcatProperties
<1> HIDE DEF a, b, c
<1>3. ASSUME NEW k \in 1 .. a + b PROVE \/ k \in 1 .. a /\ c[k] = q[k]
                                        \/ k - a \in 1 .. b /\ c[k] = t[k - a]
  <2>1. k <= a => k \in 1 .. a
    BY <1>1
  <2>2. ~(k <= a) => k - a \in 1 .. b
    BY <1>1
  <2> QED
    BY <1>2, <2>1, <2>2
<1>4. ASSUME NEW j \in 1 .. a + b, NEW k \in 1 .. a + b, c[j] = c[k] PROVE j = k
  <2>1. CASE j \in 1 .. a /\ c[j] = q[j] /\ k \in 1 .. a /\ c[k] = q[k]
    BY <1>1, <1>4, <2>1 DEF Distinct
  <2>2. CASE j - a \in 1 .. b /\ c[j] = t[j - a] /\ k - a \in 1 .. b /\ c[k] = t[k - a]
    <3>1. j - a = k - a
      BY <1>1, <1>4, <2>2 DEF Distinct
    <3> QED
      BY <1>1, <3>1
  <2>3. CASE j \in 1 .. a /\ c[j] = q[j] /\ k - a \in 1 .. b /\ c[k] = t[k - a]
    BY <1>1, <1>4, <2>3
  <2>4. CASE k \in 1 .. a /\ c[k] = q[k] /\ j - a \in 1 .. b /\ c[j] = t[j - a]
    BY <1>1, <1>4, <2>4
  <2> QED
    BY <1>3, <2>1, <2>2, <2>3, <2>4
<1>5. Distinct(c)
  BY <1>1, <1>4 DEF Distinct
<1>6. \A k \in DOMAIN c : (\E j \in DOMAIN q : c[k] = q[j]) \/ \E j \in DOMAIN t : c[k] = t[j]
  BY <1>1, <1>3
<1> QED
  BY <1>1, <1>5, <1>6 DEF c


\* The frames of a whole memory map come once, and none is the boot loader's.
LEMMA MapListed ==
    ASSUME VmAssumption, NEW m \in MemMaps
    PROVE  LET all == FlattenSeq([k \in DOMAIN m |-> EntryFrames(m[k])]) IN
             all \in Seq(Nat \ {0}) /\ Distinct(all) /\ \A k \in DOMAIN all : all[k] \notin BootFrames
<1> DEFINE n == Len(m)
           seqs == [k \in DOMAIN m |-> EntryFrames(m[k])]
           all == FlattenSeq(seqs)
           N == Nat \ {0}
           E == [usable : BOOLEAN, base : Nat, length : Nat]
<1>1. MapSound(m)
  BY DEF VmAssumption
<1>2. m \in Seq(E)
  BY <1>1 DEF MapSound
<1> HIDE DEF E
<1>3. n \in Nat /\ DOMAIN m = 1 .. n /\ \A k \in 1 .. n : m[k] \in E
  BY <1>2
<1> HIDE DEF n
<1>4. /\ \A k \in 1 .. n : seqs[k] \in Seq(N) /\ Distinct(seqs[k])
      /\ \A k \in 1 .. n : \A i \in DOMAIN seqs[k] : Covers(m[k], seqs[k][i])
  BY <1>3, EntryListed DEF E
<1>5. seqs \in [1 .. n -> Seq(N)]
  BY <1>3, <1>4
<1>6. Len(seqs) = n
  BY <1>3, <1>5, LengthOf
<1> HIDE DEF seqs, N
<1>7. CASE n = 0
  <2>1. seqs = <<>>
    BY <1>3, <1>5, <1>6, <1>7, SeqDef, EmptySeq
  <2>2. all = <<>>
    BY <1>6, <1>7, <2>1 DEF FlattenSeq
  <2> QED
    BY <2>2 DEF seqs, Distinct
<1>8. CASE n # 0
  <2> DEFINE Pass(g, k) == IF k = 1 THEN seqs[k] ELSE g[k - 1] \o seqs[k]
             Passes(g, j) == g = [k \in 1 .. j |-> Pass(g, k)]
             loop == CHOOSE g : Passes(g, n)
             Fine(k) == /\ loop[k] \in Seq(N) /\ Distinct(loop[k])
                        /\ \A i \in DOMAIN loop[k] : \E j \in 1 .. k : Covers(m[j], loop[k][i])
  <2>1. all = loop[n]
    BY <1>6, <1>8 DEF FlattenSeq
  <2>2. \E g : Passes(g, n)
    <3> DEFINE T == {j \in 0 .. n : \E g : Passes(g, j)}
    <3>1. 0 \in T
      <4> DEFINE g == [k \in 1 .. 0 |-> 0]
      <4>1. 1 .. 0 = {}
        OBVIOUS
      <4>2. Passes(g, 0)
        BY <4>1
      <4> HIDE DEF g, Passes
      <4>3. \E x : Passes(x, 0)
        BY <4>2
      <4> QED
        BY <1>3, <4>3
    <3>2. ASSUME NEW j \in 1 .. n, j - 1 \in T PROVE j \in T
      <4>1. PICK g : Passes(g, j - 1)
        BY <3>2
      <4> DEFINE h == [k \in 1 .. j |-> IF k = j THEN Pass(g, j) ELSE g[k]]
      <4>2. \A k \in 1 .. j : k # j => k \in 1 .. j - 1 /\ (k # 1 => k - 1 \in 1 .. j /\ k - 1 # j)
        BY <1>3
      <4>3. j \in 1 .. j /\ (j # 1 => j - 1 \in 1 .. j /\ j - 1 # j)
        BY <1>3
      <4>4. \A k \in 1 .. j - 1 : g[k] = Pass(g, k)
        BY <4>1
      <4>5. \A k \in 1 .. j : h[k] = Pass(h, k)
        BY <4>2, <4>3, <4>4
      <4>6. Passes(h, j)
        BY <4>5
      <4> HIDE DEF h, Passes
      <4>7. \E x : Passes(x, j)
        BY <4>6
      <4>8. j \in 0 .. n
        BY <1>3
      <4> QED
        BY <4>7, <4>8
    <3> HIDE DEF T
    <3>3. \A k \in 0 .. n : k \in T
      BY <1>3, <3>1, <3>2, UpTo
    <3>4. n \in T
      BY <1>3, <3>3
    <3> HIDE DEF Passes
    <3> QED
      BY <3>4 DEF T
  <2>3. Passes(loop, n)
    BY <2>2
  <2> HIDE DEF loop
  <2>4. \A k \in 1 .. n : loop[k] = IF k = 1 THEN seqs[k] ELSE loop[k - 1] \o seqs[k]
    BY <2>3
  <2>5. ASSUME NEW k \in 1 .. n, k = 1 \/ (k - 1 \in 1 .. n /\ Fine(k - 1)) PROVE Fine(k)
    <3>1. k \in 1 .. k /\ k \in Nat
      BY <1>3
    <3>2. CASE k = 1
      BY <1>4, <2>4, <3>1, <3>2
    <3>3. CASE k # 1
      <4> DEFINE q == loop[k - 1]
                 t == seqs[k]
                 c == q \o t
      <4>1. k - 1 \in 1 .. n /\ Fine(k - 1) /\ loop[k] = c
        BY <2>4, <2>5, <3>3
      <4>2. \A i \in DOMAIN q : \E j \in 1 .. k - 1 : Covers(m[j], q[i])
        BY <4>1
      <4>3. q \in Seq(N) /\ Distinct(q) /\ t \in Seq(N) /\ Distinct(t) /\ \A i \in DOMAIN t : Covers(m[k], t[i])
        BY <1>4, <4>1
      <4> HIDE DEF q, t
      <4>4. ASSUME NEW i \in DOMAIN q, NEW j \in DOMAIN t PROVE q[i] # t[j]
        <5>1. PICK o \in 1 .. k - 1 : Covers(m[o], q[i])
          BY <4>2
        <5>2. Covers(m[k], t[j]) /\ t[j] \in Nat
          BY <4>3 DEF N
        <5>3. o \in 1 .. n /\ o < k
          BY <1>3, <3>1
        <5>4. ~Covers(m[o], t[j])
          BY <1>1, <1>3, <5>2, <5>3, Apart
        <5> QED
          BY <5>1, <5>4
      <4>5. /\ c \in Seq(N) /\ Distinct(c)
            /\ \A i \in DOMAIN c : (\E j \in DOMAIN q : c[i] = q[j]) \/ \E j \in DOMAIN t : c[i] = t[j]
        BY <4>3, <4>4, Joined
      <4> HIDE DEF c
      <4>6. 1 .. k - 1 \subseteq 1 .. k
        BY <3>1
      <4>7. \A i \in DOMAIN c : \E j \in 1 .. k : Covers(m[j], c[i])
        BY <3>1, <4>2, <4>3, <4>5, <4>6
      <4>8. /\ loop[k] \in Seq(N) /\ Distinct(loop[k])
            /\ \A i \in DOMAIN loop[k] : \E j \in 1 .. k : Covers(m[j], loop[k][i])
        BY <4>1, <4>5, <4>7
      <4> QED
        BY <4>8
    <3> QED
      BY <3>2, <3>3
  <2>6. Fine(n)
    <3> DEFINE T == {k \in 0 .. n : k = 0 \/ Fine(k)}
    <3> HIDE DEF Fine
    <3>1. 0 \in T
      BY <1>3
    <3>2. ASSUME NEW k \in 1 .. n, k - 1 \in T PROVE k \in T
      <4>1. k = 1 \/ (k - 1 \in 1 .. n /\ Fine(k - 1))
        BY <1>3, <3>2
      <4>2. Fine(k)
        BY <2>5, <4>1
      <4> QED
        BY <1>3, <4>2
    <3> HIDE DEF T
    <3>3. \A k \in 0 .. n : k \in T
      BY <1>3, <3>1, <3>2, UpTo
    <3>4. n \in T
      BY <1>3, <3>3
    <3> QED
      BY <1>8, <3>4 DEF T
  <2>7. /\ all \in Seq(N) /\ Distinct(all)
        /\ \A i \in DOMAIN all : \E j \in 1 .. n : Covers(m[j], all[i])
    BY <2>1, <2>6
  <2> HIDE DEF all
  <2>8. ASSUME NEW i \in DOMAIN all PROVE all[i] \notin BootFrames
    <3>1. PICK j \in 1 .. n : Covers(m[j], all[i])
      BY <2>7
    <3>2. all[i] \in Nat
      BY <2>7 DEF N
    <3> QED
      BY <1>1, <1>3, <3>1, <3>2, Apart
  <2> QED
    BY <2>7, <2>8 DEF N, all, seqs
<1> QED
  BY <1>7, <1>8 DEF seqs, all

\* clks_pmm_init: as many as the stack takes.
LEMMA PmmListed ==
    ASSUME VmAssumption, NEW m \in MemMaps
    PROVE  /\ PmmInit(m) \in Seq(Nat \ {0}) /\ Distinct(PmmInit(m))
           /\ \A k \in DOMAIN PmmInit(m) : PmmInit(m)[k] \notin BootFrames
           /\ Len(PmmInit(m)) <= MaxTracked
<1> DEFINE N == Nat \ {0}
           all == FlattenSeq([k \in DOMAIN m |-> EntryFrames(m[k])])
           l == IF Len(all) < MaxTracked THEN Len(all) ELSE MaxTracked
           q == PmmInit(m)
<1>1. all \in Seq(N) /\ Distinct(all) /\ \A k \in DOMAIN all : all[k] \notin BootFrames
  BY MapListed
<1>2. q = SubSeq(all, 1, l)
  BY DEF PmmInit
<1> HIDE DEF all, q, N
<1>3. Len(all) \in Nat /\ DOMAIN all = 1 .. Len(all) /\ MaxTracked \in Nat
  BY <1>1 DEF VmAssumption
<1>4. l \in 0 .. Len(all) /\ l \in Nat /\ l <= MaxTracked /\ 1 .. l \subseteq 1 .. Len(all)
  BY <1>3
<1> HIDE DEF l
<1>5. q = [k \in 1 .. l |-> all[k]]
  BY <1>1, <1>2, <1>4, SubSeqProperties
<1>6. q \in [1 .. l -> N]
  BY <1>1, <1>3, <1>4, <1>5
<1>7. q \in Seq(N) /\ DOMAIN q = 1 .. l
  BY <1>4, <1>6, SeqDef
<1>8. Distinct(q)
  BY <1>1, <1>3, <1>4, <1>5, <1>7 DEF Distinct
<1>9. \A k \in DOMAIN q : q[k] \notin BootFrames
  BY <1>1, <1>3, <1>4, <1>5, <1>7
<1>10. Len(q) <= MaxTracked
  BY <1>4, <1>6, LenProperties
<1> QED
  BY <1>7, <1>8, <1>9, <1>10 DEF q, N


\* The boot loader's tables have their levels, and every other frame is free.
LEMMA InitKeeps ==
    ASSUME VmAssumption, Init
    PROVE  VmInv
<1>1. PICK m \in MemMaps : free = PmmInit(m)
  BY DEF Init
<1> DEFINE M == managed
           N == Nat \ {0}
           L == [f \in Frames(M) |-> CASE f = KRoot -> "root" [] f = KLow -> "pdpt"
                                       [] f = KHigh -> "hpdpt" [] OTHER -> "free"]
<1>2. /\ free \in Seq(N) /\ Distinct(free) /\ \A k \in DOMAIN free : free[k] \notin BootFrames
      /\ Len(free) <= MaxTracked
  BY <1>1, PmmListed
<1>3. M = {free[k] : k \in DOMAIN free}
  BY DEF Init, ToSet
<1>4. Memory(M)
  <2>1. \A k \in DOMAIN free : free[k] \in N
    BY <1>2
  <2>2. M \subseteq N /\ M \cap BootFrames = {}
    BY <1>2, <1>3, <2>1
  <2>3. Len(free) \in Nat /\ DOMAIN free = 1 .. Len(free) /\ free = [k \in 1 .. Len(free) |-> free[k]]
    BY <1>2, LenProperties
  <2>4. PICK k \in Nat : k = Len(free)
    BY <2>3
  <2> HIDE DEF M, N
  <2>5. free \in Surjection(1 .. k, M)
    BY <1>3, <2>3, <2>4 DEF Surjection
  <2>6. IsFiniteSet(1 .. k) /\ Cardinality(1 .. k) = k
    BY FS_Interval
  <2>7. IsFiniteSet(M) /\ Cardinality(M) <= Cardinality(1 .. k)
    BY <2>5, <2>6, FS_Surjection
  <2>9. Cardinality(M) \in Nat /\ MaxTracked \in Nat
    BY <2>7, FS_CardinalityType DEF VmAssumption
  <2>8. Cardinality(M) <= MaxTracked
    BY <1>2, <2>4, <2>6, <2>7, <2>9
  <2> QED
    BY <2>2, <2>7, <2>8 DEF Memory, N
<1>5. free \in Seq(M)
  BY <1>2, <1>3, SeqDef
<1>6. KRoot # KLow /\ KRoot # KHigh /\ KLow # KHigh /\ KRoot \in Frames(M) /\ KLow \in Frames(M) /\ KHigh \in Frames(M)
  BY DEF KRoot, KLow, KHigh, Frames, BootFrames
<1>7. /\ \A f \in Frames(M) : L[f] \in {"root", "pdpt", "hpdpt", "free"}
      /\ L[KRoot] = "root" /\ L[KLow] = "pdpt" /\ L[KHigh] = "hpdpt"
      /\ \A f \in Frames(M) : f \notin BootFrames => L[f] = "free"
      /\ L = [f \in Frames(M) |-> L[f]]
  BY <1>6 DEF BootFrames
<1> HIDE DEF L
<1>8. LevelsOK(M, L)
  BY <1>7 DEF LevelsOK, Level, TableLevel, High
<1>9. FreeOK(M, L, free)
  <2>1. \A k \in DOMAIN free : free[k] \in Frames(M) /\ L[free[k]] = "free"
    BY <1>2, <1>3, <1>7 DEF Frames
  <2> QED
    BY <1>2, <1>5, <2>1 DEF FreeOK, Distinct
<1>10. PICK low \in {0, KLow}, high \in {0, Large} :
         tab = [f \in M \cup BootFrames |->
                  CASE f = KRoot -> [i \in Index |-> CASE i = Hi -> Pointer(KHigh)
                                                       [] i = Lo /\ low # 0 -> Pointer(low)
                                                       [] OTHER -> NoEntry]
                    [] f = KHigh -> [i \in Index |-> IF i = 0 /\ high # 0 THEN Pointer(high) ELSE NoEntry]
                    [] OTHER -> Empty]
  BY DEF Init
<1>11. /\ Pointer(KHigh) \in Entry /\ Pointer(low) \in Entry /\ Pointer(high) \in Entry /\ NoEntry \in Entry
       /\ Pointer(KHigh).f = KHigh /\ Pointer(low).f = low /\ Pointer(high).f = high /\ NoEntry.f = 0
  BY DEF Pointer, NoEntry, Entry, KHigh, KLow, Large
<1>12. /\ \A i \in Index : tab[KRoot][i] = IF i = Hi THEN Pointer(KHigh)
                                          ELSE IF i = Lo /\ low # 0 THEN Pointer(low) ELSE NoEntry
       /\ \A i \in Index : tab[KHigh][i] = IF i = 0 /\ high # 0 THEN Pointer(high) ELSE NoEntry
       /\ \A f \in Frames(M), i \in Index : f # KRoot /\ f # KHigh => tab[f][i] = NoEntry
  <2>1. tab[KRoot] = [i \in Index |-> CASE i = Hi -> Pointer(KHigh)
                                        [] i = Lo /\ low # 0 -> Pointer(low)
                                        [] OTHER -> NoEntry]
    BY <1>6, <1>10 DEF Frames
  <2>2. tab[KHigh] = [i \in Index |-> IF i = 0 /\ high # 0 THEN Pointer(high) ELSE NoEntry]
    BY <1>6, <1>10 DEF Frames
  <2>3. \A f \in Frames(M) : f # KRoot /\ f # KHigh => tab[f] = Empty
    BY <1>10 DEF Frames
  <2>4. Hi # Lo
    BY DEF Hi, Lo
  <2> QED
    BY <2>1, <2>2, <2>3, <2>4 DEF Empty
<1>13. tab \in [Frames(M) -> [Index -> Entry]]
  <2>1. tab = [f \in Frames(M) |-> tab[f]]
    BY <1>10 DEF Frames
  <2>2. \A f \in Frames(M) : tab[f] = [i \in Index |-> tab[f][i]]
    BY <1>6, <1>10 DEF Frames, Empty
  <2>3. \A f \in Frames(M), i \in Index : tab[f][i] \in Entry
    BY <1>11, <1>12
  <2>4. \A f \in Frames(M) : tab[f] \in [Index -> Entry]
    BY <2>2, <2>3
  <2> QED
    BY <2>1, <2>4
<1>14. PointsOK(M, L, tab)
  <2> SUFFICES ASSUME NEW f \in Frames(M), NEW i \in Index
               PROVE  \/ tab[f][i].f = 0
                      \/ tab[f][i].f = Large /\ L[f] \in High
                      \/ tab[f][i].f \in Frames(M) /\ L[tab[f][i].f] = Target(L[f], i)
    BY DEF PointsOK
  <2>1. CASE f = KRoot
    <3>1. CASE i = Hi
      BY <1>6, <1>7, <1>11, <1>12, <2>1, <3>1 DEF Target, Hi, Lo
    <3>2. CASE i = Lo
      BY <1>6, <1>7, <1>11, <1>12, <2>1, <3>2 DEF Target, Hi, Lo
    <3>3. CASE i # Hi /\ i # Lo
      BY <1>11, <1>12, <2>1, <3>3
    <3> QED
      BY <3>1, <3>2, <3>3
  <2>2. CASE f = KHigh
    BY <1>7, <1>11, <1>12, <2>2 DEF High
  <2>3. CASE f # KRoot /\ f # KHigh
    BY <1>11, <1>12, <2>3
  <2> QED
    BY <2>1, <2>2, <2>3
<1>15. OnceOK(M, L, tab)
  <2>1. 0 \notin Frames(M) /\ Large \notin Frames(M)
    BY <1>4, <1>8, FrameFacts
  <2>2. \A f \in Frames(M), i \in Index : f # KRoot => tab[f][i].f \notin Frames(M)
    BY <1>11, <1>12, <2>1
  <2> QED
    BY <1>7, <2>2 DEF OnceOK
<1>19. \A f \in M : L[f] = "free" /\ Listed(free, f)
  BY <1>3, <1>4, <1>7 DEF Memory, Frames, Listed
<1>20. HungOK(M, L, free, tab)
  <2>1. Hi \in Index
    BY DEF VmAssumption, Hi, Index
  <2>2. tab[KRoot][Hi].f = KHigh
    BY <1>11, <1>12, <2>1
  <2>3. \A g \in Frames(M) : L[g] = "root" => g = KRoot
    BY <1>7, <1>19 DEF Frames, BootFrames
  <2> QED
    BY <1>19, <2>2, <2>3 DEF HungOK, LowMapped
<1>16. Good(M, State, L)
  <2>1. State.free = free /\ State.tab = tab /\ State.tlb = tlb
    BY DEF State
  <2>2. Owned(M, L, free, tab)
    BY <1>8, <1>9, <1>13, <1>14, <1>15, <1>20 DEF Owned, Linked
  <2> QED
    BY <2>1, <2>2 DEF Good, State
<1>17. RootsOK(L)
  BY <1>19 DEF Init, RootsOK
<1>18. AreasOK
  BY DEF Init, AreasOK
<1>21. Bare(State, VPages \ Held)
  <2> SUFFICES ASSUME LowMapped(tab), NEW v \in VPages PROVE Translate(tab, KRoot, v).f = 0
    BY DEF Bare, State
  <2>1. State.tab = tab
    BY DEF State
  <2>2. Translate(tab, KRoot, v) = IF Pt(tab, KRoot, v) = 0 THEN NoEntry ELSE tab[Pt(tab, KRoot, v)][I1(v)]
    BY <1>4, <1>6, <1>7, <1>16, <2>1, Walked
  <2>3. I3(v) \in Index
    BY Indexed
  <2>4. Pdpt(tab, KRoot) = KLow
    BY DEF Pdpt, LowMapped
  <2>5. tab[KLow][I3(v)].f = 0
    BY <1>6, <1>11, <1>12, <2>3
  <2>6. Pt(tab, KRoot, v) = 0
    BY <2>4, <2>5 DEF Pd, Pt
  <2> QED
    BY <1>11, <2>2, <2>6
<1> QED
  BY <1>4, <1>16, <1>17, <1>18, <1>21 DEF VmInv

-----------------------------------------------------------------------------
(* Theorems.                                                                *)

\* In every reachable state the frames have levels: the free stack holds each
\* free frame once, entries lead from one level to the next, and below the
\* roots each frame hangs at one entry (pmm.c, vm.c, vm_api.inc), for every
\* memory map, number of processes and size of the tables.
THEOREM FramesAreOwned == Spec => []VmInv
<1>1. Init => VmInv
  BY VmAssumption, InitKeeps
<1>2. VmInv /\ [Next]_vars => VmInv'
  BY VmAssumption, StepKeeps
<1> QED
  BY <1>1, <1>2, PTL DEF Spec

\* The levels keep what is free, a table and a page apart.
LEMMA LevelsSeparate ==
    ASSUME VmAssumption, VmInv
    PROVE  NoFrameReused
<1>1. PICK L : Good(managed, State, L) /\ RootsOK(L)
  BY DEF VmInv
<1> DEFINE M == managed
<1>2. /\ Memory(M) /\ LevelsOK(M, L) /\ FreeOK(M, L, free) /\ PointsOK(M, L, tab) /\ OnceOK(M, L, tab)
      /\ 0 \notin Frames(M) /\ Large \notin Frames(M)
  <2>1. State.free = free /\ State.tab = tab
    BY DEF State
  <2>2. Memory(M) /\ Owned(M, L, free, tab)
    BY <1>1, <2>1 DEF Good, VmInv
  <2> QED
    BY <2>2, FrameFacts DEF Owned, Linked
<1>3. "root" \in TableLevel /\ "pdpt" \in TableLevel /\ "pd" \in TableLevel /\ "pt" \in TableLevel
      /\ "hpdpt" \in TableLevel /\ "hpd" \in TableLevel /\ "hpt" \in TableLevel
  BY DEF TableLevel, High
<1>4. \A f \in Frames(M), i \in Index : L[f] \in TableLevel /\ tab[f][i].f \notin {0, Large} =>
         tab[f][i].f \in Frames(M) /\ L[tab[f][i].f] = Target(L[f], i)
  BY <1>2 DEF PointsOK
<1>5. Roots \subseteq Frames(M) /\ \A f \in Roots : L[f] = "root"
  BY <1>1, <1>2 DEF Roots, RootsOK, LevelsOK, Frames, BootFrames
<1>6. Pdpts \subseteq Frames(M) /\ \A f \in Pdpts : L[f] \in {"pdpt", "hpdpt"}
  <2>1. \A l \in {"root"}, i \in Index : Target(l, i) \in {"pdpt", "hpdpt"}
    BY DEF Target
  <2> QED
    BY <1>3, <1>4, <1>5, <2>1 DEF Pdpts, Kids
<1>7. Pds \subseteq Frames(M) /\ \A f \in Pds : L[f] \in {"pd", "hpd"}
  <2>1. \A l \in {"pdpt", "hpdpt"}, i \in Index : Target(l, i) \in {"pd", "hpd"}
    BY DEF Target
  <2> QED
    BY <1>3, <1>4, <1>6, <2>1 DEF Pds, Kids
<1>8. Pts \subseteq Frames(M) /\ \A f \in Pts : L[f] \in {"pt", "hpt"}
  <2>1. \A l \in {"pd", "hpd"}, i \in Index : Target(l, i) \in {"pt", "hpt"}
    BY DEF Target
  <2> QED
    BY <1>3, <1>4, <1>7, <2>1 DEF Pts, Kids
<1>9. DataFrames \subseteq Frames(M) /\ \A f \in DataFrames : L[f] \in {"data", "none"}
  <2>1. \A l \in {"pt", "hpt"}, i \in Index : Target(l, i) \in {"data", "none"}
    BY DEF Target
  <2> QED
    BY <1>3, <1>4, <1>8, <2>1 DEF DataFrames, Kids
<1>10. \A f \in InFree : f \in Frames(M) /\ L[f] = "free"
  <2>1. \A k \in DOMAIN free : free[k] \in M
    BY <1>2 DEF FreeOK
  <2> QED
    BY <1>2, <2>1 DEF InFree, FreeOK, Frames
<1>11. Cardinality(InFree) = Len(free)
  <2> DEFINE n == Len(free)
  <2>1. n \in Nat /\ DOMAIN free = 1 .. n
    BY <1>2 DEF FreeOK
  <2> HIDE DEF n
  <2>2. free \in [1 .. n -> InFree]
    BY <1>2, <2>1 DEF FreeOK, InFree
  <2>3. free \in Bijection(1 .. n, InFree)
    BY <1>2, <2>1, <2>2 DEF FreeOK, InFree, Bijection, Injection, Surjection, IsInjective
  <2>4. ExistsBijection(1 .. n, InFree)
    BY <2>3 DEF ExistsBijection
  <2>5. IsFiniteSet(1 .. n) /\ Cardinality(1 .. n) = n
    BY <2>1, FS_Interval
  <2> QED
    BY <2>4, <2>5, FS_Bijection DEF n
<1>12. InFree \cap (Tables \cup DataFrames) = {}
  BY <1>5, <1>6, <1>7, <1>8, <1>9, <1>10 DEF Tables
<1>13. Tables \cap DataFrames = {}
  BY <1>5, <1>6, <1>7, <1>8, <1>9 DEF Tables
<1>14. \A f, g \in Pts, i, j \in Index :
         tab[f][i].f \in managed /\ tab[f][i].f = tab[g][j].f => f = g /\ i = j
  <2>1. \A f \in Pts : f \in Frames(M) /\ L[f] \in TableLevel \ {"root"}
    BY <1>3, <1>8
  <2> QED
    BY <1>2, <2>1 DEF OnceOK, Frames
<1> QED
  BY <1>11, <1>12, <1>13, <1>14 DEF NoFrameReused

\* No frame is in use twice: none is on the free stack twice, or there while a
\* table or a page of a live address space; no two entries name one page, and
\* no page is a table. clks_pmm_free_page (pmm.c:80) checks none of this, so
\* every caller has to; nothing bounds the maps, processes or tables.
THEOREM NoFrameIsReused == Spec => []NoFrameReused
<1>1. VmInv => NoFrameReused
  BY VmAssumption, LevelsSeparate
<1> QED
  BY <1>1, FramesAreOwned, PTL

\* A frame that hangs below the roots hangs at a table of the level above.
LEMMA HangsBelow ==
    ASSUME NEW M, NEW L, NEW tb, PointsOK(M, L, tb), 0 \notin Frames(M), Large \notin Frames(M),
           NEW f \in Frames(M), L[f] \in Level, Hangs(M, L, tb, f)
    PROVE  \E g \in Frames(M), i \in Index :
              /\ tb[g][i].f = f /\ L[g] \in TableLevel \ {"root"} /\ L[f] = Target(L[g], i)
              /\ L[f] = "pd" => L[g] = "pdpt"
              /\ L[f] = "pt" => L[g] = "pd"
              /\ L[f] = "data" => L[g] = "pt"
              /\ L[f] = "hpd" => L[g] = "hpdpt"
              /\ L[f] = "hpt" => L[g] = "hpd"
<1>1. PICK g \in Frames(M), i \in Index : L[g] \in TableLevel \ {"root"} /\ tb[g][i].f = f
  BY DEF Hangs
<1>2. L[f] = Target(L[g], i)
  BY <1>1 DEF PointsOK
<1>3. L[g] \in {"pdpt", "pd", "pt", "hpdpt", "hpd", "hpt"}
  BY <1>1 DEF TableLevel, High
<1> QED
  BY <1>1, <1>2, <1>3 DEF Target

\* From its level a frame is on the free stack, a root, or hangs below one.
LEMMA LevelsReached ==
    ASSUME VmAssumption, VmInv
    PROVE  NoFrameLost
<1> SUFFICES ASSUME tab[KRoot][Lo].f = KLow, NEW f \in managed, f \notin lost
             PROVE  f \in InFree \cup Tables \cup DataFrames
  BY DEF NoFrameLost
<1>1. PICK L : Good(managed, State, L) /\ RootsOK(L)
  BY DEF VmInv
<1> DEFINE M == managed
<1>2. /\ Memory(M) /\ LevelsOK(M, L) /\ PointsOK(M, L, tab) /\ HungOK(M, L, free, tab)
      /\ 0 \notin Frames(M) /\ Large \notin Frames(M)
  <2>1. State.free = free /\ State.tab = tab
    BY DEF State
  <2>2. Memory(M) /\ Owned(M, L, free, tab)
    BY <1>1, <2>1 DEF Good, VmInv
  <2> QED
    BY <2>2, FrameFacts DEF Owned, Linked
<1>3. /\ tab[KRoot][Hi].f = KHigh
      /\ \A g \in M : L[g] \notin {"pdpt", "hpdpt"}
      /\ \A g \in M : L[g] = "free" => Listed(free, g)
      /\ \A g \in M : L[g] \in {"pd", "pt", "hpd", "hpt", "data"} => Hangs(M, L, tab, g)
  BY <1>2 DEF HungOK, LowMapped
<1>4. /\ \A g \in M : L[g] # "taken" /\ (L[g] = "root" => g \in lost \/ \E p \in Procs : root[p] = g)
      /\ \A g \in M : g \in Frames(M) /\ L[g] \in Level /\ g # 0
      /\ KRoot \in Frames(M) /\ KLow \in Frames(M) /\ KHigh \in Frames(M)
      /\ L[KRoot] = "root" /\ L[KLow] = "pdpt" /\ L[KHigh] = "hpdpt"
  BY <1>1, <1>2 DEF RootsOK, LevelsOK, Frames, BootFrames
\* The tables of the first level are the boot loader's, and shared.
<1>5. \A g \in Frames(M) : L[g] \in {"pdpt", "hpdpt"} => g \in Pdpts
  <2>1. Lo \in Index /\ Hi \in Index
    BY DEF VmAssumption, Lo, Hi, Index
  <2>2. KLow \in Pdpts /\ KHigh \in Pdpts
    BY <1>2, <1>3, <1>4, <2>1 DEF Pdpts, Kids, Roots
  <2>3. \A g \in Frames(M) : L[g] \in {"pdpt", "hpdpt"} => g = KLow \/ g = KHigh
    BY <1>3, <1>4 DEF Frames, BootFrames
  <2> QED
    BY <2>2, <2>3
<1>6. ASSUME NEW g \in Frames(M), L[g] \in {"pd", "pt", "hpd", "hpt", "data"}
      PROVE  \E h \in Frames(M), i \in Index :
                /\ tab[h][i].f = g /\ g \notin {0, Large}
                /\ L[g] = "pd" => L[h] = "pdpt"
                /\ L[g] = "pt" => L[h] = "pd"
                /\ L[g] = "data" => L[h] = "pt"
                /\ L[g] = "hpd" => L[h] = "hpdpt"
                /\ L[g] = "hpt" => L[h] = "hpd"
  <2>1. g \in M
    BY <1>4, <1>6 DEF Frames, BootFrames
  <2>2. Hangs(M, L, tab, g) /\ L[g] \in Level
    BY <1>3, <1>4, <1>6, <2>1
  <2> QED
    BY <1>2, <1>6, <2>2, HangsBelow
<1>7. \A g \in Frames(M) : L[g] \in {"pd", "hpd"} => g \in Pds
  BY <1>5, <1>6 DEF Pds, Kids
<1>8. \A g \in Frames(M) : L[g] \in {"pt", "hpt"} => g \in Pts
  BY <1>6, <1>7 DEF Pts, Kids
<1>9. \A g \in Frames(M) : L[g] = "data" => g \in DataFrames
  BY <1>6, <1>8 DEF DataFrames, Kids
<1>10. L[f] \in {"root", "pd", "pt", "hpd", "hpt", "free", "data"}
  BY <1>3, <1>4 DEF Level, TableLevel, High
<1>11. L[f] = "root" => f \in Roots
  BY <1>4 DEF Roots
<1>12. L[f] = "free" => f \in InFree
  BY <1>3 DEF InFree, Listed
<1> QED
  BY <1>4, <1>7, <1>8, <1>9, <1>10, <1>11, <1>12 DEF Tables

\* No frame is lost but for the PML4s of records cleared after a failed stdio
\* override (runtime.inc:643): when the boot loader's tables map the low half,
\* each other managed frame is on the free stack, a table that a live address
\* space reaches, or a page one maps, after every allocation that fails half
\* way, every undone mapping and every exit (vm_api.inc, vm.c:300, pmm.c:80):
\* for every memory map, number of processes and size of the tables.
THEOREM NoFrameIsLost == Spec => []NoFrameLost
<1>1. VmInv => NoFrameLost
  BY VmAssumption, LevelsReached
<1> QED
  BY <1>1, FramesAreOwned, PTL

-----------------------------------------------------------------------------
(* Areas, tables and the CPU's cache agree.                                 *)

\* No page is in two areas.
AreasApart ==
    \A p, q \in Procs : \A a \in areas[p], c \in areas[q] :
        Pages(a.base, a.n) \cap Pages(c.base, c.n) # {} => p = q /\ a = c

\* The CPU walks a space in use, and whoever has areas has a space.
SpacesOK ==
    /\ cr3 = KRoot \/ \E p \in Procs : root[p] # 0 /\ cr3 = root[p]
    /\ \A p \in Procs : root[p] = 0 => areas[p] = {}

FreshInv == VmInv /\ Cached(State) /\ AreasApart /\ SpacesOK /\ MappingsFresh

\* The root of a space in use.
IsRoot(L, r) == r \in Frames(managed) /\ L[r] = "root"

\* Which roots the levels know.
LEMMA RootsKnown ==
    ASSUME NEW L, Good(managed, State, L), RootsOK(L), SpacesOK
    PROVE  /\ IsRoot(L, KRoot) /\ IsRoot(L, cr3)
           /\ \A p \in Procs : root[p] # 0 => IsRoot(L, root[p])
           /\ \A p \in Procs : areas[p] # {} => IsRoot(L, root[p])
<1>1. IsRoot(L, KRoot)
  BY DEF IsRoot, Good, Owned, Linked, LevelsOK, Frames, BootFrames
<1>2. \A p \in Procs : root[p] # 0 => IsRoot(L, root[p])
  BY DEF RootsOK, IsRoot
<1> QED
  BY <1>1, <1>2 DEF SpacesOK

\* What MappingsFresh says of the next state.
LEMMA FreshNext ==
    ASSUME \A v \in VPages : tlb'[v] # NoEntry => tlb'[v] = Translate(tab', cr3', v),
           \A p \in Procs : \A a \in areas'[p] : \A v \in Pages(a.base, a.n) :
              /\ Translate(tab', root'[p], v).f \in managed'
              /\ Translate(tab', root'[p], v).w = a.w
    PROVE  MappingsFresh'
<1>1. TlbFresh'
  BY DEF TlbFresh, Translate, LeafTable, NoEntry, Large, Lo, I1, I2, I3, VPages
<1>2. AreasMapped'
  BY DEF AreasMapped, Translate, LeafTable, NoEntry, Large, Lo, I1, I2, I3, Pages
<1> QED
  BY <1>1, <1>2 DEF MappingsFresh

\* A call that leaves the roots alone changes the translations of V only: its
\* areas keep their pages outside V, and those it maps have their protection.
LEMMA FreshKept ==
    ASSUME FreshInv, NEW L, Good(managed, State, L), RootsOK(L),
           NEW s, NEW V, Local(managed, L, State, s, V), Apply(s), UNCHANGED <<managed, cr3, root>>,
           \A p \in Procs : \A a \in areas'[p] : \A v \in Pages(a.base, a.n) :
              \/ /\ v \in VPages \ V
                 /\ \E c \in areas[p] : v \in Pages(c.base, c.n) /\ c.w = a.w
              \/ /\ Translate(s.tab, root[p], v).f \in managed
                 /\ Translate(s.tab, root[p], v).w = a.w
    PROVE  Cached(State)' /\ MappingsFresh'
<1>1. /\ Cached(State) /\ SpacesOK /\ TlbFresh /\ AreasMapped
      /\ tlb' = s.tlb /\ tab' = s.tab /\ managed' = managed /\ cr3' = cr3 /\ root' = root
  BY DEF FreshInv, MappingsFresh, Apply
<1>2. State.tlb = tlb /\ State.tab = tab
  BY DEF State
<1>3. Cached(s) /\ \A v \in VPages : Same(managed, L, State, s, v) \/ (v \in V /\ s.tlb[v] = NoEntry)
  BY <1>1 DEF Local
<1>4. /\ IsRoot(L, cr3) /\ \A p \in Procs : areas[p] # {} => IsRoot(L, root[p])
  BY <1>1, RootsKnown
<1>5. ASSUME NEW v \in VPages, tlb'[v] # NoEntry PROVE tlb'[v] = Translate(tab', cr3', v)
  <2>1. s.tlb[v] = tlb[v] /\ Translate(s.tab, cr3, v) = Translate(tab, cr3, v)
    BY <1>1, <1>2, <1>3, <1>4, <1>5 DEF Same, IsRoot
  <2> QED
    BY <1>1, <1>5, <2>1 DEF TlbFresh
<1>6. ASSUME NEW p \in Procs, NEW a \in areas'[p], NEW v \in Pages(a.base, a.n)
      PROVE  /\ Translate(tab', root'[p], v).f \in managed'
             /\ Translate(tab', root'[p], v).w = a.w
  <2>1. CASE v \in VPages \ V /\ \E c \in areas[p] : v \in Pages(c.base, c.n) /\ c.w = a.w
    <3>1. PICK c \in areas[p] : v \in Pages(c.base, c.n) /\ c.w = a.w
      BY <2>1
    <3>2. Translate(s.tab, root[p], v) = Translate(tab, root[p], v)
      BY <1>2, <1>3, <1>4, <2>1, <3>1 DEF Same, IsRoot
    <3>3. Translate(tab, root[p], v).f \in managed /\ Translate(tab, root[p], v).w = c.w
      BY <1>1, <3>1 DEF AreasMapped
    <3> QED
      BY <1>1, <3>1, <3>2, <3>3
  <2>2. CASE Translate(s.tab, root[p], v).f \in managed /\ Translate(s.tab, root[p], v).w = a.w
    BY <1>1, <2>2
  <2> QED
    BY <2>1, <2>2
<1>7. Cached(State)'
  BY <1>1, <1>3 DEF Cached, State, Entry, VPages
<1> QED
  BY <1>5, <1>6, <1>7, FreshNext

\* A call that maps and unmaps pages of no area.
LEMMA FreshStays ==
    ASSUME FreshInv, VmInv', NEW L, Good(managed, State, L), RootsOK(L),
           NEW s, NEW V, V \cap Held = {}, Local(managed, L, State, s, V), Apply(s),
           UNCHANGED <<managed, cr3, root, areas>>
    PROVE  FreshInv'
<1>1. AreasApart' /\ SpacesOK'
  BY DEF FreshInv, AreasApart, SpacesOK, Pages, KRoot
<1>2. \A p \in Procs : \A a \in areas'[p] : \A v \in Pages(a.base, a.n) :
         v \in VPages \ V /\ \E c \in areas[p] : v \in Pages(c.base, c.n) /\ c.w = a.w
  <2> SUFFICES ASSUME NEW p \in Procs, NEW a \in areas[p], NEW v \in Pages(a.base, a.n)
               PROVE  v \in VPages \ V
    OBVIOUS
  <2>1. v \in VPages
    BY DEF FreshInv, VmInv, AreasOK
  <2>2. v \in Held
    BY DEF Held
  <2> QED
    BY <2>1, <2>2
<1>3. Cached(State)' /\ MappingsFresh'
  BY <1>2, FreshKept
<1> QED
  BY <1>1, <1>3 DEF FreshInv

\* A call that maps the pages of a new area, with its protection.
LEMMA FreshAdds ==
    ASSUME FreshInv, VmInv', NEW L, Good(managed, State, L), RootsOK(L),
           NEW p \in Procs, root[p] # 0, NEW c, Pages(c.base, c.n) \cap Held = {},
           areas' = [areas EXCEPT ![p] = @ \cup {c}],
           NEW s, Local(managed, L, State, s, Pages(c.base, c.n)), Apply(s),
           \A v \in Pages(c.base, c.n) :
              Translate(s.tab, root[p], v).f \in managed /\ Translate(s.tab, root[p], v).w = c.w,
           UNCHANGED <<managed, cr3, root>>
    PROVE  FreshInv'
<1> DEFINE V == Pages(c.base, c.n)
<1>1. AreasOK /\ AreasApart /\ SpacesOK
  BY DEF FreshInv, VmInv
<1>2. \A q \in Procs : areas'[q] = IF q = p THEN areas[p] \cup {c} ELSE areas[q]
  BY <1>1 DEF AreasOK
<1>3. \A q \in Procs : \A a \in areas[q] : Pages(a.base, a.n) \cap V = {} /\ Pages(a.base, a.n) \subseteq Held
  BY DEF Held
<1>4. AreasApart'
  <2>1. \A q, o \in Procs : \A a \in areas'[q], d \in areas'[o] :
           Pages(a.base, a.n) \cap Pages(d.base, d.n) # {} => q = o /\ a = d
    <3> SUFFICES ASSUME NEW q \in Procs, NEW o \in Procs, NEW a \in areas'[q], NEW d \in areas'[o],
                        Pages(a.base, a.n) \cap Pages(d.base, d.n) # {}
                 PROVE  q = o /\ a = d
      OBVIOUS
    <3>1. (a \in areas[q] \/ (q = p /\ a = c)) /\ (d \in areas[o] \/ (o = p /\ d = c))
      BY <1>2
    <3>2. CASE a \in areas[q] /\ d \in areas[o]
      BY <1>1, <3>2 DEF AreasApart
    <3>3. CASE (a \in areas[q] /\ d = c) \/ (d \in areas[o] /\ a = c)
      BY <1>3, <3>3
    <3> QED
      BY <3>1, <3>2, <3>3
  <2> QED
    BY <2>1 DEF AreasApart, Pages
<1>5. SpacesOK'
  BY <1>1, <1>2 DEF SpacesOK, KRoot
<1>6. \A q \in Procs : \A a \in areas'[q] : \A v \in Pages(a.base, a.n) :
         \/ v \in VPages \ V /\ \E d \in areas[q] : v \in Pages(d.base, d.n) /\ d.w = a.w
         \/ Translate(s.tab, root[q], v).f \in managed /\ Translate(s.tab, root[q], v).w = a.w
  <2> SUFFICES ASSUME NEW q \in Procs, NEW a \in areas'[q], NEW v \in Pages(a.base, a.n)
               PROVE  \/ v \in VPages \ V /\ \E d \in areas[q] : v \in Pages(d.base, d.n) /\ d.w = a.w
                      \/ Translate(s.tab, root[q], v).f \in managed /\ Translate(s.tab, root[q], v).w = a.w
    OBVIOUS
  <2>1. CASE a \in areas[q]
    BY <1>1, <1>3, <2>1 DEF AreasOK
  <2>2. CASE a \notin areas[q]
    BY <1>2, <2>2
  <2> QED
    BY <2>1, <2>2
<1> HIDE DEF V
<1>7. Local(managed, L, State, s, V)
  BY DEF V
<1>8. Cached(State)' /\ MappingsFresh'
  BY <1>6, <1>7, FreshKept
<1> QED
  BY <1>4, <1>5, <1>8 DEF FreshInv

\* clks_net_map_page_4k.
LEMMA MmioFresh ==
    ASSUME VmAssumption, FreshInv, MapMmio
    PROVE  FreshInv'
<1>1. PICK L : Good(managed, State, L) /\ RootsOK(L)
  BY DEF FreshInv, VmInv
<1>2. VmInv' /\ Memory(managed) /\ UNCHANGED <<managed, cr3, root, areas>>
  BY MmioKeeps DEF FreshInv, VmInv, MapMmio
<1>3. PICK s : Apply(s) /\ Unseen(L, s)
  BY <1>1, <1>2, MmioMapped
<1>4. Local(managed, L, State, s, {}) /\ {} \cap Held = {}
  BY <1>3 DEF Unseen
<1> QED
  BY <1>1, <1>2, <1>3, <1>4, FreshStays

\* clks_exec_vm_alloc: an area mapped with its protection, or nothing.
LEMMA VmAllocFresh ==
    ASSUME VmAssumption, FreshInv, NEW p \in Procs, NEW b \in VPages, NEW n \in 1 .. NPages,
           NEW w \in BOOLEAN, VmAlloc(p, b, n, w)
    PROVE  FreshInv'
<1>1. PICK L : Good(managed, State, L) /\ RootsOK(L)
  BY DEF FreshInv, VmInv
<1> DEFINE m == AllocArea(State, cr3, b, n, w)
           c == [base |-> b, n |-> n, w |-> w]
           V == Pages(b, n)
<1>2. /\ VmInv' /\ Memory(managed) /\ UNCHANGED <<managed, cr3, root>> /\ V \subseteq VPages /\ V \cap Held = {}
      /\ Cached(State) /\ Apply(m.s) /\ root[p] # 0 /\ cr3 = root[p]
      /\ areas' = IF m.ok THEN [areas EXCEPT ![p] = @ \cup {c}] ELSE areas
  BY VmAllocKeeps DEF VmAlloc, FreshInv, VmInv
<1>3. cr3 \in Frames(managed) /\ L[cr3] = "root"
  BY <1>1, <1>2 DEF RootsOK
<1>4. b \in Int /\ n \in Nat /\ \A k \in 1 .. n : b + k - 1 \in V
  <2>1. b \in Int /\ n \in Nat
    BY <1>2, Counted
  <2> QED
    BY <2>1 DEF Pages
<1>5. /\ m.ok \in BOOLEAN
      /\ \E K : Good(managed, m.s, K) /\ Keeps(managed, L, K) /\ Local(managed, L, State, m.s, V)
      /\ m.ok /\ Cached(State) => MappedPages(managed, m.s, cr3, b, n, w)
  <2>1. V \in SUBSET VPages /\ Memory(managed) /\ Good(managed, State, L) /\ Bare(State, V)
    BY <1>1, <1>2 DEF FreshInv, VmInv, Bare
  <2> HIDE DEF V, c
  <2>2. AllocOK(managed, L, State, cr3, b, n, w, V, AllocArea(State, cr3, b, n, w))
    BY <1>3, <1>4, <2>1, AreaAllocated
  <2> QED
    BY <2>2 DEF AllocOK
<1> HIDE DEF m
<1>6. CASE m.ok
  <2>1. \A v \in V : Translate(m.s.tab, cr3, v).f \in managed /\ Translate(m.s.tab, cr3, v).w = w
    BY <1>2, <1>4, <1>5, <1>6, PagesMapped
  <2>2. c.base = b /\ c.n = n /\ c.w = w /\ areas' = [areas EXCEPT ![p] = @ \cup {c}]
    BY <1>2, <1>6
  <2> HIDE DEF c
  <2>3. /\ Pages(c.base, c.n) \cap Held = {} /\ Local(managed, L, State, m.s, Pages(c.base, c.n))
        /\ \A v \in Pages(c.base, c.n) :
             Translate(m.s.tab, root[p], v).f \in managed /\ Translate(m.s.tab, root[p], v).w = c.w
    BY <1>2, <1>5, <2>1, <2>2
  <2> QED
    BY <1>1, <1>2, <2>2, <2>3, FreshAdds
<1>7. CASE ~m.ok
  BY <1>1, <1>2, <1>5, <1>7, FreshStays
<1> QED
  BY <1>5, <1>6, <1>7

\* clks_exec_mmap of a file: the area ends with the protection asked for, or
\* nothing of it is left.
LEMMA MmapFileFresh ==
    ASSUME VmAssumption, FreshInv, NEW p \in Procs, NEW b \in VPages, NEW n \in 1 .. NPages,
           NEW w \in BOOLEAN, NEW readable \in BOOLEAN, MmapFile(p, b, n, w, readable)
    PROVE  FreshInv'
<1>1. PICK L : Good(managed, State, L) /\ RootsOK(L)
  BY DEF FreshInv, VmInv
<1> DEFINE M == managed
           m == AllocArea(State, cr3, b, n, TRUE)
           c == [base |-> b, n |-> n, w |-> w]
           V == Pages(b, n)
           kept == m.ok /\ readable
           x == IF m.ok THEN UnmapUp(m.s, cr3, b, n) ELSE m.s
           y == ProtectRange(m.s, cr3, b, n, w)
<1>2. /\ VmInv' /\ Memory(M) /\ UNCHANGED <<managed, cr3, root>> /\ V \subseteq VPages /\ V \cap Held = {}
      /\ Cached(State) /\ root[p] # 0 /\ cr3 = root[p]
      /\ kept => Apply(y) /\ areas' = [areas EXCEPT ![p] = @ \cup {c}]
      /\ ~kept => Apply(x) /\ UNCHANGED areas
  BY MmapFileKeeps DEF MmapFile, FreshInv, VmInv
<1>3. cr3 \in Frames(M) /\ L[cr3] = "root"
  BY <1>1, <1>2 DEF RootsOK
<1>4. b \in Int /\ n \in Nat /\ \A k \in 1 .. n : b + k - 1 \in V /\ b + k - 1 \in VPages
  <2>1. b \in Int /\ n \in Nat
    BY <1>2, Counted
  <2> QED
    BY <1>2, <2>1 DEF Pages
<1>5. V \in SUBSET VPages /\ Bare(State, V)
  BY <1>2 DEF FreshInv, VmInv, Bare
<1>6. /\ m.ok \in BOOLEAN
      /\ \E K : Good(M, m.s, K) /\ Keeps(M, L, K) /\ Local(M, L, State, m.s, V)
      /\ m.ok /\ Cached(State) => MappedPages(M, m.s, cr3, b, n, TRUE)
  <2> HIDE DEF V, c
  <2>1. AllocOK(M, L, State, cr3, b, n, TRUE, V, AllocArea(State, cr3, b, n, TRUE))
    BY <1>1, <1>2, <1>3, <1>4, <1>5, AreaAllocated
  <2> QED
    BY <2>1 DEF AllocOK
<1>7. PICK K : Good(M, m.s, K) /\ Keeps(M, L, K) /\ Local(M, L, State, m.s, V)
  BY <1>6
<1>8. K[cr3] = "root" /\ Cached(m.s)
  BY <1>2, <1>3, <1>7 DEF Keeps, TableLevel, Local
<1> HIDE DEF m
<1>9. CASE kept
  <2>1. /\ Local(M, K, m.s, y, V)
        /\ Cached(m.s) /\ (\A v \in V : Translate(m.s.tab, cr3, v).f \in M) =>
             \A v \in V : Translate(y.tab, cr3, v).f \in M /\ Translate(y.tab, cr3, v).w = w
    <3>1. Memory(M) /\ Good(M, m.s, K) /\ cr3 \in Frames(M) /\ K[cr3] = "root"
      BY <1>2, <1>3, <1>7, <1>8
    <3>2. RangeOK(M, K, m.s, cr3, b, n, w, ProtectRange(m.s, cr3, b, n, w))
      BY <1>4, <3>1, ProtectedRange
    <3> QED
      BY <3>2 DEF RangeOK
  <2>2. \A v \in V : Translate(m.s.tab, cr3, v).f \in M
    BY <1>2, <1>4, <1>6, <1>9, PagesMapped
  <2> HIDE DEF y
  <2>3. Local(M, L, State, y, V)
    BY <1>7, <2>1, LocalTransitive
  <2>4. c.base = b /\ c.n = n /\ c.w = w /\ areas' = [areas EXCEPT ![p] = @ \cup {c}] /\ Apply(y)
    BY <1>2, <1>9
  <2> HIDE DEF c
  <2>5. /\ Pages(c.base, c.n) \cap Held = {} /\ Local(M, L, State, y, Pages(c.base, c.n))
        /\ \A v \in Pages(c.base, c.n) :
             Translate(y.tab, root[p], v).f \in M /\ Translate(y.tab, root[p], v).w = c.w
    BY <1>2, <1>8, <2>1, <2>2, <2>3, <2>4
  <2> QED
    BY <1>1, <1>2, <2>4, <2>5, FreshAdds
<1>10. CASE ~kept
  <2>1. Local(M, L, State, x, V)
    <3>1. CASE ~m.ok
      BY <1>7, <3>1
    <3>2. CASE m.ok
      <4>1. \E J : /\ Good(M, UnmapUp(m.s, cr3, b, n), J) /\ Keeps(M, K, J)
                   /\ Local(M, K, m.s, UnmapUp(m.s, cr3, b, n), V)
        <5> HIDE DEF V
        <5> QED
          BY <1>2, <1>3, <1>4, <1>5, <1>7, <1>8, UnmappedRange
      <4>2. x = UnmapUp(m.s, cr3, b, n)
        BY <3>2
      <4> HIDE DEF x
      <4>3. Local(M, K, m.s, x, V)
        BY <4>1, <4>2
      <4> QED
        BY <1>7, <4>3, LocalTransitive
    <3> QED
      BY <3>1, <3>2
  <2> HIDE DEF x
  <2>2. Apply(x) /\ UNCHANGED areas
    BY <1>2, <1>10
  <2> QED
    BY <1>1, <1>2, <2>1, <2>2, FreshStays
<1> QED
  BY <1>9, <1>10

\* clks_exec_vm_free: what is left of the area keeps its pages, and the other
\* areas have none of those that went.
LEMMA VmFreeFresh ==
    ASSUME VmAssumption, FreshInv, NEW p \in Procs, NEW a \in areas[p], NEW u \in VPages,
           NEW n \in 1 .. NPages, VmFree(p, a, u, n)
    PROVE  FreshInv'
<1>1. PICK L : Good(managed, State, L) /\ RootsOK(L)
  BY DEF FreshInv, VmInv
<1> DEFINE x == UnmapUp(State, cr3, u, n)
           V == Pages(u, n)
           left == Cut(a, u, n)
<1>2. /\ VmInv' /\ Memory(managed) /\ UNCHANGED <<managed, cr3, root>> /\ Apply(x) /\ root[p] # 0
      /\ V \subseteq Pages(a.base, a.n)
      /\ areas' = [areas EXCEPT ![p] = (@ \ {a}) \cup left]
      /\ AreasOK /\ AreasApart /\ SpacesOK
  BY VmFreeKeeps DEF VmFree, FreshInv, VmInv
<1>3. cr3 \in Frames(managed) /\ L[cr3] = "root"
  BY <1>1 DEF VmFree, RootsOK
<1>4. a \in Area /\ Pages(a.base, a.n) \subseteq VPages /\ V \in SUBSET VPages
  BY <1>2 DEF AreasOK
<1>5. u \in Int /\ n \in Nat /\ n > 0 /\ \A k \in 1 .. n : u + k - 1 \in V
  <2>1. NPages \in Nat
    BY DEF VmAssumption
  <2>2. n > 0
    BY <2>1
  <2>3. u \in Int /\ n \in Nat
    BY <1>2, <1>4, <2>2, Counted
  <2> QED
    BY <2>2, <2>3 DEF Pages
<1>6. Local(managed, L, State, x, V)
  <2> HIDE DEF V
  <2>1. \E K : Good(managed, x, K) /\ Keeps(managed, L, K) /\ Local(managed, L, State, x, V)
    BY <1>1, <1>2, <1>3, <1>4, <1>5, UnmappedRange
  <2> QED
    BY <2>1
<1>7. /\ \A c \in left : c \in Area /\ c.w = a.w /\ Pages(c.base, c.n) \subseteq Pages(a.base, a.n) \ V
      /\ \A c, d \in left : Pages(c.base, c.n) \cap Pages(d.base, d.n) # {} => c = d
  BY <1>2, <1>4, <1>5, Remains
<1>8. \A q \in Procs : areas'[q] = IF q = p THEN (areas[p] \ {a}) \cup left ELSE areas[q]
  BY <1>2 DEF AreasOK
<1> HIDE DEF x, left, V
<1>9. \A q \in Procs : \A d \in areas[q] : q # p \/ d # a => Pages(d.base, d.n) \cap Pages(a.base, a.n) = {}
  BY <1>2 DEF AreasApart
<1>10. AreasApart'
  <2>1. \A q, o \in Procs : \A c \in areas'[q], d \in areas'[o] :
           Pages(c.base, c.n) \cap Pages(d.base, d.n) # {} => q = o /\ c = d
    <3> SUFFICES ASSUME NEW q \in Procs, NEW o \in Procs, NEW c \in areas'[q], NEW d \in areas'[o],
                        Pages(c.base, c.n) \cap Pages(d.base, d.n) # {}
                 PROVE  q = o /\ c = d
      OBVIOUS
    <3>1. /\ (c \in areas[q] /\ (q # p \/ c # a)) \/ (q = p /\ c \in left)
          /\ (d \in areas[o] /\ (o # p \/ d # a)) \/ (o = p /\ d \in left)
      BY <1>8
    <3>2. CASE c \in areas[q] /\ d \in areas[o]
      BY <1>2, <3>2 DEF AreasApart
    <3>3. CASE q = p /\ c \in left /\ o = p /\ d \in left
      BY <1>7, <3>3
    <3>4. CASE c \in areas[q] /\ (q # p \/ c # a) /\ d \in left
      BY <1>7, <1>9, <3>4
    <3>5. CASE d \in areas[o] /\ (o # p \/ d # a) /\ c \in left
      BY <1>7, <1>9, <3>5
    <3> QED
      BY <3>1, <3>2, <3>3, <3>4, <3>5
  <2> QED
    BY <2>1 DEF AreasApart, Pages
<1>11. SpacesOK'
  BY <1>2, <1>8 DEF SpacesOK, KRoot
<1>12. \A q \in Procs : \A d \in areas'[q] : \A v \in Pages(d.base, d.n) :
          v \in VPages \ V /\ \E c \in areas[q] : v \in Pages(c.base, c.n) /\ c.w = d.w
  <2> SUFFICES ASSUME NEW q \in Procs, NEW d \in areas'[q], NEW v \in Pages(d.base, d.n)
               PROVE  v \in VPages \ V /\ \E c \in areas[q] : v \in Pages(c.base, c.n) /\ c.w = d.w
    OBVIOUS
  <2>1. (d \in areas[q] /\ (q # p \/ d # a)) \/ (q = p /\ d \in left)
    BY <1>8
  <2>2. CASE d \in areas[q] /\ (q # p \/ d # a)
    <3>1. v \in VPages
      BY <1>2, <2>2 DEF AreasOK
    <3>2. v \notin V
      BY <1>2, <1>9, <2>2
    <3> QED
      BY <2>2, <3>1, <3>2
  <2>3. CASE q = p /\ d \in left
    BY <1>4, <1>7, <2>3
  <2> QED
    BY <2>1, <2>2, <2>3
<1>13. Cached(State)' /\ MappingsFresh'
  BY <1>1, <1>2, <1>6, <1>12, FreshKept
<1> QED
  BY <1>2, <1>10, <1>11, <1>13 DEF FreshInv

\* Writing CR3 leaves no cached translation, and the tables as they are.
LEMMA Emptied ==
    ASSUME NEW M, NEW s, NEW L, Good(M, s, L)
    PROVE  /\ Flushed(s).tab = s.tab /\ Cached(Flushed(s))
           /\ \A v \in VPages : Flushed(s).tlb[v] = NoEntry
           /\ \A from, to : /\ SwitchTo(s, from, to).tab = s.tab
                            /\ Cached(s) => Cached(SwitchTo(s, from, to))
<1> DEFINE tl == [v \in VPages |-> NoEntry]
           x == Flushed(s)
<1>1. s = [free |-> s.free, tab |-> s.tab, tlb |-> s.tlb]
  BY DEF Good
<1>2. x = [s EXCEPT !.tlb = tl]
  BY DEF Flushed
<1>3. tl \in [VPages -> Entry] /\ \A v \in VPages : tl[v] = NoEntry
  BY DEF NoEntry, Entry
<1> HIDE DEF x, tl
<1>4. x.tab = s.tab /\ x.tlb = tl
  BY <1>1, <1>2
<1>5. x.tab = s.tab /\ Cached(x) /\ \A v \in VPages : x.tlb[v] = NoEntry
  BY <1>3, <1>4 DEF Cached
<1> QED
  BY <1>5 DEF SwitchTo, x

\* clks_exec_switch_address_space, clks_exec_restore_address_space.
LEMMA SwitchFresh ==
    ASSUME FreshInv, NEW r \in ({root[p] : p \in Procs} \ {0}) \cup {KRoot}, Switch(r)
    PROVE  FreshInv'
<1>1. PICK L : Good(managed, State, L) /\ RootsOK(L)
  BY DEF FreshInv, VmInv
<1> DEFINE s == SwitchTo(State, cr3, r)
<1>2. /\ VmInv' /\ UNCHANGED <<managed, root, areas>> /\ cr3' = r /\ Apply(s) /\ s = Flushed(State)
      /\ AreasApart /\ SpacesOK /\ AreasMapped
  BY SwitchKeeps DEF Switch, SwitchTo, FreshInv, MappingsFresh
<1>3. s.tab = tab /\ Cached(s) /\ \A v \in VPages : s.tlb[v] = NoEntry
  BY <1>1, <1>2, Emptied DEF State
<1> HIDE DEF s
<1>4. tab' = tab /\ tlb' = s.tlb
  BY <1>2, <1>3 DEF Apply
<1>5. AreasApart' /\ SpacesOK'
  BY <1>2 DEF AreasApart, SpacesOK, Pages, KRoot
<1>6. Cached(State)'
  BY <1>3, <1>4 DEF Cached, State, Entry, VPages
<1>7. MappingsFresh'
  <2>1. \A v \in VPages : tlb'[v] = NoEntry
    BY <1>3, <1>4
  <2>2. \A p \in Procs : \A a \in areas'[p] : \A v \in Pages(a.base, a.n) :
           /\ Translate(tab', root'[p], v).f \in managed'
           /\ Translate(tab', root'[p], v).w = a.w
    BY <1>2, <1>4 DEF AreasMapped
  <2> QED
    BY <2>1, <2>2, FreshNext
<1> QED
  BY <1>2, <1>5, <1>6, <1>7 DEF FreshInv

\* No space in use translates otherwise once there is a copy of the kernel's.
LEMMA CopyUnseen ==
    ASSUME VmAssumption, Memory(managed), NEW L, Good(managed, State, L), PmmTop(State) # 0,
           Apply(CopiedRoot)
    PROVE  /\ tlb' = tlb
           /\ \A r, v : IsRoot(L, r) /\ v \in VPages => Translate(tab', r, v) = Translate(tab, r, v)
<1> DEFINE M == managed
           f == PmmTop(State)
           a == PmmAlloc(State)
           tc == [tab EXCEPT ![f] = tab[KRoot]]
           fs == Front(free)
           s == [a EXCEPT !.tab[f] = tab[KRoot]]
<1>1. Apply(s)
  BY DEF CopiedRoot
<1>2. f \in M /\ L[f] = "free"
  BY Allocated
<1>3. a = [State EXCEPT !.free = Front(@)] /\ State = [free |-> free, tab |-> tab, tlb |-> tlb]
  BY DEF PmmAlloc, PmmTop, State
<1>4. a = [State EXCEPT !.free = fs]
  BY <1>3
<1> HIDE DEF a, fs, f
<1>5. a = [free |-> fs, tab |-> tab, tlb |-> tlb]
  BY <1>3, <1>4
<1>6. s = [a EXCEPT !.tab = tc]
  BY <1>5
<1> HIDE DEF s
<1>7. s = [free |-> fs, tab |-> tc, tlb |-> tlb]
  BY <1>5, <1>6
<1>8. tab' = tc /\ tlb' = tlb
  BY <1>1, <1>7 DEF Apply
<1>9. \A g \in Frames(M) : g # f => tc[g] = tab[g]
  BY DEF Good, Owned, Linked, State
<1> HIDE DEF tc
<1>10. ASSUME NEW r, NEW v \in VPages, IsRoot(L, r) PROVE Translate(tc, r, v) = Translate(tab, r, v)
  <2>1. r \in Frames(M) /\ L[r] = "root" /\ State.tab = tab
    BY <1>10 DEF IsRoot, State
  <2>2. tc[r][Lo] = tab[r][Lo]
    BY <1>2, <1>9, <2>1
  <2>3. \A g \in Frames(M), i \in Index : L[g] \in {"pdpt", "pd", "pt"} => tc[g][i] = State.tab[g][i]
    BY <1>2, <1>9, <2>1
  <2>4. Translate(tc, r, v) = Translate(State.tab, r, v)
    BY <2>1, <2>2, <2>3, SameWalk
  <2> QED
    BY <2>1, <2>4
<1> QED
  BY <1>8, <1>10

\* What a step that adds at most a space keeps; only slot p may take one.
LEMMA SpaceAdded ==
    ASSUME VmAssumption, FreshInv, VmInv', NEW L, Good(managed, State, L), RootsOK(L),
           NEW p \in Procs, root[p] = 0, UNCHANGED <<managed, cr3, areas>>,
           \A q \in Procs : q # p => root'[q] = root[q], tlb' = tlb,
           \A r, v : IsRoot(L, r) /\ v \in VPages => Translate(tab', r, v) = Translate(tab, r, v)
    PROVE  FreshInv'
<1>1. /\ AreasApart /\ SpacesOK /\ MappingsFresh /\ Cached(State)
      /\ IsRoot(L, cr3) /\ \A q \in Procs : areas[q] # {} => IsRoot(L, root[q])
  BY RootsKnown DEF FreshInv
<1>2. AreasApart'
  BY <1>1 DEF AreasApart, Pages
<1>3. SpacesOK'
  BY <1>1 DEF SpacesOK, KRoot
<1>4. Cached(State)'
  BY <1>1 DEF Cached, State, Entry, VPages
<1>5. ASSUME NEW v \in VPages, tlb'[v] # NoEntry PROVE tlb'[v] = Translate(tab', cr3', v)
  BY <1>1, <1>5 DEF MappingsFresh, TlbFresh
<1>6. ASSUME NEW q \in Procs, NEW a \in areas'[q], NEW v \in Pages(a.base, a.n)
      PROVE  /\ Translate(tab', root'[q], v).f \in managed'
             /\ Translate(tab', root'[q], v).w = a.w
  <2>1. a \in areas[q] /\ q # p /\ IsRoot(L, root[q])
    BY <1>1 DEF SpacesOK
  <2>2. v \in VPages
    BY <2>1 DEF FreshInv, VmInv, AreasOK
  <2>3. Translate(tab', root'[q], v) = Translate(tab, root[q], v)
    BY <2>1, <2>2
  <2> QED
    BY <1>1, <2>1, <2>3 DEF MappingsFresh, AreasMapped
<1>7. MappingsFresh'
  BY <1>5, <1>6, FreshNext
<1> QED
  BY <1>2, <1>3, <1>4, <1>7 DEF FreshInv

\* clks_vm_create_address_space: the new space is nobody's until now.
LEMMA CreateFresh ==
    ASSUME VmAssumption, FreshInv, NEW p \in Procs, Create(p)
    PROVE  FreshInv'
<1>1. PICK L : Good(managed, State, L) /\ RootsOK(L)
  BY DEF FreshInv, VmInv
<1>2. /\ VmInv' /\ Memory(managed) /\ UNCHANGED <<managed, cr3, areas>> /\ root[p] = 0
      /\ \A q \in Procs : q # p => root'[q] = root[q]
  BY <1>1, CreateKeeps DEF Create, FreshInv, VmInv, RootsOK
<1>3. /\ tlb' = tlb
      /\ \A r, v : IsRoot(L, r) /\ v \in VPages => Translate(tab', r, v) = Translate(tab, r, v)
  <2>1. CASE PmmTop(State) = 0
    BY <2>1 DEF Create, Apply, State
  <2>2. CASE PmmTop(State) # 0
    <3>1. Apply(CopiedRoot)
      BY <2>2 DEF Create, CopiedRoot
    <3> QED
      BY <1>1, <1>2, <2>2, <3>1, CopyUnseen
  <2> QED
    BY <2>1, <2>2
<1> QED
  BY <1>1, <1>2, <1>3, SpaceAdded

\* The failed stdio override: the space nobody knows of changes no mapping.
LEMMA ForgottenFresh ==
    ASSUME VmAssumption, FreshInv, NEW p \in Procs, CreateForgotten(p)
    PROVE  FreshInv'
<1>1. PICK L : Good(managed, State, L) /\ RootsOK(L)
  BY DEF FreshInv, VmInv
<1>2. /\ VmInv' /\ Memory(managed) /\ UNCHANGED <<managed, cr3, areas, root>> /\ root[p] = 0
      /\ PmmTop(State) # 0 /\ Apply(CopiedRoot)
  BY ForgottenKeeps DEF CreateForgotten, CopiedRoot, FreshInv, VmInv
<1>3. /\ tlb' = tlb
      /\ \A r, v : IsRoot(L, r) /\ v \in VPages => Translate(tab', r, v) = Translate(tab, r, v)
  BY <1>1, <1>2, CopyUnseen
<1> QED
  BY <1>1, <1>2, <1>3, SpaceAdded

\* The CPU caches what the tables of its space say.
LEMMA TouchFresh ==
    ASSUME VmAssumption, FreshInv, NEW u \in VPages, Touch(u)
    PROVE  FreshInv'
<1>1. PICK L : Good(managed, State, L) /\ RootsOK(L)
  BY DEF FreshInv, VmInv
<1> DEFINE e == Translate(tab, cr3, u)
<1>2. /\ VmInv' /\ Memory(managed) /\ UNCHANGED <<managed, tab, cr3, root, areas>>
      /\ tlb' = [tlb EXCEPT ![u] = e] /\ AreasApart /\ SpacesOK /\ MappingsFresh
      /\ tlb \in [VPages -> Entry]
  BY TouchKeeps DEF Touch, FreshInv, VmInv, Cached, State
<1>3. IsRoot(L, cr3)
  BY <1>1, <1>2, RootsKnown
<1>4. e \in Entry
  <2> DEFINE t == LeafTable(State.tab, cr3, u)
  <2>1. /\ t = 0 \/ (t \in Frames(managed) /\ L[t] = "pt")
        /\ Translate(State.tab, cr3, u) = IF t = 0 THEN NoEntry ELSE State.tab[t][I1(u)]
    BY <1>1, <1>2, <1>3, LeafFound DEF IsRoot
  <2> HIDE DEF t
  <2>2. State.tab = tab /\ tab \in [Frames(managed) -> [Index -> Entry]] /\ I1(u) \in Index /\ NoEntry \in Entry
    BY <1>1, Indexed DEF Good, Owned, Linked, State, NoEntry, Entry
  <2> QED
    BY <2>1, <2>2
<1>5. AreasApart' /\ SpacesOK'
  BY <1>2 DEF AreasApart, SpacesOK, Pages, KRoot
<1> HIDE DEF e
<1>6. tlb' \in [VPages -> Entry] /\ \A v \in VPages : tlb'[v] = IF v = u THEN e ELSE tlb[v]
  BY <1>2, <1>4
<1>7. Cached(State)'
  BY <1>6 DEF Cached, State, Entry, VPages
<1>8. \A v \in VPages : tlb'[v] # NoEntry => tlb'[v] = Translate(tab', cr3', v)
  BY <1>2, <1>6 DEF MappingsFresh, TlbFresh, e
<1>9. \A p \in Procs : \A a \in areas'[p] : \A v \in Pages(a.base, a.n) :
         /\ Translate(tab', root'[p], v).f \in managed'
         /\ Translate(tab', root'[p], v).w = a.w
  BY <1>2 DEF MappingsFresh, AreasMapped
<1>10. MappingsFresh'
  BY <1>8, <1>9, FreshNext
<1> QED
  BY <1>2, <1>5, <1>7, <1>10 DEF FreshInv

\* What a process that ends leaves: its pages apart, every space translates as
\* before, and the CPU has nothing cached unless it stays in the same space.
Left(L, s, V, A, stays) ==
    /\ Good(managed, s, A) /\ Keeps(managed, L, A) /\ Cached(s)
    /\ \A r \in Frames(managed), v \in VPages \ V : L[r] = "root" => Translate(s.tab, r, v) = Translate(tab, r, v)
    /\ \A v \in VPages : s.tlb[v] = NoEntry \/ (stays /\ Same(managed, L, State, s, v))

\* The pages of the process released, in its own space.
LEMMA AreasLeft ==
    ASSUME VmAssumption, FreshInv, NEW L, Good(managed, State, L), RootsOK(L),
           NEW p \in Procs, root[p] # 0, NEW s, s = State \/ s = SwitchTo(State, cr3, root[p])
    PROVE  LET x == ReleaseAreas(s, p)
               V == UNION {Pages(a.base, a.n) : a \in areas[p]}
           IN \E A : /\ s = State => Left(L, x, V, A, TRUE)
                     /\ Left(L, Flushed(x), V, A, FALSE)
<1> DEFINE M == managed
           x == ReleaseAreas(s, p)
           V == UNION {Pages(a.base, a.n) : a \in areas[p]}
           y == Flushed(x)
<1>1. /\ Memory(M) /\ Cached(State) /\ State.tab = tab /\ State.tlb = tlb
      /\ \A a \in areas[p] : Pages(a.base, a.n) \subseteq VPages
  BY DEF FreshInv, VmInv, AreasOK, State
<1>2. root[p] \in Frames(M) /\ L[root[p]] = "root"
  BY DEF RootsOK
<1>3. Good(M, s, L) /\ Cached(s) /\ s.tab = tab
  BY <1>1, Reloaded, Emptied
<1>4. PICK A : Good(M, x, A) /\ Keeps(M, L, A) /\ Local(M, L, s, x, V)
  BY <1>1, <1>2, <1>3, AreasReleased
<1> HIDE DEF x, V
<1>5. Good(M, y, A) /\ y.tab = x.tab /\ Cached(y) /\ \A v \in VPages : y.tlb[v] = NoEntry
  BY <1>4, Reloaded, Emptied
<1> HIDE DEF y
<1>6. Cached(x) /\ \A v \in VPages : Same(M, L, s, x, v) \/ (v \in V /\ x.tlb[v] = NoEntry)
  BY <1>3, <1>4 DEF Local
<1>7. \A r \in Frames(M), v \in VPages \ V : L[r] = "root" => Translate(x.tab, r, v) = Translate(tab, r, v)
  BY <1>3, <1>6 DEF Same
<1>8. Left(L, y, V, A, FALSE)
  BY <1>4, <1>5, <1>7 DEF Left
<1>9. ASSUME s = State PROVE Left(L, x, V, A, TRUE)
  BY <1>4, <1>6, <1>7, <1>9 DEF Left
<1> QED
  BY <1>8, <1>9 DEF x, y, V

\* clks_exec_proc_release_runtime and clks_exec_proc_release_address_space: the
\* others' pages and spaces are not the process's.
LEMMA ExitFresh ==
    ASSUME VmAssumption, FreshInv, NEW p \in Procs, Exit(p)
    PROVE  FreshInv'
<1>1. PICK L : Good(managed, State, L) /\ RootsOK(L)
  BY DEF FreshInv, VmInv
<1> DEFINE M == managed
           r == root[p]
           V == UNION {Pages(a.base, a.n) : a \in areas[p]}
           stays == cr3 = r /\ r = KRoot
           switched == SwitchTo(State, cr3, r)
           inside == Flushed(ReleaseAreas(switched, p))
           after == IF cr3 = r THEN ReleaseAreas(State, p) ELSE inside
           left == IF cr3 = r /\ r # KRoot THEN Flushed(after) ELSE after
           s == Destroy(left, r)
<1>2. /\ VmInv' /\ Memory(M) /\ managed' = managed /\ Apply(s) /\ r # 0
      /\ cr3' = (IF cr3 = r /\ r # KRoot THEN KRoot ELSE cr3)
      /\ root' = [root EXCEPT ![p] = 0] /\ areas' = [areas EXCEPT ![p] = {}]
      /\ AreasOK /\ AreasApart /\ SpacesOK /\ MappingsFresh
  BY ExitKeeps DEF Exit, FreshInv, VmInv
<1>3. IsRoot(L, r) /\ IsRoot(L, cr3) /\ IsRoot(L, KRoot) /\ \A q \in Procs : areas[q] # {} => IsRoot(L, root[q])
  BY <1>1, <1>2, RootsKnown
<1>4. /\ \A q \in Procs : root'[q] = IF q = p THEN 0 ELSE root[q]
      /\ \A q \in Procs : areas'[q] = IF q = p THEN {} ELSE areas[q]
      /\ \A q \in Procs : root[q] = r /\ r # KRoot => q = p
  BY <1>1, <1>2 DEF RootsOK, AreasOK
<1>5. PICK A : Left(L, left, V, A, stays)
  <2>1. CASE cr3 = r
    <3> DEFINE x == ReleaseAreas(State, p)
    <3>1. PICK A : Left(L, x, V, A, TRUE) /\ Left(L, Flushed(x), V, A, FALSE)
      BY <1>1, <1>2, AreasLeft
    <3>2. left = IF r = KRoot THEN x ELSE Flushed(x)
      BY <2>1
    <3>3. stays = (r = KRoot)
      BY <2>1
    <3> HIDE DEF left, x, V, stays, r
    <3>4. CASE r = KRoot
      <4>1. left = x /\ stays = TRUE
        BY <3>2, <3>3, <3>4
      <4> QED
        BY <3>1, <4>1
    <3>5. CASE r # KRoot
      <4>1. left = Flushed(x) /\ stays = FALSE
        BY <3>2, <3>3, <3>5
      <4> QED
        BY <3>1, <4>1
    <3> QED
      BY <3>4, <3>5
  <2>2. CASE cr3 # r
    <3> DEFINE x == ReleaseAreas(switched, p)
    <3>1. \E A : Left(L, Flushed(x), V, A, FALSE)
      <4>1. switched = State \/ switched = SwitchTo(State, cr3, root[p])
        OBVIOUS
      <4> HIDE DEF switched, V
      <4>2. \E A : Left(L, Flushed(x), UNION {Pages(a.base, a.n) : a \in areas[p]}, A, FALSE)
        BY <1>1, <1>2, <4>1, AreasLeft
      <4> QED
        BY <4>2 DEF V
    <3>2. left = Flushed(x) /\ stays = FALSE
      BY <2>2
    <3> HIDE DEF left, x, V, stays
    <3> QED
      BY <3>1, <3>2
  <2> QED
    BY <2>1, <2>2
<1> HIDE DEF left, V
<1>6. /\ Good(M, left, A) /\ Keeps(M, L, A) /\ Cached(left)
      /\ \A t \in Frames(M), v \in VPages \ V : L[t] = "root" => Translate(left.tab, t, v) = Translate(tab, t, v)
      /\ \A v \in VPages : left.tlb[v] = NoEntry \/ (stays /\ Same(M, L, State, left, v))
  BY <1>5 DEF Left
<1>7. \A t : IsRoot(L, t) => t \in Frames(M) /\ L[t] = "root" /\ A[t] = "root"
  BY <1>6 DEF IsRoot, Keeps, TableLevel
<1>8. r = KRoot \/ r \in M
  <2>1. L[KLow] # "root" /\ L[KHigh] # "root"
    BY <1>1 DEF Good, Owned, Linked, LevelsOK
  <2> QED
    BY <1>3, <1>7, <2>1 DEF Frames, BootFrames
<1> HIDE DEF r
<1>9. OthersSame(M, A, left, r, s)
  <2>1. Memory(M) /\ Good(M, left, A) /\ r \in Frames(M) /\ A[r] = "root"
    BY <1>2, <1>3, <1>6, <1>7
  <2> QED
    BY <1>8, <2>1, Destroyed
<1> HIDE DEF s
<1>10. /\ Cached(s) /\ \A v \in VPages : s.tlb[v] = left.tlb[v]
       /\ \A t, v : IsRoot(L, t) /\ v \in VPages /\ (t # r \/ r = KRoot) =>
             Translate(s.tab, t, v) = Translate(left.tab, t, v)
  BY <1>6, <1>7, <1>9 DEF OthersSame
<1>11. tab' = s.tab /\ tlb' = s.tlb
  BY <1>2 DEF Apply
<1>12. AreasApart'
  <2>1. \A q, o \in Procs : \A a \in areas'[q], c \in areas'[o] :
           Pages(a.base, a.n) \cap Pages(c.base, c.n) # {} => q = o /\ a = c
    BY <1>2, <1>4 DEF AreasApart
  <2> QED
    BY <2>1 DEF AreasApart, Pages
<1>13. SpacesOK'
  BY <1>2, <1>4 DEF SpacesOK, KRoot, r
<1>14. Cached(State)'
  BY <1>10, <1>11 DEF Cached, State, Entry, VPages
<1>15. ASSUME NEW v \in VPages, tlb'[v] # NoEntry PROVE tlb'[v] = Translate(tab', cr3', v)
  <2>1. stays /\ Same(M, L, State, left, v) /\ tlb'[v] = left.tlb[v]
    BY <1>6, <1>10, <1>11, <1>15
  <2>2. cr3' = cr3 /\ cr3 = r /\ r = KRoot
    BY <1>2, <2>1
  <2>3. left.tlb[v] = tlb[v] /\ Translate(left.tab, cr3, v) = Translate(tab, cr3, v)
    BY <1>3, <1>7, <2>1 DEF Same, State
  <2>4. Translate(s.tab, cr3, v) = Translate(left.tab, cr3, v)
    BY <1>3, <1>10, <2>2
  <2>5. tlb[v] = Translate(tab, cr3, v)
    BY <1>2, <1>15, <2>1, <2>3 DEF MappingsFresh, TlbFresh
  <2> QED
    BY <1>11, <2>1, <2>2, <2>3, <2>4, <2>5
<1>16. ASSUME NEW q \in Procs, NEW a \in areas'[q], NEW v \in Pages(a.base, a.n)
       PROVE  /\ Translate(tab', root'[q], v).f \in managed'
              /\ Translate(tab', root'[q], v).w = a.w
  <2>1. a \in areas[q] /\ q # p /\ root'[q] = root[q] /\ IsRoot(L, root[q]) /\ (root[q] # r \/ r = KRoot)
    BY <1>3, <1>4
  <2>2. v \in VPages
    BY <1>2, <2>1 DEF AreasOK
  <2>3. v \notin V
    <3>1. \A c \in areas[p] : Pages(a.base, a.n) \cap Pages(c.base, c.n) = {}
      BY <1>2, <2>1 DEF AreasApart
    <3>2. \A c \in areas[p] : v \notin Pages(c.base, c.n)
      BY <3>1
    <3> QED
      BY <3>2 DEF V
  <2>4. Translate(s.tab, root[q], v) = Translate(tab, root[q], v)
    BY <1>6, <1>7, <1>10, <2>1, <2>2, <2>3
  <2> QED
    BY <1>2, <1>11, <2>1, <2>4 DEF MappingsFresh, AreasMapped
<1>17. MappingsFresh'
  BY <1>15, <1>16, FreshNext
<1> QED
  BY <1>2, <1>12, <1>13, <1>14, <1>17 DEF FreshInv

\* A step that changes nothing.
LEMMA IdleFresh ==
    ASSUME FreshInv, UNCHANGED vars
    PROVE  FreshInv'
<1>1. /\ VmInv' /\ UNCHANGED <<managed, tab, cr3, root, areas, tlb>>
      /\ AreasApart /\ SpacesOK /\ MappingsFresh /\ Cached(State)
  BY TouchKeeps DEF vars, FreshInv
<1>2. AreasApart' /\ SpacesOK' /\ Cached(State)'
  BY <1>1 DEF AreasApart, SpacesOK, Pages, KRoot, Cached, State, Entry, VPages
<1>3. MappingsFresh'
  BY <1>1, FreshNext DEF MappingsFresh, TlbFresh, AreasMapped
<1> QED
  BY <1>1, <1>2, <1>3 DEF FreshInv

\* Every step keeps areas, tables and cache in agreement.
LEMMA StepFresh ==
    ASSUME VmAssumption, FreshInv, [Next]_vars
    PROVE  FreshInv'
<1>1. CASE MapMmio
  BY <1>1, MmioFresh
<1>2. ASSUME NEW p \in Procs, Create(p) PROVE FreshInv'
  BY <1>2, CreateFresh
<1>10. ASSUME NEW p \in Procs, CreateForgotten(p) PROVE FreshInv'
  BY <1>10, ForgottenFresh
<1>3. ASSUME NEW p \in Procs, Exit(p) PROVE FreshInv'
  BY <1>3, ExitFresh
<1>4. ASSUME NEW r \in ({root[p] : p \in Procs} \ {0}) \cup {KRoot}, Switch(r) PROVE FreshInv'
  BY <1>4, SwitchFresh
<1>5. ASSUME NEW p \in Procs, NEW b \in VPages, NEW n \in 1 .. NPages, NEW w \in BOOLEAN,
             VmAlloc(p, b, n, w)
      PROVE FreshInv'
  BY <1>5, VmAllocFresh
<1>6. ASSUME NEW p \in Procs, NEW b \in VPages, NEW n \in 1 .. NPages, NEW w \in BOOLEAN,
             NEW ok \in BOOLEAN, MmapFile(p, b, n, w, ok)
      PROVE FreshInv'
  BY <1>6, MmapFileFresh
<1>7. ASSUME NEW p \in Procs, NEW a \in areas[p], NEW u \in VPages, NEW n \in 1 .. NPages,
             VmFree(p, a, u, n)
      PROVE FreshInv'
  BY <1>7, VmFreeFresh
<1>8. ASSUME NEW v \in VPages, Touch(v) PROVE FreshInv'
  BY <1>8, TouchFresh
<1>9. CASE UNCHANGED vars
  BY <1>9, IdleFresh
<1> QED
  BY <1>1, <1>2, <1>3, <1>4, <1>5, <1>6, <1>7, <1>8, <1>9, <1>10 DEF Next

\* Nothing is held or cached at first.
LEMMA InitFresh ==
    ASSUME VmAssumption, Init
    PROVE  FreshInv
<1>1. /\ VmInv /\ cr3 = KRoot /\ tlb = [v \in VPages |-> NoEntry]
      /\ \A p \in Procs : areas[p] = {}
  BY InitKeeps DEF Init
<1>2. Cached(State)
  BY <1>1 DEF Cached, State, NoEntry, Entry
<1> QED
  BY <1>1, <1>2 DEF FreshInv, AreasApart, SpacesOK, MappingsFresh, TlbFresh, AreasMapped

\* Areas, page tables and the CPU's cache say the same of every page: what a
\* process holds is mapped in its space with its protection, and the CPU holds
\* no translation that the tables no longer do, whatever is freed in part, fails
\* half way, is protected or exits (vm.c:354, 409, 465, vm_api.inc:251).
THEOREM MappingsAreFresh == Spec => []MappingsFresh
<1>1. Init => FreshInv
  BY VmAssumption, InitFresh
<1>2. FreshInv /\ [Next]_vars => FreshInv'
  BY VmAssumption, StepFresh
<1>3. FreshInv => MappingsFresh
  BY DEF FreshInv
<1> QED
  BY <1>1, <1>2, <1>3, PTL DEF Spec

=============================================================================
