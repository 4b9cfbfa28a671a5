--------------------------------- MODULE Vm ---------------------------------
(* Physical pages, page tables and user memory: kernel/memory/pmm.c,       *)
(* kernel/memory/vm.c, the areas a process holds (kernel/runtime/exec/      *)
(* vm.inc, vm_api.inc) and the MMIO mapping of the network card (net.c).    *)
(*                                                                          *)
(* A frame is a page number.  A table is a function from the few indices    *)
(* that matter to entries; the boot loader's tables are frames the page     *)
(* allocator never manages.  Every user address lies below 2^39, that is    *)
(* under PML4[0] (CLKS_EXEC_USER_VM_BASE .. LIMIT), the entry each address  *)
(* space copies from the kernel's.                                          *)
EXTENDS Integers, Sequences, FiniteSets, SequencesExt

CONSTANTS
    MemMaps,      \* memory maps a boot loader may pass: sequences of entries
    PageSize,     \* bytes per page
    MinUsable,    \* CLKS_PMM_MIN_USABLE_ADDR
    MaxTracked,   \* CLKS_PMM_MAX_TRACKED_PAGES
    Procs,        \* process slots
    Entries,      \* indices of a table that matter
    NPages,       \* pages of the user window
    AreaMax       \* CLKS_EXEC_USER_VM_AREA_MAX

KRoot == 1001           \* the kernel's PML4
KLow  == 1002           \* its PDPT for the low half, when there is one
KHigh == 1003           \* its PDPT for the HHDM
BootFrames == {KRoot, KLow, KHigh}

(* Usable entries of a boot loader's map do not overlap, and the boot       *)
(* loader's tables are in none of them.                                     *)
MapSound(m) ==
    /\ m \in Seq([usable : BOOLEAN, base : Nat, length : Nat])
    /\ \A j, k \in DOMAIN m : j < k /\ m[j].usable /\ m[k].usable =>
          m[j].base + m[j].length <= m[k].base \/ m[k].base + m[k].length <= m[j].base
    /\ \A k \in DOMAIN m, f \in BootFrames : m[k].usable =>
          (f + 1) * PageSize <= m[k].base \/ m[k].base + m[k].length <= f * PageSize

ASSUME VmAssumption ==
    /\ PageSize \in Nat \ {0} /\ MaxTracked \in Nat /\ AreaMax \in Nat
    /\ MinUsable \in Nat /\ MinUsable >= PageSize
    /\ Entries \in Nat \ {0, 1} /\ NPages \in Nat /\ NPages <= Entries * Entries
    /\ \A m \in MemMaps : MapSound(m)

VARIABLES
    free,    \* clks_pmm_free_stack[0 .. free_top-1], top last
    managed, \* the frames clks_pmm_init pushed
    lost,    \* history: the PML4s of records that were cleared with their space
    tab,     \* contents of every frame used as a table
    cr3,     \* the address space the CPU walks
    root,    \* root[p]: address_space_cr3 of slot p, 0 when the slot is free
    areas,   \* areas[p]: user_vm_areas of slot p
    tlb,     \* translations the CPU has cached
    booted   \* clks_net_init has run

vars == <<free, managed, lost, tab, cr3, root, areas, tlb, booted>>

VPages == 0 .. NPages - 1

Lo == 0
Hi == 1
Index == 0 .. Entries - 1
Large == -1             \* an entry with PTE_PS set
NoEntry == [f |-> 0, w |-> FALSE]
Empty == [i \in Index |-> NoEntry]
Pointer(f) == [f |-> f, w |-> TRUE]

(* Indices of a user page: one PDPT entry, a page table per Entries pages. *)
I3(v) == 0
I2(v) == v \div Entries
I1(v) == v % Entries

----------------------------------------------------------------------------
(* clks_pmm_init: every whole usable page at or above the minimum address,  *)
(* in map order, up to the size of the stack.                               *)
AlignUp(a) == ((a + PageSize - 1) \div PageSize) * PageSize
AlignDown(a) == (a \div PageSize) * PageSize

EntryFrames(e) ==
    LET first == AlignUp(e.base) \div PageSize
        last  == AlignDown(e.base + e.length) \div PageSize - 1
        low   == AlignUp(MinUsable) \div PageSize
        from  == IF first < low THEN low ELSE first
    IN IF e.usable /\ from <= last THEN [k \in 1 .. last - from + 1 |-> from + k - 1] ELSE <<>>

PmmInit(map) ==
    LET all == FlattenSeq([k \in DOMAIN map |-> EntryFrames(map[k])])
    IN SubSeq(all, 1, IF Len(all) < MaxTracked THEN Len(all) ELSE MaxTracked)

(* The page allocator, on a state record s = [free, tab, tlb].  0 is failure. *)
(* Whoever takes a frame clears it first, so a free one is kept cleared.       *)
PmmTop(s) == IF s.free = <<>> THEN 0 ELSE s.free[Len(s.free)]
PmmAlloc(s) == IF s.free = <<>> THEN s ELSE [s EXCEPT !.free = Front(@)]
PmmFree(s, f) == IF f = 0 \/ Len(s.free) >= MaxTracked THEN s ELSE [s EXCEPT !.free = Append(@, f), !.tab[f] = Empty]

----------------------------------------------------------------------------
(* Page tables.  A result is [ok, s, f]: the state after, and the table.    *)

(* clks_vm_next_table and clks_net_pt_next_level: follow entry i of table   *)
(* t, or hang a zeroed page there; a large page stops the walk.             *)
NextTable(s, t, i) ==
    LET e == s.tab[t][i]
        new == PmmTop(s)
    IN CASE e.f = Large -> [ok |-> FALSE, s |-> s, f |-> 0]
         [] e.f # 0 /\ e.f # Large -> [ok |-> TRUE, s |-> s, f |-> e.f]
         [] e.f = 0 /\ new = 0 -> [ok |-> FALSE, s |-> s, f |-> 0]
         [] OTHER -> [ok |-> TRUE, f |-> new,
                      s |-> [PmmAlloc(s) EXCEPT !.tab[new] = Empty, !.tab[t][i] = Pointer(new)]]

(* clks_vm_map_page_current in the space rooted at r. *)
MapPage(s, r, v, f, w) ==
    LET a == NextTable(s, r, Lo)
        b == NextTable(a.s, a.f, I3(v))
        c == NextTable(b.s, b.f, I2(v))
    IN IF ~a.ok THEN [ok |-> FALSE, s |-> a.s]
       ELSE IF ~b.ok THEN [ok |-> FALSE, s |-> b.s]
       ELSE IF ~c.ok THEN [ok |-> FALSE, s |-> c.s]
       ELSE [ok |-> TRUE, s |-> [c.s EXCEPT !.tab[c.f][I1(v)] = [f |-> f, w |-> w], !.tlb[v] = NoEntry]]

(* The page table that holds v's entry under r, 0 when a level is absent.   *)
LeafTable(tb, r, v) ==
    LET step(t, i) == IF t = 0 \/ t = Large THEN 0 ELSE tb[t][i].f
        pt == step(step(step(r, Lo), I3(v)), I2(v))
    IN IF pt = Large THEN 0 ELSE pt

(* clks_vm_translate_current, without the offset into the page. *)
Translate(tb, r, v) ==
    LET t == LeafTable(tb, r, v) IN IF t = 0 THEN NoEntry ELSE tb[t][I1(v)]

(* clks_vm_protect_page_current, for a page that is mapped. *)
ProtectPage(s, r, v, w) ==
    LET t == LeafTable(s.tab, r, v)
    IN IF Translate(s.tab, r, v).f = 0 THEN s
       ELSE [s EXCEPT !.tab[t][I1(v)].w = w, !.tlb[v] = NoEntry]

\* MUTANT: the entry of an unmapped page is left in the table.
UnmapPageKeepEntry(s, r, v) ==
    LET f == Translate(s.tab, r, v).f IN IF f = 0 THEN s ELSE PmmFree([s EXCEPT !.tlb[v] = NoEntry], f)

\* MUTANT: an unmapped page is not invalidated.
UnmapPageNoFlush(s, r, v) ==
    LET t == LeafTable(s.tab, r, v)
        f == Translate(s.tab, r, v).f
    IN IF f = 0 THEN s ELSE PmmFree([s EXCEPT !.tab[t][I1(v)] = NoEntry], f)

(* clks_vm_unmap_page_current and the clks_pmm_free_page of what it held.   *)
UnmapPage(s, r, v) ==
    LET t == LeafTable(s.tab, r, v)
        f == Translate(s.tab, r, v).f
    IN IF f = 0 THEN s
       ELSE PmmFree([s EXCEPT !.tab[t][I1(v)] = NoEntry, !.tlb[v] = NoEntry], f)

State == [free |-> free, tab |-> tab, tlb |-> tlb]
Flushed(s) == [s EXCEPT !.tlb = [v \in VPages |-> NoEntry]]
Apply(s) == free' = s.free /\ tab' = s.tab /\ tlb' = s.tlb

(* clks_exec_switch_address_space: writing CR3 drops every cached translation. *)
SwitchTo(s, from, to) == IF to = from THEN s ELSE Flushed(s)

----------------------------------------------------------------------------
(* User areas. *)
Pages(b, n) == b .. b + n - 1
Held == UNION {Pages(a.base, a.n) : a \in UNION {areas[p] : p \in Procs}}

(* The loop of clks_exec_vm_alloc: a frame per page, mapped in turn; k is   *)
(* how many were mapped before it stopped.                                  *)
MapLoop(s, r, b, n, w) ==
    LET loop[k \in 0 .. n] ==
          IF k = 0 THEN [k |-> 0, ok |-> TRUE, s |-> s]
          ELSE LET q == loop[k - 1]
                   f == PmmTop(q.s)
                   m == MapPage(PmmAlloc(q.s), r, b + k - 1, f, w)
               IN CASE ~q.ok -> q
                    [] q.ok /\ f = 0 -> [q EXCEPT !.ok = FALSE]
                    [] q.ok /\ f # 0 /\ m.ok -> [k |-> k, ok |-> TRUE, s |-> m.s]
                    [] OTHER -> [q EXCEPT !.ok = FALSE, !.s = PmmFree(m.s, f)]
    IN loop[n]

(* Unmap and free pages, one after the other: those of a range, first to    *)
(* last or last to first.                                                   *)
UnmapEach(s, r, pages) ==
    LET loop[k \in 0 .. Len(pages)] == IF k = 0 THEN s ELSE UnmapPage(loop[k - 1], r, pages[k])
    IN loop[Len(pages)]
UnmapUp(s, r, b, n) == UnmapEach(s, r, [k \in 1 .. n |-> b + k - 1])
UnmapDown(s, r, b, n) == UnmapEach(s, r, [k \in 1 .. n |-> b + n - k])
ProtectRange(s, r, b, n, w) ==
    LET loop[k \in 0 .. n] == IF k = 0 THEN s ELSE ProtectPage(loop[k - 1], r, b + k - 1, w)
    IN loop[n]

\* MUTANT: a failed allocation leaves the pages it had mapped.
AllocAreaNoUndo(s, r, b, n, w) == MapLoop(s, r, b, n, w)

(* clks_exec_vm_alloc; on failure the pages mapped so far are given back.   *)
Undone(m, r, b) == IF m.ok THEN m ELSE [m EXCEPT !.s = UnmapDown(m.s, r, b, m.k)]
AllocArea(s, r, b, n, w) == Undone(MapLoop(s, r, b, n, w), r, b)

(* The areas left when the pages u .. u+n-1 are cut out of area a. *)
Cut(a, u, n) ==
    {c \in {[a EXCEPT !.n = u - a.base],
            [a EXCEPT !.base = u + n, !.n = a.base + a.n - (u + n)]} : c.n > 0}

(* clks_exec_proc_release_user_vm, in the slot's own address space.  The     *)
(* order of the areas in their table is left out: it only decides in which   *)
(* order their frames are free.                                              *)
ReleaseAreas(s, p) ==
    UnmapEach(s, root[p], SetToSeq(UNION {Pages(a.base, a.n) : a \in areas[p]}))

----------------------------------------------------------------------------
Init ==
    /\ \E m \in MemMaps : free = PmmInit(m)
    /\ managed = ToSet(free)
    /\ lost = {}
    /\ \E low \in {0, KLow}, high \in {0, Large} :
         tab = [f \in managed \cup BootFrames |->
                  CASE f = KRoot -> [i \in Index |-> CASE i = Hi -> Pointer(KHigh)
                                                       [] i = Lo /\ low # 0 -> Pointer(low)
                                                       [] OTHER -> NoEntry]
                    [] f = KHigh -> [i \in Index |-> IF i = 0 /\ high # 0 THEN Pointer(high) ELSE NoEntry]
                    [] OTHER -> Empty]
    /\ cr3 = KRoot
    /\ root = [p \in Procs |-> 0]
    /\ areas = [p \in Procs |-> {}]
    /\ tlb = [v \in VPages |-> NoEntry]
    /\ booted = FALSE

(* clks_net_map_page_4k for the card's registers, once, before any process:  *)
(* a large page already covers them, or tables are hung below the HHDM PDPT. *)
MapMmio ==
    /\ ~booted
    /\ booted' = TRUE
    /\ LET b == NextTable(State, KHigh, 0)
           c == NextTable(b.s, b.f, 0)
       IN Apply(IF ~b.ok THEN b.s
                ELSE IF ~c.ok THEN c.s
                ELSE [c.s EXCEPT !.tab[c.f][0] = Pointer(Large)])
    /\ UNCHANGED <<managed, lost, cr3, root, areas>>

(* clks_vm_create_address_space for slot p; the kernel's space when there   *)
(* is no page.                                                              *)
Create(p) ==
    /\ booted /\ root[p] = 0
    /\ LET f == PmmTop(State)
       IN IF f = 0 THEN root' = [root EXCEPT ![p] = KRoot] /\ Apply(State)
          ELSE /\ root' = [root EXCEPT ![p] = f]
               /\ Apply([PmmAlloc(State) EXCEPT !.tab[f] = tab[KRoot]])
    /\ UNCHANGED <<managed, lost, cr3, areas, booted>>

(* A program whose stdio override fails: its record is prepared in a free   *)
(* slot, address space included, and then cleared; nothing frees the space. *)
CreateForgotten(p) ==
    /\ booted /\ root[p] = 0 /\ PmmTop(State) # 0
    /\ lost' = lost \cup {PmmTop(State)}
    /\ Apply([PmmAlloc(State) EXCEPT !.tab[PmmTop(State)] = tab[KRoot]])
    /\ UNCHANGED <<managed, cr3, root, areas, booted>>

(* clks_exec_switch_address_space / clks_exec_restore_address_space. *)
Switch(r) ==
    /\ cr3 # r
    /\ cr3' = r
    /\ Apply(SwitchTo(State, cr3, r))
    /\ UNCHANGED <<managed, lost, root, areas, booted>>

(* clks_exec_vm_alloc by the process running in cr3.  The base is any range *)
(* that meets no area of any process: clks_exec_user_vm_next_base.          *)
VmAlloc(p, b, n, w) ==
    /\ root[p] # 0 /\ cr3 = root[p]
    /\ Pages(b, n) \subseteq VPages /\ Pages(b, n) \cap Held = {}
    /\ Cardinality(areas[p]) < AreaMax
    /\ LET m == AllocArea(State, cr3, b, n, w)
       IN /\ Apply(m.s)
          /\ areas' = IF m.ok THEN [areas EXCEPT ![p] = @ \cup {[base |-> b, n |-> n, w |-> w]}] ELSE areas
    /\ UNCHANGED <<managed, lost, cr3, root, booted>>

(* clks_exec_mmap of a file: the area is writable while the file is copied  *)
(* in, then takes the protection asked for; a file that cannot be read      *)
(* undoes the allocation.                                                   *)
MmapFile(p, b, n, w, readable) ==
    /\ root[p] # 0 /\ cr3 = root[p]
    /\ Pages(b, n) \subseteq VPages /\ Pages(b, n) \cap Held = {}
    /\ Cardinality(areas[p]) < AreaMax
    /\ LET m == AllocArea(State, cr3, b, n, TRUE)
       IN IF m.ok /\ readable
          THEN /\ Apply(ProtectRange(m.s, cr3, b, n, w))
               /\ areas' = [areas EXCEPT ![p] = @ \cup {[base |-> b, n |-> n, w |-> w]}]
          ELSE /\ Apply(IF m.ok THEN UnmapUp(m.s, cr3, b, n) ELSE m.s)
               /\ UNCHANGED areas
    /\ UNCHANGED <<managed, lost, cr3, root, booted>>

(* clks_exec_vm_free of pages u .. u+n-1 of area a; cutting the middle out  *)
(* needs a second slot.                                                     *)
VmFree(p, a, u, n) ==
    /\ root[p] # 0 /\ cr3 = root[p] /\ a \in areas[p]
    /\ Pages(u, n) \subseteq Pages(a.base, a.n)
    /\ Cardinality(areas[p] \ {a}) + Cardinality(Cut(a, u, n)) <= AreaMax
    /\ Apply(UnmapUp(State, cr3, u, n))
    /\ areas' = [areas EXCEPT ![p] = (@ \ {a}) \cup Cut(a, u, n)]
    /\ UNCHANGED <<managed, lost, cr3, root, booted>>

(* clks_vm_destroy_address_space: leave the space if the CPU is in it, free *)
(* the tables below the private PML4 entries (none is ever used: user pages *)
(* lie under PML4[0], which is only cleared) and the PML4 itself.           *)
Destroy(s, r) == IF r = KRoot THEN s ELSE PmmFree([s EXCEPT !.tab[r][Lo] = NoEntry], r)

(* Exit of the process in slot p: clks_exec_proc_release_runtime, then      *)
(* clks_exec_proc_release_address_space.                                    *)
Exit(p) ==
    /\ root[p] # 0
    /\ LET inside == Flushed(ReleaseAreas(SwitchTo(State, cr3, root[p]), p))
           after == IF cr3 = root[p] THEN ReleaseAreas(State, p) ELSE inside
           leave == cr3 = root[p] /\ root[p] # KRoot
       IN /\ Apply(Destroy(IF leave THEN Flushed(after) ELSE after, root[p]))
          /\ cr3' = IF leave THEN KRoot ELSE cr3
    /\ root' = [root EXCEPT ![p] = 0]
    /\ areas' = [areas EXCEPT ![p] = {}]
    /\ UNCHANGED <<managed, lost, booted>>

(* The CPU touches page v and caches the translation it finds. *)
Touch(v) ==
    /\ tlb[v] = NoEntry
    /\ Translate(tab, cr3, v).f \notin {0, Large}
    /\ tlb' = [tlb EXCEPT ![v] = Translate(tab, cr3, v)]
    /\ UNCHANGED <<free, managed, lost, tab, cr3, root, areas, booted>>

Next ==
    \/ MapMmio
    \/ \E p \in Procs : Create(p) \/ CreateForgotten(p) \/ Exit(p)
    \/ \E r \in ({root[p] : p \in Procs} \ {0}) \cup {KRoot} : Switch(r)
    \/ \E p \in Procs, b \in VPages, n \in 1 .. NPages, w \in BOOLEAN :
         VmAlloc(p, b, n, w) \/ \E ok \in BOOLEAN : MmapFile(p, b, n, w, ok)
    \/ \E p \in Procs : \E a \in areas[p], u \in VPages, n \in 1 .. NPages : VmFree(p, a, u, n)
    \/ \E v \in VPages : Touch(v)

Spec == Init /\ [][Next]_vars

----------------------------------------------------------------------------
(* Every table frame that the roots in use reach, and every leaf entry.     *)
Roots == {KRoot} \cup ({root[p] : p \in Procs} \ {0})
Kids(fs) == {tab[f][i].f : f \in fs, i \in Index} \ {0, Large}
Pdpts == Kids(Roots)
Pds == Kids(Pdpts)
Pts == Kids(Pds)
Tables == Roots \cup Pdpts \cup Pds \cup Pts
DataFrames == Kids(Pts)
InFree == {free[k] : k \in DOMAIN free}

(* No frame is in use twice: the free stack holds no frame twice, and no    *)
(* frame it holds is a table or a user page of a live address space; two    *)
(* entries never name the same user page, and no user page is also a table. *)
(* clks_pmm_free_page takes whatever it is given (pmm.c:80).                *)
NoFrameReused ==
    /\ Cardinality(InFree) = Len(free)
    /\ InFree \cap (Tables \cup DataFrames) = {}
    /\ Tables \cap DataFrames = {}
    /\ \A f, g \in Pts, i, j \in Index :
         tab[f][i].f \in managed /\ tab[f][i].f = tab[g][j].f => f = g /\ i = j

(* No other frame is lost: when the boot loader's tables map the low half,  *)
(* every managed frame is free or reachable, however allocations fail half  *)
(* way and address spaces come and go (vm.c:300 only clears PML4[0]), except *)
(* the PML4s of records cleared after a failed stdio override.              *)
NoFrameLost ==
    tab[KRoot][Lo].f = KLow => managed \ lost \subseteq InFree \cup Tables \cup DataFrames

(* The CPU never uses a translation the tables no longer hold: an unmapped, *)
(* remapped or protected page is invalidated, and leaving a space drops the *)
(* rest (vm.c:354, 409, 465).                                               *)
TlbFresh == \A v \in VPages : tlb[v] # NoEntry => tlb[v] = Translate(tab, cr3, v)

(* Each page of each area a process holds is mapped in its address space,   *)
(* with the area's protection, after partial frees, failed allocations of   *)
(* others and other processes' exits (vm_api.inc:251).                      *)
AreasMapped ==
    \A p \in Procs : \A a \in areas[p] : \A v \in Pages(a.base, a.n) :
        LET e == Translate(tab, root[p], v) IN e.f \in managed /\ e.w = a.w

(* Areas, page tables and TLB say the same of every page at every instant. *)
MappingsFresh == TlbFresh /\ AreasMapped
=============================================================================
