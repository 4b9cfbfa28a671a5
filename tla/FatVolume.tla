------------------------------ MODULE FatVolume ------------------------------
(***************************************************************************)
(* The FAT32 volume of kernel/storage/disk: the drive, the lazily loaded    *)
(* sector cache in front of it, and the operations built on them.           *)
(*                                                                          *)
(* Everything here is an operator on a volume record v; the module has no   *)
(* variables (see Fat).  An operator returns the volume after the call, with *)
(* v.ok the clks_bool the C function returned and v.ret its out parameter.   *)
(*                                                                          *)
(*   dev        what is on the drive, per sector                            *)
(*   mem        clks_disk_bytes, per sector                                 *)
(*   loaded     clks_disk_loaded_bitmap: sectors whose mem is valid         *)
(*   unflushed  sectors accepted by the drive since its last cache flush    *)
(*   hint       clks_disk_alloc_hint                                        *)
(*   used       drive commands issued by the running call                   *)
(*   fault      which command of the running call fails, and how            *)
(*   marks, problems   the state of a running fsck (FatCheck)               *)
(*                                                                          *)
(* One sector per cluster, which is what the formatter chooses for volumes   *)
(* of up to 532480 sectors (format.inc:6); the FAT fits in one sector, and   *)
(* sectors 0 and 1 stand for its two copies, as clusters are numbered from 2.*)
(***************************************************************************)
EXTENDS Naturals, Sequences, FiniteSetsExt

CONSTANTS
    ClusterCount,       \* clks_disk_fat32.cluster_count
    ClusterBytes,       \* clks_disk_fat32.cluster_size_bytes
    EntriesPerCluster,  \* clks_disk_fat32.entries_per_cluster
    LongNames           \* the names that need a long-file-name entry

ASSUME VolumeAssumption ==
    /\ ClusterCount \in Nat \ {0}
    /\ ClusterBytes \in Nat \ {0}
    /\ EntriesPerCluster \in Nat /\ EntriesPerCluster >= 2

Root == 2
Clusters == 2 .. (ClusterCount + 1)
FatCopies == {0, 1}
Sectors == FatCopies \cup Clusters
FreeCluster == 0
EOC == ClusterCount + 2

\* A slot of a directory.  The bytes 0x00 and 0xE5 mark a slot that may be
\* reused; every reader of the code treats the two alike, so both are "free".
Entry(kind, name, first, size) ==
    [kind |-> kind, name |-> name, first |-> first, size |-> size]
FreeEntry == Entry("free", "", 0, 0)

\* The content of a data sector, read as a directory (ent) and as bytes.
DirBlock(ent) == [ent |-> ent, bytes |-> [i \in 1 .. ClusterBytes |-> 0]]
ZeroBlock == DirBlock([i \in 1 .. EntriesPerCluster |-> FreeEntry])
DataBlock(data) ==
    [ZeroBlock EXCEPT !.bytes =
        [i \in 1 .. ClusterBytes |-> IF i <= Len(data) THEN data[i] ELSE 0]]

Needed(size) == (size + ClusterBytes - 1) \div ClusterBytes

-----------------------------------------------------------------------------
(***************************************************************************)
(* The drive.  A fault is [at, kind]: command number `at' of the call fails; *)
(* "once" only that one, "dead" every later one of the call too, "crash"     *)
(* the power goes and the caller discards the memory.                        *)
(***************************************************************************)
NoFault == [at |-> 0, kind |-> "none"]

Works(v) ==
    LET n == v.used + 1 IN
    IF v.fault.kind \in {"none", "once"} THEN n # v.fault.at ELSE n < v.fault.at

Command(v) == [v EXCEPT !.used = @ + 1, !.ok = Works(v)]
Succeed(v) == [v EXCEPT !.ok = TRUE]
Fail(v) == [v EXCEPT !.ok = FALSE]
Return(v, x) == [v EXCEPT !.ok = TRUE, !.ret = x]

\* `if (... == CLKS_FALSE) return CLKS_FALSE;', and the same with a clean-up
\* before the return.  Only Return changes ret.
Then(r, next(_)) == IF r.ok THEN next(r) ELSE r
Rescue(r, undo(_)) == IF r.ok THEN r ELSE Fail(undo(r))

\* clks_disk_ensure_loaded_range, for one sector.
Load(v, k) ==
    IF k \in v.loaded THEN Succeed(v)
    ELSE Then(Command(v), LAMBDA r : [r EXCEPT !.mem[k] = r.dev[k], !.loaded = @ \cup {k}])

\* clks_disk_sync_sector_range_no_flush, for one sector.
Write(v, k) ==
    Then(Command(v), LAMBDA r : [r EXCEPT !.dev[k] = r.mem[k],
                                          !.loaded = @ \cup {k},
                                          !.unflushed = @ \cup {k}])

\* clks_disk_flush_hw.
Flush(v) == Then(Command(v), LAMBDA r : [r EXCEPT !.unflushed = {}])

\* clks_disk_sync_sector_range: write, then flush the drive's cache.
Sync(v, k) == Then(Write(v, k), Flush)

-----------------------------------------------------------------------------
(***************************************************************************)
(* The file allocation table.                                               *)
(***************************************************************************)

\* One turn of the loop of clks_disk_fat_write_entry over the FAT copies.
FatWriteCopy(v, copy, c, value) ==
    Then(Load(v, copy), LAMBDA r : Sync([r EXCEPT !.mem[copy][c] = value], copy))

\* clks_disk_fat_write_entry: every copy in turn, stopping at the first failure.
FatWrite(v, c, value) ==
    Then(FatWriteCopy(v, 0, c, value), LAMBDA r : FatWriteCopy(r, 1, c, value))

\* clks_disk_fat_next_cluster; readers use the first copy only.
FatNext(v, c) == Then(Load(v, 0), LAMBDA r : Return(r, r.mem[0][c]))

\* clks_disk_find_free_cluster: from the hint to the end, then from the start.
FindFreeCluster(v) ==
    Then(Load(v, 0), LAMBDA r :
        LET free  == {c \in Clusters : r.mem[0][c] = FreeCluster}
            ahead == {c \in free : c >= v.hint}
            found == Min(IF ahead # {} THEN ahead ELSE free)
        IN  IF free = {} THEN Fail(r)
            ELSE Return([r EXCEPT !.hint = IF found + 1 \in Clusters THEN found + 1 ELSE Root],
                        found))

\* clks_disk_free_chain: what it could not write it leaves behind, silently.
RECURSIVE FreeFrom(_, _, _)
FreeFrom(v, c, guard) ==
    IF c \notin Clusters \/ guard = 0 THEN v
    ELSE Then(FatNext(v, c), LAMBDA n : FreeFrom(FatWrite(n, c, FreeCluster), n.ret, guard - 1))
FreeChain(v, first) == FreeFrom(v, first, ClusterCount)

\* clks_disk_alloc_cluster_no_zero: a cluster whose FAT entry could not be
\* written is not given back.
AllocClusterNoZero(v) == Then(FindFreeCluster(v), LAMBDA r : FatWrite(r, r.ret, EOC))

\* clks_disk_alloc_cluster, with clks_disk_zero_cluster.
AllocCluster(v) ==
    Then(AllocClusterNoZero(v), LAMBDA r :
        Rescue(Sync([r EXCEPT !.mem[r.ret] = ZeroBlock], r.ret),
               LAMBDA z : FatWrite(z, r.ret, FreeCluster)))

\* clks_disk_alloc_chain: n clusters linked in order; a failure frees the
\* part that is linked already.
RECURSIVE ExtendChain(_, _, _, _)
ExtendChain(v, n, first, prev) ==
    LET link(r) == IF prev = 0 THEN r ELSE FatWrite(r, prev, r.ret) IN
    IF n = 0 THEN Return(v, first)
    ELSE Then(Rescue(Then(AllocClusterNoZero(v), link), LAMBDA r : FreeChain(r, first)),
              LAMBDA r : ExtendChain(r, n - 1, IF first = 0 THEN r.ret ELSE first, r.ret))
AllocChain(v, n) == ExtendChain(v, n, 0, 0)

-----------------------------------------------------------------------------
(***************************************************************************)
(* File data.                                                               *)
(***************************************************************************)
Shorter(m, n) == IF m < n THEN m ELSE n
FirstCluster(data) == SubSeq(data, 1, Shorter(Len(data), ClusterBytes))
AfterFirst(data) == SubSeq(data, ClusterBytes + 1, Len(data))

\* clks_disk_read_file_chain: ret is the bytes read.
RECURSIVE ReadFrom(_, _, _, _, _)
ReadFrom(v, c, size, done, guard) ==
    IF c \notin Clusters \/ guard = 0 THEN Fail(v)
    ELSE Then(Load(v, c), LAMBDA r :
            LET got == done \o SubSeq(r.mem[c].bytes, 1, Shorter(size - Len(done), ClusterBytes))
            IN  IF Len(got) >= size THEN Return(r, got)
                ELSE Then(FatNext(r, c), LAMBDA n : ReadFrom(n, n.ret, size, got, guard - 1)))
ReadFileChain(v, first, size) == ReadFrom(v, first, size, <<>>, ClusterCount)

\* clks_disk_write_file_chain.  It returns once the last byte is written, so
\* the flush at its end is never reached: the caller's next synced write
\* flushes for it.
RECURSIVE WriteFrom(_, _, _, _)
WriteFrom(v, c, data, guard) ==
    IF c \notin Clusters \/ guard = 0 THEN Fail(v)
    ELSE Then(Write([v EXCEPT !.mem[c] = DataBlock(FirstCluster(data))], c), LAMBDA w :
            IF AfterFirst(data) = <<>> THEN w
            ELSE Then(FatNext(w, c), LAMBDA n : WriteFrom(n, n.ret, AfterFirst(data), guard - 1)))
WriteFileChain(v, first, data) ==
    IF data = <<>> THEN Succeed(v) ELSE WriteFrom(v, first, data, ClusterCount)

\* clks_disk_chain_last_cluster.
RECURSIVE LastFrom(_, _, _)
LastFrom(v, c, guard) ==
    IF c \notin Clusters \/ guard = 0 THEN Fail(v)
    ELSE Then(FatNext(v, c), LAMBDA n :
            IF n.ret = EOC THEN Return(n, c) ELSE LastFrom(n, n.ret, guard - 1))
ChainLastCluster(v, first) == LastFrom(v, first, ClusterCount)

\* The loop of clks_disk_append_file_chain: one new cluster per turn, linked
\* before its data is written.
RECURSIVE AppendClusters(_, _, _)
AppendClusters(v, last, data) ==
    IF data = <<>> THEN Flush(v)
    ELSE Then(AllocClusterNoZero(v), LAMBDA a :
         Then(Rescue(FatWrite(a, last, a.ret), LAMBDA l : FreeChain(l, a.ret)), LAMBDA l :
         Then(Write([l EXCEPT !.mem[a.ret] = DataBlock(FirstCluster(data))], a.ret), LAMBDA w :
            AppendClusters(w, a.ret, AfterFirst(data)))))

\* Its step before: the bytes that still fit in the last cluster c are copied
\* into the cached sector, whether or not that sector has been loaded.
FillLastCluster(v, c, size, fill) ==
    LET within == size % ClusterBytes IN
    IF fill = <<>> THEN v
    ELSE Write([v EXCEPT !.mem[c].bytes =
                  [i \in 1 .. ClusterBytes |->
                      IF i \in (within + 1) .. (within + Len(fill)) THEN fill[i - within] ELSE @[i]]],
               c)

\* clks_disk_append_file_chain; ret is the first cluster of the file.
AppendFileChain(v, first, size, data) ==
    LET within == size % ClusterBytes
        room   == IF within = 0 THEN 0 ELSE ClusterBytes - within
        fill   == SubSeq(data, 1, Shorter(Len(data), room))
        rest   == SubSeq(data, Len(fill) + 1, Len(data))
    IN  IF data = <<>> THEN Return(v, first)
        ELSE IF first \in Clusters
        THEN Then(ChainLastCluster(v, first), LAMBDA end :
             Then(FillLastCluster(end, end.ret, size, fill), LAMBDA part :
             Then(AppendClusters(part, end.ret, rest), LAMBDA done : Return(done, first))))
        ELSE IF Needed(Len(data)) > ClusterCount THEN Fail(v)
        ELSE Then(AllocChain(v, Needed(Len(data))), LAMBDA a :
             Then(WriteFileChain(a, a.ret, data), LAMBDA w : Return(w, a.ret)))

-----------------------------------------------------------------------------
(***************************************************************************)
(* Directories.                                                             *)
(***************************************************************************)
Visible(e) == e.kind \in {"file", "dir"}

\* A short name is matched with the short entry; a long one with the
\* long-name entry in front of it.
Matches(ent, i, name) ==
    /\ Visible(ent[i])
    /\ ent[i].name = name
    /\ name \in LongNames => i > 1 /\ ent[i - 1].kind = "lfn" /\ ent[i - 1].name = name

NotFound(parent) == [found |-> FALSE, slot |-> <<0, 0>>, entry |-> FreeEntry, parent |-> parent]

\* clks_disk_dir_find_entry_by_component, over the clusters of a directory.
RECURSIVE FindEntry(_, _, _, _, _)
FindEntry(v, dir, c, name, guard) ==
    IF c \notin Clusters \/ guard = 0 THEN Fail(v)
    ELSE Then(Load(v, c), LAMBDA r :
            LET hits == {i \in 1 .. EntriesPerCluster : Matches(r.mem[c].ent, i, name)} IN
            IF hits # {}
            THEN Return(r, [found |-> TRUE, slot |-> <<c, Min(hits)>>,
                            entry |-> r.mem[c].ent[Min(hits)], parent |-> dir])
            ELSE Then(FatNext(r, c), LAMBDA n :
                    IF n.ret = EOC THEN Return(n, NotFound(dir))
                    ELSE FindEntry(n, dir, n.ret, name, guard - 1)))

\* clks_disk_lookup_relative_path: every component but the last must be a
\* directory with a valid cluster.
RECURSIVE LookupFrom(_, _, _)
LookupFrom(v, dir, path) ==
    Then(FindEntry(v, dir, dir, Head(path), ClusterCount), LAMBDA r :
        IF Len(path) = 1 THEN r
        ELSE IF r.ret.found /\ r.ret.entry.kind = "dir" /\ r.ret.entry.first \in Clusters
        THEN LookupFrom(r, r.ret.entry.first, Tail(path))
        ELSE Fail(r))
Lookup(v, path) == LookupFrom(v, Root, path)

\* The end of clks_disk_dir_find_free_slots: a zeroed cluster is linked to the
\* directory's last cluster c.
GrowDirectory(v, c) ==
    Then(AllocCluster(v), LAMBDA a :
    Then(Rescue(FatWrite(a, c, a.ret), LAMBDA l : FreeChain(l, a.ret)), LAMBDA l :
        Return(l, <<a.ret, 1>>)))

\* clks_disk_dir_find_free_slots: the first run of `needed' reusable slots in
\* one cluster of the directory, else a new cluster.
RECURSIVE FindFreeSlots(_, _, _, _)
FindFreeSlots(v, c, needed, guard) ==
    IF c \notin Clusters \/ guard = 0 THEN Fail(v)
    ELSE Then(Load(v, c), LAMBDA r :
            LET runs == {i \in 1 .. (EntriesPerCluster - needed + 1) :
                            \A j \in i .. (i + needed - 1) : r.mem[c].ent[j].kind = "free"}
            IN  IF runs # {} THEN Return(r, <<c, Min(runs)>>)
                ELSE Then(FatNext(r, c), LAMBDA n :
                        IF n.ret = EOC THEN GrowDirectory(n, c)
                        ELSE FindFreeSlots(n, n.ret, needed, guard - 1)))

\* clks_disk_write_dir_entry.
WriteDirEntry(v, slot, e) ==
    Then(Load(v, slot[1]), LAMBDA r :
        IF slot[2] > EntriesPerCluster THEN Fail(r)
        ELSE Sync([r EXCEPT !.mem[slot[1]].ent[slot[2]] = e], slot[1]))

\* clks_disk_write_named_dir_entry: the long-name entry first, when the name
\* needs one, then the entry itself.
WriteNamedDirEntry(v, parent, e) ==
    LET long == e.name \in LongNames IN
    Then(FindFreeSlots(v, parent, IF long THEN 2 ELSE 1, ClusterCount), LAMBDA r :
        IF long
        THEN Then(WriteDirEntry(r, r.ret, Entry("lfn", e.name, 0, 0)), LAMBDA l :
                WriteDirEntry(l, <<r.ret[1], r.ret[2] + 1>>, e))
        ELSE WriteDirEntry(r, r.ret, e))

\* clks_disk_init_directory_cluster.
InitDirectoryCluster(v, c, parent) ==
    Sync([v EXCEPT !.mem[c] =
            [ZeroBlock EXCEPT !.ent[1] = Entry("dot", ".", c, 0),
                              !.ent[2] = Entry("dot", "..", parent, 0)]], c)

\* clks_disk_dir_is_empty.
RECURSIVE DirIsEmpty(_, _, _)
DirIsEmpty(v, c, guard) ==
    IF c \notin Clusters \/ guard = 0 THEN Fail(v)
    ELSE Then(Load(v, c), LAMBDA r :
            IF \E i \in 1 .. EntriesPerCluster : Visible(r.mem[c].ent[i]) THEN Fail(r)
            ELSE Then(FatNext(r, c), LAMBDA n :
                    IF n.ret = EOC THEN n ELSE DirIsEmpty(n, n.ret, guard - 1)))

-----------------------------------------------------------------------------
(***************************************************************************)
(* The operations of public_api.inc.                                        *)
(***************************************************************************)

\* clks_disk_write_all: the old chain is freed before the new one is found,
\* and the directory entry is written last.
WriteAll(v, path, data) ==
    LET n == Needed(Len(data)) IN
    Then(Lookup(v, path), LAMBDA l :
        LET old == l.ret.entry
            new(first) == Entry("file", path[Len(path)], first, Len(data))
        IN  IF old.kind = "dir" \/ n > ClusterCount THEN Fail(l)
            ELSE Then(AllocChain(IF old.first # 0 THEN FreeChain(l, old.first) ELSE l, n), LAMBDA a :
                 Rescue(Then(WriteFileChain(a, a.ret, data), LAMBDA w :
                           IF l.ret.found THEN WriteDirEntry(w, l.ret.slot, new(a.ret))
                           ELSE WriteNamedDirEntry(w, l.ret.parent, new(a.ret))),
                        LAMBDA x : FreeChain(x, a.ret))))

\* clks_disk_append: a missing file is written, an existing one is extended.
AppendFile(v, path, data) ==
    Then(Lookup(v, path), LAMBDA l :
        LET e == l.ret.entry
            size == e.size + Len(data)
        IN  IF e.kind = "dir" THEN Fail(l)
            ELSE IF ~l.ret.found \/ size = 0 THEN WriteAll(l, path, data)
            ELSE Then(AppendFileChain(l, e.first, e.size, data), LAMBDA a :
                    WriteDirEntry(a, l.ret.slot, [e EXCEPT !.first = a.ret, !.size = size])))

\* The loop of clks_disk_remove over the long-name entries before slot i.
RECURSIVE FreeLongNames(_, _, _)
FreeLongNames(v, c, i) ==
    IF i = 1 \/ v.mem[c].ent[i - 1].kind # "lfn" THEN v
    ELSE Then(WriteDirEntry(v, <<c, i - 1>>, FreeEntry), LAMBDA w : FreeLongNames(w, c, i - 1))

\* clks_disk_remove: the long-name entries, then the entry, then the chain.
RemoveNode(v, path) ==
    Then(Lookup(v, path), LAMBDA l :
        LET e == l.ret.entry
            s == l.ret.slot
        IN  IF ~l.ret.found THEN Fail(l)
            ELSE Then(IF e.kind = "dir" THEN DirIsEmpty(l, e.first, ClusterCount) ELSE l, LAMBDA r :
                 Then(FreeLongNames(r, s[1], s[2]), LAMBDA n :
                 Then(WriteDirEntry(n, s, FreeEntry), LAMBDA d :
                    Succeed(FreeChain(d, e.first))))))

\* clks_disk_mkdir: an existing directory counts as made.
Mkdir(v, path) ==
    Then(Lookup(v, path), LAMBDA l :
        IF l.ret.found THEN [l EXCEPT !.ok = l.ret.entry.kind = "dir"]
        ELSE Then(AllocCluster(l), LAMBDA a :
             Rescue(Then(InitDirectoryCluster(a, a.ret, l.ret.parent), LAMBDA i :
                        WriteNamedDirEntry(i, l.ret.parent,
                                           Entry("dir", path[Len(path)], a.ret, 0))),
                    LAMBDA x : FreeChain(x, a.ret))))

FreshFat == [c \in Clusters |-> IF c = Root THEN EOC ELSE FreeCluster]

\* Sector 0 and the reserved sectors, rewritten with the layout they have: the
\* model keeps no content for them, only the commands.
SyncBootSectors(v) ==
    LET sync(u) == Then(Command(u), Flush) IN Then(sync(v), sync)

\* clks_disk_format_fat32: both tables are rebuilt in memory and marked loaded
\* first; the root directory, the boot sectors and the tables are then written.
Format(v) ==
    Then(InitDirectoryCluster([v EXCEPT !.mem[0] = FreshFat, !.mem[1] = FreshFat,
                                        !.loaded = @ \cup FatCopies, !.hint = Root],
                              Root, Root), LAMBDA r :
    Then(SyncBootSectors(r), LAMBDA b :
    Then(Sync(b, 0), LAMBDA f : Sync(f, 1))))
=============================================================================
