------------------------------ MODULE FatCheck ------------------------------
(***************************************************************************)
(* clks_disk_fsck_fat32 (kernel/storage/disk/fsck.inc): the walk over the     *)
(* directory tree that marks every cluster it meets, reports what it finds   *)
(* wrong and, with CLKS_DISK_FSCK_FLAG_FIX, repairs the table.               *)
(*                                                                          *)
(* v.marks is the marks array, v.problems the counters of the result that    *)
(* decide its status: "bad" entries, "loop"s, "size" mismatches, "orphan"s.  *)
(***************************************************************************)
EXTENDS FatVolume

CONSTANT MaxDepth   \* 32 in the code

Report(v, p) == [v EXCEPT !.problems = @ \cup {p}]

\* MUTANT: the damage is reported but not repaired.
EndChainAtReportOnly(v, c, fix) == v

\* The repair all four cases of the walk share: end the chain at c.
EndChainAt(v, c, fix) == IF fix THEN FatWrite(v, c, EOC) ELSE v

\* clks_disk_fsck_free_tail.
RECURSIVE FreeTail(_, _, _)
FreeTail(v, c, guard) ==
    LET free(n) == FatWrite(n, c, FreeCluster)
        go(n) == IF n.ok THEN FreeTail(free(n), n.ret, guard - 1) ELSE free(n)
    IN  IF c \notin Clusters \/ guard = 0 THEN v ELSE go(FatNext(v, c))

\* The loop of clks_disk_fsck_mark_chain: cluster c is number k of its chain,
\* prev the one before it; ret is chain_clusters.  needed = 0 stands for a
\* directory, whose chain may have any length.
RECURSIVE MarkFrom(_, _, _, _, _, _)
MarkFrom(v, c, prev, k, needed, fix) ==
    LET cut(n) == EndChainAt(Report(n, "size"), c, fix)
        trim(n, tail) == IF fix /\ n.ok THEN FreeTail(n, tail, ClusterCount) ELSE n
        go(n) ==
            IF ~n.ok THEN Return(EndChainAt(Report(n, "bad"), c, fix), k)
            ELSE IF needed > 0 /\ k = needed /\ n.ret # EOC THEN Return(trim(cut(n), n.ret), k)
            ELSE IF n.ret = EOC THEN Return(n, k)
            ELSE IF n.ret \notin Clusters THEN Return(EndChainAt(Report(n, "bad"), c, fix), k)
            ELSE MarkFrom(n, n.ret, c, k + 1, needed, fix)
    IN  IF k > ClusterCount THEN Return(Report(v, "loop"), k - 1)
        ELSE IF c \in v.marks
        THEN Return(EndChainAt(Report(v, "loop"), prev, fix /\ prev # 0), k - 1)
        ELSE go(FatNext([v EXCEPT !.marks = @ \cup {c}], c))

\* MUTANT: a directory's own clusters are not marked.
MarkDirChainUnmarked(v, first, fix) == v

\* MUTANT: a chain that is shorter than the file's size is not reported.
MarkFileChainShort(v, first, size, fix) ==
    IF first = 0 THEN Report(v, "size")
    ELSE IF first \notin Clusters THEN Report(v, "bad")
    ELSE MarkFrom(v, first, 0, 1, Needed(size), fix)

\* clks_disk_fsck_mark_chain for a directory and for a file of `size' bytes.
MarkDirChain(v, first, fix) == MarkFrom(v, first, 0, 1, 0, fix)
MarkFileChain(v, first, size, fix) ==
    LET short(r) == IF r.ret < Needed(size) THEN Report(r, "size") ELSE r IN
    IF first = 0 THEN Report(v, "size")
    ELSE IF first \notin Clusters THEN Report(v, "bad")
    ELSE short(MarkFrom(v, first, 0, 1, Needed(size), fix))

\* A file entry in clks_disk_fsck_scan_directory.
ScanFile(v, slot, e, fix) ==
    IF e.size = 0 /\ e.first = 0 THEN v
    ELSE IF e.size > 0 THEN MarkFileChain(v, e.first, e.size, fix)
    ELSE IF fix THEN WriteDirEntry(FreeTail(Report(v, "size"), e.first, ClusterCount),
                                   slot, [e EXCEPT !.first = 0])
    ELSE Report(v, "size")

\* clks_disk_fsck_scan_directory: the entries of cluster c from slot i, then
\* the next cluster.  A directory that cannot be read ends its own scan only.
RECURSIVE ScanDirectory(_, _, _, _)
RECURSIVE ScanEntries(_, _, _, _, _, _)
ScanEntries(v, c, i, guard, fix, depth) ==
    LET scan(r, e) ==
            IF e.kind = "file" THEN Succeed(ScanFile(r, <<c, i>>, e, fix))
            ELSE IF e.kind # "dir" THEN r
            ELSE IF e.first \in Clusters THEN ScanDirectory(r, e.first, fix, depth + 1)
            ELSE Report(r, "bad")
        entry(r) ==
            IF r.ok THEN Then(scan(r, r.mem[c].ent[i]), LAMBDA s :
                            ScanEntries(s, c, i + 1, guard, fix, depth))
            ELSE Succeed(Report(r, "bad"))
        follow(n) ==
            IF ~n.ok THEN Succeed(Report(n, "bad"))
            ELSE IF n.ret = EOC THEN n
            ELSE IF n.ret \notin Clusters THEN Succeed(EndChainAt(Report(n, "bad"), c, fix))
            ELSE ScanEntries(n, n.ret, 1, guard - 1, fix, depth)
    IN  IF guard = 0 THEN Report(v, "loop")
        ELSE IF i <= EntriesPerCluster THEN entry(Load(v, c)) ELSE follow(FatNext(v, c))
ScanDirectory(v, dir, fix, depth) ==
    IF depth > MaxDepth THEN Fail(v)
    ELSE ScanEntries(MarkDirChain(v, dir, fix), dir, 1, ClusterCount, fix, depth)

\* The last loop of clks_disk_fsck_fat32: a used cluster nobody marked is an
\* orphan.
RECURSIVE SweepOrphans(_, _, _)
SweepOrphans(v, c, fix) ==
    LET free(n) == IF fix THEN FatWrite(n, c, FreeCluster) ELSE n
        sweep(n) == IF ~n.ok THEN Report(n, "bad")
                    ELSE IF n.ret = FreeCluster \/ c \in n.marks THEN n
                    ELSE free(Report(n, "orphan"))
    IN  IF c \in Clusters THEN SweepOrphans(sweep(FatNext(v, c)), c + 1, fix) ELSE v

\* The read of the two reserved entries, which are in the table's first sector.
ReadReserved(v) ==
    LET check(r) == IF r.ok THEN r ELSE Report(r, "bad") IN check(Load(v, 0))

\* clks_disk_fsck_fat32; ret is the status of the report.
Fsck(v, fix) ==
    LET flush(w) == IF fix THEN Flush(w) ELSE w
        finish(w) == Return(w, IF w.problems = {} THEN 0 ELSE 1)
    IN  Then(ScanDirectory(ReadReserved(v), Root, fix, 0), LAMBDA s :
            finish(flush(SweepOrphans(s, Root, fix))))
=============================================================================
