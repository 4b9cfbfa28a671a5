--------------------------------- MODULE Fs ---------------------------------
(* The file system layer: kernel/storage/fs.c with the RAM disk it is built  *)
(* from (ramdisk.c), path normalisation (rust/src/path.rs) and the file      *)
(* system calls (rust/src/syscall/handlers/fs.rs).                           *)
(*                                                                           *)
(* A path is the sequence of its components; an external path may hold "."   *)
(* and ".." components and an internal one may not.  File contents are       *)
(* sequences of units.  Paths inside the disk's mount point go to the FAT    *)
(* driver (module Fat) and leave everything here alone.                      *)
EXTENDS Integers, Sequences, FiniteSets, SequencesExt

CONSTANTS
    Images,      \* RAM disks a boot loader may pass: sequences of tar entries
    Required,    \* directories clks_fs_init insists on
    MaxNodes,    \* CLKS_FS_MAX_NODES
    PathMax,     \* CLKS_FS_PATH_MAX, in components
    Caps,        \* heap sizes the rest of the kernel may leave to file data
    ExtPaths,    \* external paths callers pass to change the tree
    ListPaths,   \* and those they list
    Payloads,    \* contents callers write
    ChunkLen,    \* FS_IO_CHUNK_LEN
    WholeMax,    \* the 1 MiB up to which a write is taken in one piece
    BootMount,   \* "/temp/disk", where clks_disk_init mounts a formatted disk
    Mounts,      \* mount points a caller may ask for
    DevTree,     \* the fixed children of /dev and of /dev/input, by path
    Pids         \* the process table, as /proc shows it

ASSUME FsAssumption ==
    /\ MaxNodes \in Nat \ {0} /\ PathMax \in Nat \ {0} /\ Caps \subseteq Nat
    /\ ChunkLen \in Nat \ {0} /\ WholeMax \in Nat

VARIABLES
    fs,      \* [nodes, top, heap]: the node table, nodes_used and the blocks of the heap it owns
    image,   \* the RAM disk, which stays in memory
    ready,   \* clks_fs_ready
    mount,   \* where the disk is mounted
    call,    \* the last call, its path normalised
    ret      \* what it returned

vars == <<fs, image, ready, mount, call, ret>>

Slots == 0 .. MaxNodes - 1
NotFound == -1
NoBlock == 0               \* CLKS_NULL
EmptyData == -1            \* clks_fs_empty_file_data
ImageData(i) == -(i + 1)   \* the payload of the i-th tar entry
BadPath == <<"..">>        \* what no path normalises to
NoMount == BadPath
FreeNode == [used |-> FALSE, dir |-> FALSE, parent |-> 0, heap |-> FALSE, data |-> NoBlock, path |-> <<>>]

----------------------------------------------------------------------------
(* Paths. *)

(* normalize_impl: empty and "." components go, ".." is refused. *)
Internal(ext) ==
    LET p == SelectSeq(ext, LAMBDA c : c \notin {"", "."}) IN
    IF ".." \in ToSet(p) \/ Len(p) >= PathMax THEN BadPath ELSE p

Parent(p) == IF p = <<>> THEN <<>> ELSE Front(p)
DynamicDevDirs == DOMAIN DevTree
DynamicDevFiles == UNION {{Append(d, n) : n \in ToSet(DevTree[d])} : d \in DOMAIN DevTree} \ DynamicDevDirs
InProcTree(p) == p # <<>> /\ Head(p) = "proc"
Writable(p) == p # <<>> /\ ~InProcTree(p) /\ p \notin DynamicDevFiles
InMount(ext) == Internal(ext) # BadPath /\ IsPrefix(mount, Internal(ext))

----------------------------------------------------------------------------
(* The node table. *)

Lowest(S) == CHOOSE i \in S : \A j \in S : i <= j

FindNode(s, p) ==
    LET hits == {i \in 0 .. s.top - 1 : s.nodes[i].used /\ s.nodes[i].path = p} IN
    IF hits = {} THEN NotFound ELSE Lowest(hits)

AllocSlot(s) ==
    LET gaps == {i \in 0 .. s.top - 1 : ~s.nodes[i].used} IN
    IF gaps # {} THEN Lowest(gaps) ELSE IF s.top < MaxNodes THEN s.top ELSE NotFound

CreateOrUpdate(s, p, dir, parent, data) ==
    LET old == FindNode(s, p)
        slot == AllocSlot(s) IN
    CASE old # NotFound /\ s.nodes[old].dir # dir -> [s |-> s, at |-> NotFound]
      [] old # NotFound /\ s.nodes[old].dir = dir ->
           [s |-> [s EXCEPT !.nodes[old] =
                       IF dir THEN [@ EXCEPT !.parent = parent]
                       ELSE [@ EXCEPT !.parent = parent, !.data = data, !.heap = FALSE]],
            at |-> old]
      [] old = NotFound /\ slot = NotFound -> [s |-> s, at |-> NotFound]
      [] OTHER ->
           [s |-> [s EXCEPT !.top = IF slot = s.top THEN @ + 1 ELSE @,
                            !.nodes[slot] = [used |-> TRUE, dir |-> dir, parent |-> parent, heap |-> FALSE,
                                             data |-> IF dir THEN NoBlock ELSE data, path |-> p]],
            at |-> slot]

(* MUTANT: every directory made on the way hangs off the root. *)
EnsureDirsFlat(s, p) ==
    FoldLeft(LAMBDA a, n :
        LET q == SubSeq(p, 1, n)
            old == FindNode(a.s, q)
            new == CreateOrUpdate(a.s, q, TRUE, 0, NoBlock) IN
        CASE ~a.ok -> a
          [] a.ok /\ old = NotFound -> [s |-> new.s, ok |-> new.at # NotFound, parent |-> 0]
          [] OTHER -> [s |-> a.s, ok |-> a.s.nodes[old].dir, parent |-> 0],
        [s |-> s, ok |-> TRUE, parent |-> 0], [n \in 1 .. Len(p) |-> n])

(* clks_fs_ensure_dir_hierarchy: what it made before it failed stays. *)
EnsureDirs(s, p) ==
    FoldLeft(LAMBDA a, n :
        LET q == SubSeq(p, 1, n)
            old == FindNode(a.s, q)
            new == CreateOrUpdate(a.s, q, TRUE, a.parent, NoBlock) IN
        CASE ~a.ok -> a
          [] a.ok /\ old = NotFound -> [s |-> new.s, ok |-> new.at # NotFound, parent |-> new.at]
          [] OTHER -> [s |-> a.s, ok |-> a.s.nodes[old].dir, parent |-> old],
        [s |-> s, ok |-> TRUE, parent |-> 0], [n \in 1 .. Len(p) |-> n])

----------------------------------------------------------------------------
(* The heap, as far as file data goes: clks_kmalloc fails once more than     *)
(* `cap` units would be in use, and cap is what the rest of the kernel       *)
(* leaves at the time of the call.                                           *)

InUse(s) == FoldFunctionOnSet(LAMBDA d, n : n + Len(d), 0, s.heap, DOMAIN s.heap)

Kmalloc(s, data, cap) ==
    IF InUse(s) + Len(data) > cap THEN [s |-> s, b |-> NoBlock]
    ELSE LET b == Lowest((1 .. Cardinality(DOMAIN s.heap) + 1) \ DOMAIN s.heap) IN
         [s |-> [s EXCEPT !.heap = [x \in DOMAIN @ \cup {b} |-> IF x = b THEN data ELSE @[x]]], b |-> b]

Kfree(s, b) == [s EXCEPT !.heap = [x \in DOMAIN @ \ {b} |-> @[x]]]

Bytes(s, data) ==
    CASE data \in DOMAIN s.heap -> s.heap[data]
      [] data < EmptyData -> image[-data - 1].data
      [] OTHER -> <<>>

BuildPayload(s, data, cap) ==
    IF data = <<>> THEN [s |-> s, b |-> EmptyData] ELSE Kmalloc(s, data, cap)

(* MUTANT: the flag is cleared but the block stays allocated. *)
ReleaseNothing(s, i) == IF s.nodes[i].dir THEN s ELSE [s EXCEPT !.nodes[i].heap = FALSE]

ReleaseHeapData(s, i) ==
    LET node == s.nodes[i]
        freed == IF node.heap /\ node.data # NoBlock THEN Kfree(s, node.data) ELSE s IN
    IF node.dir THEN s ELSE [freed EXCEPT !.nodes[i].heap = FALSE]

----------------------------------------------------------------------------
(* clks_fs_mkdir, write_all, append and remove.  Each takes the state and    *)
(* gives the new one with the result.                                        *)

Failed(s) == [s |-> s, ok |-> FALSE]

MkdirNode(s, p) ==
    IF p = BadPath \/ ~Writable(p) THEN Failed(s)
    ELSE LET r == EnsureDirs(s, p) IN [s |-> r.s, ok |-> r.ok]

(* The new node takes over the payload, which is given back if there is none. *)
Linked(made, b) ==
    IF made.at = NotFound THEN Failed(IF b > 0 THEN Kfree(made.s, b) ELSE made.s)
    ELSE [s |-> [made.s EXCEPT !.nodes[made.at].heap = b > 0], ok |-> TRUE]

(* The payload is built before the old one is released. *)
StorePayload(payload, p, old) ==
    IF payload.b = NoBlock THEN Failed(payload.s)
    ELSE Linked(CreateOrUpdate(IF old = NotFound THEN payload.s ELSE ReleaseHeapData(payload.s, old),
                               p, FALSE, FindNode(payload.s, Parent(p)), payload.b),
                payload.b)

WriteBelow(dirs, p, data, cap) ==
    LET old == FindNode(dirs.s, p) IN
    IF ~dirs.ok \/ (old # NotFound /\ dirs.s.nodes[old].dir) THEN Failed(dirs.s)
    ELSE StorePayload(BuildPayload(dirs.s, data, cap), p, old)

WriteAll(s, p, data, cap) ==
    IF p = BadPath \/ ~Writable(p) THEN Failed(s)
    ELSE WriteBelow(EnsureDirs(s, Parent(p)), p, data, cap)

(* A write from a heap buffer m that holds the data, freed afterwards. *)
WriteBuffered(m, p, data, cap) ==
    IF m.b = NoBlock THEN Failed(m.s)
    ELSE LET done == WriteAll(m.s, p, data, cap) IN [done EXCEPT !.s = Kfree(@, m.b)]

AppendAll(s, p, data, cap) ==
    LET old == FindNode(s, p)
        all == Bytes(s, s.nodes[old].data) \o data IN
    IF p = BadPath \/ ~Writable(p) THEN Failed(s)
    ELSE IF old = NotFound THEN WriteAll(s, p, data, cap)
    ELSE IF s.nodes[old].dir THEN Failed(s)
    ELSE IF all = <<>> THEN WriteAll(s, p, all, cap)
    ELSE WriteBuffered(Kmalloc(s, all, cap), p, all, cap)

RemoveNode(s, p) ==
    LET i == FindNode(s, p) IN
    IF p = BadPath \/ ~Writable(p) \/ i = NotFound THEN Failed(s)
    ELSE IF /\ s.nodes[i].dir
            /\ \E j \in 0 .. s.top - 1 : s.nodes[j].used /\ s.nodes[j].parent = i
         THEN Failed(s)
         ELSE [s |-> [ReleaseHeapData(s, i) EXCEPT !.nodes[i] = FreeNode], ok |-> TRUE]

----------------------------------------------------------------------------
(* The system calls: a write of moderate size is gathered into one buffer;   *)
(* a longer one, an append, or one the heap has no room for goes chunk by    *)
(* chunk, the first written and the others appended.                         *)

Chunks(data) ==
    [k \in 1 .. (Len(data) + ChunkLen - 1) \div ChunkLen |->
        SubSeq(data, (k - 1) * ChunkLen + 1, IF k * ChunkLen < Len(data) THEN k * ChunkLen ELSE Len(data))]

(* MUTANT: every chunk of a long write replaces the file. *)
WriteChunksOver(s, p, data, append, cap) ==
    FoldLeftDomain(LAMBDA a, k :
        IF ~a.ok THEN a
        ELSE IF append THEN AppendAll(a.s, p, Chunks(data)[k], cap)
        ELSE WriteAll(a.s, p, Chunks(data)[k], cap),
        [s |-> s, ok |-> TRUE], Chunks(data))

WriteChunks(s, p, data, append, cap) ==
    FoldLeftDomain(LAMBDA a, k :
        IF ~a.ok THEN a
        ELSE IF append \/ k > 1 THEN AppendAll(a.s, p, Chunks(data)[k], cap)
        ELSE WriteAll(a.s, p, Chunks(data)[k], cap),
        [s |-> s, ok |-> TRUE], Chunks(data))

WriteCommon(s, p, data, append, cap) ==
    LET whole == Kmalloc(s, data, cap) IN
    IF data = <<>> THEN IF append THEN AppendAll(s, p, data, cap) ELSE WriteAll(s, p, data, cap)
    ELSE IF ~append /\ Len(data) <= WholeMax /\ whole.b # NoBlock THEN WriteBuffered(whole, p, data, cap)
    ELSE WriteChunks(s, p, data, append, cap)

----------------------------------------------------------------------------
(* The RAM disk.  A tar entry is [kind, path, data]; the kinds are dir,      *)
(* file, other (skipped), zero (the end) and bad (a malformed size).         *)

(* clks_ramdisk_build_path: leading "./" and "/" and trailing "/" go. *)
TarPath(raw) ==
    LET named == {i \in DOMAIN raw : raw[i] \notin {"", "."}} IN
    IF named = {} \/ Len(raw) >= PathMax THEN <<>>
    ELSE SubSeq(raw, Lowest(named), CHOOSE i \in named : \A j \in named : j <= i)

RamdiskVisit(s, i, e) ==
    LET p == TarPath(e.path)
        dirs == EnsureDirs(s, IF e.kind = "dir" THEN p ELSE Parent(p))
        made == CreateOrUpdate(dirs.s, p, FALSE, FindNode(dirs.s, Parent(p)), ImageData(i)) IN
    CASE p = <<>> \/ e.kind = "other" -> [s |-> s, ok |-> TRUE]
      [] p # <<>> /\ e.kind = "file" /\ dirs.ok -> [s |-> made.s, ok |-> made.at # NotFound]
      [] OTHER -> [s |-> dirs.s, ok |-> dirs.ok]

RamdiskIterate(s, img) ==
    LET last == Lowest({i \in DOMAIN img : img[i].kind = "zero"} \cup {Len(img) + 1}) - 1 IN
    FoldLeftDomain(LAMBDA a, i :
        IF ~a.ok THEN a
        ELSE IF img[i].kind = "bad" THEN Failed(a.s)
        ELSE RamdiskVisit(a.s, i, img[i]),
        [s |-> s, ok |-> TRUE], SubSeq(img, 1, last))

EmptyTable ==
    [nodes |-> [i \in Slots |-> IF i = 0 THEN [FreeNode EXCEPT !.used = TRUE, !.dir = TRUE] ELSE FreeNode],
     top |-> 1, heap |-> [b \in {} |-> <<>>]]

RequireDirectory(s, p) ==
    \/ p \in DynamicDevDirs
    \/ FindNode(s, p) # NotFound /\ s.nodes[FindNode(s, p)].dir

(* clks_fs_init.  Without a RAM disk a FAT32 disk is mounted as the root and *)
(* holds the required directories; with one it is at BootMount.              *)
Init ==
    /\ call = [op |-> "none", path |-> <<>>, data |-> <<>>] /\ ret = TRUE
    /\ \/ /\ image \in Images
          /\ mount \in {NoMount, BootMount}
          /\ LET r == RamdiskIterate(EmptyTable, image) IN
             fs = r.s /\ ready = (r.ok /\ \A d \in Required : RequireDirectory(r.s, d))
       \/ image = <<>> /\ mount = <<>> /\ fs = EmptyTable /\ ready = TRUE

----------------------------------------------------------------------------
(* Queries: the kernel's, then the system calls that overlay /proc on them.  *)

NodeStat(ext) ==
    LET i == FindNode(fs, Internal(ext)) IN
    CASE ext \in DynamicDevDirs -> "dir"
      [] ext \notin DynamicDevDirs /\ ext \in DynamicDevFiles -> "file"
      [] OTHER -> IF i = NotFound THEN "none" ELSE IF fs.nodes[i].dir THEN "dir" ELSE "file"

ReadAll(ext) ==
    LET i == FindNode(fs, Internal(ext)) IN
    IF i = NotFound THEN [ok |-> FALSE, data |-> <<>>]
    ELSE [ok |-> ~fs.nodes[i].dir, data |-> Bytes(fs, fs.nodes[i].data)]

(* clks_fs_dynamic_dev_child_count, clks_fs_dynamic_dev_child_name *)
DevChildren(ext) == DevTree[ext]

(* The children of a directory in table order, or the fixed ones of /dev. *)
Children(ext) ==
    LET d == FindNode(fs, Internal(ext)) IN
    CASE ext \in DynamicDevDirs -> DevChildren(ext)
      [] ext \notin DynamicDevDirs /\ d = NotFound -> <<>>
      [] OTHER ->
           IF ~fs.nodes[d].dir THEN <<>>
           ELSE LET kids == SelectSeq([i \in 1 .. fs.top |-> i - 1],
                                      LAMBDA i : fs.nodes[i].used /\ i # d /\ fs.nodes[i].parent = d) IN
                [k \in DOMAIN kids |-> Last(fs.nodes[kids[k]].path)]

HasRealProcDir == NodeStat(<<"proc">>) = "dir"
ProcFiles == {<<"proc", "self">>, <<"proc", "list">>} \cup {<<"proc", Pids[i]>> : i \in DOMAIN Pids}

ChildCount(ext) ==
    CASE ext = <<"proc">> -> 2 + Len(Pids)
      [] ext = <<>> /\ ~HasRealProcDir -> Len(Children(ext)) + 1
      [] OTHER -> Len(Children(ext))

(* clks_fs_get_child_name under the system call; "" is a failure. *)
ChildName(ext, i) ==
    LET At(names, k) == IF k + 1 \in DOMAIN names THEN names[k + 1] ELSE "" IN
    CASE ext = <<"proc">> -> At(<<"self", "list">> \o Pids, i)
      [] ext = <<>> /\ ~HasRealProcDir -> IF i = 0 THEN "proc" ELSE At(Children(ext), i - 1)
      [] OTHER -> At(Children(ext), i)

StatType(ext) ==
    CASE ext = <<"proc">> -> "dir"
      [] ext \in ProcFiles -> "file"
      [] OTHER -> NodeStat(ext)

----------------------------------------------------------------------------
(* Calls. *)

Return(op, ext, data, r) ==
    /\ ready /\ ~InMount(ext)
    /\ fs' = r.s /\ ret' = r.ok
    /\ call' = [op |-> op, path |-> Internal(ext), data |-> data]
    /\ UNCHANGED <<image, ready, mount>>

Mkdir(ext) == Return("mkdir", ext, <<>>, MkdirNode(fs, Internal(ext)))
Unlink(ext) == Return("remove", ext, <<>>, RemoveNode(fs, Internal(ext)))

(* A caller in the kernel hands over all its data at once. *)
KernelWrite(ext, data, cap) == Return("write", ext, data, WriteAll(fs, Internal(ext), data, cap))
KernelAppend(ext, data, cap) == Return("append", ext, data, AppendAll(fs, Internal(ext), data, cap))
SyscallWrite(ext, data, cap) == Return("write", ext, data, WriteCommon(fs, Internal(ext), data, FALSE, cap))
SyscallAppend(ext, data, cap) == Return("append", ext, data, WriteCommon(fs, Internal(ext), data, TRUE, cap))

(* Memory the caller may not pass, or a path it may not write. *)
Refused(ext) == Return("write", ext, <<>>, Failed(fs))

(* The mount system call: the nodes below the mount point are hidden. *)
MountDisk(ext) ==
    /\ ready /\ Internal(ext) # BadPath
    /\ mount' = Internal(ext)
    /\ UNCHANGED <<fs, image, ready, call, ret>>

(* Up to one chunk the kernel's calls are the system calls'. *)
LongPayloads == {d \in Payloads : Len(d) > ChunkLen}

Next ==
    \/ \E ext \in ExtPaths : Mkdir(ext) \/ Unlink(ext)
    \/ \E ext \in ExtPaths, data \in Payloads, cap \in Caps : SyscallWrite(ext, data, cap) \/ SyscallAppend(ext, data, cap)
    \/ \E ext \in ExtPaths, data \in LongPayloads, cap \in Caps : KernelWrite(ext, data, cap) \/ KernelAppend(ext, data, cap)
    \/ \E ext \in ExtPaths : Refused(ext)
    \/ \E ext \in Mounts : MountDisk(ext)

Spec == Init /\ [][Next]_vars

----------------------------------------------------------------------------
(* Properties. *)

UsedNodes == {i \in Slots : fs.nodes[i].used}

(* The table as a tree of paths. *)
Tree == [p \in {fs.nodes[i].path : i \in UsedNodes} |->
            LET node == fs.nodes[FindNode(fs, p)] IN
            [dir |-> node.dir, data |-> Bytes(fs, node.data)]]

Requests == [op : {"mkdir", "write", "append", "remove"}, path : {Internal(e) : e \in ExtPaths}, data : Payloads \cup {<<>>}]

Abstract == INSTANCE FsTree WITH tree <- Tree, Chunk <- ChunkLen

(* Every call acts on the tree of paths as the abstract file system says:    *)
(* in full when it reports success; when it fails on a full table or heap,   *)
(* only directories on the way and whole chunks remain, and no other file    *)
(* changes.                                                                  *)
ImplementsTree == Abstract!Spec

(* Between calls every heap block the layer allocated is the data of exactly *)
(* one file: nothing leaks on the error paths, no file points at a freed     *)
(* block, no two files share one.                                            *)
PayloadsOwned ==
    LET owners == {i \in UsedNodes : fs.nodes[i].heap} IN
    /\ DOMAIN fs.heap = {fs.nodes[i].data : i \in owners}
    /\ Cardinality(owners) = Cardinality(DOMAIN fs.heap)
    /\ \A i \in UsedNodes : fs.nodes[i].data > 0 => i \in owners

(* Counting the children of a directory and asking for them one by one gives *)
(* each name exactly once, the names of the nodes directly below it (and the *)
(* overlaid proc in the root), and each of them can be looked up.            *)
ListingExact ==
    ready => \A ext \in {e \in ExtPaths \cup ListPaths : ~InMount(e) /\ Internal(e) # BadPath} :
        LET n == ChildCount(ext)
            names == {ChildName(ext, i) : i \in 0 .. n - 1}
            below == {Last(p) : p \in {q \in DOMAIN Tree \ {<<>>} : Parent(q) = Internal(ext)}} IN
        /\ Cardinality(names) = n /\ "" \notin names /\ ChildName(ext, n) = ""
        /\ ext \notin DynamicDevDirs \cup {<<"proc">>} => names \ {"proc"} = below \ {"proc"}
        /\ ext = <<>> => "proc" \in names
        /\ \A c \in names : InMount(Append(ext, c)) \/ StatType(Append(ext, c)) # "none"
=============================================================================
