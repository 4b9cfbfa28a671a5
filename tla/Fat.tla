-------------------------------- MODULE Fat --------------------------------
(***************************************************************************)
(* A mounted FAT32 volume under a sequence of calls of public_api.inc, drive *)
(* failures, power losses, reboots and checks.  The kernel runs one call at  *)
(* a time to its end, so a call is one action; what may interrupt it is a    *)
(* failing drive command or the loss of power at any of its commands.        *)
(*                                                                          *)
(* The calls that modify the volume are made while it is not suspect: after  *)
(* a call that failed half way, a failed command or a power loss, the user   *)
(* reads, reboots, checks or formats first.                                  *)
(***************************************************************************)
EXTENDS FatCheck, SequencesExt

CONSTANTS
    FilePaths, DirPaths,  \* the paths the users of the volume name
    Sizes,                \* the sizes of the data they write or append
    RawSectors,           \* the sectors they read past the file system
    MaxFileSize,          \* BOUND on the size of a file
    MaxFaults,            \* BOUND on failed commands and power losses
    MaxReboots,           \* BOUND on reboots
    MaxCalls,             \* BOUND on calls that modify files
    CacheSlots,           \* CLKS_DISK_FILE_CACHE_SLOTS
    CacheFileBytes,       \* CLKS_DISK_FILE_CACHE_MAX_FILE_BYTES
    CacheTotalBytes       \* CLKS_DISK_FILE_CACHE_MAX_TOTAL_BYTES

ASSUME FatAssumption ==
    /\ CacheSlots \in Nat \ {0}
    /\ CacheFileBytes \in Nat /\ CacheTotalBytes \in Nat
    /\ FilePaths \cap DirPaths = {}
    /\ RawSectors \subseteq Sectors

VARIABLES
    dev, mem, loaded, unflushed, hint,  \* see FatVolume
    formatted,    \* clks_disk_formatted
    filecache,    \* clks_disk_file_cache, oldest entry first
    status,       \* what the last fsck reported: "none", "clean" or "problems"
    \* history
    content,      \* what each file should read as, if that is known
    health,       \* "intact", "suspect" or "repaired"
    faults, reboots, calls

history == <<content, health, faults, reboots, calls>>
vars == <<dev, mem, loaded, unflushed, hint, formatted, filecache, status,
          content, health, faults, reboots, calls>>

\* The byte the data of a call is made of: other files' and older data show.
ByteOf == CHOOSE f \in [FilePaths -> 1 .. Cardinality(FilePaths)] :
            \A p, q \in FilePaths : f[p] = f[q] => p = q
Data(path, size) == [i \in 1 .. size |-> 2 * ByteOf[path] + (calls % 2)]

Unknown == [known |-> FALSE, exists |-> FALSE, data |-> <<>>]
Absent == [known |-> TRUE, exists |-> FALSE, data |-> <<>>]
Known(data) == [known |-> TRUE, exists |-> TRUE, data |-> data]

\* The volume as a call finds it.
Volume(fault) ==
    [dev |-> dev, mem |-> mem, loaded |-> loaded, unflushed |-> unflushed, hint |-> hint,
     used |-> 0, fault |-> fault, ok |-> TRUE, ret |-> 0, marks |-> {}, problems |-> {}]

\* The volume as the code sees it: the cached sector, else the drive's.
View(k) == IF k \in loaded THEN mem[k] ELSE dev[k]

-----------------------------------------------------------------------------
(***************************************************************************)
(* What a well-formed volume is, defined without the code's walks.           *)
(***************************************************************************)
Successor(c) == View(0)[c]

\* The clusters met from c, with repetition, at most one more than there are.
RECURSIVE ChainFrom(_, _)
ChainFrom(c, n) ==
    IF c \notin Clusters \/ n = 0 THEN <<>> ELSE <<c>> \o ChainFrom(Successor(c), n - 1)
Chain(c) == ChainFrom(c, ClusterCount + 1)

SlotsOf(dir) == ToSet(Chain(dir)) \X (1 .. EntriesPerCluster)
EntryAt(slot) == View(slot[1]).ent[slot[2]]
SubDirs(dir) == {EntryAt(s).first : s \in {t \in SlotsOf(dir) : EntryAt(t).kind = "dir"}}

\* The tree has two levels: directories are made in the root only.
Directories == {Root} \cup SubDirs(Root)
UsedSlots == {s \in UNION {SlotsOf(d) : d \in Directories} : Visible(EntryAt(s))}
FileSlots == {s \in UsedSlots : EntryAt(s).kind = "file"}

\* The chains in use, by the slot that holds their head; the root by <<0, 0>>.
Heads == [s \in UsedSlots \cup {<<0, 0>>} |-> IF s = <<0, 0>> THEN Root ELSE EntryAt(s).first]
Terminated(c) == LET ch == Chain(c) IN
    /\ ch # <<>>
    /\ Successor(Last(ch)) = EOC
    /\ IsInjective(ch)

NoOrphans ==
    \A c \in Clusters : Successor(c) # FreeCluster => \E s \in DOMAIN Heads : c \in ToSet(Chain(Heads[s]))
ChainsDisjoint ==
    \A s, t \in DOMAIN Heads : s # t => ToSet(Chain(Heads[s])) \cap ToSet(Chain(Heads[t])) = {}
ChainsTerminated ==
    \A s \in DOMAIN Heads : Heads[s] # 0 => Terminated(Heads[s])
ChainsFitSizes ==
    \A s \in FileSlots : (Heads[s] = 0) <=> (EntryAt(s).size = 0)
ChainsCoverSizes ==
    \A s \in FileSlots : Len(Chain(Heads[s])) = Needed(EntryAt(s).size)
ChainsWithinSizes ==
    \A s \in FileSlots : Len(Chain(Heads[s])) <= Needed(EntryAt(s).size)

Sound == NoOrphans /\ ChainsDisjoint /\ ChainsTerminated /\ ChainsFitSizes /\ ChainsWithinSizes
Exact == Sound /\ ChainsCoverSizes

InUse(k) == k \in FatCopies \/ View(0)[k] # FreeCluster
CoherentSectors == \A k \in loaded : InUse(k) => mem[k] = dev[k]

\* Where a file is, and the bytes its chain holds.
SlotOf(path) ==
    LET dirs == IF Len(path) = 1 THEN {Root}
                ELSE {EntryAt(s).first : s \in {t \in SlotsOf(Root) : EntryAt(t).kind = "dir"
                                                                   /\ EntryAt(t).name = path[1]}}
    IN  {s \in UNION {SlotsOf(d) : d \in dirs} : Matches(View(s[1]).ent, s[2], path[Len(path)])}
Readable(e) == Len(Chain(e.first)) >= Needed(e.size)
BytesOf(e) ==
    LET ch == Chain(e.first) IN
    [i \in 1 .. e.size |-> View(ch[Needed(i)]).bytes[((i - 1) % ClusterBytes) + 1]]

-----------------------------------------------------------------------------
(***************************************************************************)
(* The file cache (cache_io.inc): least recently used first.                 *)
(***************************************************************************)
CacheBytes(fc) == FoldSet(LAMBDA i, n : n + Len(fc[i].data), 0, DOMAIN fc)

\* clks_disk_file_cache_lookup: the same path, first cluster and size.
CacheHits(path, e) == {i \in DOMAIN filecache : /\ filecache[i].path = path
                                                /\ filecache[i].first = e.first
                                                /\ Len(filecache[i].data) = e.size}

\* clks_disk_file_cache_store: another entry for the path goes, then the oldest
\* until the bytes fit and a slot is free; without memory for the copy the
\* entry is not made.
RECURSIVE MakeRoom(_, _)
MakeRoom(fc, size) ==
    IF fc # <<>> /\ (CacheBytes(fc) + size > CacheTotalBytes \/ Len(fc) = CacheSlots)
    THEN MakeRoom(Tail(fc), size) ELSE fc
CacheStore(path, first, data, allocated) ==
    LET kept == SelectSeq(filecache, LAMBDA x : x.path # path)
        room == MakeRoom(kept, Len(data))
    IN  IF Len(data) > CacheFileBytes THEN filecache
        ELSE IF allocated THEN Append(room, [path |-> path, first |-> first, data |-> data])
        ELSE room

-----------------------------------------------------------------------------
(***************************************************************************)
(* The drive and the memory at power on.                                     *)
(***************************************************************************)
RootBlock == [ZeroBlock EXCEPT !.ent[1] = Entry("dot", ".", Root, 0),
                               !.ent[2] = Entry("dot", "..", Root, 0)]
Formatted == [k \in Sectors |->
                IF k \in FatCopies THEN FreshFat ELSE IF k = Root THEN RootBlock ELSE ZeroBlock]

\* clks_disk_bytes after clks_disk_init clears it.
Cleared == [k \in Sectors |->
                IF k \in FatCopies THEN [c \in Clusters |-> 0] ELSE ZeroBlock]

Init ==
    /\ dev = Formatted /\ mem = Cleared /\ loaded = {} /\ unflushed = {}
    /\ hint = Root /\ formatted = TRUE /\ filecache = <<>> /\ status = "none"
    /\ content = [p \in FilePaths |-> Absent]
    /\ health = "intact" /\ faults = 0 /\ reboots = 0 /\ calls = 0

\* What a power loss and the next clks_disk_init leave: only the drive.
Booted(drive) ==
    /\ dev' = drive /\ mem' = Cleared /\ loaded' = {} /\ unflushed' = {}
    /\ hint' = Root /\ formatted' = TRUE /\ filecache' = <<>>

Keep(r) ==
    /\ dev' = r.dev /\ mem' = r.mem /\ loaded' = r.loaded
    /\ unflushed' = r.unflushed /\ hint' = r.hint

\* The faults a call can meet, given how many commands it issues undisturbed.
FaultsOf(r) ==
    IF faults = MaxFaults THEN {NoFault}
    ELSE {NoFault} \cup [at : 1 .. r.used, kind : {"once", "dead", "crash"}]

ViewOf(r) == [k \in Sectors |-> IF k \in r.loaded THEN r.mem[k] ELSE r.dev[k]]
Changed(r) == ViewOf(r) # [k \in Sectors |-> View(k)]

\* A call that modifies the volume, with the fault that strikes it: its effect,
\* and the history.  `after' is what the touched file holds if it succeeds.
Call(r, f, path, after) ==
    LET broken == f # NoFault \/ (~r.ok /\ Changed(r)) IN
    /\ IF f.kind = "crash" THEN Booted(r.dev) ELSE Keep(r) /\ UNCHANGED formatted
    /\ faults' = IF f = NoFault THEN faults ELSE faults + 1
    /\ health' = IF broken THEN "suspect" ELSE health
    /\ content' = IF path \notin FilePaths THEN content
                  ELSE IF broken THEN [content EXCEPT ![path] = Unknown]
                  ELSE IF r.ok THEN [content EXCEPT ![path] = after]
                  ELSE content
    /\ status' = "none"
    /\ calls' = calls + 1
    /\ UNCHANGED reboots

Modifiable == formatted /\ health # "suspect" /\ calls < MaxCalls

\* MUTANT: the file cache is not cleared when a file is written.
WriteAllCallKeepingCache(path, size) ==
    /\ Modifiable
    /\ LET op(f) == WriteAll(Volume(f), path, Data(path, size)) IN
       \E f \in FaultsOf(op(NoFault)) : Call(op(f), f, path, Known(Data(path, size)))
    /\ UNCHANGED filecache

WriteAllCall(path, size) ==
    /\ Modifiable
    /\ LET op(f) == WriteAll(Volume(f), path, Data(path, size)) IN
       \E f \in FaultsOf(op(NoFault)) : Call(op(f), f, path, Known(Data(path, size)))
    /\ filecache' = <<>>

\* What a file reads as after an append.  The code does not load the sector it
\* fills up: bytes in it that this boot has not read or written are lost.
Appended(path, size) ==
    LET old  == content[path].data
        part == Len(old) % ClusterBytes
        last == Last(Chain(EntryAt(CHOOSE s \in SlotOf(path) : TRUE).first))
        lost == size > 0 /\ part > 0 /\ last \notin loaded
    IN  IF ~content[path].known THEN Unknown
        ELSE Known([i \in 1 .. Len(old) |->
                        IF lost /\ i > Len(old) - part THEN 0 ELSE old[i]]
                   \o Data(path, size))

AppendCall(path, size) ==
    /\ Modifiable
    /\ \A s \in SlotOf(path) : EntryAt(s).size + size <= MaxFileSize
    /\ LET op(f) == AppendFile(Volume(f), path, Data(path, size)) IN
       \E f \in FaultsOf(op(NoFault)) : Call(op(f), f, path, Appended(path, size))
    /\ filecache' = <<>>

RemoveCall(path) ==
    /\ Modifiable
    /\ LET op(f) == RemoveNode(Volume(f), path) IN
       \E f \in FaultsOf(op(NoFault)) : Call(op(f), f, path, Absent)
    /\ filecache' = <<>>

MkdirCall(path) ==
    /\ Modifiable
    /\ LET op(f) == Mkdir(Volume(f), path) IN
       \E f \in FaultsOf(op(NoFault)) :
          /\ Call(op(f), f, path, Absent)
          /\ filecache' = IF op(f).ok \/ f.kind = "crash" THEN <<>> ELSE filecache

\* clks_disk_read_all: an empty file needs no chain, a cached one no drive; ret
\* is the entry and the bytes, if they were read from the drive.
ReadAll(v, path) ==
    Then(Lookup(v, path), LAMBDA l :
        LET e == l.ret.entry
            result(data) == [entry |-> e, data |-> data]
        IN  IF e.kind # "file" THEN Fail(l)
            ELSE IF e.size = 0 \/ CacheHits(path, e) # {} THEN Return(l, result(<<>>))
            ELSE Then(ReadFileChain(l, e.first, e.size), LAMBDA r : Return(r, result(r.ret))))

\* The file cache after it: a hit becomes the youngest entry, what was read
\* from the drive is stored.
CacheAfterRead(r, path, allocated) ==
    LET e == r.ret.entry
        hits == CacheHits(path, e)
        i == CHOOSE j \in hits : TRUE
    IN  IF ~r.ok \/ e.size = 0 THEN filecache
        ELSE IF hits # {} THEN Append(RemoveAt(filecache, i), filecache[i])
        ELSE CacheStore(path, e.first, r.ret.data, allocated)

\* A failed read changes nothing on the volume, so it does not make it suspect.
ReadAllCall(path, allocated) ==
    /\ formatted
    /\ LET op(f) == ReadAll(Volume(f), path) IN
       \E f \in FaultsOf(op(NoFault)) :
          /\ IF f.kind = "crash" THEN Booted(op(f).dev)
             ELSE /\ Keep(op(f)) /\ UNCHANGED formatted
                  /\ filecache' = CacheAfterRead(op(f), path, allocated)
          /\ faults' = IF f = NoFault THEN faults ELSE faults + 1
    /\ status' = "none"
    /\ UNCHANGED <<content, health, reboots, calls>>

\* clks_disk_read_sector: the cached copy is replaced by the drive's.
ReadSectorCall(k) ==
    /\ mem' = [mem EXCEPT ![k] = dev[k]] /\ loaded' = loaded \cup {k}
    /\ status' = "none"
    /\ UNCHANGED <<dev, unflushed, hint, formatted, filecache, history>>

FormatCall ==
    LET op(f) == Format(Volume(f)) IN
    \E f \in FaultsOf(op(NoFault)) :
       /\ IF f.kind = "crash" THEN Booted(op(f).dev)
          ELSE /\ Keep(op(f)) /\ formatted' = op(f).ok /\ filecache' = <<>>
       /\ faults' = IF f = NoFault THEN faults ELSE faults + 1
       /\ health' = IF f = NoFault THEN "intact" ELSE "suspect"
       /\ content' = [p \in FilePaths |-> IF f = NoFault THEN Absent ELSE Unknown]
       /\ status' = "none" /\ UNCHANGED <<reboots, calls>>

\* A volume is repaired by a complete check with the flag set, if the sectors
\* in memory are those of the drive; after a failed command that takes a reboot.
\* A repairing check that cannot read the table takes that for damage and cuts
\* the chain (fsck.inc:71), so a failing command leaves no file's content known.
FsckCall(fix) ==
    /\ formatted
    /\ LET op(f) == Fsck(Volume(f), fix) IN
       \E f \in FaultsOf(op(NoFault)) :
          /\ IF f.kind = "crash" THEN Booted(op(f).dev)
             ELSE Keep(op(f)) /\ UNCHANGED <<formatted, filecache>>
          /\ faults' = IF f = NoFault THEN faults ELSE faults + 1
          /\ status' = IF f # NoFault \/ fix \/ ~op(f).ok THEN "none"
                       ELSE IF op(f).ret = 0 THEN "clean" ELSE "problems"
          /\ health' = IF f # NoFault THEN "suspect"
                       ELSE IF health = "suspect" /\ fix /\ CoherentSectors' THEN "repaired"
                       ELSE health
          /\ content' = IF fix /\ f.kind \in {"once", "dead"}
                        THEN [p \in FilePaths |-> Unknown] ELSE content
    /\ UNCHANGED <<reboots, calls>>

\* An orderly reboot, between calls.
Reboot ==
    /\ reboots < MaxReboots
    /\ Booted(dev)
    /\ reboots' = reboots + 1 /\ status' = "none"
    /\ UNCHANGED <<content, health, faults, calls>>

Next ==
    \/ \E p \in FilePaths, n \in Sizes : WriteAllCall(p, n)
    \/ \E p \in FilePaths, n \in Sizes : AppendCall(p, n)
    \/ \E p \in FilePaths \cup DirPaths : RemoveCall(p)
    \/ \E p \in DirPaths : MkdirCall(p)
    \/ \E p \in FilePaths, allocated \in BOOLEAN : ReadAllCall(p, allocated)
    \/ \E k \in RawSectors : ReadSectorCall(k)
    \/ FormatCall
    \/ \E fix \in BOOLEAN : FsckCall(fix)
    \/ Reboot

Spec == Init /\ [][Next]_vars

-----------------------------------------------------------------------------
(***************************************************************************)
(* Properties.                                                              *)
(***************************************************************************)

\* While no call has failed half way, every chain in use ends, no cluster is
\* in two chains, no used cluster is in none, and a file's chain has just the
\* length its size needs.  Once a check has repaired the volume all of this
\* holds again, except that a chain may be shorter than its file's size.  As
\* long as no drive command failed, the two copies of the table agree.
VolumeSound ==
    /\ health = "intact" => Exact
    /\ health = "repaired" => Sound
    /\ faults = 0 => View(0) = View(1)

\* A cached sector in use is the drive's sector, so that a power loss between
\* two calls loses nothing and a reboot shows the same volume.
CacheCoherent == health # "suspect" => CoherentSectors

\* Every file reads as the calls on it say, whatever happened to other files:
\* neither a power loss nor a failed command nor a full volume during a call
\* on one path changes, loses or creates another file, and no check does; and
\* nothing a finished call wrote is only in the drive's volatile cache.
ContentsKept ==
    /\ \A p \in FilePaths : content[p].known =>
          IF content[p].exists
          THEN \E s \in SlotOf(p) : /\ EntryAt(s).kind = "file"
                                    /\ Readable(EntryAt(s))
                                    /\ BytesOf(EntryAt(s)) = content[p].data
          ELSE SlotOf(p) = {}
    /\ health # "suspect" => unflushed = {}

\* A cache entry that a read would use holds the bytes on the volume, unless a call on
\* that very file was interrupted: then memory and drive may differ, and a raw read of a
\* sector changes the one and not the cache.
FileCacheFresh ==
    \A i \in DOMAIN filecache :
        LET x == filecache[i] IN
        content[x.path].known => \A s \in SlotOf(x.path) :
            EntryAt(s).first = x.first /\ EntryAt(s).size = Len(x.data)
                => Readable(EntryAt(s)) /\ BytesOf(EntryAt(s)) = x.data

\* Neither cache answers with what the drive does not hold.
CachesCoherent == CacheCoherent /\ FileCacheFresh

\* The check reports a clean volume exactly when the volume is well formed.
FsckExact ==
    /\ status = "clean" => Exact
    /\ status = "problems" => ~Exact
=============================================================================
