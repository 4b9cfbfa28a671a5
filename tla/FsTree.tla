------------------------------- MODULE FsTree -------------------------------
(* What the file system layer promises: a tree of directories and files     *)
(* keyed by path.  A call that succeeds has exactly its effect; one that     *)
(* fails may leave behind directories on the way to its path and, when the   *)
(* data came in several chunks, the chunks written so far.                   *)
EXTENDS Naturals, Sequences, SequencesExt

CONSTANTS Requests,  \* calls: [op, path, data], the path normalised
          Chunk      \* data is handed over in chunks of at most this length

VARIABLES tree,      \* path -> [dir, data]
          call,      \* the last call
          ret        \* its result

DirNode == [dir |-> TRUE, data |-> <<>>]
FileNode(data) == [dir |-> FALSE, data |-> data]
Above(p) == {SubSeq(p, 1, n) : n \in 0 .. Len(p)}

Blocked(t, p) == \E q \in Above(p) \cap DOMAIN t : ~t[q].dir
WithDirs(t, p) == [q \in DOMAIN t \cup Above(p) |-> IF q \in DOMAIN t THEN t[q] ELSE DirNode]
With(t, p, data) == [q \in DOMAIN t \cup Above(p) |->
                        IF q = p THEN FileNode(data) ELSE IF q \in DOMAIN t THEN t[q] ELSE DirNode]

IsFile(t, p) == p \in DOMAIN t /\ ~t[p].dir
Old(t, p) == IF IsFile(t, p) THEN t[p].data ELSE <<>>

(* The effects of the operations, from tree t to tree u. *)
Mkdir(t, u, p) == ~Blocked(t, p) /\ u = WithDirs(t, p)

Put(t, u, p, data) ==
    /\ p # <<>> /\ ~Blocked(t, Front(p))
    /\ p \in DOMAIN t => IsFile(t, p)
    /\ u = With(t, p, data)

Unlink(t, u, p) ==
    /\ p # <<>> /\ p \in DOMAIN t
    /\ \A q \in DOMAIN t : q # p => ~IsPrefix(p, q)
    /\ u = [q \in DOMAIN t \ {p} |-> t[q]]

Succeed(t, u, r) ==
    \/ r.op = "mkdir"  /\ Mkdir(t, u, r.path)
    \/ r.op = "write"  /\ Put(t, u, r.path, r.data)
    \/ r.op = "append" /\ Put(t, u, r.path, Old(t, r.path) \o r.data)
    \/ r.op = "remove" /\ Unlink(t, u, r.path)

(* Directories that were made before the call failed stay. *)
MadeDirs(t, u, r) ==
    \E q \in Above(r.path) :
        /\ r.op \in {"write", "append"} => q # r.path
        /\ r.op = "remove" => q = <<>>
        /\ Mkdir(t, u, q)

(* Whole chunks that were written before the call failed stay. *)
MadeChunks(t, u, r) ==
    \E n \in 1 .. Len(r.data) - 1 :
        /\ n % Chunk = 0
        /\ \/ r.op = "write"  /\ Put(t, u, r.path, SubSeq(r.data, 1, n))
           \/ r.op = "append" /\ Put(t, u, r.path, Old(t, r.path) \o SubSeq(r.data, 1, n))

Init == /\ <<>> \in DOMAIN tree /\ tree[<<>>].dir
        /\ \A p \in DOMAIN tree : \A q \in Above(p) \ {p} : q \in DOMAIN tree /\ tree[q].dir

Next ==
    LET t == tree
        u == tree' IN
    /\ call' \in Requests
    /\ IF ret' THEN Succeed(t, u, call')
       ELSE u = t \/ MadeDirs(t, u, call') \/ MadeChunks(t, u, call')

Spec == Init /\ [][Next]_<<tree, call, ret>>
=============================================================================
