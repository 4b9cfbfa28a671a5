-------------------------------- MODULE Pty --------------------------------
(***************************************************************************)
(* Pseudo terminals, src/kernel/runtime/pty.c, and the descriptors that    *)
(* hold them, src/kernel/runtime/exec/fd.inc and fd_api.inc: opening,      *)
(* duplicating, closing, inheriting through the stdio overrides of a       *)
(* synchronous run, and releasing at exit.                                 *)
(*                                                                         *)
(* Reads and writes go byte by byte, as the loops of clks_pty_read and     *)
(* clks_pty_write do.  Descriptors of other kinds are terminals here.      *)
(***************************************************************************)
EXTENDS Integers, Sequences, FiniteSets

CONSTANTS
    PtyMax,         \* CLKS_PTY_MAX
    Size,           \* CLKS_PTY_BUFFER_SIZE
    FdMax,          \* CLKS_EXEC_FD_MAX
    Byte,           \* the bytes
    Procs,          \* the processes
    First,          \* the process that exists first
    Sources,        \* the descriptors that stdio overrides name
    MaxId           \* bound on the ptys ever opened

ASSUME PtyAssumption ==
    /\ PtyMax \in Nat \ {0} /\ Size \in Nat \ {0}
    /\ FdMax \in Nat /\ FdMax >= 3
    /\ Byte # {} /\ First \in Procs
    /\ MaxId \in Nat
    /\ Sources \subseteq Int

VARIABLES
    ptys,           \* clks_pty_slots
    next_id,        \* clks_pty_next_id
    fds,            \* the descriptor tables
    alive,          \* the processes that exist
    start,          \* the child being started, in apply_stdio_overrides
    got             \* what the last step read

vars == <<ptys, next_id, fds, alive, start, got>>

Id == 1..MaxId
Slot == 0..(PtyMax - 1)
Fd == 0..(FdMax - 1)
Stdio == 0..2
Inherit == -1       \* CLKS_EXEC_FD_INHERIT

AnyByte == CHOOSE b \in Byte : TRUE
NoPty == [id |-> 0, ref |-> 0, buffer |-> [k \in 0..(Size - 1) |-> AnyByte],
          read_pos |-> 0, write_pos |-> 0, count |-> 0]

Free == [kind |-> "free", id |-> 0, reads |-> FALSE, writes |-> FALSE]
Tty(reads) == [kind |-> "tty", id |-> 0, reads |-> reads, writes |-> ~reads]
PtyEntry(i) == [kind |-> "pty", id |-> i, reads |-> TRUE, writes |-> TRUE]

\* The child being started, where its descriptors come from, and which one is next.
Idle == [child |-> First, parent |-> First, from |-> [i \in Stdio |-> Inherit], at |-> 3]

-----------------------------------------------------------------------------
(* pty.c                                                                    *)

\* clks_pty_find_slot, as a set of at most one slot.
find_slot(i) == {s \in Slot : i # 0 /\ ptys[s].id = i}

FreeSlots == {s \in Slot : ptys[s].id = 0}
Least(S) == CHOOSE s \in S : \A t \in S : s <= t

\* clks_pty_alloc
pty_alloc ==
    /\ FreeSlots # {} /\ next_id \in Id
    /\ ptys' = [ptys EXCEPT ![Least(FreeSlots)] = [NoPty EXCEPT !.id = next_id, !.ref = 1]]
    /\ next_id' = next_id + 1

\* clks_pty_retain
pty_retain(i) ==
    [s \in Slot |-> IF s \in find_slot(i) THEN [ptys[s] EXCEPT !.ref = @ + 1] ELSE ptys[s]]

\* n calls of clks_pty_release for one slot; the last reference wipes it.
Released(p, n) == IF p.ref > n THEN [p EXCEPT !.ref = @ - n] ELSE NoPty

wrapped(k) == (k + 1) % Size

advance(p) == [p EXCEPT !.read_pos = wrapped(@), !.count = @ - 1]

put_keeping_reader(p, b) ==
    [p EXCEPT !.buffer[p.write_pos] = b, !.write_pos = wrapped(@),
              !.count = IF @ = Size THEN @ ELSE @ + 1]

\* One turn of clks_pty_write: a full buffer drops its oldest byte.
put(p, b) ==
    LET q == IF p.count = Size THEN advance(p) ELSE p
    IN  [q EXCEPT !.buffer[p.write_pos] = b, !.write_pos = wrapped(@), !.count = @ + 1]

-----------------------------------------------------------------------------
(* Descriptors                                                              *)

FreeFds(p) == {f \in Fd : fds[p][f].kind = "free"}

\* The processes run their calls one at a time, and none while a child is being
\* started.
Runs(p) == p \in alive /\ start.at = 3

\* clks_exec_fd_open_pty
fd_open_pty(p) ==
    /\ Runs(p)
    /\ FreeFds(p) # {}
    /\ pty_alloc
    /\ fds' = [fds EXCEPT ![p][Least(FreeFds(p))] = PtyEntry(next_id)]
    /\ got' = <<>>
    /\ UNCHANGED <<alive, start>>

\* clks_exec_fd_dup
fd_dup(p, f) ==
    /\ Runs(p)
    /\ fds[p][f].kind # "free" /\ FreeFds(p) # {}
    /\ fds' = [fds EXCEPT ![p][Least(FreeFds(p))] = fds[p][f]]
    /\ ptys' = pty_retain(fds[p][f].id)
    /\ got' = <<>>
    /\ UNCHANGED <<next_id, alive, start>>

\* How often the descriptors F of p hold the pty in a slot.
Held(p, F, s) == Cardinality({f \in F : fds[p][f].kind = "pty" /\ fds[p][f].id = ptys[s].id})

\* clks_exec_fd_release_entry of each of them.
release(p, F) ==
    /\ fds' = [fds EXCEPT ![p] = [f \in Fd |-> IF f \in F THEN Free ELSE fds[p][f]]]
    /\ ptys' = [s \in Slot |-> IF Held(p, F, s) > 0
                               THEN Released(ptys[s], Held(p, F, s)) ELSE ptys[s]]

\* clks_exec_fd_close
fd_close(p, f) ==
    /\ Runs(p)
    /\ fds[p][f].kind # "free"
    /\ release(p, {f})
    /\ got' = <<>>
    /\ UNCHANGED <<next_id, alive, start>>

\* clks_exec_fd_read and clks_exec_fd_write of a pty, one byte.
fd_read(p, f) ==
    /\ Runs(p)
    /\ fds[p][f].kind = "pty" /\ fds[p][f].reads
    /\ \E s \in find_slot(fds[p][f].id) :
        IF ptys[s].count > 0
        THEN /\ got' = <<ptys[s].buffer[ptys[s].read_pos]>>
             /\ ptys' = [ptys EXCEPT ![s] = advance(@)]
        ELSE got' = <<>> /\ UNCHANGED ptys
    /\ UNCHANGED <<next_id, fds, alive, start>>

fd_write(p, f, b) ==
    /\ Runs(p)
    /\ fds[p][f].kind = "pty" /\ fds[p][f].writes
    /\ \E s \in find_slot(fds[p][f].id) : ptys' = [ptys EXCEPT ![s] = put(@, b)]
    /\ got' = <<>>
    /\ UNCHANGED <<next_id, fds, alive, start>>

-----------------------------------------------------------------------------
(* Starting and ending processes                                            *)

\* clks_exec_fd_init_defaults
Defaults == [f \in Fd |-> IF f \in Stdio THEN Tty(f = 0) ELSE Free]

\* A child is prepared; its stdio overrides follow.
start_child(p, c, from) ==
    /\ Runs(p) /\ c \notin alive
    /\ alive' = alive \cup {c}
    /\ fds' = [fds EXCEPT ![c] = Defaults]
    /\ start' = [child |-> c, parent |-> p, from |-> from, at |-> 0]
    /\ got' = <<>>
    /\ UNCHANGED <<ptys, next_id>>

Source == start.from[start.at]
Inherited == fds[start.parent][Source]

\* The conditions of clks_exec_fd_copy_from_parent.
CanCopy ==
    /\ Source \in Fd /\ Inherited.kind # "free"
    /\ IF start.at = 0 THEN Inherited.reads ELSE Inherited.writes

\* One step of clks_exec_fd_apply_stdio_overrides.
override ==
    /\ start.at < 3
    /\ IF Source = Inherit
       THEN UNCHANGED <<fds, ptys>>
       ELSE /\ CanCopy
            /\ fds' = [fds EXCEPT ![start.child][start.at] = Inherited]
            /\ ptys' = pty_retain(Inherited.id)
    /\ start' = IF start.at = 2 THEN Idle ELSE [start EXCEPT !.at = @ + 1]
    /\ got' = <<>>
    /\ UNCHANGED <<next_id, alive>>

override_fails_forgetting ==
    /\ start.at < 3 /\ Source # Inherit /\ ~CanCopy
    /\ fds' = [fds EXCEPT ![start.child] = [f \in Fd |-> Free]]
    /\ alive' = alive \ {start.child}
    /\ start' = Idle
    /\ got' = <<>>
    /\ UNCHANGED <<ptys, next_id>>

\* One override fails: clks_exec_run_path_internal releases those before it.
override_fails ==
    /\ start.at < 3 /\ Source # Inherit /\ ~CanCopy
    /\ release(start.child, Fd)
    /\ alive' = alive \ {start.child}
    /\ start' = Idle
    /\ got' = <<>>
    /\ UNCHANGED next_id

\* clks_exec_fd_release_all, when a process exits.
fd_release_all(p) ==
    /\ Runs(p)
    /\ release(p, Fd)
    /\ alive' = alive \ {p}
    /\ got' = <<>>
    /\ UNCHANGED <<next_id, start>>

\* The first process is started again when none is left.
restart ==
    /\ alive = {}
    /\ alive' = {First}
    /\ fds' = [fds EXCEPT ![First] = Defaults]
    /\ got' = <<>>
    /\ UNCHANGED <<ptys, next_id, start>>

-----------------------------------------------------------------------------
Init ==
    /\ ptys = [s \in Slot |-> NoPty]
    /\ next_id = 1
    /\ fds = [p \in Procs |-> IF p = First THEN Defaults ELSE [f \in Fd |-> Free]]
    /\ alive = {First}
    /\ start = Idle
    /\ got = <<>>

Next ==
    \/ \E p \in Procs : fd_open_pty(p) \/ fd_release_all(p)
    \/ \E p \in Procs, f \in Fd : fd_dup(p, f) \/ fd_close(p, f) \/ fd_read(p, f)
    \/ \E p \in Procs, f \in Fd, b \in Byte : fd_write(p, f, b)
    \/ \E p, c \in Procs, from \in [Stdio -> Sources] : start_child(p, c, from)
    \/ override \/ override_fails \/ restart

Spec == Init /\ [][Next]_vars

-----------------------------------------------------------------------------
(* Properties                                                               *)

Holders(i) == {h \in Procs \X Fd : fds[h[1]][h[2]].kind = "pty" /\ fds[h[1]][h[2]].id = i}

\* The reference count of a pty is the number of descriptors that hold it, in
\* whatever order they are duplicated, inherited, closed and released; a pty
\* without descriptors is gone, and no descriptor holds a pty that is gone.
RefCountsExact ==
    \A i \in Id :
        /\ Cardinality(find_slot(i)) = (IF Holders(i) = {} THEN 0 ELSE 1)
        /\ \A s \in find_slot(i) : ptys[s].ref = Cardinality(Holders(i))

\* The bytes in a ring, oldest first.
Bytes(p) == [k \in 1..p.count |-> p.buffer[(p.read_pos + k - 1) % Size]]

OpenIds == {ptys[s].id : s \in Slot} \ {0}
Content == [i \in Id |-> IF i \in OpenIds THEN Bytes(ptys[CHOOSE s \in Slot : ptys[s].id = i])
                         ELSE <<>>]

Channel == INSTANCE PtyChannel
           WITH content <- Content, open <- OpenIds,
                closed <- (1..(next_id - 1)) \ OpenIds

\* The ring buffers and reference counts of pty.c implement channels that keep
\* the last Size bytes in order, open empty, and are never reopened.
ImplementsChannels == Channel!Spec
=============================================================================
