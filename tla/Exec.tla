-------------------------------- MODULE Exec --------------------------------
(***************************************************************************)
(* The process runtime, src/kernel/runtime/exec: the process table, the    *)
(* stack of running processes, pending dispatch, synchronous execution,    *)
(* cooperative suspension, signals and waiting.                            *)
(*                                                                         *)
(* The kernel runs processes by calling them.  A call of run_proc_slot is  *)
(* a frame of stack; a process that runs another one synchronously waits   *)
(* inside its own frame, below the new one.  A process that yields leaves  *)
(* its frame: its registers are saved and the call returns SUSPEND.        *)
(* Nothing else runs while a frame is open, but for interrupts; the one    *)
(* that changes this state is the force-stop hotkey, which may come        *)
(* between any two steps.                                                  *)
(*                                                                         *)
(* pc is the place of the kernel's single thread.  The thread state of a   *)
(* process, and that of its scheduler task, are functions of its state and *)
(* blocked_reason and are left out, as are users, paths, arguments and     *)
(* counters.  A program does not itself return the number that the runtime *)
(* uses for SUSPEND.                                                       *)
(***************************************************************************)
EXTENDS Integers, Sequences

CONSTANTS
    MaxProcs,       \* CLKS_EXEC_MAX_PROCS
    Depths,         \* the values of CLKS_EXEC_MAX_DEPTH looked at
    MaxPid          \* bound on the processes ever started

ASSUME ExecAssumption ==
    /\ MaxProcs \in Nat \ {0}
    /\ Depths \subseteq Nat \ {0}
    /\ MaxPid \in Nat \ {0}

VARIABLES
    max_depth,      \* CLKS_EXEC_MAX_DEPTH, one of Depths
    procs,          \* clks_exec_proc_table
    stack,          \* clks_exec_pid_stack and the stacks beside it
    next_pid,       \* clks_exec_next_pid
    active,         \* clks_exec_pending_dispatch_active
    cursor,         \* clks_exec_dispatch_cursor
    cr3,            \* the address space the processor uses
    spaces,         \* the address spaces that exist, named by their first owner
    input,          \* the keyboard queue of the terminal is not empty
    pc,             \* where the kernel is
    ret,            \* the status that the last call of it yielded
    sync_slot       \* slot, in wait_sync_proc_slot

tables == <<next_pid, cursor, input>>
memory == <<cr3, spaces>>
vars == <<max_depth, procs, stack, tables, active, memory, pc, ret, sync_slot>>

Slot == 0..(MaxProcs - 1)
Pid == 1..MaxPid
None == 0
Kernel == -1
\* loaded, stack and saved are loaded_active, run_stack_base and
\* saved_frame_valid; space is address_space_cr3.
NoProc == [pid |-> 0, state |-> "UNUSED", reason |-> "NONE", loaded |-> FALSE,
           stack |-> FALSE, saved |-> FALSE, space |-> None, fds |-> FALSE,
           status |-> "error"]

-----------------------------------------------------------------------------
(* The process record                                                       *)

depth == Len(stack)
Top == stack[depth]
Below == SubSeq(stack, 1, depth - 1)

\* clks_exec_proc_find_slot_by_pid, as a set of at most one slot.
find_slot_by_pid(pid) ==
    {s \in Slot : procs[s].state # "UNUSED" /\ procs[s].pid = pid}

\* clks_exec_current_proc
CurrentSlots == IF depth = 0 THEN {} ELSE find_slot_by_pid(Top.pid)

set_state(p, state, reason) == [p EXCEPT !.state = state, !.reason = reason]

\* clks_exec_proc_set_block and clks_exec_proc_clear_block of the current process.
set_block(P, reason) ==
    [s \in Slot |-> IF s \in CurrentSlots THEN [P[s] EXCEPT !.reason = reason]
                    ELSE P[s]]
clear_block(P) == set_block(P, "NONE")

release_runtime_keeping_frame(p) == [p EXCEPT !.loaded = FALSE, !.stack = FALSE]

release_runtime(p) ==
    [p EXCEPT !.loaded = FALSE, !.stack = FALSE, !.saved = FALSE]

mark_running(p) == set_state(p, "RUNNING", "NONE")

\* The record's part of clks_exec_proc_mark_exited.
mark_exited(p, status) ==
    [set_state(release_runtime(p), "EXITED", "NONE")
        EXCEPT !.space = None, !.fds = FALSE, !.status = status]

\* clks_exec_proc_release_address_space and clks_vm_destroy_address_space, which
\* leaves the address space first if it is in use.
destroy_address_space(space) ==
    /\ spaces' = spaces \ {space}
    /\ cr3' = IF cr3 = space THEN Kernel ELSE cr3

\* clks_exec_proc_address_space
AddressSpace(p) == IF p.space = None THEN Kernel ELSE p.space

SlotsIn(state) == {s \in Slot : procs[s].state = state}
Least(S) == CHOOSE s \in S : \A t \in S : s <= t

alloc_slot_any == IF SlotsIn("UNUSED") # {} THEN SlotsIn("UNUSED") ELSE Slot

\* The slots clks_exec_proc_alloc_slot would take, the least of them first:
\* unused ones, or else exited ones.
alloc_slot == IF SlotsIn("UNUSED") # {} THEN SlotsIn("UNUSED") ELSE SlotsIn("EXITED")

\* clks_exec_prepare_proc_record; without memory for an address space the
\* process gets the kernel's.
Prepared(state, space) ==
    [NoProc EXCEPT !.pid = next_pid, !.state = state, !.space = space, !.fds = TRUE]

\* What becomes of the address spaces when slot s is prepared.
PreparedSpaces(s, space) == (spaces \ {procs[s].space}) \cup ({space} \ {Kernel})

NewSpaces == {next_pid, Kernel}

\* clks_exec_alloc_slot and clks_exec_alloc_pid succeed.
CanStart == next_pid \in Pid /\ alloc_slot # {}

-----------------------------------------------------------------------------
(* clks_exec_run_proc_slot                                                  *)

\* clks_exec_proc_has_internal_suspend
has_internal_suspend(P, s, status) ==
    status = "SUSPEND" /\ P[s].state = "PENDING" /\ P[s].saved

\* The caller goes on after run_proc_slot, with the table P: exec_tick or
\* sleep_ticks after the dispatch, wait_sync_proc_slot, or wait_pid.
Return(by, P, s, status) ==
    /\ ret' = status
    /\ active' = IF by = "run" THEN active ELSE FALSE
    /\ sync_slot' = IF by = "run" /\ has_internal_suspend(P, s, status) THEN s ELSE 0
    /\ pc' = CASE by = "tick"  -> "usrd"
               [] by = "sleep" -> "sleeping"
               [] by = "run" /\ has_internal_suspend(P, s, status) -> "sync_wait"
               [] OTHER        -> "user"

\* The frame is opened, on the table P and the address spaces Sp, or the process is
\* given up because the stack is full.  pid, exit, status, stop and unwind of a frame
\* are this depth's entries of pid_stack, exit_requested_stack, exit_status_stack,
\* stop_requested_stack and unwind_slot_valid_stack; slot and prev are locals of
\* run_proc_slot, and by is its caller.
run_proc_slot(P, Sp, s, by) ==
    IF depth < max_depth
    THEN /\ procs' = [P EXCEPT ![s] = mark_running(@)]
         /\ stack' = Append(stack,
                [slot |-> s, pid |-> P[s].pid, exit |-> FALSE,
                 status |-> "error", stop |-> FALSE, unwind |-> FALSE,
                 prev |-> cr3, by |-> by])
         /\ cr3' = AddressSpace(P[s])
         /\ spaces' = Sp
         /\ pc' = "load"
         /\ active' = (active \/ by # "run")
         /\ sync_slot' = 0
         /\ UNCHANGED ret
    ELSE /\ procs' = [P EXCEPT ![s] = mark_exited(@, "error")]
         /\ spaces' = Sp \ {P[s].space}
         /\ Return(by, procs', s, "failed")
         /\ UNCHANGED <<stack, cr3>>

\* A suspended process is resumed as it is.
Resumes(p) == p.loaded /\ p.saved

\* The image is loaded and the stack allocated, unless the process is resumed;
\* the window for unwinding opens and the process runs.
load ==
    /\ pc = "load"
    /\ Resumes(procs[Top.slot]) => procs[Top.slot].stack
    /\ procs' = [procs EXCEPT ![Top.slot] =
                    IF Resumes(@) THEN @
                    ELSE [@ EXCEPT !.loaded = TRUE, !.stack = TRUE, !.saved = FALSE]]
    /\ stack' = [stack EXCEPT ![depth].unwind = TRUE]
    /\ pc' = "user"
    /\ ret' = "error"
    /\ UNCHANGED <<tables, active, memory, sync_slot>>

\* No file, no valid image or no memory.
load_fails ==
    /\ pc = "load"
    /\ Resumes(procs[Top.slot]) => ~procs[Top.slot].stack
    /\ destroy_address_space(procs[Top.slot].space)
    /\ procs' = [procs EXCEPT ![Top.slot] = mark_exited(@, "error")]
    /\ ret' = "failed"
    /\ pc' = "pop"
    /\ UNCHANGED <<stack, tables, active, sync_slot>>

\* The end of invoke_entry closes the window and frees the stack of a process
\* that is over.
Closed(p) == IF ret = "SUSPEND" THEN p ELSE [p EXCEPT !.stack = FALSE, !.saved = FALSE]

\* The process has returned or was unwound; a request to exit replaces its status.
entry_returned ==
    LET p == Closed(procs[Top.slot])
        status == IF Top.exit THEN Top.status ELSE ret
    IN  /\ pc = "returned"
        /\ procs' = [procs EXCEPT ![Top.slot] = p]
        /\ stack' = [stack EXCEPT ![depth].unwind = FALSE]
        /\ ret' = status
        /\ pc' = IF status = "SUSPEND" /\ p.saved THEN "suspending" ELSE "settle"
        /\ UNCHANGED <<tables, active, memory, sync_slot>>

\* Back to the pending ones, blocked as it was.
suspended ==
    /\ pc = "suspending"
    /\ procs' = [procs EXCEPT ![Top.slot] =
                    [set_state(@, "PENDING", @.reason) EXCEPT !.status = "error"]]
    /\ pc' = "pop"
    /\ UNCHANGED <<stack, tables, active, memory, ret, sync_slot>>

\* Over: stopped if that was requested, else exited.
settle ==
    /\ pc = "settle"
    /\ destroy_address_space(procs[Top.slot].space)
    /\ procs' = [procs EXCEPT ![Top.slot] =
                    IF Top.stop
                    THEN [set_state(release_runtime(@), "STOPPED", "NONE")
                            EXCEPT !.space = None, !.status = ret]
                    ELSE mark_exited(@, ret)]
    /\ pc' = "pop"
    /\ UNCHANGED <<stack, tables, active, ret, sync_slot>>

\* The frame is closed and the caller's address space restored; a parent in wait_pid is no longer blocked.
pop ==
    /\ pc = "pop"
    /\ stack' = Below
    /\ cr3' = Top.prev
    /\ procs' = IF Top.by = "wait"
                THEN [s \in Slot |->
                        IF depth > 1 /\ procs[s].pid = stack[depth - 1].pid
                        THEN [procs[s] EXCEPT !.reason = "NONE"] ELSE procs[s]]
                ELSE procs
    /\ Return(Top.by, procs, Top.slot, ret)
    /\ UNCHANGED <<tables, spaces>>

-----------------------------------------------------------------------------
(* clks_exec_dispatch_pending_once and its callers                          *)

\* A process blocked on a pty, a child or a device stays where it is.
Dispatchable(p) ==
    /\ p.state = "PENDING"
    /\ p.reason \in {"NONE", "YIELD", "SLEEP"} \/ (p.reason = "TTY_INPUT" /\ input)

\* The first one from the cursor on.
At(k) == (cursor + k) % MaxProcs
Attempts == {k \in Slot : Dispatchable(procs[At(k)])}

cursor_stays(i) == cursor
NextCursor(i) == (i + 1) % MaxProcs

dispatch_pending_once(by, then) ==
    IF active \/ Attempts = {}
    THEN pc' = then /\ UNCHANGED <<procs, stack, cursor, active, memory, ret, sync_slot>>
    ELSE LET i == At(Least(Attempts))
         IN  /\ cursor' = NextCursor(i)
             /\ run_proc_slot([procs EXCEPT ![i].reason = "NONE"], spaces, i, by)

\* clks_exec_tick, called by the usrd task.
exec_tick ==
    /\ pc = "tick"
    /\ dispatch_pending_once("tick", "usrd")
    /\ UNCHANGED <<next_pid, input>>

\* clks_exec_spawn_pathv
spawn ==
    /\ CanStart
    /\ \E space \in NewSpaces :
        /\ procs' = [procs EXCEPT ![Least(alloc_slot)] = Prepared("PENDING", space)]
        /\ spaces' = PreparedSpaces(Least(alloc_slot), space)
    /\ next_pid' = next_pid + 1
    /\ UNCHANGED <<stack, cursor, input, active, cr3, sync_slot>>

HasUserProcess == \E s \in Slot : procs[s].state \in {"PENDING", "RUNNING", "STOPPED"}

\* clks_userland_tick starts the first process again when none is left; between
\* two attempts it lets some time pass.
userland_starts ==
    /\ pc = "usrd" /\ ~HasUserProcess
    /\ spawn
    /\ pc' = "tick"
    /\ UNCHANGED ret

userland_tick ==
    /\ pc = "usrd"
    /\ pc' = "tick"
    /\ UNCHANGED <<procs, stack, tables, active, memory, ret, sync_slot>>

-----------------------------------------------------------------------------
(* The running process: its system calls, and how it stops running.         *)

\* A call that returns to the process without touching its frame.
Continues == pc = "user" /\ pc' = "user"

\* How the call of the process ends, with what status.
Leaves(status) == pc = "user" /\ pc' = "returned" /\ ret' = status

\* spawn, by a process.
spawn_pathv ==
    /\ Continues
    /\ spawn
    /\ ret' = "error"

\* clks_exec_run_path_internal up to run_proc_slot.
run_pathv ==
    LET s == Least(alloc_slot)
    IN  /\ pc = "user"
        /\ CanStart
        /\ \E space \in NewSpaces :
            run_proc_slot([procs EXCEPT ![s] = Prepared("RUNNING", space)],
                          PreparedSpaces(s, space), s, "run")
        /\ next_pid' = next_pid + 1
        /\ UNCHANGED <<cursor, input>>

\* A bad stdio override: the record is wiped, its address space is not released.
run_pathv_bad_stdio ==
    LET s == Least(alloc_slot)
    IN  /\ Continues
        /\ CanStart
        /\ \E space \in NewSpaces : spaces' = PreparedSpaces(s, space)
        /\ next_pid' = next_pid + 1
        /\ procs' = [procs EXCEPT ![s] = NoProc]
        /\ ret' = "error"
        /\ UNCHANGED <<stack, cursor, input, active, cr3, sync_slot>>

\* clks_exec_wait_sync_proc_slot: after an interrupt the suspended child goes on.
wait_sync_proc_slot ==
    /\ pc = "sync_wait"
    /\ run_proc_slot(procs, spaces, sync_slot, "run")
    /\ UNCHANGED tables

wait_pid_runs_anyway(s) == procs[s].state = "PENDING"

\* clks_exec_wait_pid runs a pending child itself, unless a dispatch is active.
WaitRuns(s) == procs[s].state = "PENDING" /\ ~active

wait_pid(s) ==
    /\ pc = "user" /\ procs[s].state # "UNUSED"
    /\ IF WaitRuns(s)
       THEN run_proc_slot(set_block(procs, "WAIT_CHILD"), spaces, s, "wait")
       ELSE /\ ret' = IF procs[s].state = "EXITED" THEN procs[s].status ELSE "error"
            /\ UNCHANGED <<procs, stack, active, memory, pc, sync_slot>>
    /\ UNCHANGED tables

\* clks_exec_request_exit; the process runs on until it returns or yields.
request_exit ==
    /\ Continues
    /\ stack' = [stack EXCEPT ![depth].exit = TRUE, ![depth].status = "ok"]
    /\ ret' = "error"
    /\ UNCHANGED <<procs, tables, active, memory, sync_slot>>

\* clks_exec_proc_kill of a process that does not run.
kill_cont(s) ==
    /\ procs[s].state = "STOPPED"
    /\ procs' = [procs EXCEPT ![s] = set_state(@, "PENDING", "NONE")]
    /\ UNCHANGED <<stack, memory>>

kill_stop(s) ==
    /\ procs[s].state = "PENDING"
    /\ procs' = [procs EXCEPT ![s] = set_state(@, "STOPPED", "NONE")]
    /\ UNCHANGED <<stack, memory>>

kill_term_again(s) ==
    /\ procs[s].state \in {"PENDING", "STOPPED", "EXITED"}
    /\ procs' = [procs EXCEPT ![s] = mark_exited(@, "signal")]
    /\ destroy_address_space(procs[s].space)
    /\ UNCHANGED stack

kill_term(s) ==
    /\ procs[s].state \in {"PENDING", "STOPPED"}
    /\ procs' = [procs EXCEPT ![s] = mark_exited(@, "signal")]
    /\ destroy_address_space(procs[s].space)
    /\ UNCHANGED stack

\* Of the running ones only the current process can be signalled: its frame
\* notes the signal.
kill_current(stops) ==
    /\ CurrentSlots # {} /\ \A s \in CurrentSlots : procs[s].state = "RUNNING"
    /\ stack' = [stack EXCEPT ![depth].exit = TRUE, ![depth].status = "signal",
                              ![depth].stop = @ \/ stops]
    /\ UNCHANGED <<procs, memory>>

proc_kill ==
    /\ Continues
    /\ \/ \E s \in Slot : kill_cont(s) \/ kill_stop(s) \/ kill_term(s)
       \/ \E stops \in BOOLEAN : kill_current(stops)
    /\ ret' = "error"
    /\ UNCHANGED <<tables, active, sync_slot>>

\* clks_exec_fd_read of the terminal and of a pty.
read_tty ==
    /\ Continues
    /\ procs' = IF input THEN clear_block(procs) ELSE set_block(procs, "TTY_INPUT")
    /\ input' = FALSE
    /\ ret' = "error"
    /\ UNCHANGED <<stack, next_pid, cursor, active, memory, sync_slot>>

read_pty ==
    /\ Continues
    /\ procs' \in {clear_block(procs), set_block(procs, "PTY_INPUT")}
    /\ ret' = "error"
    /\ UNCHANGED <<stack, tables, active, memory, sync_slot>>

\* The conditions of clks_exec_suspend_current_from_syscall.
CanSuspend ==
    /\ active
    /\ Top.unwind
    /\ \E s \in CurrentSlots :
        procs[s].state = "RUNNING" /\ procs[s].loaded /\ procs[s].stack

Saved(p) == [p EXCEPT !.saved = TRUE, !.reason = IF @ = "NONE" THEN "YIELD" ELSE @]

\* The system calls yield and sleep: the process is suspended if it can be;
\* otherwise it waits in the kernel, in clks_exec_yield or clks_exec_sleep_ticks.
yield ==
    /\ pc = "user"
    /\ IF CanSuspend
       THEN /\ Leaves("SUSPEND")
            /\ procs' = [s \in Slot |-> IF s \in CurrentSlots THEN Saved(procs[s])
                                        ELSE procs[s]]
       ELSE /\ pc' = "sleeping"
            /\ procs' = set_block(procs, "YIELD")
            /\ UNCHANGED ret
    /\ UNCHANGED <<stack, tables, active, memory, sync_slot>>

\* clks_exec_sleep_ticks, called for a tone of the speaker.
play_tone ==
    /\ pc = "user"
    /\ pc' = "sleeping"
    /\ procs' = set_block(procs, "SLEEP")
    /\ UNCHANGED <<stack, tables, active, memory, ret, sync_slot>>

\* Its loop tries to dispatch others, and ends when the time is over.
sleep_loop ==
    /\ pc = "sleeping"
    /\ dispatch_pending_once("sleep", "sleeping")
    /\ UNCHANGED <<next_pid, input>>

sleep_ends ==
    /\ pc = "sleeping"
    /\ pc' = "user"
    /\ procs' = clear_block(procs)
    /\ ret' = "error"
    /\ UNCHANGED <<stack, tables, active, memory, sync_slot>>

\* The process returns from its entry.
entry_returns ==
    /\ Leaves("ok")
    /\ UNCHANGED <<procs, stack, tables, active, memory, sync_slot>>

\* clks_exec_handle_exception: a fault ends the process.
handle_exception ==
    /\ Leaves("signal")
    /\ Top.unwind
    /\ stack' = [stack EXCEPT ![depth].exit = TRUE, ![depth].status = "signal"]
    /\ UNCHANGED <<procs, tables, active, memory, sync_slot>>

\* clks_exec_try_unwind_signaled_process: any interrupt of a process that is to
\* stop leaves it.
try_unwind ==
    /\ Leaves(Top.status)
    /\ Top.stop /\ Top.unwind
    /\ UNCHANGED <<procs, stack, tables, active, memory, sync_slot>>

-----------------------------------------------------------------------------
(* Interrupts from the keyboard                                             *)

\* clks_exec_force_stop_tty_running_process
force_stop ==
    /\ kill_current(TRUE)
    /\ UNCHANGED <<tables, active, pc, ret, sync_slot>>

key_pressed ==
    /\ ~input
    /\ input' = TRUE
    /\ UNCHANGED <<procs, stack, next_pid, cursor, active, memory, pc, ret, sync_slot>>

-----------------------------------------------------------------------------
\* clks_exec_init
Init ==
    /\ max_depth \in Depths
    /\ procs = [s \in Slot |-> NoProc]
    /\ stack = <<>>
    /\ next_pid = 1
    /\ active = FALSE
    /\ cursor = 0
    /\ cr3 = Kernel
    /\ spaces = {}
    /\ input = FALSE
    /\ pc = "usrd"
    /\ ret = "error"
    /\ sync_slot = 0

kernel ==
    /\ \/ userland_tick \/ exec_tick \/ load \/ load_fails \/ entry_returned
       \/ suspended \/ settle \/ pop \/ wait_sync_proc_slot \/ sleep_ends
    /\ UNCHANGED max_depth

process ==
    \/ spawn_pathv \/ run_pathv \/ run_pathv_bad_stdio \/ \E s \in Slot : wait_pid(s)
    \/ request_exit \/ proc_kill \/ read_tty \/ read_pty \/ yield \/ play_tone
    \/ entry_returns \/ handle_exception

Next ==
    \/ kernel
    \/ /\ \/ sleep_loop \/ userland_starts \/ process \/ try_unwind
          \/ force_stop \/ key_pressed
       /\ UNCHANGED max_depth

Spec == Init /\ [][Next]_vars

\* The kernel goes on, the usrd task is called again and again, and programs
\* cooperate: each gives way after a while, and one run synchronously ends.
gives_way == (yield \/ entry_returns) /\ UNCHANGED max_depth
sync_ends == depth > 1 /\ entry_returns /\ UNCHANGED max_depth

FairSpec == Spec /\ WF_vars(kernel) /\ SF_vars(gives_way) /\ SF_vars(sync_ends)

-----------------------------------------------------------------------------
(* Properties                                                               *)

\* The stack of calls and the process table agree: the running processes are
\* those with an open frame, each has one, and each frame's slot still belongs
\* to the process it was opened for, however the table was recycled meanwhile.
\* So find_slot_by_pid of the current pid is the slot that run_proc_slot uses.
StackMatchesTable ==
    /\ \A i \in 1..depth : procs[stack[i].slot].pid = stack[i].pid
    /\ \A i, j \in 1..depth : stack[i].slot = stack[j].slot => i = j
    /\ \A i \in 1..depth : (pc = "pop" /\ i = depth)
                              \/ procs[stack[i].slot].state = "RUNNING"
    /\ \A s \in Slot : procs[s].state = "RUNNING"
                              => \E i \in 1..depth : stack[i].slot = s

\* A process that is to be resumed still has its image and its stack, also
\* after it was stopped and continued; one that exited holds nothing.
ResumableIsWhole ==
    \A s \in Slot :
        /\ procs[s].saved /\ pc # "returned" => procs[s].loaded /\ procs[s].stack
        /\ procs[s].state = "EXITED" =>
              /\ ~procs[s].loaded /\ ~procs[s].stack /\ ~procs[s].fds
              /\ procs[s].space = None /\ procs[s].pid \notin spaces

\* A process runs only below a dispatch, so yielding always suspends it: it
\* never holds up the kernel in clks_exec_yield, it is never dispatched while
\* it sleeps, and no second dispatch starts inside the first.  The suspension
\* stays internal: neither a synchronous run nor a wait ever hands SUSPEND to
\* the caller as the status of the command.
AlwaysSuspendable ==
    /\ active <=> depth > 0
    /\ pc = "user" => CanSuspend /\ ret # "SUSPEND"
    /\ \A s \in SlotsIn("PENDING") : procs[s].reason \notin {"SLEEP", "WAIT_CHILD"}

\* The processor never uses an address space that was destroyed, nor does a
\* frame return to one, and a process runs in its own.
AddressSpaceLive ==
    /\ cr3 \in spaces \cup {Kernel}
    /\ \A i \in 1..depth : stack[i].prev \in spaces \cup {Kernel}
    /\ pc = "user" => cr3 = AddressSpace(procs[Top.slot])

\* What a process needs to run again outlives every nested run, stop and exit around
\* it: its address space, and the frame, stack and image it was suspended with.
ResourcesLive == AddressSpaceLive /\ ResumableIsWhole

\* An exited process stays exited, with the same status, until its slot is
\* given to another one.
ExitIsFinal ==
    [][\A s \in Slot :
          procs[s].state = "EXITED" /\ procs'[s].pid = procs[s].pid
              => procs'[s] = procs[s]]_vars

\* Every pending process that waits for nothing gets its turn.
EveryoneDispatched ==
    \A s \in Slot :
        procs[s].state = "PENDING" /\ procs[s].reason \in {"NONE", "YIELD"}
            ~> procs[s].state # "PENDING"
=============================================================================
