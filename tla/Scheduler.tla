------------------------------ MODULE Scheduler ------------------------------
(***************************************************************************)
(* The task scheduler, src/kernel/core/scheduler.c, driven by the two      *)
(* actors that share its tables without a lock: the idle loop of kmain.c,  *)
(* which calls dispatch_ready with interrupts enabled, and the timer       *)
(* interrupt, which may run between any two of its steps.                  *)
(*                                                                         *)
(* A task is a function that is called and returns; only tasks with an     *)
(* entry (klogd, kworker, usrd) are ever called.  User processes own tasks *)
(* without an entry, whose state the exec runtime sets.                    *)
(*                                                                         *)
(* pc is the idle loop's place in dispatch_ready, dispatch_current,        *)
(* run_task, maybe_reschedule or switch_to, and frame holds their locals.  *)
(* A step ends where the next one reads or writes something the interrupt  *)
(* also writes.  Ticks are relative: wake is the distance from the timer's *)
(* count to wake_tick.                                                     *)
(***************************************************************************)
EXTENDS Integers, FiniteSets

CONSTANTS
    MaxTasks,           \* bound on the task table
    Delays,             \* how far ahead of now a sleeper's wake_tick may be
    SetStates,          \* the states the exec runtime gives its tasks
    KernelTasks,        \* bound on the tasks with an entry that kmain adds
    Scenes              \* what a run is about, see Scene

\* tasks: kmain adds the tasks 1..tasks, each with one of slices as its time slice;
\* max: bound on the tasks; capacity: CLKS_SCHED_INITIAL_TASK_CAPACITY; budget:
\* CLKS_SCHED_DEFAULT_DISPATCH_BUDGET; calls: the calls task entries make; ticks: the
\* program points at which the timer may interrupt.
Scene(tasks, slices, max, capacity, budget, calls, ticks) ==
    [tasks |-> tasks, slices |-> slices, max |-> max, capacity |-> capacity,
     budget |-> budget, calls |-> calls, ticks |-> ticks]

CallName == {"yield_current", "yield_task", "sleep_current", "sleep_task",
             "set_task_state", "wake_task", "add_task", "remove_task"}

ASSUME SchedulerAssumption ==
    /\ MaxTasks \in Nat /\ Delays \subseteq Nat /\ KernelTasks \in Nat
    /\ SetStates \subseteq {"READY", "RUNNING", "BLOCKED", "SLEEPING",
                            "WAITING_CHILD", "BLOCKED_IO", "STOPPED", "ZOMBIE"}
    /\ \A s \in Scenes :
          /\ s.max \in 1..MaxTasks /\ s.capacity \in Nat \ {0} /\ s.budget \in Nat \ {0}
          /\ s.slices \subseteq Nat /\ s.slices # {} /\ s.calls \subseteq CallName
          /\ s.tasks \in 0..KernelTasks /\ s.tasks < s.max /\ s.tasks < s.capacity

VARIABLES
    scene,                  \* the scene
    tasks,                  \* clks_tasks
    task_count,             \* clks_task_count
    live_count,             \* clks_task_live_count
    capacity,               \* clks_task_capacity
    current,                \* clks_current_task
    dispatch_active,        \* clks_dispatch_active
    resched,                \* clks_reschedule_requested
    pc,                     \* where the idle loop is
    frame,                  \* its locals
    late,                   \* the timer ticked after the pass read its tick
    stale                   \* the table moved under run_task's task pointer

size == <<task_count, live_count, capacity>>
sched == <<current, dispatch_active, resched>>
vars == <<scene, tasks, size, sched, pc, frame, late, stale>>

TaskId == 0..(MaxTasks - 1)
NoTask == [state |-> "UNUSED", entry |-> FALSE, slice |-> 0, remaining |-> 0,
           wake |-> 0]

\* i and budget of dispatch_ready, task_id of run_task and who called it, the
\* arguments of switch_to and where it returns to; here all dead but the loop's.
Loop(i, budget) == [i |-> i, budget |-> budget, id |-> 0, caller |-> "halt",
                    old |-> 0, next |-> 0, cont |-> "finish"]

-----------------------------------------------------------------------------
(* Helpers                                                                  *)

state_runnable(s) == s \in {"READY", "RUNNING"}
task_runnable(T, t) == T[t].entry /\ state_runnable(T[t].state)
slot_used(t) == t < task_count /\ tasks[t].state # "UNUSED"

\* clks_sched_wake_sleepers at a tick; behind is whether the timer has counted
\* further since that tick was read.
wake_sleepers(T, behind) ==
    [t \in TaskId |->
        IF t < task_count /\ T[t].state = "SLEEPING" /\ T[t].wake = 0 /\ ~behind
        THEN [T[t] EXCEPT !.state = "READY", !.remaining = T[t].slice]
        ELSE T[t]]

\* clks_sched_next_runnable_task: round robin from the task after from; its own
\* turn comes last, and the idle task is the fallback.
next_runnable_task(T, from) ==
    LET at(k) == (from + k) % task_count
        hits == {k \in 1..task_count : task_runnable(T, at(k))}
    IN  IF hits = {} THEN 0 ELSE at(CHOOSE k \in hits : \A j \in hits : k <= j)

\* What clks_sched_switch_to does to the task it leaves and to the one it enters.
Leave(T, t) == [T EXCEPT ![t].state = IF @ = "RUNNING" THEN "READY" ELSE @]
Enter(T, t) == [T EXCEPT ![t].state = "RUNNING",
                         ![t].remaining = IF @ = 0 THEN T[t].slice ELSE @]
Refill(T, t) == [T EXCEPT ![t].remaining = T[t].slice]

-----------------------------------------------------------------------------
(* The timer interrupt: clks_scheduler_on_timer_tick, in one step.          *)

\* One more tick has passed for every sleeper.
Elapse(T) ==
    [t \in TaskId |-> IF T[t].state = "SLEEPING" /\ T[t].wake > 0
                      THEN [T[t] EXCEPT !.wake = @ - 1] ELSE T[t]]

account_nothing(T) == T

account_current_tick(T) ==
    IF state_runnable(T[current].state) /\ T[current].remaining > 0
    THEN [T EXCEPT ![current].remaining = @ - 1] ELSE T

SliceOver(T) == state_runnable(T[current].state) /\ T[current].remaining = 0

\* account_current_tick, then maybe_reschedule.
TickAndReschedule(T) ==
    LET A == account_current_tick(T)
        R == Refill(A, current)
        n == next_runnable_task(A, current)
    IN  /\ resched' = FALSE
        /\ IF resched \/ SliceOver(A)
           THEN /\ tasks' = IF n = current THEN R ELSE Enter(Leave(R, current), n)
                /\ current' = n
           ELSE tasks' = A /\ UNCHANGED current

\* While an entry runs, a tick only wakes sleepers.
on_timer_tick ==
    LET W == wake_sleepers(Elapse(tasks), FALSE)
    IN  IF dispatch_active THEN tasks' = W /\ UNCHANGED <<current, resched>>
        ELSE TickAndReschedule(W)

\* The timer interrupts the idle loop at any point and ends its hlt.
timer_interrupt ==
    /\ pc \in scene.ticks
    /\ on_timer_tick
    /\ late' = TRUE
    /\ pc' = IF pc = "halt" THEN "pass" ELSE pc
    /\ UNCHANGED <<scene, size, dispatch_active, frame, stale>>

-----------------------------------------------------------------------------
(* The idle loop of clks_kernel_main                                        *)

Goto(from, to) == pc = from /\ pc' = to

\* Any other interrupt ends the hlt too.
hlt_wakes ==
    /\ Goto("halt", "pass")
    /\ UNCHANGED <<tasks, size, sched, frame, late, stale>>

\* clks_interrupts_timer_ticks is read for the coming pass.
read_tick ==
    /\ Goto("pass", "ready")
    /\ late' = FALSE
    /\ UNCHANGED <<tasks, size, sched, frame, stale>>

\* clks_scheduler_dispatch_ready up to its loop.
dispatch_ready ==
    /\ pc = "ready"
    /\ IF dispatch_active
       THEN pc' = "halt" /\ UNCHANGED <<tasks, frame>>
       ELSE /\ tasks' = wake_sleepers(tasks, late)
            /\ frame' = Loop(0, scene.budget)
            /\ pc' = "loop"
    /\ UNCHANGED <<size, sched, late, stale>>

\* The index is relative to the current task, which the loop itself moves.
idx == (current + frame.i) % task_count

\* One turn of the loop.
dispatch_loop ==
    /\ pc = "loop"
    /\ frame.i < task_count /\ frame.budget > 0
    /\ IF idx # 0 /\ task_runnable(tasks, idx)
       THEN pc' = "check" /\ frame' = [frame EXCEPT !.id = idx, !.caller = "loop"]
       ELSE frame' = [frame EXCEPT !.i = @ + 1] /\ UNCHANGED pc
    /\ UNCHANGED <<tasks, size, sched, late, stale>>

\* The end of the loop: a pass that ran nothing falls back to dispatch_current.
dispatch_loop_ends ==
    /\ pc = "loop"
    /\ ~(frame.i < task_count /\ frame.budget > 0)
    /\ pc' = IF frame.budget = scene.budget THEN "current" ELSE "halt"
    /\ frame' = Loop(0, 0)
    /\ UNCHANGED <<tasks, size, sched, late, stale>>

\* clks_scheduler_dispatch_current: wake, maybe_reschedule, then run_task.
dispatch_current ==
    /\ pc = "current"
    /\ tasks' = wake_sleepers(tasks, late)
    /\ frame' = [frame EXCEPT !.caller = "halt", !.cont = "call"]
    /\ pc' = "resched"
    /\ UNCHANGED <<size, sched, late, stale>>

call_run_task ==
    /\ Goto("call", "check")
    /\ frame' = [frame EXCEPT !.id = current]
    /\ UNCHANGED <<tasks, size, sched, late, stale>>

\* run_task is over.
finish ==
    /\ Goto("finish", frame.caller)
    /\ frame' = IF frame.caller = "loop" THEN Loop(frame.i + 1, frame.budget - 1)
                ELSE Loop(0, 0)
    /\ UNCHANGED <<tasks, size, sched, late, stale>>

-----------------------------------------------------------------------------
(* clks_sched_run_task                                                      *)

run_task_unchecked ==
    /\ pc = "check"
    /\ pc' = IF tasks[frame.id].state = "READY" THEN "switch" ELSE "mark"
    /\ frame' = [frame EXCEPT !.next = frame.id, !.cont = "mark"]
    /\ UNCHANGED <<tasks, size, sched, late, stale>>

\* The early return, and the choice to switch first.
run_task ==
    /\ pc = "check"
    /\ pc' = IF ~task_runnable(tasks, frame.id) THEN "finish"
             ELSE IF tasks[frame.id].state = "READY" THEN "switch" ELSE "mark"
    /\ frame' = [frame EXCEPT !.next = frame.id, !.cont = "mark"]
    /\ UNCHANGED <<tasks, size, sched, late, stale>>

mark_running ==
    /\ Goto("mark", "activate")
    /\ tasks' = [tasks EXCEPT ![frame.id].state = "RUNNING"]
    /\ UNCHANGED <<size, sched, frame, late, stale>>

\* dispatch_active is set and the entry called.
activate ==
    /\ Goto("activate", "entry")
    /\ dispatch_active' = TRUE
    /\ UNCHANGED <<tasks, size, current, resched, frame, late, stale>>

\* The entry returns and dispatch_active is cleared.
entry_returns ==
    /\ Goto("entry", "settle")
    /\ dispatch_active' = FALSE
    /\ UNCHANGED <<tasks, size, current, resched, frame, late, stale>>

settle_always ==
    /\ Goto("settle", "resched")
    /\ frame' = [frame EXCEPT !.cont = "finish"]
    /\ tasks' = IF ~stale THEN [tasks EXCEPT ![frame.id].state = "READY"] ELSE tasks
    /\ stale' = FALSE
    /\ UNCHANGED <<size, sched, late>>

\* RUNNING -> READY, through the pointer taken before the entry ran: after a
\* growth of the table it points into freed memory and the table is untouched.
settle ==
    /\ Goto("settle", "resched")
    /\ frame' = [frame EXCEPT !.cont = "finish"]
    /\ tasks' = IF ~stale /\ tasks[frame.id].state = "RUNNING"
                THEN [tasks EXCEPT ![frame.id].state = "READY"] ELSE tasks
    /\ stale' = FALSE
    /\ UNCHANGED <<size, sched, late>>

-----------------------------------------------------------------------------
(* clks_sched_maybe_reschedule and clks_sched_switch_to, as the idle loop   *)
(* runs them: the timer may come between any two steps.                     *)

maybe_reschedule ==
    /\ pc = "resched"
    /\ resched' = FALSE
    /\ IF resched
       THEN /\ frame' = [frame EXCEPT !.next = next_runnable_task(tasks, current)]
            /\ pc' = "refill"
       ELSE pc' = frame.cont /\ UNCHANGED frame
    /\ UNCHANGED <<tasks, size, current, dispatch_active, late, stale>>

refill ==
    /\ Goto("refill", "switch")
    /\ tasks' = Refill(tasks, current)
    /\ UNCHANGED <<size, sched, frame, late, stale>>

switch_to ==
    /\ pc = "switch"
    /\ IF frame.next = current
       THEN pc' = frame.cont /\ UNCHANGED frame
       ELSE pc' = "switch_old" /\ frame' = [frame EXCEPT !.old = current]
    /\ UNCHANGED <<tasks, size, sched, late, stale>>

switch_old ==
    /\ Goto("switch_old", "switch_current")
    /\ tasks' = Leave(tasks, frame.old)
    /\ UNCHANGED <<size, sched, frame, late, stale>>

switch_current ==
    /\ Goto("switch_current", "switch_new")
    /\ current' = frame.next
    /\ UNCHANGED <<tasks, size, dispatch_active, resched, frame, late, stale>>

switch_new ==
    /\ Goto("switch_new", frame.cont)
    /\ tasks' = Enter(tasks, frame.next)
    /\ UNCHANGED <<size, sched, frame, late, stale>>

-----------------------------------------------------------------------------
(* The scheduler's calls, made by the entry that runs.                      *)

\* Only tasks change, and maybe the request to reschedule.
Changes(T, request) ==
    /\ tasks' = T
    /\ resched' = (resched \/ request)
    /\ UNCHANGED <<size, current, dispatch_active, pc, frame, late, stale>>

yield_current ==
    IF state_runnable(tasks[current].state)
    THEN Changes([tasks EXCEPT ![current].remaining = 0], TRUE)
    ELSE UNCHANGED vars

yield_task(t) ==
    /\ slot_used(t)
    /\ IF state_runnable(tasks[t].state)
       THEN Changes([tasks EXCEPT ![t].remaining = 0], t = current)
       ELSE UNCHANGED vars

\* The common part of the two sleep_..._until calls.
Sleep(t, delay) ==
    Changes([tasks EXCEPT ![t].state = "SLEEPING", ![t].wake = delay,
                          ![t].remaining = tasks[t].slice], t = current)

\* clks_scheduler_sleep_current_ticks; the idle task never sleeps.
sleep_current(delay) ==
    CASE delay = 0 -> yield_current
      [] delay > 0 /\ current # 0 /\ tasks[current].entry -> Sleep(current, delay)
      [] OTHER -> UNCHANGED vars

\* clks_scheduler_sleep_task_until; the wake tick may have passed already.
sleep_task(t, delay) == t # 0 /\ slot_used(t) /\ Sleep(t, delay)

\* clks_scheduler_set_task_state
set_task_state(t, s) ==
    LET s1 == IF s = "RUNNING" /\ t # current THEN "READY" ELSE s
    IN  /\ slot_used(t)
        /\ t = 0 => state_runnable(s)
        /\ Changes([tasks EXCEPT ![t].state = s1],
                   t = current /\ ~state_runnable(s1))

\* clks_scheduler_wake_task
wake_task(t) ==
    /\ slot_used(t)
    /\ tasks[t].state # "ZOMBIE"
    /\ Changes([tasks EXCEPT ![t].state = "READY", ![t].wake = 0,
                             ![t].remaining = IF @ = 0 THEN tasks[t].slice ELSE @],
               FALSE)

\* The slot clks_sched_find_free_task_slot returns.
FreeSlots == {t \in 1..(task_count - 1) : tasks[t].state = "UNUSED"}
NewSlot == IF FreeSlots = {} THEN task_count
           ELSE CHOOSE t \in FreeSlots : \A u \in FreeSlots : t <= u

\* Without a free slot clks_sched_reserve_tasks doubles a full table and moves it.
Grows == FreeSlots = {} /\ task_count = capacity

\* clks_scheduler_add_task_internal; slices of zero are raised to one.
add_task(slice, entry) ==
    LET t == NewSlot
        ticks == IF slice = 0 THEN 1 ELSE slice
    IN  /\ t < scene.max
        /\ tasks' = [tasks EXCEPT ![t] =
                        [state |-> "READY", entry |-> entry, slice |-> ticks,
                         remaining |-> ticks, wake |-> 0]]
        /\ task_count' = IF t = task_count THEN task_count + 1 ELSE task_count
        /\ live_count' = live_count + 1
        /\ capacity' = IF Grows THEN 2 * capacity ELSE capacity
        /\ stale' = (stale \/ Grows)
        /\ UNCHANGED <<sched, pc, frame, late>>

\* clks_scheduler_remove_task
remove_task(t) ==
    /\ t # 0 /\ slot_used(t)
    /\ tasks' = [tasks EXCEPT ![t] = NoTask]
    /\ live_count' = IF live_count > 0 THEN live_count - 1 ELSE 0
    /\ current' = IF t = current THEN 0 ELSE current
    /\ resched' = (resched \/ t = current)
    /\ UNCHANGED <<task_count, capacity, dispatch_active, pc, frame, late, stale>>

\* One call, out of those the entry may make.
entry_calls ==
    /\ pc = "entry"
    /\ \/ "yield_current" \in scene.calls /\ yield_current
       \/ \E t \in TaskId : "yield_task" \in scene.calls /\ yield_task(t)
       \/ \E d \in Delays : "sleep_current" \in scene.calls /\ sleep_current(d)
       \/ \E t \in TaskId, d \in Delays : "sleep_task" \in scene.calls /\ sleep_task(t, d)
       \/ \E t \in TaskId, s \in SetStates :
             "set_task_state" \in scene.calls /\ set_task_state(t, s)
       \/ \E t \in TaskId : "wake_task" \in scene.calls /\ wake_task(t)
       \/ "add_task" \in scene.calls /\ add_task(1, FALSE)
       \/ \E t \in TaskId : "remove_task" \in scene.calls /\ remove_task(t)

-----------------------------------------------------------------------------
\* clks_scheduler_init, then the tasks that kmain adds.
Init ==
    /\ scene \in Scenes
    /\ \E slice \in [1..scene.tasks -> scene.slices] :
        tasks = [t \in TaskId |->
                    IF t = 0
                    THEN [state |-> "RUNNING", entry |-> FALSE, slice |-> 1,
                          remaining |-> 1, wake |-> 0]
                    ELSE IF t <= scene.tasks
                    THEN [state |-> "READY", entry |-> TRUE, slice |-> slice[t],
                          remaining |-> slice[t], wake |-> 0]
                    ELSE NoTask]
    /\ task_count = scene.tasks + 1
    /\ live_count = scene.tasks + 1
    /\ capacity = scene.capacity
    /\ current = 0
    /\ dispatch_active = FALSE
    /\ resched = FALSE
    /\ pc = "pass"
    /\ frame = Loop(0, 0)
    /\ late = FALSE
    /\ stale = FALSE

\* The idle loop's steps outside the entries.
idle_loop ==
    /\ \/ read_tick \/ dispatch_ready \/ dispatch_loop \/ dispatch_loop_ends
       \/ dispatch_current \/ call_run_task \/ finish
       \/ run_task \/ mark_running \/ activate \/ entry_returns \/ settle
       \/ maybe_reschedule \/ refill
       \/ switch_to \/ switch_old \/ switch_current \/ switch_new
    /\ UNCHANGED scene

Next == timer_interrupt \/ idle_loop \/ ((hlt_wakes \/ entry_calls) /\ UNCHANGED scene)

Spec == Init /\ [][Next]_vars

\* The timer keeps ticking, also while the processor halts; the idle loop is
\* not stopped by interrupts for ever, and every entry returns.
tick_at_halt == pc = "halt" /\ timer_interrupt

FairSpec == Spec /\ WF_vars(idle_loop) /\ SF_vars(tick_at_halt)
                 /\ WF_vars(timer_interrupt)

-----------------------------------------------------------------------------
(* Properties                                                               *)

\* The idle task is always there to fall back on, and the current task is
\* always one that exists, whatever tasks are removed, stopped or put to sleep
\* and wherever the timer strikes.
FallbackExists ==
    /\ state_runnable(tasks[0].state)
    /\ slot_used(current)

\* run_task calls no entry that is missing, and none of a task that sleeps, is
\* blocked, stopped, a zombie or removed: the check at its start still holds
\* when the call is made, although interrupts come in between.
OnlyRunnableCalled ==
    pc \in {"switch", "switch_old", "switch_current", "switch_new", "mark",
            "activate"} /\ frame.cont = "mark"
        => task_runnable(tasks, frame.id)

\* Dispatching is safe at every instant: there is a task to fall back on, and nothing
\* but a runnable task is called.
DispatchSafe == FallbackExists /\ OnlyRunnableCalled

\* Outside of an explicit call nobody wakes a sleeper before its tick: neither a
\* pass with a tick that is out of date, nor the bookkeeping around an entry
\* that put its own task to sleep.
NoEarlyWake ==
    [][\A t \in TaskId :
          tasks[t].state = "SLEEPING" /\ tasks'[t].state # "SLEEPING"
              /\ pc # "entry"
              => tasks[t].wake = 0 \/ (tasks[t].wake = 1 /\ late')]_vars

\* No starvation: the dispatch loop adds its counter to a current task that it
\* moves itself, and so skips tasks in a pass; the time slices make up for it, and
\* where entries do not themselves yield, stop or wake tasks, a kernel task that
\* stays runnable is called again and again.
NoStarvation ==
    \A t \in 1..KernelTasks :
        scene.calls \subseteq {"add_task"} =>
            (<>[]task_runnable(tasks, t) => []<>(pc = "entry" /\ frame.id = t))
=============================================================================
