--------------------------- MODULE SchedulerProofs ---------------------------
(***************************************************************************)
(* Dispatching is safe and nobody is woken early, for every table size,    *)
(* every set of delays, every family of calls and every place where the    *)
(* timer may strike.                                                       *)
(*                                                                         *)
(* Outside of an entry the idle loop and the interrupt only ever make calm *)
(* changes to the table: a runnable task stays runnable, a used slot stays *)
(* used and no entry appears or vanishes.  This is why run_task may act on *)
(* a check that is several interrupts old, and it is proved once for each  *)
(* helper before the steps are taken one by one.                           *)
(***************************************************************************)
EXTENDS Scheduler, WellFoundedInduction, TLAPS

-----------------------------------------------------------------------------
(* Indices of the table                                                     *)

\* A remainder is an index: clks_sched_next_runnable_task indexes the table with one.
LEMMA ModInRange ==
    ASSUME NEW a \in Nat, NEW n \in Nat \ {0}
    PROVE  a % n \in 0..(n - 1)
OBVIOUS

\* A set of naturals that is not empty has a least element: the first free slot and the
\* next runnable task are such.
LEMMA LeastNatural ==
    ASSUME NEW S \in SUBSET Nat, S # {}
    PROVE  \E m \in S : \A n \in S : m <= n
<1>1. PICK m \in S : \A n \in S : ~(<<n, m>> \in OpToRel(<, Nat))
  BY NatLessThanWellFounded, WFMin, Zenon
<1>2. \A n \in S : ~(n < m)
  BY <1>1 DEF OpToRel
<1> QED
  BY <1>2

\* An index of a table is one of a longer table.
LEMMA IndexInLonger ==
    ASSUME NEW m \in Nat, NEW n \in Nat, m <= n, NEW i \in 0..(m - 1)
    PROVE  i \in 0..(n - 1)
OBVIOUS
-----------------------------------------------------------------------------

State == {"UNUSED", "READY", "RUNNING", "BLOCKED", "SLEEPING", "WAITING_CHILD",
          "BLOCKED_IO", "STOPPED", "ZOMBIE"}
Task == [state : State, entry : BOOLEAN, slice : Nat, remaining : Nat, wake : Nat]
Frame == [i : Nat, budget : Int, id : TaskId, caller : {"loop", "halt"},
          old : TaskId, next : TaskId, cont : {"call", "mark", "finish"}]

Switching == {"switch", "switch_old", "switch_current", "switch_new"}
Place == Switching \cup {"halt", "pass", "ready", "loop", "current", "call", "check",
                         "mark", "activate", "entry", "settle", "finish", "resched",
                         "refill"}

TypeOK ==
    /\ scene \in Scenes
    /\ tasks \in [TaskId -> Task]
    /\ task_count \in 1..scene.max
    /\ current \in 0..(task_count - 1)
    /\ resched \in BOOLEAN /\ late \in BOOLEAN /\ stale \in BOOLEAN
    /\ pc \in Place
    /\ frame \in Frame

\* A task that may be switched to.
Enterable(t) == t < task_count /\ state_runnable(tasks[t].state)

\* The inductive invariant: besides DispatchSafe, what is switched to can be entered,
\* a switch on behalf of run_task is to the task it will call, and dispatch_active is
\* set exactly while an entry runs.
DispatchInv ==
    /\ TypeOK
    /\ DispatchSafe
    /\ dispatch_active = (pc = "entry")
    /\ pc = "check" => frame.id < task_count
    /\ pc \in Switching \cup {"refill"} => Enterable(frame.next)
    /\ pc \in Switching /\ frame.cont = "mark" => frame.next = frame.id
    /\ pc \in {"mark", "activate"} => frame.cont = "mark"
    /\ pc \in {"resched", "refill"} => frame.cont \in {"call", "finish"}

\* What a step outside of an entry may do to the task table T.
Calm(T, U) ==
    \A t \in TaskId :
        /\ state_runnable(T[t].state) => state_runnable(U[t].state)
        /\ U[t].entry = T[t].entry
        /\ U[t].state = "UNUSED" <=> T[t].state = "UNUSED"

\* No sleeper is woken.
Sleeps(T, U) ==
    \A t \in TaskId : T[t].state = "SLEEPING" => U[t].state = "SLEEPING"

-----------------------------------------------------------------------------
(* The table and the indices                                                *)

\* The table has room for the idle task.
LEMMA IdleInTable ==
    ASSUME TypeOK
    PROVE  /\ MaxTasks \in Nat \ {0} /\ task_count \in Nat \ {0}
           /\ task_count <= MaxTasks
           /\ scene.max \in 1..MaxTasks
           /\ 0 \in TaskId /\ current \in TaskId
           /\ \A t \in 0..(task_count - 1) : t \in TaskId
BY SchedulerAssumption DEF TypeOK, TaskId

\* clks_sched_next_runnable_task returns a task of the table that is runnable.
LEMMA NextIsRunnable ==
    ASSUME TypeOK, NEW T \in [TaskId -> Task], state_runnable(T[0].state),
           NEW from \in 0..(task_count - 1)
    PROVE  LET n == next_runnable_task(T, from)
           IN  n \in 0..(task_count - 1) /\ state_runnable(T[n].state)
<1> DEFINE at(k) == (from + k) % task_count
           hits == {k \in 1..task_count : task_runnable(T, at(k))}
<1>1. task_count \in Nat \ {0}
  BY IdleInTable
<1>2. \A k \in 1..task_count : at(k) \in 0..(task_count - 1)
  BY <1>1, ModInRange
<1>3. CASE hits = {}
  <2>1. next_runnable_task(T, from) = 0
    BY <1>3 DEF next_runnable_task
  <2> QED
    BY <1>1, <2>1
<1>4. CASE hits # {}
  <2> DEFINE k == CHOOSE j \in hits : \A i \in hits : j <= i
  <2>1. \E j \in hits : \A i \in hits : j <= i
    <3>1. hits \in SUBSET Nat
      BY <1>1
    <3> HIDE DEF hits
    <3> QED
      BY <1>4, <3>1, LeastNatural
  <2>2. k \in hits
    <3> HIDE DEF hits
    <3> QED
      BY <2>1
  <2>3. next_runnable_task(T, from) = at(k)
    BY <1>4 DEF next_runnable_task
  <2> QED
    BY <1>2, <2>2, <2>3 DEF task_runnable
<1> QED
  BY <1>3, <1>4
-----------------------------------------------------------------------------
(* What the helpers do to the table                                         *)

\* Calm changes add up, and so do those that wake nobody.
LEMMA CalmTransitive ==
    ASSUME NEW T, NEW U, NEW V
    PROVE  /\ Calm(T, U) /\ Calm(U, V) => Calm(T, V)
           /\ Sleeps(T, U) /\ Sleeps(U, V) => Sleeps(T, V)
BY DEF Calm, Sleeps

\* Elapse only counts down.
LEMMA ElapseCalm ==
    ASSUME NEW T \in [TaskId -> Task]
    PROVE  /\ Elapse(T) \in [TaskId -> Task]
           /\ Calm(T, Elapse(T)) /\ Sleeps(T, Elapse(T))
           /\ \A t \in TaskId : T[t].state = "SLEEPING" =>
                 Elapse(T)[t].wake = IF T[t].wake > 0 THEN T[t].wake - 1 ELSE 0
BY DEF Elapse, Calm, Sleeps, Task, state_runnable

\* clks_sched_wake_sleepers makes sleepers runnable whose tick has come.
LEMMA WakeCalm ==
    ASSUME NEW T \in [TaskId -> Task], NEW behind \in BOOLEAN
    PROVE  /\ wake_sleepers(T, behind) \in [TaskId -> Task]
           /\ Calm(T, wake_sleepers(T, behind))
           /\ \A t \in TaskId :
                 T[t].state = "SLEEPING" /\ wake_sleepers(T, behind)[t].state # "SLEEPING"
                    => T[t].wake = 0
BY DEF wake_sleepers, Calm, Task, State, state_runnable

\* Refilling a slice and leaving a task are calm, and so is entering a task that is
\* runnable.
LEMMA SwitchCalm ==
    ASSUME NEW T \in [TaskId -> Task], NEW t \in TaskId
    PROVE  /\ Refill(T, t) \in [TaskId -> Task]
           /\ Calm(T, Refill(T, t)) /\ Sleeps(T, Refill(T, t))
           /\ Leave(T, t) \in [TaskId -> Task]
           /\ Calm(T, Leave(T, t)) /\ Sleeps(T, Leave(T, t))
           /\ Enter(T, t) \in [TaskId -> Task]
           /\ state_runnable(T[t].state) => Calm(T, Enter(T, t)) /\ Sleeps(T, Enter(T, t))
<1>1. /\ Refill(T, t) \in [TaskId -> Task]
      /\ Calm(T, Refill(T, t)) /\ Sleeps(T, Refill(T, t))
  BY DEF Refill, Calm, Sleeps, Task, State, state_runnable
<1>2. /\ Leave(T, t) \in [TaskId -> Task]
      /\ Calm(T, Leave(T, t)) /\ Sleeps(T, Leave(T, t))
  BY DEF Leave, Calm, Sleeps, Task, State, state_runnable
<1>3. /\ Enter(T, t) \in [TaskId -> Task]
      /\ state_runnable(T[t].state) => Calm(T, Enter(T, t)) /\ Sleeps(T, Enter(T, t))
  BY DEF Enter, Calm, Sleeps, Task, State, state_runnable
<1> QED
  BY <1>1, <1>2, <1>3

\* Charging a tick to the current task is calm.
LEMMA AccountCalm ==
    ASSUME TypeOK, NEW T \in [TaskId -> Task]
    PROVE  /\ account_current_tick(T) \in [TaskId -> Task]
           /\ Calm(T, account_current_tick(T)) /\ Sleeps(T, account_current_tick(T))
<1>1. current \in TaskId
  BY IdleInTable
<1> QED
  BY <1>1 DEF account_current_tick, Calm, Sleeps, Task, State, state_runnable

-----------------------------------------------------------------------------
(* Steps outside of an entry                                                *)

\* A calm step keeps whatever was found runnable.
LEMMA CalmKeeps ==
    ASSUME DispatchInv, tasks' \in [TaskId -> Task], Calm(tasks, tasks'),
           UNCHANGED <<scene, task_count>>,
           current' \in 0..(task_count - 1), tasks[current'].state # "UNUSED"
    PROVE  /\ FallbackExists'
           /\ \A t \in TaskId : Enterable(t) => Enterable(t)'
           /\ \A t \in TaskId : task_runnable(tasks, t) => task_runnable(tasks', t)
<1>1. 0 \in TaskId /\ current' \in TaskId
  BY IdleInTable DEF DispatchInv
<1>2. FallbackExists'
  <2>1. state_runnable(tasks'[0].state)
    BY <1>1 DEF DispatchInv, DispatchSafe, FallbackExists, Calm
  <2>2. tasks'[current'].state # "UNUSED"
    BY <1>1 DEF Calm
  <2>3. current' < task_count'
    BY IdleInTable DEF DispatchInv
  <2> QED
    BY <2>1, <2>2, <2>3 DEF FallbackExists, slot_used, state_runnable
<1>3. \A t \in TaskId : Enterable(t) => Enterable(t)'
  BY DEF Enterable, Calm, state_runnable
<1>4. \A t \in TaskId : task_runnable(tasks, t) => task_runnable(tasks', t)
  BY DEF task_runnable, Calm
<1> QED
  BY <1>2, <1>3, <1>4

\* A tick: it changes the table calmly, wakes only those whose tick has come and
\* leaves a current task that exists.
LEMMA TickCalm ==
    ASSUME DispatchInv, timer_interrupt
    PROVE  /\ tasks' \in [TaskId -> Task]
           /\ Calm(tasks, tasks')
           /\ current' \in 0..(task_count - 1) /\ tasks[current'].state # "UNUSED"
           /\ resched' \in BOOLEAN
           /\ \A t \in TaskId :
                 tasks[t].state = "SLEEPING" /\ tasks'[t].state # "SLEEPING"
                    => tasks[t].wake \in {0, 1}
<1> DEFINE E == Elapse(tasks)
           W == wake_sleepers(E, FALSE)
           A == account_current_tick(W)
           R == Refill(A, current)
           n == next_runnable_task(A, current)
           L == Leave(R, current)
<1>1. /\ TypeOK /\ tasks \in [TaskId -> Task] /\ current \in TaskId /\ 0 \in TaskId
      /\ current \in 0..(task_count - 1) /\ \A t \in 0..(task_count - 1) : t \in TaskId
      /\ state_runnable(tasks[0].state) /\ tasks[current].state # "UNUSED"
  BY IdleInTable DEF DispatchInv, TypeOK, DispatchSafe, FallbackExists, slot_used
<1>2. /\ E \in [TaskId -> Task] /\ Calm(tasks, E)
      /\ W \in [TaskId -> Task] /\ Calm(tasks, W)
      /\ A \in [TaskId -> Task] /\ Calm(tasks, A) /\ Sleeps(W, A)
  <2>1. E \in [TaskId -> Task] /\ Calm(tasks, E)
    BY <1>1, ElapseCalm
  <2> HIDE DEF E
  <2>2. W \in [TaskId -> Task] /\ Calm(E, W)
    BY <2>1, WakeCalm
  <2> HIDE DEF W
  <2>3. A \in [TaskId -> Task] /\ Calm(W, A) /\ Sleeps(W, A)
    BY <1>1, <2>2, AccountCalm
  <2> HIDE DEF A
  <2> QED
    BY <2>1, <2>2, <2>3, CalmTransitive
<1>3. \A t \in TaskId : tasks[t].state = "SLEEPING" /\ W[t].state # "SLEEPING"
                          => tasks[t].wake \in {0, 1}
  <2>1. \A t \in TaskId : tasks[t].state = "SLEEPING" =>
           /\ E[t].state = "SLEEPING"
           /\ E[t].wake = IF tasks[t].wake > 0 THEN tasks[t].wake - 1 ELSE 0
    BY <1>1, ElapseCalm DEF Sleeps
  <2>2. \A t \in TaskId : E[t].state = "SLEEPING" /\ W[t].state # "SLEEPING"
                            => E[t].wake = 0
    BY <1>2, WakeCalm
  <2>3. \A t \in TaskId : tasks[t].wake \in Nat
    BY <1>1 DEF Task
  <2> HIDE DEF E, W
  <2> QED
    BY <2>1, <2>2, <2>3
<1>4. CASE dispatch_active
  <2>1. tasks' = W /\ UNCHANGED <<current, resched>>
    BY <1>4 DEF timer_interrupt, on_timer_tick
  <2> HIDE DEF W
  <2> QED
    BY <1>1, <1>2, <1>3, <2>1 DEF TypeOK
<1>5. CASE ~dispatch_active
  <2>1. /\ resched' = FALSE
        /\ \/ tasks' = A /\ current' = current
           \/ n = current /\ tasks' = R /\ current' = n
           \/ n # current /\ tasks' = Enter(L, n) /\ current' = n
    BY <1>5 DEF timer_interrupt, on_timer_tick, TickAndReschedule
  <2> HIDE DEF W, A
  <2>2. /\ n \in 0..(task_count - 1) /\ n \in TaskId /\ state_runnable(A[n].state)
    <3>1. state_runnable(A[0].state)
      BY <1>1, <1>2 DEF Calm
    <3> QED
      BY <1>1, <1>2, <3>1, NextIsRunnable
  <2>3. tasks[n].state # "UNUSED"
    <3>1. A[n].state # "UNUSED"
      BY <2>2 DEF state_runnable
    <3> QED
      BY <1>1, <1>2, <2>2, <3>1 DEF Calm, Task
  <2> HIDE DEF n
  <2>4. R \in [TaskId -> Task] /\ Calm(A, R) /\ Sleeps(A, R)
    BY <1>1, <1>2, SwitchCalm
  <2> HIDE DEF R
  <2>5. L \in [TaskId -> Task] /\ Calm(R, L) /\ Sleeps(R, L)
    BY <1>1, <2>4, SwitchCalm
  <2> HIDE DEF L
  <2>6. /\ Enter(L, n) \in [TaskId -> Task]
        /\ Calm(L, Enter(L, n)) /\ Sleeps(L, Enter(L, n))
    <3>1. state_runnable(L[n].state)
      BY <2>2, <2>4, <2>5 DEF Calm
    <3> QED
      BY <2>2, <2>5, <3>1, SwitchCalm
  <2>7. tasks' \in [TaskId -> Task] /\ Calm(A, tasks') /\ Sleeps(A, tasks')
    <3>1. Calm(A, A) /\ Sleeps(A, A)
      BY DEF Calm, Sleeps
    <3>2. Calm(A, L) /\ Sleeps(A, L)
      BY <2>4, <2>5, CalmTransitive
    <3>3. Calm(A, Enter(L, n)) /\ Sleeps(A, Enter(L, n))
      BY <2>6, <3>2, CalmTransitive
    <3> QED
      BY <1>2, <2>1, <2>4, <2>6, <3>1, <3>3
  <2>8. Calm(tasks, tasks') /\ Sleeps(W, tasks')
    BY <1>2, <2>7, CalmTransitive
  <2> QED
    BY <1>1, <1>3, <2>1, <2>2, <2>3, <2>7, <2>8 DEF Sleeps
<1> QED
  BY <1>4, <1>5

\* A step of the idle loop changes the table as calmly: what it marks running, or
\* enters, it found runnable before.
LEMMA IdleCalm ==
    ASSUME DispatchInv, idle_loop
    PROVE  /\ tasks' \in [TaskId -> Task]
           /\ Calm(tasks, tasks')
           /\ \A t \in TaskId :
                 tasks[t].state = "SLEEPING" /\ tasks'[t].state # "SLEEPING"
                    => tasks[t].wake = 0
<1> DEFINE Goal == /\ tasks' \in [TaskId -> Task]
                   /\ Calm(tasks, tasks')
                   /\ \A t \in TaskId :
                         tasks[t].state = "SLEEPING" /\ tasks'[t].state # "SLEEPING"
                            => tasks[t].wake = 0
<1>1. /\ tasks \in [TaskId -> Task] /\ late \in BOOLEAN /\ current \in TaskId
      /\ frame.id \in TaskId /\ frame.old \in TaskId /\ frame.next \in TaskId
  BY IdleInTable DEF DispatchInv, TypeOK, Frame
<1>2. ASSUME UNCHANGED tasks PROVE Goal
  BY <1>1, <1>2 DEF Calm
<1>3. ASSUME tasks' = wake_sleepers(tasks, late) PROVE Goal
  BY <1>1, <1>3, WakeCalm
<1>4. CASE read_tick \/ dispatch_loop \/ dispatch_loop_ends \/ call_run_task \/ finish
             \/ run_task \/ activate \/ entry_returns \/ maybe_reschedule \/ switch_to
             \/ switch_current
  BY <1>2, <1>4 DEF read_tick, dispatch_loop, dispatch_loop_ends, call_run_task, finish,
                    run_task, activate, entry_returns, maybe_reschedule, switch_to,
                    switch_current
<1>5. CASE dispatch_ready \/ dispatch_current
  BY <1>2, <1>3, <1>5 DEF dispatch_ready, dispatch_current
<1>6. CASE mark_running
  <2>1. state_runnable(tasks[frame.id].state)
    BY <1>6 DEF mark_running, Goto, DispatchInv, DispatchSafe, OnlyRunnableCalled,
                task_runnable
  <2>2. tasks' = [tasks EXCEPT ![frame.id].state = "RUNNING"]
    BY <1>6 DEF mark_running
  <2> QED
    BY <1>1, <2>1, <2>2 DEF Calm, Task, State, state_runnable
<1>7. CASE settle
  <2>1. \/ UNCHANGED tasks
        \/ /\ tasks[frame.id].state = "RUNNING"
           /\ tasks' = [tasks EXCEPT ![frame.id].state = "READY"]
    BY <1>7 DEF settle
  <2> QED
    BY <1>1, <1>2, <2>1 DEF Calm, Task, State, state_runnable
<1>8. CASE refill \/ switch_old
  <2>1. tasks' = Refill(tasks, current) \/ tasks' = Leave(tasks, frame.old)
    BY <1>8 DEF refill, switch_old
  <2> QED
    BY <1>1, <2>1, SwitchCalm DEF Sleeps
<1>9. CASE switch_new
  <2>1. state_runnable(tasks[frame.next].state)
    BY <1>9 DEF switch_new, Goto, DispatchInv, Switching, Enterable
  <2>2. tasks' = Enter(tasks, frame.next)
    BY <1>9 DEF switch_new
  <2> QED
    BY <1>1, <2>1, <2>2, SwitchCalm DEF Sleeps
<1> QED
  BY <1>4, <1>5, <1>6, <1>7, <1>8, <1>9 DEF idle_loop

\* The timer interrupt preserves the invariant at every program point.
LEMMA TickSafe ==
    ASSUME DispatchInv, timer_interrupt
    PROVE  DispatchInv'
<1>1. /\ tasks' \in [TaskId -> Task] /\ Calm(tasks, tasks')
      /\ current' \in 0..(task_count - 1) /\ tasks[current'].state # "UNUSED"
      /\ resched' \in BOOLEAN
  BY TickCalm
<1>2. /\ UNCHANGED <<scene, task_count, dispatch_active, frame, stale>> /\ late' = TRUE
      /\ pc' = IF pc = "halt" THEN "pass" ELSE pc
  BY DEF timer_interrupt, size
<1>3. TypeOK'
  BY <1>1, <1>2 DEF DispatchInv, TypeOK, Place, Frame
<1>4. /\ FallbackExists'
      /\ \A t \in TaskId : Enterable(t) => Enterable(t)'
      /\ \A t \in TaskId : task_runnable(tasks, t) => task_runnable(tasks', t)
  BY <1>1, <1>2, CalmKeeps
<1>5. frame.id \in TaskId /\ frame.next \in TaskId
  BY DEF DispatchInv, TypeOK, Frame
<1>6. OnlyRunnableCalled'
  BY <1>2, <1>4, <1>5 DEF DispatchInv, DispatchSafe, OnlyRunnableCalled
<1>7. (pc \in Switching \cup {"refill"} => Enterable(frame.next))'
  BY <1>2, <1>4, <1>5 DEF DispatchInv, Switching, Enterable
<1> QED
  BY <1>2, <1>3, <1>4, <1>6, <1>7 DEF DispatchInv, DispatchSafe, Switching

\* Every step of the idle loop preserves the invariant.
LEMMA IdleSafe ==
    ASSUME DispatchInv, idle_loop
    PROVE  DispatchInv'
<1>1. /\ tasks' \in [TaskId -> Task] /\ Calm(tasks, tasks')
      /\ UNCHANGED <<scene, task_count>>
  BY IdleCalm DEF idle_loop, read_tick, dispatch_ready, dispatch_loop, dispatch_loop_ends,
     dispatch_current, call_run_task, finish, run_task, mark_running, activate,
     entry_returns, settle, maybe_reschedule, refill, switch_to, switch_old,
     switch_current, switch_new, size
<1>2. /\ TypeOK /\ frame \in Frame /\ frame.id \in TaskId /\ frame.next \in TaskId
      /\ frame.i \in Nat /\ frame.budget \in Int
      /\ frame.caller \in {"loop", "halt"} /\ frame.cont \in {"call", "mark", "finish"}
      /\ task_count \in Nat \ {0} /\ current \in 0..(task_count - 1)
      /\ \A t \in 0..(task_count - 1) : t \in TaskId
      /\ 0 \in TaskId /\ current \in TaskId
      /\ slot_used(current) /\ tasks[current].state # "UNUSED"
      /\ \A s \in Scenes : s.budget \in Nat
  BY IdleInTable, SchedulerAssumption
     DEF DispatchInv, TypeOK, Frame, DispatchSafe, FallbackExists, slot_used
<1>3. current' \in 0..(task_count - 1) /\ tasks[current'].state # "UNUSED"
  <2>1. CASE UNCHANGED current
    BY <1>2, <2>1
  <2>2. CASE switch_current
    <3>1. current' = frame.next /\ Enterable(frame.next)
      BY <2>2 DEF switch_current, Goto, DispatchInv, Switching
    <3> QED
      BY <1>2, <3>1 DEF Enterable, TaskId, state_runnable
  <2> QED
    BY <2>1, <2>2 DEF idle_loop, read_tick, dispatch_ready, dispatch_loop,
       dispatch_loop_ends, dispatch_current, call_run_task, finish, run_task,
       mark_running, activate, entry_returns, settle, maybe_reschedule, refill,
       switch_to, switch_old, switch_new, sched
<1>4. /\ FallbackExists'
      /\ \A t \in TaskId : Enterable(t) => Enterable(t)'
      /\ \A t \in TaskId : task_runnable(tasks, t) => task_runnable(tasks', t)
  BY <1>1, <1>3, CalmKeeps
<1> DEFINE Calls == pc \in Switching \cup {"mark", "activate"} /\ frame.cont = "mark"
           Rest == /\ frame \in Frame
                   /\ pc \in Place
                   /\ resched \in BOOLEAN /\ late \in BOOLEAN /\ stale \in BOOLEAN
                   /\ dispatch_active = (pc = "entry")
                   /\ pc = "check" => frame.id < task_count
                   /\ pc \in Switching /\ frame.cont = "mark" => frame.next = frame.id
                   /\ pc \in {"mark", "activate"} => frame.cont = "mark"
                   /\ pc \in {"resched", "refill"} => frame.cont \in {"call", "finish"}
           Enters == pc \in Switching \cup {"refill"} => Enterable(frame.next)
<1>5. Rest
  BY DEF DispatchInv, TypeOK
<1>6. /\ Calls => task_runnable(tasks, frame.id)
      /\ Enters
  BY DEF DispatchInv, DispatchSafe, OnlyRunnableCalled, Switching
<1>7. ASSUME Rest', (Calls => task_runnable(tasks, frame.id))', Enters'
      PROVE  DispatchInv'
  <2>1. TypeOK'
    BY <1>1, <1>2, <1>3, <1>7 DEF TypeOK
  <2> QED
    BY <1>4, <1>7, <2>1 DEF DispatchInv, DispatchSafe, OnlyRunnableCalled, Switching
<1>8. ASSUME UNCHANGED frame, Calls' => Calls,
             pc' \in Switching \cup {"refill"} => pc \in Switching \cup {"refill"}
      PROVE  (Calls => task_runnable(tasks, frame.id))' /\ Enters'
  BY <1>2, <1>4, <1>6, <1>8
<1>9. ASSUME pc' \notin Switching \cup {"mark", "activate", "refill"}
      PROVE  (Calls => task_runnable(tasks, frame.id))' /\ Enters'
  BY <1>9
<1> USE DEF Goto, sched
<1>10. CASE read_tick \/ activate \/ entry_returns
  <2>1. Rest' /\ UNCHANGED frame
    BY <1>5, <1>10 DEF read_tick, activate, entry_returns, Place, Switching
  <2>2. Calls' => Calls
    BY <1>5, <1>10, <2>1 DEF read_tick, activate, entry_returns, Switching
  <2> QED
    BY <1>7, <1>8, <1>10, <2>1, <2>2 DEF read_tick, activate, entry_returns, Switching
<1>11. CASE dispatch_ready
  <2>1. Rest'
    BY <1>2, <1>5, <1>11, IdleInTable
       DEF dispatch_ready, Place, Switching, Loop, Frame, TypeOK, DispatchInv
  <2> QED
    BY <1>7, <1>9, <1>11, <2>1 DEF dispatch_ready, Switching
<1>12. CASE dispatch_loop
  <2>1. idx \in 0..(task_count - 1) /\ idx \in TaskId
    <3>1. current + frame.i \in Nat
      BY <1>2
    <3> QED
      BY <1>2, <3>1, ModInRange DEF idx
  <2>2. /\ pc' \in {"loop", "check"} /\ pc = "loop"
        /\ frame' \in Frame
        /\ pc' = "check" => frame'.id = idx
        /\ UNCHANGED <<task_count, resched, late, stale, dispatch_active>>
    <3>1. /\ pc = "loop"
          /\ \/ pc' = "check" /\ frame' = [frame EXCEPT !.id = idx, !.caller = "loop"]
             \/ pc' = "loop" /\ frame' = [frame EXCEPT !.i = @ + 1]
          /\ UNCHANGED <<task_count, resched, late, stale, dispatch_active>>
      BY <1>12 DEF dispatch_loop, size
    <3>2. CASE frame' = [frame EXCEPT !.id = idx, !.caller = "loop"] /\ pc' = "check"
      BY <1>2, <2>1, <3>1, <3>2 DEF Frame
    <3>3. CASE frame' = [frame EXCEPT !.i = @ + 1] /\ pc' = "loop"
      BY <1>2, <3>1, <3>3 DEF Frame
    <3> QED
      BY <3>1, <3>2, <3>3
  <2>3. Rest'
    BY <1>2, <1>5, <2>1, <2>2 DEF Place, Switching
  <2> QED
    BY <1>7, <1>9, <2>2, <2>3 DEF Switching
<1>13. CASE dispatch_loop_ends \/ finish
  <2>1. Rest'
    BY <1>2, <1>5, <1>13 DEF dispatch_loop_ends, finish, Place, Switching, Frame, Loop
  <2> QED
    BY <1>2, <1>7, <1>9, <1>13, <2>1 DEF dispatch_loop_ends, finish, Switching
<1>14. CASE dispatch_current \/ call_run_task \/ settle
  <2>1. CASE dispatch_current
    <3>1. Rest'
      BY <1>2, <1>5, <2>1 DEF dispatch_current, Place, Switching, Frame
    <3> QED
      BY <1>7, <1>9, <2>1, <3>1 DEF dispatch_current, Switching
  <2>2. CASE call_run_task
    <3>1. frame' \in Frame /\ frame'.id = current
      BY <1>2, <2>2 DEF call_run_task, Frame
    <3>2. Rest'
      BY <1>1, <1>2, <1>5, <2>2, <3>1 DEF call_run_task, Place, Switching
    <3> QED
      BY <1>7, <1>9, <2>2, <3>2 DEF call_run_task, Switching
  <2>3. CASE settle
    <3>1. Rest'
      BY <1>2, <1>5, <2>3 DEF settle, Place, Switching, Frame
    <3> QED
      BY <1>7, <1>9, <2>3, <3>1 DEF settle, Switching
  <2> QED
    BY <1>14, <2>1, <2>2, <2>3
<1>15. CASE run_task
  <2>1. Rest'
    BY <1>2, <1>5, <1>15 DEF run_task, Place, Switching, Frame
  <2>2. /\ pc' # "finish" => task_runnable(tasks, frame.id)
        /\ pc' \in {"finish", "switch", "mark"}
        /\ frame'.id = frame.id /\ frame'.next = frame.id
        /\ UNCHANGED <<tasks, task_count>>
    <3>1. /\ frame' = [frame EXCEPT !.next = frame.id, !.cont = "mark"]
          /\ UNCHANGED <<tasks, task_count>>
      BY <1>15 DEF run_task, size
    <3>2. /\ pc' # "finish" => task_runnable(tasks, frame.id)
          /\ pc' \in {"finish", "switch", "mark"}
      BY <1>15 DEF run_task
    <3> QED
      BY <1>2, <3>1, <3>2 DEF Frame
  <2>3. frame.id < task_count
    BY <1>5, <1>15 DEF run_task
  <2> QED
    BY <1>2, <1>4, <1>7, <2>1, <2>2, <2>3 DEF Switching, Enterable, task_runnable,
                                                state_runnable
<1>16. CASE mark_running
  <2>1. Rest' /\ UNCHANGED frame
    BY <1>5, <1>16 DEF mark_running, Place, Switching
  <2> QED
    BY <1>5, <1>7, <1>8, <1>16, <2>1 DEF mark_running, Switching
<1>17. CASE maybe_reschedule
  <2> DEFINE n == next_runnable_task(tasks, current)
  <2>1. n \in 0..(task_count - 1) /\ n \in TaskId /\ state_runnable(tasks[n].state)
    <3>1. tasks \in [TaskId -> Task] /\ state_runnable(tasks[0].state)
      BY DEF DispatchInv, DispatchSafe, FallbackExists, TypeOK
    <3> QED
      BY <1>2, <3>1, NextIsRunnable
  <2> HIDE DEF n
  <2>2. CASE resched
    <3>1. /\ frame' = [frame EXCEPT !.next = n] /\ pc' = "refill" /\ pc = "resched"
          /\ resched' = FALSE
          /\ UNCHANGED <<tasks, task_count, dispatch_active, late, stale>>
      BY <1>17, <2>2 DEF maybe_reschedule, size, n
    <3>2. Rest' /\ frame'.next = n
      BY <1>2, <1>5, <2>1, <3>1 DEF Place, Switching, Frame
    <3> QED
      BY <1>2, <1>7, <2>1, <3>1, <3>2 DEF Switching, Enterable, state_runnable
  <2>3. CASE ~resched
    <3>1. /\ UNCHANGED frame /\ pc' = frame.cont /\ frame.cont \in {"call", "finish"}
          /\ pc = "resched"
      BY <1>5, <1>17, <2>3 DEF maybe_reschedule
    <3>2. Rest'
      BY <1>5, <1>17, <3>1 DEF maybe_reschedule, Place, Switching
    <3> QED
      BY <1>7, <1>9, <3>1, <3>2 DEF Switching
  <2> QED
    BY <2>2, <2>3
<1>18. CASE refill \/ switch_old \/ switch_current \/ switch_new
  <2>1. Rest' /\ UNCHANGED frame
    BY <1>2, <1>5, <1>18 DEF refill, switch_old, switch_current, switch_new, Place,
                             Switching
  <2> QED
    BY <1>5, <1>7, <1>8, <1>18, <2>1 DEF refill, switch_old, switch_current, switch_new,
                                         Switching
<1>19. CASE switch_to
  <2>1. Rest' /\ frame'.id = frame.id /\ frame'.next = frame.next
        /\ frame'.cont = frame.cont
    BY <1>2, <1>5, <1>19 DEF switch_to, Place, Switching, Frame
  <2> QED
    BY <1>2, <1>4, <1>5, <1>6, <1>7, <1>19, <2>1 DEF switch_to, Switching
<1> QED
  BY <1>10, <1>11, <1>12, <1>13, <1>14, <1>15, <1>16, <1>17, <1>18, <1>19 DEF idle_loop

-----------------------------------------------------------------------------
(* Entries and the theorems                                                 *)

\* Every call an entry may make preserves the invariant: none of them stops, puts to
\* sleep or removes the idle task, and removing the current one falls back to it.
LEMMA EntrySafe ==
    ASSUME DispatchInv, entry_calls, UNCHANGED scene
    PROVE  DispatchInv'
<1>1. /\ TypeOK /\ tasks \in [TaskId -> Task]
      /\ task_count \in Nat \ {0} /\ scene.max \in 1..MaxTasks /\ task_count <= scene.max
      /\ 0 \in TaskId /\ current \in TaskId /\ current \in 0..(task_count - 1)
      /\ state_runnable(tasks[0].state) /\ tasks[current].state # "UNUSED"
      /\ resched \in BOOLEAN /\ stale \in BOOLEAN /\ pc = "entry"
  <2>1. pc = "entry"
    BY DEF entry_calls
  <2> QED
    BY <2>1, IdleInTable DEF DispatchInv, TypeOK, DispatchSafe, FallbackExists, slot_used
<1>2. ASSUME UNCHANGED <<pc, frame, late, dispatch_active>>,
             tasks' \in [TaskId -> Task], task_count' \in task_count..scene.max,
             current' \in 0..(task_count - 1), resched' \in BOOLEAN, stale' \in BOOLEAN,
             state_runnable(tasks'[0].state), tasks'[current'].state # "UNUSED"
      PROVE  DispatchInv'
  <2>1. TypeOK'
    <3>1. MaxTasks \in Nat /\ scene' = scene
      BY SchedulerAssumption
    <3>2. task_count' \in Nat /\ task_count <= task_count' /\ task_count' <= scene.max
      BY <1>1, <1>2, <3>1
    <3>3. task_count' \in 1..scene.max
      BY <1>1, <3>1, <3>2
    <3>4. current' \in 0..(task_count' - 1)
      BY <1>1, <1>2, <3>2, IndexInLonger
    <3> QED
      BY <1>1, <1>2, <3>1, <3>3, <3>4 DEF TypeOK
  <2>2. DispatchSafe'
    BY <1>1, <1>2 DEF DispatchSafe, FallbackExists, slot_used, OnlyRunnableCalled
  <2> QED
    BY <1>1, <1>2, <2>1, <2>2 DEF DispatchInv, Switching
<1>3. ASSUME NEW T \in [TaskId -> Task], NEW request \in BOOLEAN, Changes(T, request),
             state_runnable(T[0].state), T[current].state # "UNUSED"
      PROVE  DispatchInv'
  BY <1>1, <1>2, <1>3 DEF Changes, size
<1>4. CASE UNCHANGED vars
  BY <1>1, <1>2, <1>4 DEF vars, size, sched
<1>5. ASSUME NEW t \in TaskId, NEW delay \in Nat, t # 0, Sleep(t, delay)
      PROVE  DispatchInv'
  <2> DEFINE T == [tasks EXCEPT ![t].state = "SLEEPING", ![t].wake = delay,
                                ![t].remaining = tasks[t].slice]
  <2>1. T \in [TaskId -> Task] /\ state_runnable(T[0].state)
        /\ T[current].state # "UNUSED"
    BY <1>1, <1>5, ZenonT(30) DEF Task, State
  <2>2. Changes(T, t = current)
    BY <1>5 DEF Sleep
  <2> HIDE DEF T
  <2> QED
    BY <1>3, <2>1, <2>2
<1>6. ASSUME NEW t \in TaskId, NEW r \in BOOLEAN,
             Changes([tasks EXCEPT ![t].remaining = 0], r)
      PROVE  DispatchInv'
  <2> DEFINE T == [tasks EXCEPT ![t].remaining = 0]
  <2>1. T \in [TaskId -> Task] /\ state_runnable(T[0].state)
        /\ T[current].state # "UNUSED"
    BY <1>1 DEF Task, State
  <2> HIDE DEF T
  <2> QED
    BY <1>3, <1>6, <2>1 DEF T
<1>7. CASE yield_current
  BY <1>1, <1>4, <1>6, <1>7 DEF yield_current
<1>8. ASSUME NEW t \in TaskId, yield_task(t) PROVE DispatchInv'
  BY <1>4, <1>6, <1>8 DEF yield_task
<1>9. ASSUME NEW d \in Delays, sleep_current(d) PROVE DispatchInv'
  BY <1>1, <1>4, <1>5, <1>7, <1>9, SchedulerAssumption DEF sleep_current
<1>10. ASSUME NEW t \in TaskId, NEW d \in Delays, sleep_task(t, d) PROVE DispatchInv'
  BY <1>5, <1>10, SchedulerAssumption DEF sleep_task
<1>11. ASSUME NEW t \in TaskId, NEW s \in SetStates, set_task_state(t, s)
       PROVE  DispatchInv'
  <2> DEFINE s1 == IF s = "RUNNING" /\ t # current THEN "READY" ELSE s
             T == [tasks EXCEPT ![t].state = s1]
             r == t = current /\ ~state_runnable(s1)
  <2>1. s1 \in State /\ s1 # "UNUSED" /\ (t = 0 => state_runnable(s1))
    BY <1>11, SchedulerAssumption DEF set_task_state, State, state_runnable
  <2>2. Changes(T, r)
    BY <1>11 DEF set_task_state
  <2> HIDE DEF s1
  <2>3. T \in [TaskId -> Task] /\ state_runnable(T[0].state)
        /\ T[current].state # "UNUSED"
    BY <1>1, <2>1 DEF Task
  <2>4. r \in BOOLEAN
    OBVIOUS
  <2> HIDE DEF T, r
  <2> QED
    BY <1>3, <2>2, <2>3, <2>4
<1>12. ASSUME NEW t \in TaskId, wake_task(t) PROVE DispatchInv'
  <2> DEFINE T == [tasks EXCEPT ![t].state = "READY", ![t].wake = 0,
                      ![t].remaining = IF @ = 0 THEN tasks[t].slice ELSE @]
  <2> DEFINE r == IF tasks[t].remaining = 0 THEN tasks[t].slice ELSE tasks[t].remaining
             q == [tasks[t] EXCEPT !.state = "READY", !.wake = 0, !.remaining = r]
  <2>1. T = [tasks EXCEPT ![t] = q]
    BY <1>1 DEF Task
  <2>1a. q \in Task /\ q.state = "READY"
    <3>1. r \in Nat /\ tasks[t] \in Task
      BY <1>1 DEF Task
    <3> HIDE DEF r
    <3> QED
      BY <3>1 DEF Task, State
  <2>1b. /\ T \in [TaskId -> Task]
         /\ state_runnable(T[0].state) /\ T[current].state # "UNUSED"
    <3> HIDE DEF T, q
    <3> QED
      BY <1>1, <2>1, <2>1a DEF state_runnable
  <2>2. Changes(T, FALSE)
    BY <1>12 DEF wake_task
  <2> HIDE DEF T
  <2> QED
    BY <1>3, <2>1, <2>1b, <2>2
<1>13. CASE add_task(1, FALSE)
  <2> DEFINE t == NewSlot
  <2>1. t \in 1..task_count
    <3>1. FreeSlots \in SUBSET Nat /\ FreeSlots \subseteq 1..(task_count - 1)
      BY <1>1 DEF FreeSlots
    <3>2. CASE FreeSlots = {}
      BY <1>1, <3>2 DEF NewSlot
    <3>3. CASE FreeSlots # {}
      <4>1. \E m \in FreeSlots : \A u \in FreeSlots : m <= u
        BY <3>1, <3>3, LeastNatural
      <4>2. NewSlot \in FreeSlots
        BY <3>3, <4>1 DEF NewSlot
      <4> QED
        BY <1>1, <3>1, <4>2
    <3> QED
      BY <3>2, <3>3
  <2> HIDE DEF t
  <2>2. /\ t < scene.max
        /\ tasks' = [tasks EXCEPT ![t] = [state |-> "READY", entry |-> FALSE, slice |-> 1,
                                          remaining |-> 1, wake |-> 0]]
        /\ task_count' = IF t = task_count THEN task_count + 1 ELSE task_count
        /\ stale' = (stale \/ Grows)
        /\ UNCHANGED <<sched, pc, frame, late>>
    BY <1>13 DEF add_task, t
  <2>3. Grows \in BOOLEAN
    BY DEF Grows
  <2>4. tasks' \in [TaskId -> Task] /\ state_runnable(tasks'[0].state)
        /\ tasks'[current].state # "UNUSED"
    <3>1. t \in TaskId /\ t # 0
      BY <1>1, <2>1, <2>2, SchedulerAssumption DEF TaskId
    <3> QED
      BY <1>1, <2>2, <3>1 DEF Task, State
  <2>5. task_count' \in task_count..scene.max
    BY <1>1, <2>1, <2>2
  <2> QED
    BY <1>1, <1>2, <2>2, <2>3, <2>4, <2>5 DEF sched
<1>14. ASSUME NEW t \in TaskId, remove_task(t) PROVE DispatchInv'
  <2>1. /\ tasks' = [tasks EXCEPT ![t] = NoTask] /\ t # 0
        /\ current' = IF t = current THEN 0 ELSE current
        /\ resched' = (resched \/ t = current)
        /\ UNCHANGED <<task_count, dispatch_active, pc, frame, late, stale>>
    BY <1>14 DEF remove_task
  <2>2. tasks' \in [TaskId -> Task] /\ state_runnable(tasks'[0].state)
    BY <1>1, <2>1 DEF Task, State, NoTask
  <2>3. tasks'[current'].state # "UNUSED"
    BY <1>1, <2>1 DEF Task, state_runnable
  <2> QED
    BY <1>1, <1>2, <2>1, <2>2, <2>3
<1> QED
  BY <1>7, <1>8, <1>9, <1>10, <1>11, <1>12, <1>13, <1>14 DEF entry_calls

\* clks_scheduler_init, and the tasks of kmain, establish the invariant.
LEMMA InitSafe == Init => DispatchInv
<1> SUFFICES ASSUME Init PROVE DispatchInv
  OBVIOUS
<1>1. /\ scene \in Scenes /\ scene.max \in 1..MaxTasks /\ MaxTasks \in Nat
      /\ scene.tasks \in Nat /\ scene.tasks < scene.max /\ scene.slices \subseteq Nat
  <2>1. scene \in Scenes
    BY DEF Init
  <2> QED
    BY <2>1, SchedulerAssumption
<1>2. PICK slice \in [1..scene.tasks -> scene.slices] :
        tasks = [t \in TaskId |->
                    IF t = 0
                    THEN [state |-> "RUNNING", entry |-> FALSE, slice |-> 1,
                          remaining |-> 1, wake |-> 0]
                    ELSE IF t <= scene.tasks
                    THEN [state |-> "READY", entry |-> TRUE, slice |-> slice[t],
                          remaining |-> slice[t], wake |-> 0]
                    ELSE NoTask]
  BY DEF Init
<1>3. 0 \in TaskId
  BY <1>1 DEF TaskId
<1>4. \A t \in TaskId : t # 0 /\ t <= scene.tasks => slice[t] \in Nat
  BY <1>1, <1>2 DEF TaskId
<1>5. tasks \in [TaskId -> Task] /\ tasks[0].state = "RUNNING"
  BY <1>2, <1>3, <1>4 DEF Task, State, NoTask
<1>6. task_count = scene.tasks + 1 /\ task_count \in 1..scene.max
  BY <1>1 DEF Init
<1>7. current = 0 /\ current \in 0..(task_count - 1)
  BY <1>1, <1>6 DEF Init
<1>8. frame = Loop(0, 0) /\ frame \in Frame
  BY <1>3 DEF Init, Loop, Frame
<1>9. TypeOK
  BY <1>1, <1>5, <1>6, <1>7, <1>8 DEF TypeOK, Init, Place, Switching
<1>10. pc = "pass" /\ dispatch_active = FALSE
  BY DEF Init
<1>11. FallbackExists
  BY <1>5, <1>6, <1>7, <1>1 DEF FallbackExists, slot_used, state_runnable
<1> QED
  BY <1>9, <1>10, <1>11 DEF DispatchInv, DispatchSafe, OnlyRunnableCalled, Switching

\* Every step preserves the invariant.
LEMMA NextSafe == DispatchInv /\ [Next]_vars => DispatchInv'
<1> SUFFICES ASSUME DispatchInv, [Next]_vars PROVE DispatchInv'
  OBVIOUS
<1>1. CASE timer_interrupt
  BY <1>1, TickSafe
<1>2. CASE idle_loop
  BY <1>2, IdleSafe
<1>3. CASE entry_calls /\ UNCHANGED scene
  BY <1>3, EntrySafe
<1>4. ASSUME UNCHANGED <<scene, tasks, size, sched, frame, late, stale>>,
             \/ UNCHANGED pc
             \/ pc = "halt" /\ pc' = "pass"
      PROVE  DispatchInv'
  <2>1. UNCHANGED <<scene, tasks, task_count, current, dispatch_active, resched, frame,
                    late, stale>>
    BY <1>4 DEF size, sched
  <2>2. TypeOK'
    BY <1>4, <2>1 DEF DispatchInv, TypeOK, Place
  <2> QED
    BY <1>4, <2>1, <2>2 DEF DispatchInv, DispatchSafe, FallbackExists, slot_used,
       OnlyRunnableCalled, Switching, Enterable, state_runnable, task_runnable
<1>5. CASE hlt_wakes /\ UNCHANGED scene
  BY <1>4, <1>5 DEF hlt_wakes, Goto
<1>6. CASE UNCHANGED vars
  BY <1>4, <1>6 DEF vars
<1> QED
  BY <1>1, <1>2, <1>3, <1>5, <1>6 DEF Next

\* Dispatching is safe: whatever the entries do and wherever the timer strikes, the idle
\* task stays runnable, the current task exists, and run_task calls no entry that is
\* missing or whose task is asleep, blocked, stopped or gone (clks_sched_run_task,
\* clks_scheduler_remove_task, clks_scheduler_set_task_state).
THEOREM DispatchIsSafe == Spec => []DispatchSafe
<1>1. Init => DispatchInv
  BY InitSafe
<1>2. DispatchInv /\ [Next]_vars => DispatchInv'
  BY NextSafe
<1>3. DispatchInv => DispatchSafe
  BY DEF DispatchInv
<1> QED
  BY <1>1, <1>2, <1>3, PTL DEF Spec

\* Outside of an explicit call of an entry nobody wakes a sleeper before its tick
\* (clks_sched_wake_sleepers): neither a pass whose tick is out of date nor a switch.
THEOREM NobodyWakesEarly == Spec => NoEarlyWake
<1> DEFINE Early == \A t \in TaskId :
                       tasks[t].state = "SLEEPING" /\ tasks'[t].state # "SLEEPING"
                           /\ pc # "entry"
                           => tasks[t].wake = 0 \/ (tasks[t].wake = 1 /\ late')
<1>1. ASSUME DispatchInv, [Next]_vars PROVE Early
  <2>1. CASE timer_interrupt
    <3>1. late' = TRUE
      BY <2>1 DEF timer_interrupt
    <3>2. \A t \in TaskId :
             tasks[t].state = "SLEEPING" /\ tasks'[t].state # "SLEEPING"
                => tasks[t].wake \in {0, 1}
      BY <1>1, <2>1, TickCalm
    <3> QED
      BY <3>1, <3>2
  <2>2. CASE idle_loop
    BY <1>1, <2>2, IdleCalm
  <2>3. CASE entry_calls
    BY <2>3 DEF entry_calls
  <2>4. CASE hlt_wakes \/ UNCHANGED vars
    BY <2>4 DEF hlt_wakes, vars
  <2> QED
    BY <1>1, <2>1, <2>2, <2>3, <2>4 DEF Next
<1>2. Init => DispatchInv
  BY InitSafe
<1>3. DispatchInv /\ [Next]_vars => DispatchInv'
  BY NextSafe
<1> QED
  BY <1>1, <1>2, <1>3, PTL DEF Spec, NoEarlyWake
=============================================================================
