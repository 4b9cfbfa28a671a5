----------------------------- MODULE MCScheduler -----------------------------
(* The scheduler with the timer at every point, for each family of calls, and *)
(* with more tasks and longer slices.                                         *)
EXTENDS Scheduler

PC == {"halt", "pass", "ready", "loop", "current", "call", "check", "mark",
       "activate", "entry", "return", "settle", "finish", "resched", "refill",
       "switch", "switch_old", "switch_current", "switch_new"}
Races(slice, calls) == Scene(2, {slice}, 3, 3, 2, calls, PC)
MCScenes ==
    {Races(1, {"add_task", "remove_task", "sleep_current"}),
     Races(1, {"sleep_task", "sleep_current", "wake_task"}),
     Races(2, {"yield_current", "set_task_state", "remove_task"}),
     Races(1, {"yield_task", "set_task_state"}),
     Scene(3, {1, 2, 3}, 8, 5, 32, {"add_task"}, {"halt", "entry"})}
=============================================================================
