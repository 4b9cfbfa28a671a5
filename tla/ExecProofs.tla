----------------------------- MODULE ExecProofs -----------------------------
(***************************************************************************)
(* The stack of calls and the process table agree, yielding always         *)
(* suspends, nobody runs in a destroyed address space and an exit is       *)
(* final, for every number of slots, every depth of the stack and every    *)
(* number of processes.                                                    *)
(*                                                                         *)
(* The invariants are stated of any table P, stack S and set Sp of address *)
(* spaces, so that what an edit of one record, of the top frame, a push    *)
(* and a pop do to them are lemmas; a step then says which edits it makes. *)
(***************************************************************************)
EXTENDS Exec, SequenceTheorems, WellFoundedInduction, TLAPS

-----------------------------------------------------------------------------
(* Indices of the table                                                     *)

\* A remainder is an index: the dispatch loop indexes the table with one.
LEMMA ModInRange ==
    ASSUME NEW a \in Nat, NEW n \in Nat \ {0}
    PROVE  a % n \in 0..(n - 1)
OBVIOUS

\* A set of naturals that is not empty has a least element: the first free slot and the
\* next pending process are such.
LEMMA LeastNatural ==
    ASSUME NEW S \in SUBSET Nat, S # {}
    PROVE  \E m \in S : \A n \in S : m <= n
<1>1. PICK m \in S : \A n \in S : ~(<<n, m>> \in OpToRel(<, Nat))
  BY NatLessThanWellFounded, WFMin, Zenon
<1>2. \A n \in S : ~(n < m)
  BY <1>1 DEF OpToRel
<1> QED
  BY <1>2
-----------------------------------------------------------------------------

Status == {"error", "ok", "signal", "failed"}
State == {"UNUSED", "PENDING", "RUNNING", "STOPPED", "EXITED"}
Reason == {"NONE", "YIELD", "SLEEP", "TTY_INPUT", "PTY_INPUT", "WAIT_CHILD"}
Proc == [pid : Nat, state : State, reason : Reason, loaded : BOOLEAN, stack : BOOLEAN,
         saved : BOOLEAN, space : Int, fds : BOOLEAN, status : Status]
Frame == [slot : Slot, pid : Nat, exit : BOOLEAN, status : Status, stop : BOOLEAN,
          unwind : BOOLEAN, prev : Int, by : {"tick", "sleep", "run", "wait"}]
Place == {"usrd", "tick", "load", "user", "returned", "suspending", "settle", "pop",
          "sleeping", "sync_wait"}

TypeOK ==
    /\ max_depth \in Depths
    /\ next_pid \in Nat \ {0}
    /\ active \in BOOLEAN /\ input \in BOOLEAN
    /\ cursor \in Slot /\ sync_slot \in Slot
    /\ pc \in Place
    /\ ret \in Status \cup {"SUSPEND"}

\* A record p of the table, when the address spaces Sp exist and n is the next pid:
\* its pid was handed out, its address space is its own and exists exactly while it
\* is held, what was saved is whole, and one that exited holds nothing.
RecordOK(p, Sp, n) ==
    /\ p \in Proc
    /\ p.state = "UNUSED" => p = NoProc
    /\ p.state # "UNUSED" => /\ p.pid \in 1..(n - 1)
                             /\ p.space \in {None, Kernel, p.pid}
                             /\ p.space = p.pid <=> p.pid \in Sp
    /\ p.saved => p.loaded /\ p.stack
    /\ p.state = "EXITED" => ~p.loaded /\ ~p.stack /\ ~p.fds /\ p.space = None

\* The table P: no two of its processes have the same pid.
TableOK(P, Sp, n) ==
    /\ P \in [Slot -> Proc]
    /\ Sp \subseteq 1..(n - 1)
    /\ \A s \in Slot : RecordOK(P[s], Sp, n)
    /\ \A s, t \in Slot : P[s].state # "UNUSED" /\ P[t].state # "UNUSED"
                             /\ P[s].pid = P[t].pid => s = t

\* A process that called the kernel from the frame f.
Inside(f, P) ==
    /\ f.unwind
    /\ P[f.slot].state = "RUNNING" /\ P[f.slot].loaded /\ P[f.slot].stack

\* The stack S: each frame is that of a process of the table P of its own, the frames
\* below the top are inside, and each returns to the address space below it.
StackOK(S, P) ==
    /\ S \in Seq(Frame)
    /\ \A i \in 1..Len(S) :
          /\ P[S[i].slot].state # "UNUSED" /\ P[S[i].slot].pid = S[i].pid
          /\ S[i].by = IF i = 1 THEN "tick" ELSE "run"
          /\ S[i].prev = IF i = 1 THEN Kernel ELSE AddressSpace(P[S[i - 1].slot])
    /\ \A i, j \in 1..Len(S) : S[i].slot = S[j].slot => i = j
    /\ \A i \in 1..(Len(S) - 1) : Inside(S[i], P)

\* A running process has a frame.
RunningOnStack(S, P) ==
    \A s \in Slot : P[s].state = "RUNNING" => \E i \in 1..Len(S) : S[i].slot = s

\* What is known of the top frame at each place of the kernel.
TopOK ==
    /\ depth = 0 <=> pc \in {"usrd", "tick"}
    /\ active <=> depth > 0
    /\ pc \in {"user", "returned", "sleeping", "sync_wait"} => Inside(Top, procs)
    /\ pc \in {"load", "suspending", "settle"} => procs[Top.slot].state = "RUNNING"
    /\ pc = "pop" => procs[Top.slot].state \in {"PENDING", "STOPPED", "EXITED"}
    /\ cr3 = IF depth = 0 THEN Kernel
             ELSE IF pc = "pop" /\ procs[Top.slot].state # "PENDING" THEN cr3
             ELSE AddressSpace(procs[Top.slot])
    /\ cr3 \in spaces \cup {Kernel}

\* SUSPEND is the status of a call only while the process it suspended is whole.
SuspendOK ==
    /\ ret = "SUSPEND" => pc \notin {"user", "settle"}
    /\ pc = "returned" /\ ret = "SUSPEND" => procs[Top.slot].saved
    /\ pc = "suspending" => procs[Top.slot].saved
    /\ pc = "pop" /\ ret = "SUSPEND"
          => procs[Top.slot].state = "PENDING" /\ procs[Top.slot].saved
    /\ pc = "sync_wait" => procs[sync_slot].state = "PENDING" /\ procs[sync_slot].saved

\* Only the current process sleeps in the kernel, and nobody waits for a child there.
ReasonsOK ==
    \A s \in Slot : procs[s].reason \in {"SLEEP", "WAIT_CHILD"}
                       => pc = "sleeping" /\ s = Top.slot

ExecInv ==
    /\ TypeOK
    /\ TableOK(procs, spaces, next_pid)
    /\ StackOK(stack, procs)
    /\ RunningOnStack(stack, procs)
    /\ TopOK
    /\ SuspendOK
    /\ ReasonsOK

-----------------------------------------------------------------------------
(* Edits of the table                                                       *)

\* An edit of one record that keeps its pid and its address space.
LEMMA EditRecord ==
    ASSUME NEW P, NEW Sp, NEW n \in Nat \ {0}, TableOK(P, Sp, n), NEW s \in Slot, NEW q,
           RecordOK(q, Sp, n), P[s].state # "UNUSED", q.pid = P[s].pid
    PROVE  TableOK([P EXCEPT ![s] = q], Sp, n)
<1> DEFINE Q == [P EXCEPT ![s] = q]
<1>1. P \in [Slot -> Proc] /\ q \in Proc
  BY DEF TableOK, RecordOK
<1>2. Q \in [Slot -> Proc] /\ Q[s] = q /\ \A t \in Slot \ {s} : Q[t] = P[t]
  BY <1>1
<1> HIDE DEF Q
<1>3. \A t \in Slot : RecordOK(Q[t], Sp, n)
  BY <1>2 DEF TableOK
<1>4. \A t \in Slot : Q[t].pid = P[t].pid /\ (Q[t].state # "UNUSED" => P[t].state # "UNUSED")
  BY <1>2
<1>5. \A t, u \in Slot : Q[t].state # "UNUSED" /\ Q[u].state # "UNUSED"
                            /\ Q[t].pid = Q[u].pid => t = u
  BY <1>4 DEF TableOK
<1> QED
  BY <1>2, <1>3, <1>5 DEF TableOK, Q

\* An edit that gives the address space up, which is destroyed.
LEMMA ReleaseRecord ==
    ASSUME NEW P, NEW Sp, NEW n \in Nat \ {0}, TableOK(P, Sp, n), NEW s \in Slot, NEW q,
           P[s].state # "UNUSED", q \in Proc, q.pid = P[s].pid, q.state # "UNUSED",
           q.space = None, ~q.saved,
           q.state = "EXITED" => ~q.loaded /\ ~q.stack /\ ~q.fds
    PROVE  TableOK([P EXCEPT ![s] = q], Sp \ {P[s].space}, n)
<1> DEFINE Q == [P EXCEPT ![s] = q]
           Tp == Sp \ {P[s].space}
<1>1. P \in [Slot -> Proc] /\ Sp \subseteq 1..(n - 1)
  BY DEF TableOK
<1>2. Q \in [Slot -> Proc] /\ Q[s] = q /\ \A t \in Slot \ {s} : Q[t] = P[t]
  BY <1>1
<1> HIDE DEF Q
<1>3. RecordOK(q, Tp, n)
  <2>1. /\ P[s].pid \in 1..(n - 1) /\ P[s].space \in {None, Kernel, P[s].pid}
        /\ P[s].space = P[s].pid <=> P[s].pid \in Sp
    BY DEF TableOK, RecordOK
  <2>2. q.pid \notin Tp /\ q.pid # None
    BY <2>1 DEF None
  <2> QED
    BY <2>1, <2>2 DEF RecordOK
<1>4. ASSUME NEW t \in Slot \ {s} PROVE RecordOK(P[t], Tp, n)
  <2>1. RecordOK(P[t], Sp, n) /\ RecordOK(P[s], Sp, n)
    BY DEF TableOK
  <2>2. CASE P[t].state = "UNUSED"
    BY <2>1, <2>2 DEF RecordOK, NoProc
  <2>3. CASE P[t].state # "UNUSED"
    <3>1. P[t].pid # P[s].pid
      BY <2>3 DEF TableOK
    <3>2. P[t].pid # P[s].space
      BY <2>1, <2>3, <3>1 DEF RecordOK, None, Kernel
    <3> QED
      BY <2>1, <2>3, <3>2 DEF RecordOK
  <2> QED
    BY <2>2, <2>3
<1>5. \A t \in Slot : RecordOK(Q[t], Tp, n)
  BY <1>2, <1>3, <1>4
<1>6. \A t \in Slot : Q[t].pid = P[t].pid /\ (Q[t].state # "UNUSED" => P[t].state # "UNUSED")
  BY <1>2
<1>7. \A t, u \in Slot : Q[t].state # "UNUSED" /\ Q[u].state # "UNUSED"
                            /\ Q[t].pid = Q[u].pid => t = u
  BY <1>6 DEF TableOK
<1>8. Tp \subseteq 1..(n - 1)
  BY <1>1
<1> QED
  BY <1>2, <1>5, <1>7, <1>8 DEF TableOK, Q

\* A slot that is free or exited takes the next pid, or is wiped.
LEMMA NewRecord ==
    ASSUME NEW P, NEW Sp, NEW n \in Nat \ {0}, TableOK(P, Sp, n), NEW s \in Slot, NEW q,
           NEW space \in {n, Kernel}, P[s].state \in {"UNUSED", "EXITED"}, q \in Proc,
           \/ q = NoProc
           \/ q.state # "UNUSED" /\ q.state # "EXITED" /\ q.pid = n /\ q.space = space
              /\ ~q.saved
    PROVE  TableOK([P EXCEPT ![s] = q], (Sp \ {P[s].space}) \cup ({space} \ {Kernel}), n + 1)
<1> DEFINE Q == [P EXCEPT ![s] = q]
           Tp == (Sp \ {P[s].space}) \cup ({space} \ {Kernel})
<1>1. P \in [Slot -> Proc] /\ Sp \subseteq 1..(n - 1) /\ RecordOK(P[s], Sp, n)
  BY DEF TableOK
<1>2. Q \in [Slot -> Proc] /\ Q[s] = q /\ \A t \in Slot \ {s} : Q[t] = P[t]
  BY <1>1
<1> HIDE DEF Q
<1>3. P[s].space = None
  BY <1>1 DEF RecordOK, NoProc
<1>4. \A x \in 1..(n - 1) : x \in Tp <=> x \in Sp
  BY <1>3 DEF None
<1>5. n \in Tp <=> space = n
  BY <1>1 DEF Kernel
<1>6. RecordOK(q, Tp, n + 1)
  <2>1. CASE q = NoProc
    BY <2>1 DEF RecordOK, NoProc
  <2>2. CASE q # NoProc
    <3>1. n # Kernel /\ n \in 1..((n + 1) - 1)
      BY DEF Kernel
    <3> QED
      BY <2>2, <1>5, <3>1 DEF RecordOK
  <2> QED
    BY <2>1, <2>2
<1>7. ASSUME NEW t \in Slot \ {s} PROVE RecordOK(P[t], Tp, n + 1)
  <2>1. RecordOK(P[t], Sp, n)
    BY DEF TableOK
  <2>2. P[t].pid \in 1..(n - 1) => P[t].pid \in 1..((n + 1) - 1)
    OBVIOUS
  <2> QED
    BY <1>4, <2>1, <2>2 DEF RecordOK
<1>8. \A t \in Slot : RecordOK(Q[t], Tp, n + 1)
  BY <1>2, <1>6, <1>7
<1>9. ASSUME NEW t \in Slot, NEW u \in Slot, Q[t].state # "UNUSED", Q[u].state # "UNUSED",
             Q[t].pid = Q[u].pid
      PROVE  t = u
  <2>1. \A v \in Slot \ {s} : P[v].state # "UNUSED" => P[v].pid # n
    BY DEF TableOK, RecordOK
  <2>2. Q[s].state # "UNUSED" => Q[s].pid = n
    BY <1>2 DEF NoProc
  <2>3. CASE t # s /\ u # s
    BY <1>2, <1>9, <2>3 DEF TableOK
  <2> QED
    BY <1>2, <1>9, <2>1, <2>2, <2>3
<1>10. Tp \subseteq 1..((n + 1) - 1)
  <2> SUFFICES ASSUME NEW x \in Tp PROVE x \in 1..((n + 1) - 1)
    OBVIOUS
  <2>1. x \in 1..(n - 1) \/ x = n
    BY <1>1
  <2> QED
    BY <2>1
<1> QED
  BY <1>2, <1>8, <1>9, <1>10 DEF TableOK, Q

-----------------------------------------------------------------------------
(* Edits under the stack and of the stack                                   *)

\* An edit of the record of the top frame that keeps its pid.
LEMMA EditTop ==
    ASSUME NEW S, NEW P \in [Slot -> Proc], StackOK(S, P), RunningOnStack(S, P),
           Len(S) > 0, NEW q, q.pid = P[S[Len(S)].slot].pid, q.state # "UNUSED"
    PROVE  /\ StackOK(S, [P EXCEPT ![S[Len(S)].slot] = q])
           /\ RunningOnStack(S, [P EXCEPT ![S[Len(S)].slot] = q])
<1> DEFINE s == S[Len(S)].slot
           Q == [P EXCEPT ![s] = q]
<1>1. /\ S \in Seq(Frame) /\ Len(S) \in Nat /\ Len(S) \in 1..Len(S)
      /\ \A i \in 1..Len(S) : S[i] \in Frame /\ S[i].slot \in Slot
      /\ s \in Slot
  <2>1. S \in Seq(Frame) /\ Len(S) \in Nat
    BY LenProperties DEF StackOK
  <2>2. \A i \in 1..Len(S) : S[i] \in Frame
    BY <2>1, ElementOfSeq
  <2> QED
    BY <2>1, <2>2 DEF Frame
<1>2. Q[s] = q /\ \A t \in Slot \ {s} : Q[t] = P[t]
  BY <1>1
<1>3. \A i \in 1..(Len(S) - 1) : i \in 1..Len(S) /\ S[i].slot # s
  BY <1>1 DEF StackOK
<1> HIDE DEF Q
<1>4. \A i \in 1..(Len(S) - 1) : Q[S[i].slot] = P[S[i].slot]
  BY <1>1, <1>2, <1>3
<1>5. \A i \in 1..Len(S) : Q[S[i].slot].state # "UNUSED" /\ Q[S[i].slot].pid = S[i].pid
  BY <1>1, <1>2 DEF StackOK
<1>6. \A i \in 1..Len(S) : S[i].prev = IF i = 1 THEN Kernel ELSE AddressSpace(Q[S[i - 1].slot])
  <2> SUFFICES ASSUME NEW i \in 1..Len(S), i # 1
               PROVE  S[i].prev = AddressSpace(Q[S[i - 1].slot])
    BY DEF StackOK
  <2>1. i - 1 \in 1..(Len(S) - 1)
    BY <1>1
  <2>2. S[i].prev = AddressSpace(P[S[i - 1].slot])
    BY DEF StackOK
  <2> QED
    BY <1>4, <2>1, <2>2
<1>7. \A i \in 1..(Len(S) - 1) : Inside(S[i], Q)
  BY <1>4 DEF StackOK, Inside
<1>8. StackOK(S, Q)
  BY <1>5, <1>6, <1>7 DEF StackOK
<1>9. RunningOnStack(S, Q)
  BY <1>1, <1>2 DEF RunningOnStack
<1> QED
  BY <1>8, <1>9 DEF Q

\* An edit of a record without a frame.
LEMMA EditOther ==
    ASSUME NEW S, NEW P \in [Slot -> Proc], StackOK(S, P), RunningOnStack(S, P),
           NEW s \in Slot, \A i \in 1..Len(S) : S[i].slot # s, NEW q
    PROVE  /\ StackOK(S, [P EXCEPT ![s] = q])
           /\ q.state # "RUNNING" => RunningOnStack(S, [P EXCEPT ![s] = q])
<1> DEFINE Q == [P EXCEPT ![s] = q]
<1>1. /\ S \in Seq(Frame) /\ Len(S) \in Nat
      /\ \A i \in 1..Len(S) : S[i] \in Frame /\ S[i].slot \in Slot
  <2>1. S \in Seq(Frame) /\ Len(S) \in Nat
    BY LenProperties DEF StackOK
  <2>2. \A i \in 1..Len(S) : S[i] \in Frame
    BY <2>1, ElementOfSeq
  <2> QED
    BY <2>1, <2>2 DEF Frame
<1>2. Q[s] = q /\ \A t \in Slot \ {s} : Q[t] = P[t]
  OBVIOUS
<1> HIDE DEF Q
<1>3. \A i \in 1..Len(S) : Q[S[i].slot] = P[S[i].slot]
  BY <1>1, <1>2
<1>4. \A i \in 1..Len(S) : S[i].prev = IF i = 1 THEN Kernel ELSE AddressSpace(Q[S[i - 1].slot])
  <2> SUFFICES ASSUME NEW i \in 1..Len(S), i # 1
               PROVE  S[i].prev = AddressSpace(Q[S[i - 1].slot])
    BY DEF StackOK
  <2>1. i - 1 \in 1..Len(S)
    BY <1>1
  <2>2. S[i].prev = AddressSpace(P[S[i - 1].slot])
    BY DEF StackOK
  <2> QED
    BY <1>3, <2>1, <2>2
<1>5. \A i \in 1..(Len(S) - 1) : Inside(S[i], Q)
  BY <1>1, <1>3 DEF StackOK, Inside
<1>6. StackOK(S, Q)
  BY <1>3, <1>4, <1>5 DEF StackOK
<1>7. q.state # "RUNNING" => RunningOnStack(S, Q)
  BY <1>2 DEF RunningOnStack
<1> QED
  BY <1>6, <1>7 DEF Q

\* An edit of the top frame that keeps whose it is and where it returns to.
LEMMA EditFrame ==
    ASSUME NEW S, NEW P \in [Slot -> Proc], StackOK(S, P), RunningOnStack(S, P),
           Len(S) > 0, NEW g \in Frame, g.slot = S[Len(S)].slot, g.pid = S[Len(S)].pid,
           g.by = S[Len(S)].by, g.prev = S[Len(S)].prev
    PROVE  LET R == [S EXCEPT ![Len(S)] = g]
           IN  /\ StackOK(R, P) /\ RunningOnStack(R, P)
               /\ Len(R) = Len(S) /\ R[Len(S)] = g
<1> DEFINE R == [S EXCEPT ![Len(S)] = g]
<1>1. S \in Seq(Frame) /\ Len(S) \in Nat /\ Len(S) \in 1..Len(S)
  BY LenProperties DEF StackOK
<1>2. /\ R \in Seq(Frame) /\ Len(R) = Len(S)
      /\ \A i \in 1..Len(S) : R[i] = IF i = Len(S) THEN g ELSE S[i]
  BY <1>1, ExceptSeq
<1> HIDE DEF R
<1>3. \A i \in 1..Len(S) : /\ R[i].slot = S[i].slot /\ R[i].pid = S[i].pid
                            /\ R[i].by = S[i].by /\ R[i].prev = S[i].prev
  BY <1>1, <1>2
<1>4. \A i \in 1..(Len(S) - 1) : R[i] = S[i]
  BY <1>1, <1>2
<1>5. \A i \in 1..Len(S) : R[i].prev = IF i = 1 THEN Kernel ELSE AddressSpace(P[R[i - 1].slot])
  <2> SUFFICES ASSUME NEW i \in 1..Len(S), i # 1
               PROVE  R[i].prev = AddressSpace(P[R[i - 1].slot])
    BY <1>3 DEF StackOK
  <2>1. i - 1 \in 1..Len(S)
    BY <1>1
  <2>2. S[i].prev = AddressSpace(P[S[i - 1].slot])
    BY DEF StackOK
  <2> QED
    BY <1>3, <2>1, <2>2
<1>6. \A i \in 1..(Len(S) - 1) : Inside(R[i], P)
  BY <1>4 DEF StackOK
<1>7. StackOK(R, P)
  BY <1>2, <1>3, <1>5, <1>6 DEF StackOK
<1>8. RunningOnStack(R, P)
  BY <1>2, <1>3 DEF RunningOnStack
<1> QED
  BY <1>1, <1>2, <1>7, <1>8 DEF R

\* A frame for a process that has none.
LEMMA PushFrame ==
    ASSUME NEW S, NEW P \in [Slot -> Proc], StackOK(S, P), NEW f \in Frame,
           Len(S) > 0 => Inside(S[Len(S)], P),
           \A i \in 1..Len(S) : S[i].slot # f.slot,
           P[f.slot].state # "UNUSED", f.pid = P[f.slot].pid,
           f.by = IF Len(S) = 0 THEN "tick" ELSE "run",
           f.prev = IF Len(S) = 0 THEN Kernel ELSE AddressSpace(P[S[Len(S)].slot]),
           \A s \in Slot \ {f.slot} :
              P[s].state = "RUNNING" => \E i \in 1..Len(S) : S[i].slot = s
    PROVE  LET R == Append(S, f)
           IN  /\ StackOK(R, P) /\ RunningOnStack(R, P)
               /\ Len(R) = Len(S) + 1 /\ R[Len(R)] = f
<1> DEFINE R == Append(S, f)
<1>1. S \in Seq(Frame) /\ Len(S) \in Nat
  BY LenProperties DEF StackOK
<1>2. /\ R \in Seq(Frame) /\ Len(R) = Len(S) + 1 /\ R[Len(S) + 1] = f
      /\ \A i \in 1..Len(S) : R[i] = S[i]
  BY <1>1
<1> HIDE DEF R
<1>3. \A i \in 1..Len(R) : i \in 1..Len(S) \/ i = Len(S) + 1
  BY <1>1, <1>2
<1>4. \A i \in 1..Len(R) :
          /\ P[R[i].slot].state # "UNUSED" /\ P[R[i].slot].pid = R[i].pid
          /\ R[i].by = IF i = 1 THEN "tick" ELSE "run"
  BY <1>1, <1>2, <1>3 DEF StackOK
<1>5. \A i \in 1..Len(R) : R[i].prev = IF i = 1 THEN Kernel ELSE AddressSpace(P[R[i - 1].slot])
  <2> SUFFICES ASSUME NEW i \in 1..Len(R)
               PROVE  R[i].prev = IF i = 1 THEN Kernel ELSE AddressSpace(P[R[i - 1].slot])
    OBVIOUS
  <2>1. CASE i \in 1..Len(S)
    <3>1. i = 1 \/ i - 1 \in 1..Len(S)
      BY <1>1, <2>1
    <3> QED
      BY <1>2, <2>1, <3>1, SMTT(30) DEF StackOK
  <2>2. CASE i = Len(S) + 1
    <3>1. i = 1 <=> Len(S) = 0
      BY <1>1, <2>2
    <3>2. i # 1 => Len(S) \in 1..Len(S) /\ i - 1 = Len(S)
      BY <1>1, <2>2
    <3> QED
      BY <1>2, <2>2, <3>1, <3>2
  <2> QED
    BY <1>3, <2>1, <2>2
<1>6. \A i, j \in 1..Len(R) : R[i].slot = R[j].slot => i = j
  BY <1>2, <1>3 DEF StackOK
<1>7. \A i \in 1..(Len(R) - 1) : Inside(R[i], P)
  <2> SUFFICES ASSUME NEW i \in 1..(Len(R) - 1) PROVE Inside(R[i], P)
    OBVIOUS
  <2>1. i \in 1..Len(S) /\ R[i] = S[i] /\ (i \in 1..(Len(S) - 1) \/ i = Len(S))
    BY <1>1, <1>2
  <2> QED
    BY <1>1, <2>1 DEF StackOK
<1>8. StackOK(R, P)
  BY <1>2, <1>4, <1>5, <1>6, <1>7 DEF StackOK
<1>9. RunningOnStack(R, P)
  <2>1. Len(S) + 1 \in 1..Len(R) /\ \A i \in 1..Len(S) : i \in 1..Len(R)
    BY <1>1, <1>2
  <2> QED
    BY <1>2, <2>1 DEF RunningOnStack
<1> QED
  BY <1>2, <1>8, <1>9 DEF R

\* The end of a frame whose process does not run any more.
LEMMA PopFrame ==
    ASSUME NEW S, NEW P \in [Slot -> Proc], StackOK(S, P), RunningOnStack(S, P), Len(S) > 0,
           P[S[Len(S)].slot].state # "RUNNING"
    PROVE  LET R == SubSeq(S, 1, Len(S) - 1)
           IN  /\ StackOK(R, P) /\ RunningOnStack(R, P)
               /\ Len(R) = Len(S) - 1
               /\ Len(R) > 0 => /\ Inside(R[Len(R)], P)
                                /\ S[Len(S)].prev = AddressSpace(P[R[Len(R)].slot])
               /\ Len(R) = 0 => S[Len(S)].prev = Kernel
<1> DEFINE n == Len(S) - 1
           R == SubSeq(S, 1, n)
<1>1. /\ S \in Seq(Frame) /\ Len(S) \in Nat /\ n \in Nat
      /\ \A i \in 1..n : i \in 1..Len(S)
  BY LenProperties DEF StackOK
<1>2. \A i \in 1..n : S[i] \in Frame
  BY <1>1, ElementOfSeq
<1>3. /\ R \in Seq(Frame) /\ Len(R) = n
      /\ \A i \in 1..n : R[i] = S[i]
  <2>1. /\ R \in Seq(Frame) /\ Len(R) = IF 1 <= n THEN n - 1 + 1 ELSE 0
        /\ \A i \in 1..(n - 1 + 1) : R[i] = S[1 + i - 1]
    <3> HIDE DEF n
    <3> QED
      BY <1>1, <1>2, SubSeqProperties
  <2> HIDE DEF n, R
  <2>2. n - 1 + 1 = n /\ (1 <= n \/ n = 0) /\ \A i \in 1..n : 1 + i - 1 = i
    BY <1>1
  <2> QED
    BY <2>1, <2>2
<1> HIDE DEF R
<1>4. \A i \in 1..n : R[i].prev = IF i = 1 THEN Kernel ELSE AddressSpace(P[R[i - 1].slot])
  <2> SUFFICES ASSUME NEW i \in 1..n, i # 1
               PROVE  R[i].prev = AddressSpace(P[R[i - 1].slot])
    BY <1>1, <1>3 DEF StackOK
  <2>1. i - 1 \in 1..n
    BY <1>1
  <2>2. S[i].prev = AddressSpace(P[S[i - 1].slot])
    BY <1>1 DEF StackOK
  <2> QED
    BY <1>3, <2>1, <2>2
<1>5. \A i \in 1..n : Inside(R[i], P)
  BY <1>3 DEF StackOK
<1>6. \A i \in 1..(n - 1) : i \in 1..n
  BY <1>1
<1>7. StackOK(R, P)
  BY <1>1, <1>3, <1>4, <1>5, <1>6, SMTT(30) DEF StackOK
<1>8. RunningOnStack(R, P)
  <2> SUFFICES ASSUME NEW s \in Slot, P[s].state = "RUNNING"
               PROVE  \E i \in 1..Len(R) : R[i].slot = s
    BY DEF RunningOnStack
  <2>1. PICK i \in 1..Len(S) : S[i].slot = s
    BY DEF RunningOnStack
  <2>2. i # Len(S)
    BY <2>1
  <2>3. i \in 1..n
    BY <1>1, <2>2
  <2> QED
    BY <1>3, <2>1, <2>3
<1>9. n > 0 => /\ Inside(R[n], P)
               /\ S[Len(S)].prev = AddressSpace(P[R[n].slot])
  <2> SUFFICES ASSUME n > 0 PROVE Inside(R[n], P) /\ S[Len(S)].prev = AddressSpace(P[R[n].slot])
    OBVIOUS
  <2>1. n \in 1..n /\ Len(S) # 1 /\ Len(S) \in 1..Len(S) /\ Len(S) - 1 = n
    BY <1>1
  <2>2. S[Len(S)].prev = AddressSpace(P[S[n].slot])
    BY <2>1 DEF StackOK
  <2> QED
    BY <1>3, <1>5, <2>1, <2>2
<1>10. n = 0 => S[Len(S)].prev = Kernel
  <2>1. n = 0 => Len(S) = 1 /\ Len(S) \in 1..Len(S)
    BY <1>1
  <2> QED
    BY <2>1 DEF StackOK
<1> QED
  BY <1>3, <1>7, <1>8, <1>9, <1>10 DEF R

-----------------------------------------------------------------------------
(* The current process                                                      *)

\* The current process is that of the top frame: clks_exec_current_proc finds the
\* slot that run_proc_slot works on.
LEMMA CurrentIsTop ==
    ASSUME ExecInv
    PROVE  /\ stack \in Seq(Frame) /\ depth \in Nat /\ procs \in [Slot -> Proc]
           /\ next_pid \in Nat \ {0}
           /\ depth > 0 => /\ Top \in Frame /\ Top.slot \in Slot
                           /\ procs[Top.slot] \in Proc
                           /\ procs[Top.slot].state # "UNUSED"
                           /\ procs[Top.slot].pid = Top.pid
                           /\ Top.by = IF depth = 1 THEN "tick" ELSE "run"
                           /\ CurrentSlots = {Top.slot}
<1>1. stack \in Seq(Frame) /\ depth \in Nat /\ procs \in [Slot -> Proc]
      /\ next_pid \in Nat \ {0}
  BY LenProperties DEF ExecInv, StackOK, TableOK, TypeOK, depth
<1>2. ASSUME depth > 0
      PROVE  /\ Top \in Frame /\ Top.slot \in Slot
             /\ procs[Top.slot].state # "UNUSED"
             /\ procs[Top.slot].pid = Top.pid
             /\ Top.by = IF depth = 1 THEN "tick" ELSE "run"
  <2>1. depth \in 1..Len(stack)
    BY <1>1, <1>2 DEF depth
  <2>2. Top \in Frame
    BY <1>1, <2>1, ElementOfSeq DEF Top
  <2> QED
    BY <2>1, <2>2 DEF ExecInv, StackOK, Top, Frame
<1>3. ASSUME depth > 0 PROVE CurrentSlots = {Top.slot}
  <2>1. \A s \in Slot : procs[s].state # "UNUSED" /\ procs[s].pid = Top.pid => s = Top.slot
    BY <1>2, <1>3 DEF ExecInv, TableOK
  <2>2. CurrentSlots = find_slot_by_pid(Top.pid)
    BY <1>1, <1>3 DEF CurrentSlots
  <2> QED
    BY <1>2, <1>3, <2>1, <2>2 DEF find_slot_by_pid
<1> QED
  BY <1>1, <1>2, <1>3

\* clks_exec_proc_set_block is an edit of the current process.
LEMMA SetBlockEdits ==
    ASSUME ExecInv, depth > 0, NEW reason
    PROVE  set_block(procs, reason)
              = [procs EXCEPT ![Top.slot] = [procs[Top.slot] EXCEPT !.reason = reason]]
<1>1. CurrentSlots = {Top.slot} /\ procs \in [Slot -> Proc] /\ Top.slot \in Slot
  BY CurrentIsTop
<1> QED
  BY <1>1 DEF set_block

\* An edit of the current process that keeps it running, its pid and its address space.
LEMMA TopStep ==
    ASSUME ExecInv, depth > 0, UNCHANGED <<stack, spaces, next_pid>>, NEW q,
           RecordOK(q, spaces, next_pid), q.pid = procs[Top.slot].pid, q.state # "UNUSED",
           procs' = [procs EXCEPT ![Top.slot] = q]
    PROVE  /\ TableOK(procs, spaces, next_pid)' /\ StackOK(stack, procs)'
           /\ RunningOnStack(stack, procs)'
           /\ procs'[Top.slot] = q /\ \A s \in Slot \ {Top.slot} : procs'[s] = procs[s]
           /\ depth' = depth /\ Top' = Top
<1>1. /\ procs \in [Slot -> Proc] /\ Top.slot \in Slot /\ next_pid \in Nat \ {0}
      /\ procs[Top.slot].state # "UNUSED"
  BY CurrentIsTop
<1>2. TableOK([procs EXCEPT ![Top.slot] = q], spaces, next_pid)
  BY <1>1, EditRecord DEF ExecInv
<1>3. /\ StackOK(stack, [procs EXCEPT ![Top.slot] = q])
      /\ RunningOnStack(stack, [procs EXCEPT ![Top.slot] = q])
  BY <1>1, EditTop DEF ExecInv, Top, depth
<1> QED
  BY <1>1, <1>2, <1>3 DEF depth, Top

\* What a process does to itself inside a call: it keeps its resources.
LEMMA ProcessCalls ==
    ASSUME ExecInv, read_tty \/ read_pty \/ play_tone \/ yield \/ sleep_ends,
           UNCHANGED max_depth
    PROVE  ExecInv'
<1>1. /\ pc \in {"user", "sleeping"} /\ depth > 0 /\ Inside(Top, procs)
      /\ UNCHANGED <<stack, spaces, next_pid, active, cr3, max_depth, sync_slot, cursor>>
  <2>1. pc \in {"user", "sleeping"}
    BY DEF read_tty, read_pty, play_tone, yield, sleep_ends, Continues
  <2>2. UNCHANGED <<stack, spaces, next_pid, active, cr3, sync_slot, cursor>>
    BY DEF read_tty, read_pty, play_tone, yield, sleep_ends, tables, memory
  <2> QED
    BY <2>1, <2>2, CurrentIsTop DEF ExecInv, TopOK
<1>2. /\ procs \in [Slot -> Proc] /\ Top.slot \in Slot /\ procs[Top.slot] \in Proc
      /\ CurrentSlots = {Top.slot}
      /\ RecordOK(procs[Top.slot], spaces, next_pid)
      /\ procs[Top.slot].state = "RUNNING"
  BY <1>1, CurrentIsTop DEF ExecInv, TableOK, Inside
<1>3. ASSUME NEW q, q \in Proc, q.state = "RUNNING", q.pid = procs[Top.slot].pid,
             q.space = procs[Top.slot].space,
             q.loaded = procs[Top.slot].loaded, q.stack = procs[Top.slot].stack,
             procs' = [procs EXCEPT ![Top.slot] = q], pc' \in {"user", "sleeping", "returned"},
             ret' \in Status \cup {"SUSPEND"}, ret' = "SUSPEND" => pc' = "returned" /\ q.saved,
             input' \in BOOLEAN,
             q.reason \in {"SLEEP", "WAIT_CHILD"} => pc' = "sleeping"
      PROVE  ExecInv'
  <2>1. RecordOK(q, spaces, next_pid)
    BY <1>1, <1>2, <1>3 DEF RecordOK, Inside
  <2>2. /\ TableOK(procs, spaces, next_pid)' /\ StackOK(stack, procs)'
        /\ RunningOnStack(stack, procs)'
        /\ procs'[Top.slot] = q /\ \A s \in Slot \ {Top.slot} : procs'[s] = procs[s]
        /\ depth' = depth /\ Top' = Top
    BY <1>1, <1>3, <2>1, TopStep
  <2>3. TypeOK'
    BY <1>1, <1>3 DEF ExecInv, TypeOK, Place
  <2>4. TopOK'
    <3>1. Inside(Top, procs)'
      BY <1>1, <1>3, <2>2 DEF Inside
    <3>2. cr3' = AddressSpace(procs'[Top'.slot])
      BY <1>1, <1>3, <2>2 DEF ExecInv, TopOK, AddressSpace
    <3> QED
      BY <1>1, <1>3, <2>2, <3>1, <3>2 DEF ExecInv, TopOK
  <2>5. SuspendOK'
    BY <1>3, <2>2 DEF SuspendOK
  <2>6. ReasonsOK'
    BY <1>1, <1>2, <1>3, <2>2 DEF ExecInv, ReasonsOK
  <2> QED
    BY <2>2, <2>3, <2>4, <2>5, <2>6 DEF ExecInv
<1>4. ASSUME NEW r \in Reason, procs' = set_block(procs, r), pc' \in {"user", "sleeping"},
             ret' \in Status, input' \in BOOLEAN,
             r \in {"SLEEP", "WAIT_CHILD"} => pc' = "sleeping"
      PROVE  ExecInv'
  <2> DEFINE q == [procs[Top.slot] EXCEPT !.reason = r]
  <2>1. procs' = [procs EXCEPT ![Top.slot] = q]
    BY <1>1, <1>4, SetBlockEdits
  <2>2. /\ q \in Proc /\ q.state = "RUNNING" /\ q.pid = procs[Top.slot].pid
        /\ q.space = procs[Top.slot].space /\ q.reason = r
        /\ q.loaded = procs[Top.slot].loaded /\ q.stack = procs[Top.slot].stack
    BY <1>2 DEF Proc
  <2>3. ret' # "SUSPEND"
    BY <1>4 DEF Status
  <2> HIDE DEF q
  <2> QED
    BY <1>3, <1>4, <2>1, <2>2, <2>3
<1>5. ret \in Status \cup {"SUSPEND"} /\ input \in BOOLEAN /\ (pc = "user" => ret # "SUSPEND")
      /\ "error" \in Status /\ {"NONE", "TTY_INPUT", "PTY_INPUT", "SLEEP", "YIELD"} \subseteq Reason
  BY DEF ExecInv, TypeOK, SuspendOK, Status, Reason
<1>6. CASE read_tty
  <2>1. /\ procs' = set_block(procs, "NONE") \/ procs' = set_block(procs, "TTY_INPUT")
        /\ pc' = "user" /\ ret' = "error" /\ input' = FALSE
    BY <1>6 DEF read_tty, Continues, clear_block
  <2> QED
    BY <1>4, <1>5, <2>1
<1>7. CASE read_pty
  <2>1. /\ procs' = set_block(procs, "NONE") \/ procs' = set_block(procs, "PTY_INPUT")
        /\ pc' = "user" /\ ret' = "error" /\ input' = input
    BY <1>7 DEF read_pty, Continues, clear_block, tables
  <2> QED
    BY <1>4, <1>5, <2>1
<1>8. CASE play_tone
  <2>1. /\ procs' = set_block(procs, "SLEEP")
        /\ pc = "user" /\ pc' = "sleeping" /\ ret' = ret /\ input' = input
    BY <1>8 DEF play_tone, tables
  <2> QED
    BY <1>4, <1>5, <2>1
<1>9. CASE sleep_ends
  <2>1. /\ procs' = set_block(procs, "NONE")
        /\ pc' = "user" /\ ret' = "error" /\ input' = input
    BY <1>9 DEF sleep_ends, tables, clear_block
  <2> QED
    BY <1>4, <1>5, <2>1
<1>10. CASE yield
  <2>1. pc = "user" /\ input' = input
    BY <1>10 DEF yield, tables
  <2>2. CASE CanSuspend
    <3> DEFINE q == Saved(procs[Top.slot])
    <3>1. /\ procs' = [s \in Slot |-> IF s \in CurrentSlots THEN Saved(procs[s]) ELSE procs[s]]
          /\ pc' = "returned" /\ ret' = "SUSPEND"
      BY <1>10, <2>2 DEF yield, Leaves
    <3>2. procs' = [procs EXCEPT ![Top.slot] = q]
      BY <1>2, <3>1
    <3>3. procs[Top.slot].reason \notin {"SLEEP", "WAIT_CHILD"}
      BY <1>2, <2>1 DEF ExecInv, ReasonsOK
    <3>4. /\ q \in Proc /\ q.state = "RUNNING" /\ q.pid = procs[Top.slot].pid /\ q.saved
          /\ q.space = procs[Top.slot].space /\ q.reason \notin {"SLEEP", "WAIT_CHILD"}
          /\ q.loaded = procs[Top.slot].loaded /\ q.stack = procs[Top.slot].stack
      BY <1>2, <3>3 DEF Saved, Proc, Reason
    <3> HIDE DEF q
    <3> QED
      BY <1>3, <1>5, <2>1, <3>1, <3>2, <3>4
  <2>3. CASE ~CanSuspend
    <3>1. pc' = "sleeping" /\ procs' = set_block(procs, "YIELD") /\ ret' = ret
      BY <1>10, <2>3 DEF yield
    <3> QED
      BY <1>4, <1>5, <2>1, <3>1
  <2> QED
    BY <2>2, <2>3
<1> QED
  BY <1>6, <1>7, <1>8, <1>9, <1>10

-----------------------------------------------------------------------------
(* Requests noted in the current frame                                      *)

\* The frame notes a request: whose it is and where it returns to stay.
LEMMA FrameStep ==
    ASSUME ExecInv, depth > 0, UNCHANGED <<procs, spaces, next_pid, cr3, active>>,
           UNCHANGED <<max_depth, cursor, sync_slot>>,
           NEW g \in Frame, g.slot = Top.slot, g.pid = Top.pid, g.by = Top.by,
           g.prev = Top.prev, g.unwind = Top.unwind,
           stack' = [stack EXCEPT ![depth] = g], input' \in BOOLEAN,
           \/ UNCHANGED <<pc, ret>>
           \/ pc = "user" /\ pc' \in {"user", "returned"} /\ ret' \in Status
    PROVE  ExecInv'
<1>1. /\ StackOK(stack, procs)' /\ RunningOnStack(stack, procs)'
      /\ depth' = depth /\ Top' = g
  <2>1. /\ procs \in [Slot -> Proc] /\ StackOK(stack, procs) /\ RunningOnStack(stack, procs)
        /\ Len(stack) > 0
    BY CurrentIsTop DEF ExecInv, depth
  <2>2. LET R == [stack EXCEPT ![Len(stack)] = g]
        IN  /\ StackOK(R, procs) /\ RunningOnStack(R, procs)
            /\ Len(R) = Len(stack) /\ R[Len(stack)] = g
    BY <2>1, EditFrame DEF depth, Top
  <2> QED
    BY <2>2 DEF depth, Top
<1>2. TypeOK'
  BY DEF ExecInv, TypeOK, Place
<1>3. TopOK'
  <2>1. Inside(Top, procs) => Inside(Top, procs)'
    BY <1>1 DEF Inside
  <2>2. cr3' = cr3 /\ spaces' = spaces
    OBVIOUS
  <2> QED
    BY <1>1, <2>1, <2>2 DEF ExecInv, TopOK
<1>4. SuspendOK'
  BY <1>1 DEF ExecInv, SuspendOK, Status
<1>5. ReasonsOK'
  BY <1>1 DEF ExecInv, ReasonsOK
<1> QED
  BY <1>1, <1>2, <1>3, <1>4, <1>5 DEF ExecInv

\* A request to exit, a signal to the current process, the force-stop key between any
\* two steps, and a fault.
LEMMA Requests ==
    ASSUME ExecInv, UNCHANGED max_depth,
           \/ request_exit
           \/ Continues /\ (\E stops \in BOOLEAN : kill_current(stops)) /\ ret' = "error"
              /\ UNCHANGED <<tables, active, sync_slot>>
           \/ force_stop \/ handle_exception
    PROVE  ExecInv'
<1>1. depth > 0
  <2>1. pc = "user" => depth > 0
    BY CurrentIsTop DEF ExecInv, TopOK
  <2>2. ASSUME NEW stops \in BOOLEAN, kill_current(stops) PROVE depth > 0
    <3>1. depth # 0
      BY <2>2 DEF kill_current, CurrentSlots
    <3> QED
      BY <3>1, CurrentIsTop
  <2> QED
    BY <2>1, <2>2 DEF request_exit, Continues, handle_exception, Leaves, force_stop
<1>2. Top \in Frame /\ {"ok", "signal", "error"} \subseteq Status
      /\ stack \in Seq(Frame) /\ depth \in 1..Len(stack) /\ input \in BOOLEAN
      /\ stack[depth] = Top
  BY <1>1, CurrentIsTop DEF Status, depth, ExecInv, TypeOK, Top
<1>3. UNCHANGED <<procs, spaces, next_pid, cr3, active, cursor, sync_slot, input>>
  BY DEF request_exit, kill_current, force_stop, handle_exception, tables, memory
<1>4. \/ UNCHANGED <<pc, ret>>
      \/ pc = "user" /\ pc' \in {"user", "returned"} /\ ret' \in Status
  BY <1>2 DEF request_exit, kill_current, force_stop, handle_exception, Continues, Leaves
<1>5. \E status \in {"ok", "signal"}, stop \in BOOLEAN :
         stack' = [stack EXCEPT ![depth] = [Top EXCEPT !.exit = TRUE, !.status = status,
                                                       !.stop = stop]]
  <2>1. Top.stop \in BOOLEAN
    BY <1>2 DEF Frame
  <2>2. CASE request_exit \/ handle_exception
    <3>1. PICK status \in {"ok", "signal"} :
             stack' = [stack EXCEPT ![depth].exit = TRUE, ![depth].status = status]
      BY <2>2 DEF request_exit, handle_exception
    <3>2. stack' = [stack EXCEPT ![depth] = [Top EXCEPT !.exit = TRUE, !.status = status,
                                                        !.stop = Top.stop]]
      BY <1>2, <3>1 DEF Frame
    <3> QED
      BY <2>1, <3>2
  <2>3. ASSUME NEW stops \in BOOLEAN, kill_current(stops)
        PROVE  \E status \in {"ok", "signal"}, stop \in BOOLEAN :
                 stack' = [stack EXCEPT ![depth] = [Top EXCEPT !.exit = TRUE,
                                                      !.status = status, !.stop = stop]]
    <3>1. stack' = [stack EXCEPT ![depth].exit = TRUE, ![depth].status = "signal",
                                 ![depth].stop = @ \/ stops]
      BY <2>3 DEF kill_current
    <3>2. stack' = [stack EXCEPT ![depth] = [Top EXCEPT !.exit = TRUE, !.status = "signal",
                                                        !.stop = Top.stop \/ stops]]
      BY <1>2, <3>1 DEF Frame
    <3> QED
      BY <2>1, <3>2
  <2> QED
    BY <2>2, <2>3 DEF force_stop
<1>6. PICK status \in {"ok", "signal"}, stop \in BOOLEAN :
         stack' = [stack EXCEPT ![depth] = [Top EXCEPT !.exit = TRUE, !.status = status,
                                                       !.stop = stop]]
  BY <1>5
<1> DEFINE g == [Top EXCEPT !.exit = TRUE, !.status = status, !.stop = stop]
<1>7. /\ g \in Frame /\ g.slot = Top.slot /\ g.pid = Top.pid /\ g.by = Top.by
      /\ g.prev = Top.prev /\ g.unwind = Top.unwind
  BY <1>2 DEF Frame
<1> HIDE DEF g
<1>8. stack' = [stack EXCEPT ![depth] = g]
  BY <1>6 DEF g
<1> QED
  BY <1>1, <1>2, <1>3, <1>4, <1>7, <1>8, FrameStep

-----------------------------------------------------------------------------
(* Steps that leave the tables alone                                        *)

\* The table and the stack stay; the kernel goes on elsewhere.
LEMMA PlainStep ==
    ASSUME ExecInv,
           UNCHANGED <<max_depth, procs, stack, next_pid, active, cr3, spaces, sync_slot>>,
           input' \in BOOLEAN, cursor' \in Slot,
           \/ UNCHANGED <<pc, ret>>
           \/ pc = "user" /\ pc' \in {"user", "returned"} /\ ret' \in Status
           \/ pc \in {"usrd", "tick"} /\ pc' \in {"usrd", "tick"} /\ ret' = ret
    PROVE  ExecInv'
<1>1. depth' = depth /\ Top' = Top
  BY DEF depth, Top
<1>2. TypeOK'
  BY DEF ExecInv, TypeOK, Place
<1>3. TopOK'
  <2>1. Inside(Top, procs) => Inside(Top, procs)'
    BY <1>1 DEF Inside
  <2> QED
    BY <1>1, <2>1 DEF ExecInv, TopOK
<1>4. SuspendOK'
  BY <1>1 DEF ExecInv, SuspendOK, Status
<1>5. ReasonsOK'
  BY <1>1 DEF ExecInv, ReasonsOK
<1>6. TableOK(procs, spaces, next_pid)' /\ StackOK(stack, procs)' /\ RunningOnStack(stack, procs)'
  BY DEF ExecInv
<1> QED
  BY <1>1, <1>2, <1>3, <1>4, <1>5, <1>6 DEF ExecInv

\* Below a dispatch the kernel starts no other: clks_exec_sleep_ticks only waits, and
\* clks_exec_wait_pid runs nothing.
LEMMA PlainSteps ==
    ASSUME ExecInv, UNCHANGED max_depth,
           \/ userland_tick \/ key_pressed \/ sleep_loop \/ entry_returns \/ try_unwind
           \/ \E s \in Slot : wait_pid(s)
    PROVE  ExecInv'
<1>1. input \in BOOLEAN /\ cursor \in Slot /\ {"ok", "error"} \subseteq Status
  BY DEF ExecInv, TypeOK, Status
<1>2. pc \in {"user", "sleeping"} => active /\ depth > 0
  BY CurrentIsTop DEF ExecInv, TopOK
<1>3. CASE userland_tick
  BY <1>1, <1>3, PlainStep DEF userland_tick, tables, memory
<1>4. CASE key_pressed
  BY <1>1, <1>4, PlainStep DEF key_pressed, tables, memory
<1>5. CASE sleep_loop
  <2>1. /\ UNCHANGED <<pc, procs, stack, cursor, active, memory, ret, sync_slot>>
        /\ UNCHANGED <<next_pid, input>>
    BY <1>2, <1>5 DEF sleep_loop, dispatch_pending_once
  <2> QED
    BY <1>1, <2>1, PlainStep DEF memory
<1>6. CASE entry_returns
  BY <1>1, <1>6, PlainStep DEF entry_returns, Leaves, tables, memory
<1>7. CASE try_unwind
  <2>1. pc = "user" /\ Top.status \in Status
    BY <1>2, <1>7, CurrentIsTop DEF try_unwind, Leaves, Frame
  <2> QED
    BY <1>1, <1>7, <2>1, PlainStep DEF try_unwind, Leaves, tables, memory
<1>8. ASSUME NEW s \in Slot, wait_pid(s) PROVE ExecInv'
  <2>1. ~WaitRuns(s) /\ pc = "user"
    BY <1>2, <1>8 DEF wait_pid, WaitRuns
  <2>2. procs[s].status \in Status
    BY CurrentIsTop DEF Proc
  <2>3. /\ ret' \in Status
        /\ UNCHANGED <<procs, stack, active, memory, pc, sync_slot>> /\ UNCHANGED tables
    BY <1>1, <1>8, <2>1, <2>2 DEF wait_pid
  <2> QED
    BY <1>1, <2>1, <2>3, PlainStep DEF tables, memory
<1> QED
  BY <1>3, <1>4, <1>5, <1>6, <1>7, <1>8

-----------------------------------------------------------------------------
(* Other processes: those started, and those signalled while pending        *)

\* The address space of a process exists, or is the kernel's.
LEMMA SpaceLives ==
    ASSUME NEW p, NEW Sp, NEW n \in Nat \ {0}, RecordOK(p, Sp, n), p.state # "UNUSED"
    PROVE  AddressSpace(p) \in Sp \cup {Kernel}
BY DEF RecordOK, AddressSpace, None, Kernel

\* While a process is in the kernel, or none runs, every frame is that of a running one.
LEMMA FramesRun ==
    ASSUME ExecInv, pc \in {"usrd", "tick", "user", "sleeping", "sync_wait"}
    PROVE  \A i \in 1..Len(stack) : procs[stack[i].slot].state = "RUNNING"
<1> SUFFICES ASSUME NEW i \in 1..Len(stack) PROVE procs[stack[i].slot].state = "RUNNING"
  OBVIOUS
<1>1. Len(stack) \in Nat
  BY CurrentIsTop DEF depth
<1>2. CASE i = Len(stack)
  <2>1. depth > 0 /\ Top = stack[i]
    BY <1>1, <1>2 DEF depth, Top
  <2> QED
    BY <1>2, <2>1, CurrentIsTop DEF ExecInv, TopOK, Inside
<1>3. CASE i # Len(stack)
  <2>1. i \in 1..(Len(stack) - 1)
    BY <1>1, <1>3
  <2> QED
    BY <2>1 DEF ExecInv, StackOK, Inside
<1> QED
  BY <1>2, <1>3

\* An edit of a record that has no frame.
LEMMA OtherStep ==
    ASSUME ExecInv, UNCHANGED <<max_depth, stack, active, sync_slot, cr3, input, cursor>>,
           \/ pc = "user" /\ pc' = "user" /\ ret' = "error"
           \/ pc = "usrd" /\ pc' = "tick" /\ ret' = ret,
           NEW s \in Slot, procs[s].state # "RUNNING", NEW q, q.state # "RUNNING",
           q.reason \notin {"SLEEP", "WAIT_CHILD"},
           procs' = [procs EXCEPT ![s] = q], next_pid' \in Nat \ {0},
           TableOK(procs', spaces', next_pid')
    PROVE  ExecInv'
<1>1. procs \in [Slot -> Proc] /\ depth \in Nat
  BY CurrentIsTop
<1>2. \A i \in 1..Len(stack) : stack[i].slot # s
  BY FramesRun
<1>3. StackOK(stack, procs)' /\ RunningOnStack(stack, procs)'
  BY <1>1, <1>2, EditOther DEF ExecInv
<1>4. depth' = depth /\ Top' = Top
  BY DEF depth, Top
<1>5. depth > 0 => Top.slot \in Slot \ {s} /\ procs'[Top.slot] = procs[Top.slot]
                  /\ procs[Top.slot].state # "UNUSED"
  <2> SUFFICES ASSUME depth > 0 PROVE Top.slot \in Slot \ {s} /\ procs[Top.slot].state # "UNUSED"
    BY <1>1
  <2>1. depth \in 1..Len(stack)
    BY <1>1 DEF depth
  <2> QED
    BY <1>2, <2>1, CurrentIsTop DEF Top
<1>6. TypeOK'
  BY DEF ExecInv, TypeOK, Place, Status
<1>7. TopOK'
  <2>1. depth > 0 => (Inside(Top, procs) => Inside(Top, procs)')
    BY <1>4, <1>5 DEF Inside
  <2>2. depth > 0 => cr3 = AddressSpace(procs[Top.slot])
    BY DEF ExecInv, TopOK
  <2>3. cr3' \in spaces' \cup {Kernel}
    <3>1. CASE depth = 0
      BY <3>1 DEF ExecInv, TopOK
    <3>2. CASE depth > 0
      <4>1. RecordOK(procs'[Top.slot], spaces', next_pid')
        BY <1>5, <3>2 DEF TableOK
      <4>2. AddressSpace(procs'[Top.slot]) \in spaces' \cup {Kernel}
        BY <1>5, <3>2, <4>1, SpaceLives
      <4> QED
        BY <1>5, <2>2, <3>2, <4>2
    <3> QED
      BY <1>1, <3>1, <3>2
  <2> QED
    BY <1>1, <1>4, <1>5, <2>1, <2>2, <2>3 DEF ExecInv, TopOK, AddressSpace
<1>8. SuspendOK'
  BY DEF ExecInv, SuspendOK
<1>9. ReasonsOK'
  BY <1>1, <1>4 DEF ExecInv, ReasonsOK
<1> QED
  BY <1>3, <1>6, <1>7, <1>8, <1>9 DEF ExecInv

\* The slot clks_exec_proc_alloc_slot picks is free or exited.
LEMMA SlotAllocated ==
    ASSUME ExecInv, CanStart
    PROVE  /\ Least(alloc_slot) \in Slot
           /\ procs[Least(alloc_slot)].state \in {"UNUSED", "EXITED"}
           /\ next_pid \in Nat \ {0}
<1>1. alloc_slot \in SUBSET Nat /\ alloc_slot # {}
  BY ExecAssumption DEF CanStart, alloc_slot, SlotsIn, Slot
<1>2. \E m \in alloc_slot : \A n \in alloc_slot : m <= n
  BY <1>1, LeastNatural
<1>3. Least(alloc_slot) \in alloc_slot
  BY <1>2 DEF Least
<1> QED
  BY <1>3, CurrentIsTop DEF alloc_slot, SlotsIn

\* A record that clks_exec_prepare_proc_record has filled.
LEMMA PreparedRecord ==
    ASSUME next_pid \in Nat \ {0}, NEW state \in {"PENDING", "RUNNING"},
           NEW space \in NewSpaces
    PROVE  LET q == Prepared(state, space)
           IN  /\ q \in Proc /\ q.state = state /\ q.pid = next_pid /\ q.space = space
               /\ ~q.saved /\ q.reason = "NONE"
<1>1. space \in Int /\ next_pid \in Nat /\ state \in State
  BY DEF NewSpaces, Kernel, State
<1>2. NoProc \in Proc /\ ~NoProc.saved /\ NoProc.reason = "NONE"
  BY DEF NoProc, Proc, State, Reason, Status, None
<1>3. Prepared(state, space) = [NoProc EXCEPT !.pid = next_pid, !.state = state,
                                              !.space = space, !.fds = TRUE]
  BY DEF Prepared
<1> QED
  BY <1>1, <1>2, <1>3 DEF Proc

\* clks_exec_spawn_pathv, by userland or by a process.
LEMMA Spawns ==
    ASSUME ExecInv, UNCHANGED max_depth, userland_starts \/ spawn_pathv
    PROVE  ExecInv'
<1> DEFINE s == Least(alloc_slot)
<1>1. /\ spawn
      /\ \/ pc = "user" /\ pc' = "user" /\ ret' = "error"
         \/ pc = "usrd" /\ pc' = "tick" /\ ret' = ret
  BY DEF userland_starts, spawn_pathv, Continues
<1>2. PICK space \in NewSpaces :
         /\ procs' = [procs EXCEPT ![s] = Prepared("PENDING", space)]
         /\ spaces' = PreparedSpaces(s, space)
  BY <1>1 DEF spawn
<1>3. /\ CanStart /\ next_pid' = next_pid + 1
      /\ UNCHANGED <<max_depth, stack, active, sync_slot, cr3, input, cursor>>
  BY <1>1 DEF spawn
<1>4. s \in Slot /\ procs[s].state \in {"UNUSED", "EXITED"} /\ next_pid \in Nat \ {0}
  BY <1>3, SlotAllocated
<1> HIDE DEF s
<1> DEFINE q == Prepared("PENDING", space)
<1>5. /\ q \in Proc /\ q.state = "PENDING" /\ q.pid = next_pid /\ q.space = space
      /\ ~q.saved /\ q.reason = "NONE"
  BY <1>4, PreparedRecord
<1>6. TableOK([procs EXCEPT ![s] = q], PreparedSpaces(s, space), next_pid + 1)
  <2>1. TableOK(procs, spaces, next_pid) /\ space \in {next_pid, Kernel}
    BY DEF ExecInv, NewSpaces
  <2> HIDE DEF q
  <2> QED
    BY <1>4, <1>5, <2>1, NewRecord DEF PreparedSpaces
<1> HIDE DEF q
<1>7. TableOK(procs', spaces', next_pid') /\ next_pid' \in Nat \ {0}
  BY <1>2, <1>3, <1>4, <1>6 DEF q
<1> QED
  BY <1>1, <1>2, <1>3, <1>4, <1>5, <1>7, OtherStep DEF q

\* A spawn whose stdio override is bad wipes the record it prepared.
LEMMA BadStdio ==
    ASSUME ExecInv, UNCHANGED max_depth, run_pathv_bad_stdio
    PROVE  ExecInv'
<1> DEFINE s == Least(alloc_slot)
<1>1. /\ CanStart /\ next_pid' = next_pid + 1
      /\ UNCHANGED <<max_depth, stack, active, sync_slot, cr3, input, cursor>>
      /\ pc = "user" /\ pc' = "user" /\ ret' = "error"
      /\ procs' = [procs EXCEPT ![s] = NoProc]
  BY DEF run_pathv_bad_stdio, Continues
<1>2. PICK space \in NewSpaces : spaces' = PreparedSpaces(s, space)
  BY DEF run_pathv_bad_stdio
<1>3. s \in Slot /\ procs[s].state \in {"UNUSED", "EXITED"} /\ next_pid \in Nat \ {0}
  BY <1>1, SlotAllocated
<1> HIDE DEF s
<1>4. NoProc \in Proc /\ NoProc.state = "UNUSED" /\ NoProc.reason = "NONE"
  BY DEF NoProc, Proc, State, Reason, Status, None
<1>5. TableOK(procs', spaces', next_pid') /\ next_pid' \in Nat \ {0}
  <2>1. TableOK(procs, spaces, next_pid) /\ space \in {next_pid, Kernel}
    BY DEF ExecInv, NewSpaces
  <2>2. TableOK([procs EXCEPT ![s] = NoProc], PreparedSpaces(s, space), next_pid + 1)
    BY <1>3, <1>4, <2>1, NewRecord DEF PreparedSpaces
  <2> QED
    BY <1>1, <1>2, <1>3, <2>2
<1> QED
  BY <1>1, <1>3, <1>4, <1>5, OtherStep

\* clks_exec_proc_mark_exited leaves a record that holds nothing.
LEMMA ExitedRecord ==
    ASSUME NEW p \in Proc, NEW status \in Status
    PROVE  LET q == mark_exited(p, status)
           IN  /\ q \in Proc /\ q.state = "EXITED" /\ q.pid = p.pid /\ q.space = None
               /\ ~q.saved /\ ~q.loaded /\ ~q.stack /\ ~q.fds /\ q.reason = "NONE"
<1> DEFINE r == release_runtime(p)
           t == set_state(r, "EXITED", "NONE")
<1>1. r \in Proc /\ r.pid = p.pid /\ ~r.loaded /\ ~r.stack /\ ~r.saved
  BY DEF release_runtime, Proc
<1> HIDE DEF r
<1>2. /\ t \in Proc /\ t.pid = p.pid /\ ~t.loaded /\ ~t.stack /\ ~t.saved
      /\ t.state = "EXITED" /\ t.reason = "NONE"
  <2>1. t = [r EXCEPT !.state = "EXITED", !.reason = "NONE"]
    BY DEF set_state
  <2>2. "EXITED" \in State /\ "NONE" \in Reason
    BY DEF State, Reason
  <2> QED
    BY <1>1, <2>1, <2>2 DEF Proc
<1> HIDE DEF t
<1>3. mark_exited(p, status) = [t EXCEPT !.space = None, !.fds = FALSE, !.status = status]
  BY DEF mark_exited, t, r
<1>4. None \in Int
  BY DEF None
<1> DEFINE q == mark_exited(p, status)
<1>5. q \in Proc
  BY <1>2, <1>3, <1>4 DEF Proc
<1>6. /\ q.state = t.state /\ q.pid = t.pid /\ q.space = None /\ q.saved = t.saved
      /\ q.loaded = t.loaded /\ q.stack = t.stack /\ ~q.fds /\ q.reason = t.reason
  BY <1>2, <1>3 DEF Proc
<1> QED
  BY <1>2, <1>5, <1>6

\* A signal to a process that does not run.
LEMMA Kills ==
    ASSUME ExecInv, UNCHANGED max_depth, Continues, ret' = "error",
           UNCHANGED <<tables, active, sync_slot>>, NEW s \in Slot,
           kill_cont(s) \/ kill_stop(s) \/ kill_term(s)
    PROVE  ExecInv'
<1>1. /\ procs \in [Slot -> Proc] /\ procs[s] \in Proc /\ next_pid \in Nat \ {0}
      /\ TableOK(procs, spaces, next_pid) /\ RecordOK(procs[s], spaces, next_pid)
      /\ pc = "user" /\ pc' = "user" /\ UNCHANGED <<next_pid, input, cursor>>
  BY CurrentIsTop DEF ExecInv, TableOK, Continues, tables
<1>2. CASE kill_cont(s) \/ kill_stop(s)
  <2>1. PICK state \in {"PENDING", "STOPPED"} :
           procs' = [procs EXCEPT ![s] = set_state(procs[s], state, "NONE")]
    BY <1>2 DEF kill_cont, kill_stop
  <2>2. /\ procs[s].state \in {"PENDING", "STOPPED"}
        /\ UNCHANGED <<stack, cr3, spaces>>
    BY <1>2 DEF kill_cont, kill_stop, memory
  <2> DEFINE q == set_state(procs[s], state, "NONE")
  <2>3. /\ RecordOK(q, spaces, next_pid) /\ q.state = state /\ q.reason = "NONE"
        /\ q.pid = procs[s].pid
    BY <1>1, <2>2 DEF set_state, RecordOK, Proc, State, Reason
  <2> HIDE DEF q
  <2>4. TableOK([procs EXCEPT ![s] = q], spaces, next_pid)
    BY <1>1, <2>2, <2>3, EditRecord
  <2> QED
    BY <1>1, <2>1, <2>2, <2>3, <2>4, OtherStep DEF q
<1>3. CASE kill_term(s)
  <2> DEFINE q == mark_exited(procs[s], "signal")
  <2>1. /\ procs[s].state \in {"PENDING", "STOPPED"}
        /\ procs' = [procs EXCEPT ![s] = q]
        /\ spaces' = spaces \ {procs[s].space}
        /\ cr3' = IF cr3 = procs[s].space THEN Kernel ELSE cr3
        /\ UNCHANGED stack
    BY <1>3 DEF kill_term, destroy_address_space
  <2>2. /\ q \in Proc /\ q.state = "EXITED" /\ q.pid = procs[s].pid /\ q.space = None
        /\ ~q.saved /\ ~q.loaded /\ ~q.stack /\ ~q.fds /\ q.reason = "NONE"
    BY <1>1, ExitedRecord DEF Status
  <2> HIDE DEF q
  <2>3. TableOK([procs EXCEPT ![s] = q], spaces \ {procs[s].space}, next_pid)
    BY <1>1, <2>1, <2>2, ReleaseRecord
  <2>4. cr3' = cr3
    <3>1. /\ depth > 0 /\ cr3 = AddressSpace(procs[Top.slot]) /\ Top.slot \in Slot
          /\ procs[Top.slot].state = "RUNNING"
      BY <1>1, CurrentIsTop DEF ExecInv, TopOK, Inside
    <3>2. procs[Top.slot].pid # procs[s].pid
      BY <1>1, <2>1, <3>1 DEF TableOK
    <3>3. /\ procs[s].space \in {None, Kernel, procs[s].pid}
          /\ procs[Top.slot].space \in {None, Kernel, procs[Top.slot].pid}
          /\ procs[s].pid \in Nat \ {0} /\ procs[Top.slot].pid \in Nat \ {0}
      BY <1>1, <2>1, <3>1 DEF TableOK, RecordOK
    <3> QED
      BY <2>1, <3>1, <3>2, <3>3 DEF AddressSpace, None, Kernel
  <2> QED
    BY <1>1, <2>1, <2>2, <2>3, <2>4, OtherStep
<1> QED
  BY <1>2, <1>3

-----------------------------------------------------------------------------
(* Opening a frame                                                          *)

\* clks_exec_run_proc_slot opens a frame for a process that has none, or gives it up.
LEMMA Opens ==
    ASSUME ExecInv, UNCHANGED max_depth, pc \in {"tick", "user", "sync_wait"},
           cursor' \in Slot, input' \in BOOLEAN, next_pid' \in Nat \ {0},
           NEW s \in Slot, NEW p, NEW Sp, NEW by,
           TableOK([procs EXCEPT ![s] = p], Sp, next_pid'),
           procs[s].state # "RUNNING", p.state # "UNUSED",
           by = IF depth = 0 THEN "tick" ELSE "run",
           run_proc_slot([procs EXCEPT ![s] = p], Sp, s, by)
    PROVE  ExecInv'
<1> DEFINE P == [procs EXCEPT ![s] = p]
<1>1. /\ procs \in [Slot -> Proc] /\ depth \in Nat /\ stack \in Seq(Frame)
      /\ StackOK(stack, procs) /\ RunningOnStack(stack, procs)
      /\ \A i \in 1..Len(stack) : stack[i].slot # s
      /\ max_depth \in Nat \ {0} /\ 0 \in Slot
  <2>1. \A i \in 1..Len(stack) : stack[i].slot # s
    BY FramesRun
  <2> QED
    BY <2>1, CurrentIsTop, ExecAssumption DEF ExecInv, TypeOK, Slot
<1>2. P[s] = p /\ \A t \in Slot \ {s} : P[t] = procs[t]
  BY <1>1
<1>3. P \in [Slot -> Proc] /\ RecordOK(p, Sp, next_pid') /\ p \in Proc
  BY <1>2 DEF TableOK
<1>4. /\ depth > 0 => /\ Top.slot \in Slot \ {s} /\ Inside(Top, procs) /\ Top = stack[Len(stack)]
                      /\ cr3 = AddressSpace(procs[Top.slot]) /\ active
      /\ depth = 0 => cr3 = Kernel /\ ~active
  <2>1. depth > 0 => pc \in {"user", "sync_wait"}
    BY <1>1 DEF ExecInv, TopOK
  <2>2. depth > 0 => depth \in 1..Len(stack)
    BY <1>1 DEF depth
  <2>3. active \in BOOLEAN
    BY DEF ExecInv, TypeOK
  <2> QED
    BY <1>1, <2>1, <2>2, <2>3, CurrentIsTop DEF ExecInv, TopOK, Top, depth
<1>5. \A t \in Slot : procs[t].reason \notin {"SLEEP", "WAIT_CHILD"}
  BY DEF ExecInv, ReasonsOK
<1>6. CASE depth < max_depth
  <2> DEFINE q == mark_running(p)
             f == [slot |-> s, pid |-> p.pid, exit |-> FALSE, status |-> "error",
                   stop |-> FALSE, unwind |-> FALSE, prev |-> cr3, by |-> by]
             Q == [procs EXCEPT ![s] = q]
  <2>1. /\ procs' = [P EXCEPT ![s] = mark_running(P[s])]
        /\ stack' = Append(stack,
               [slot |-> s, pid |-> P[s].pid, exit |-> FALSE, status |-> "error",
                stop |-> FALSE, unwind |-> FALSE, prev |-> cr3, by |-> by])
        /\ cr3' = AddressSpace(P[s]) /\ spaces' = Sp /\ pc' = "load"
        /\ active' = (active \/ by # "run") /\ sync_slot' = 0 /\ ret' = ret
    <3>1. run_proc_slot(P, Sp, s, by)
      OBVIOUS
    <3> HIDE DEF P
    <3> QED
      BY <1>6, <3>1 DEF run_proc_slot
  <2>2. /\ q \in Proc /\ q.state = "RUNNING" /\ q.reason = "NONE" /\ q.pid = p.pid
        /\ q.space = p.space /\ q.saved = p.saved /\ q.loaded = p.loaded /\ q.stack = p.stack
    BY <1>3 DEF mark_running, set_state, Proc, State, Reason
  <2> HIDE DEF q
  <2>3. procs' = [P EXCEPT ![s] = q] /\ procs' = Q
    <3>1. mark_running(P[s]) = q
      BY <1>2 DEF q
    <3>2. procs' = [P EXCEPT ![s] = q]
      BY <2>1, <3>1
    <3>3. [P EXCEPT ![s] = q] = Q
      BY <1>1
    <3> QED
      BY <3>2, <3>3
  <2>4. stack' = Append(stack, f) /\ cr3' = AddressSpace(p)
    BY <1>2, <2>1
  <2>5. TableOK(procs, spaces, next_pid)'
    <3>1. RecordOK(q, Sp, next_pid')
      BY <1>3, <2>2 DEF RecordOK
    <3>2. TableOK([P EXCEPT ![s] = q], Sp, next_pid')
      <4> HIDE DEF P
      <4> QED
        BY <1>2, <2>2, <3>1, EditRecord DEF P
    <3> QED
      BY <2>1, <2>3, <3>2
  <2>6. StackOK(stack, Q)
    BY <1>1, EditOther
  <2>7. Q \in [Slot -> Proc] /\ Q[s] = q /\ \A t \in Slot \ {s} : Q[t] = procs[t]
    BY <1>1, <2>2
  <2> HIDE DEF Q
  <2>8. f \in Frame
    <3>1. cr3 \in Int
      <4>1. depth > 0 => procs[Top.slot].space \in Int
        BY <1>1, <1>4 DEF Proc
      <4> QED
        BY <1>1, <1>4, <4>1 DEF AddressSpace, Kernel
    <3>2. by \in {"tick", "sleep", "run", "wait"} /\ p.pid \in Nat
      BY <1>3 DEF Proc
    <3> QED
      BY <3>1, <3>2 DEF Frame, Status
  <2>9. /\ f.slot = s /\ f.pid = p.pid /\ f.by = by /\ f.prev = cr3
    OBVIOUS
  <2> HIDE DEF f
  <2>10. /\ StackOK(stack', Q) /\ RunningOnStack(stack', Q)
         /\ Len(stack') = Len(stack) + 1 /\ stack'[Len(stack')] = f
    <3>1. Len(stack) > 0 => Inside(stack[Len(stack)], Q)
      BY <1>1, <1>4, <2>7 DEF Inside, depth
    <3>2. f.prev = IF Len(stack) = 0 THEN Kernel ELSE AddressSpace(Q[stack[Len(stack)].slot])
      BY <1>1, <1>4, <2>7, <2>9 DEF depth
    <3>3. \A t \in Slot \ {s} : Q[t].state = "RUNNING"
                                => \E i \in 1..Len(stack) : stack[i].slot = t
      BY <1>1, <2>7 DEF RunningOnStack
    <3>4. f.by = IF Len(stack) = 0 THEN "tick" ELSE "run"
      BY <2>9 DEF depth
    <3>5. Q[s].state # "UNUSED" /\ f.pid = Q[s].pid
      BY <2>2, <2>7, <2>9
    <3> QED
      BY <1>1, <2>4, <2>6, <2>7, <2>8, <2>9, <3>1, <3>2, <3>3, <3>4, <3>5, PushFrame
  <2>11. depth' = depth + 1 /\ depth' > 0 /\ Top' = f
    BY <1>1, <2>10 DEF depth, Top
  <2>12. TypeOK'
    BY <1>1, <1>4, <2>1 DEF ExecInv, TypeOK, Place
  <2>13. TopOK'
    <3>1. cr3' \in spaces' \cup {Kernel}
      <4>1. AddressSpace(p) \in Sp \cup {Kernel}
        BY <1>3, SpaceLives
      <4> QED
        BY <2>1, <2>4, <4>1
    <3>2. cr3' = AddressSpace(procs'[Top'.slot]) /\ procs'[Top'.slot].state = "RUNNING"
      <4>1. procs'[Top'.slot] = q
        BY <2>3, <2>7, <2>9, <2>11
      <4>2. AddressSpace(q) = AddressSpace(p)
        BY <2>2 DEF AddressSpace
      <4> QED
        BY <2>2, <2>4, <4>1, <4>2
    <3>3. active'
      <4>1. depth = 0 \/ depth > 0
        BY <1>1 DEF depth
      <4>2. active \/ by # "run"
        BY <1>4, <4>1
      <4>3. active' = (active \/ by # "run")
        BY <2>1
      <4> QED
        BY <4>2, <4>3
    <3>4. Top'.slot = s /\ pc' = "load" /\ depth' # 0
      <4>1. depth \in Nat
        BY <1>1
      <4>2. depth' # 0
        BY <2>11, <4>1
      <4>3. Top'.slot = s
        BY <2>9, <2>11
      <4>4. pc' = "load"
        BY <2>1
      <4> QED
        BY <4>2, <4>3, <4>4
    <3> QED
      <4>1. active' <=> depth' > 0
        BY <2>11, <3>3
      <4>2. cr3' = IF depth' = 0 THEN Kernel
                   ELSE IF pc' = "pop" /\ procs'[Top'.slot].state # "PENDING" THEN cr3'
                   ELSE AddressSpace(procs'[Top'.slot])
        BY <3>2, <3>4
      <4> QED
        BY <3>1, <3>2, <3>4, <4>1, <4>2 DEF TopOK
  <2>14. SuspendOK'
    BY <2>1 DEF SuspendOK
  <2>15. ReasonsOK'
    BY <1>5, <2>2, <2>3, <2>7 DEF ReasonsOK
  <2> QED
    BY <2>3, <2>5, <2>10, <2>12, <2>13, <2>14, <2>15 DEF ExecInv
<1>7. CASE ~(depth < max_depth)
  <2> DEFINE q == mark_exited(p, "error")
             Q == [procs EXCEPT ![s] = q]
  <2>1. depth > 0 /\ by = "run"
    BY <1>1, <1>7
  <2>2. /\ procs' = [P EXCEPT ![s] = mark_exited(P[s], "error")]
        /\ spaces' = Sp \ {P[s].space}
        /\ Return("run", procs', s, "failed")
        /\ UNCHANGED <<stack, cr3>>
    BY <1>7, <2>1 DEF run_proc_slot
  <2>3. /\ ret' = "failed" /\ active' = active /\ sync_slot' = 0 /\ pc' = "user"
    <3>1. ~has_internal_suspend(procs', s, "failed")
      BY DEF has_internal_suspend
    <3> QED
      BY <2>2, <3>1 DEF Return
  <2>4. /\ q \in Proc /\ q.state = "EXITED" /\ q.pid = p.pid /\ q.space = None
        /\ ~q.saved /\ ~q.loaded /\ ~q.stack /\ ~q.fds /\ q.reason = "NONE"
    BY <1>3, ExitedRecord DEF Status
  <2> HIDE DEF q
  <2>5. procs' = [P EXCEPT ![s] = q] /\ procs' = Q /\ spaces' = Sp \ {P[s].space}
    BY <1>1, <1>2, <2>2 DEF q
  <2>6. TableOK(procs, spaces, next_pid)'
    <3>1. TableOK([P EXCEPT ![s] = q], Sp \ {P[s].space}, next_pid')
      <4> HIDE DEF P
      <4> QED
        BY <1>2, <2>4, ReleaseRecord DEF P
    <3> QED
      BY <2>5, <3>1
  <2>7. StackOK(stack, Q) /\ RunningOnStack(stack, Q)
    BY <1>1, <2>4, EditOther
  <2>8. Q[s] = q /\ \A t \in Slot \ {s} : Q[t] = procs[t]
    BY <1>1
  <2> HIDE DEF Q
  <2>9. depth' = depth /\ Top' = Top
    BY <2>2 DEF depth, Top
  <2>10. procs'[Top.slot] = procs[Top.slot]
    BY <1>4, <2>1, <2>5, <2>8
  <2>11. TypeOK'
    BY <1>1, <2>3 DEF ExecInv, TypeOK, Place, Status
  <2>12. TopOK'
    <3>1. Inside(Top, procs)'
      BY <1>4, <2>1, <2>9, <2>10 DEF Inside
    <3>2. cr3' = AddressSpace(procs'[Top'.slot])
      BY <1>4, <2>1, <2>2, <2>9, <2>10
    <3>3. cr3' \in spaces' \cup {Kernel}
      <4>1. RecordOK(procs'[Top.slot], spaces', next_pid') /\ procs'[Top.slot].state # "UNUSED"
        BY <1>4, <2>1, <2>6, <2>10 DEF TableOK, Inside
      <4> QED
        BY <2>9, <3>2, <4>1, SpaceLives
    <3> QED
      BY <1>1, <1>4, <2>1, <2>3, <2>9, <3>1, <3>2, <3>3 DEF TopOK
  <2>13. SuspendOK'
    BY <2>3 DEF SuspendOK
  <2>14. ReasonsOK'
    BY <1>5, <2>4, <2>5, <2>8 DEF ReasonsOK
  <2> QED
    BY <2>2, <2>5, <2>6, <2>7, <2>11, <2>12, <2>13, <2>14 DEF ExecInv
<1> QED
  BY <1>1, <1>6, <1>7

\* clks_exec_dispatch_pending_once finds the first one that may run.
LEMMA AttemptFound ==
    ASSUME ExecInv, Attempts # {}
    PROVE  LET i == At(Least(Attempts)) IN i \in Slot /\ Dispatchable(procs[i])
<1>1. cursor \in Nat /\ MaxProcs \in Nat \ {0}
  BY ExecAssumption DEF ExecInv, TypeOK, Slot
<1>2. Attempts \in SUBSET Nat
  BY <1>1 DEF Attempts, Slot
<1>3. \E m \in Attempts : \A n \in Attempts : m <= n
  BY <1>2, LeastNatural
<1>4. Least(Attempts) \in Attempts
  BY <1>3 DEF Least
<1>5. \A k \in Attempts : Dispatchable(procs[At(k)])
  BY DEF Attempts
<1>6. Least(Attempts) \in Nat
  BY <1>2, <1>4
<1>7. cursor + Least(Attempts) \in Nat
  BY <1>1, <1>6
<1>8. At(Least(Attempts)) \in 0..(MaxProcs - 1)
  BY <1>1, <1>7, ModInRange DEF At
<1> QED
  BY <1>4, <1>5, <1>8 DEF Slot

\* The dispatch of a pending process by the usrd task.
LEMMA Ticks ==
    ASSUME ExecInv, UNCHANGED max_depth, exec_tick
    PROVE  ExecInv'
<1>1. /\ pc = "tick" /\ depth = 0 /\ UNCHANGED <<next_pid, input>>
      /\ dispatch_pending_once("tick", "usrd")
      /\ cursor \in Slot /\ input \in BOOLEAN /\ active \in BOOLEAN /\ ~active
      /\ MaxProcs \in Nat \ {0} /\ procs \in [Slot -> Proc] /\ next_pid \in Nat \ {0}
      /\ TableOK(procs, spaces, next_pid)
  BY CurrentIsTop, ExecAssumption DEF exec_tick, ExecInv, TopOK, TypeOK
<1>2. CASE Attempts = {}
  <2>1. /\ pc' = "usrd"
        /\ UNCHANGED <<procs, stack, cursor, active, memory, ret, sync_slot>>
    BY <1>1, <1>2 DEF dispatch_pending_once
  <2> QED
    BY <1>1, <2>1, PlainStep DEF memory
<1>3. CASE Attempts # {}
  <2> DEFINE i == At(Least(Attempts))
             p == [procs[i] EXCEPT !.reason = "NONE"]
  <2>1. /\ cursor' = (i + 1) % MaxProcs
        /\ run_proc_slot([procs EXCEPT ![i].reason = "NONE"], spaces, i, "tick")
    BY <1>1, <1>3 DEF dispatch_pending_once, NextCursor
  <2>2. i \in Slot /\ Dispatchable(procs[i])
    BY <1>3, AttemptFound
  <2> HIDE DEF i
  <2>3. cursor' \in Slot
    <3>1. i + 1 \in Nat
      BY <2>2 DEF Slot
    <3> QED
      BY <1>1, <2>1, <3>1, ModInRange DEF Slot
  <2>4. run_proc_slot([procs EXCEPT ![i] = p], spaces, i, "tick")
    BY <2>1
  <2>5. /\ p.state = "PENDING" /\ p.pid = procs[i].pid /\ procs[i].state = "PENDING"
        /\ RecordOK(p, spaces, next_pid)
    <3>1. procs[i] \in Proc /\ procs[i].state = "PENDING" /\ RecordOK(procs[i], spaces, next_pid)
      BY <1>1, <2>2 DEF Dispatchable, TableOK
    <3> QED
      BY <3>1 DEF RecordOK, Proc, Reason
  <2> HIDE DEF p
  <2>6. TableOK([procs EXCEPT ![i] = p], spaces, next_pid')
    BY <1>1, <2>2, <2>5, EditRecord
  <2> QED
    BY <1>1, <2>2, <2>3, <2>4, <2>5, <2>6, Opens
<1> QED
  BY <1>2, <1>3

\* A synchronous run, by a process.
LEMMA Runs ==
    ASSUME ExecInv, UNCHANGED max_depth, run_pathv
    PROVE  ExecInv'
<1> DEFINE s == Least(alloc_slot)
<1>1. /\ pc = "user" /\ CanStart /\ next_pid' = next_pid + 1
      /\ UNCHANGED <<cursor, input>>
  BY DEF run_pathv
<1>2. PICK space \in NewSpaces :
         run_proc_slot([procs EXCEPT ![s] = Prepared("RUNNING", space)],
                       PreparedSpaces(s, space), s, "run")
  BY DEF run_pathv
<1>3. s \in Slot /\ procs[s].state \in {"UNUSED", "EXITED"} /\ next_pid \in Nat \ {0}
  BY <1>1, SlotAllocated
<1> HIDE DEF s
<1> DEFINE q == Prepared("RUNNING", space)
<1>4. /\ q \in Proc /\ q.state = "RUNNING" /\ q.pid = next_pid /\ q.space = space
      /\ ~q.saved /\ q.reason = "NONE"
  BY <1>3, PreparedRecord
<1>5. run_proc_slot([procs EXCEPT ![s] = q], PreparedSpaces(s, space), s, "run")
  BY <1>2
<1> HIDE DEF q
<1>6. TableOK([procs EXCEPT ![s] = q], PreparedSpaces(s, space), next_pid')
  <2>1. TableOK(procs, spaces, next_pid) /\ space \in {next_pid, Kernel}
    BY DEF ExecInv, NewSpaces
  <2> QED
    BY <1>1, <1>3, <1>4, <2>1, NewRecord DEF PreparedSpaces
<1>7. depth # 0 /\ cursor' \in Slot /\ input' \in BOOLEAN /\ next_pid' \in Nat \ {0}
  BY <1>1, <1>3 DEF ExecInv, TypeOK, TopOK
<1> QED
  BY <1>1, <1>3, <1>4, <1>5, <1>6, <1>7, Opens

\* The suspended child of a synchronous run goes on.
LEMMA WaitsSync ==
    ASSUME ExecInv, UNCHANGED max_depth, wait_sync_proc_slot
    PROVE  ExecInv'
<1> DEFINE s == sync_slot
           p == procs[s]
<1>1. /\ pc = "sync_wait" /\ UNCHANGED <<cursor, input, next_pid>>
      /\ run_proc_slot(procs, spaces, s, "run")
  BY DEF wait_sync_proc_slot, tables
<1>2. /\ s \in Slot /\ cursor' \in Slot /\ input' \in BOOLEAN /\ next_pid' \in Nat \ {0}
      /\ depth # 0 /\ p.state = "PENDING" /\ procs \in [Slot -> Proc]
      /\ TableOK(procs, spaces, next_pid')
  BY <1>1, CurrentIsTop DEF ExecInv, TypeOK, TopOK, SuspendOK
<1>3. procs = [procs EXCEPT ![s] = p]
  BY <1>2
<1> HIDE DEF s, p
<1>4. run_proc_slot([procs EXCEPT ![s] = p], spaces, s, "run")
      /\ TableOK([procs EXCEPT ![s] = p], spaces, next_pid') /\ procs[s].state # "RUNNING"
  BY <1>1, <1>2, <1>3 DEF p
<1> QED
  BY <1>1, <1>2, <1>4, Opens

-----------------------------------------------------------------------------
(* The life of a frame                                                      *)

\* A step of run_proc_slot edits the record of its process and its own frame.
LEMMA TopEdit ==
    ASSUME ExecInv, depth > 0, NEW q \in Proc, NEW g \in Frame, g.slot = Top.slot,
           g.pid = Top.pid, g.by = Top.by, g.prev = Top.prev,
           q.pid = procs[Top.slot].pid, q.state # "UNUSED",
           procs' = [procs EXCEPT ![Top.slot] = q],
           stack' = [stack EXCEPT ![depth] = g] \/ (stack' = stack /\ g = Top)
    PROVE  /\ StackOK(stack, procs)' /\ RunningOnStack(stack, procs)'
           /\ procs'[Top.slot] = q /\ \A s \in Slot \ {Top.slot} : procs'[s] = procs[s]
           /\ depth' = depth /\ Top' = g
<1> DEFINE Q == [procs EXCEPT ![Top.slot] = q]
<1>1. procs \in [Slot -> Proc] /\ Top.slot \in Slot /\ Len(stack) > 0
  BY CurrentIsTop DEF depth
<1>2. StackOK(stack, Q) /\ RunningOnStack(stack, Q)
  BY <1>1, EditTop DEF ExecInv, Top, depth
<1>3. Q \in [Slot -> Proc]
  BY <1>1
<1>4. Q[Top.slot] = q /\ \A s \in Slot \ {Top.slot} : Q[s] = procs[s]
  BY <1>1
<1> HIDE DEF Q
<1>5. CASE stack' = stack /\ g = Top
  BY <1>2, <1>4, <1>5 DEF depth, Top, Q
<1>6. CASE stack' = [stack EXCEPT ![depth] = g]
  <2>1. LET R == [stack EXCEPT ![Len(stack)] = g]
        IN  /\ StackOK(R, Q) /\ RunningOnStack(R, Q)
            /\ Len(R) = Len(stack) /\ R[Len(stack)] = g
    BY <1>1, <1>2, <1>3, EditFrame DEF depth, Top
  <2> QED
    BY <1>4, <1>6, <2>1 DEF depth, Top, Q
<1> QED
  BY <1>5, <1>6

\* The image is loaded and the window for unwinding opens.
LEMMA Loads ==
    ASSUME ExecInv, UNCHANGED max_depth, load
    PROVE  ExecInv'
<1> DEFINE p == procs[Top.slot]
           q == IF Resumes(p) THEN p
                ELSE [p EXCEPT !.loaded = TRUE, !.stack = TRUE, !.saved = FALSE]
           g == [Top EXCEPT !.unwind = TRUE]
<1>1. /\ pc = "load" /\ (Resumes(p) => p.stack) /\ pc' = "user" /\ ret' = "error"
      /\ UNCHANGED <<next_pid, cursor, input, active, cr3, spaces, sync_slot, max_depth>>
  BY DEF load, tables, memory
<1>2. /\ depth > 0 /\ depth \in Nat /\ Top \in Frame /\ p \in Proc /\ next_pid \in Nat \ {0}
      /\ procs \in [Slot -> Proc] /\ Top.slot \in Slot
      /\ RecordOK(p, spaces, next_pid) /\ p.state = "RUNNING" /\ p.pid = Top.pid
      /\ cr3 = AddressSpace(p)
  <2>1. depth > 0
    BY <1>1, CurrentIsTop DEF ExecInv, TopOK
  <2> QED
    BY <1>1, <2>1, CurrentIsTop DEF ExecInv, TopOK, TableOK
<1>3. /\ q \in Proc /\ q.state = "RUNNING" /\ q.pid = p.pid /\ q.space = p.space
      /\ q.loaded /\ q.stack /\ q.reason = p.reason /\ RecordOK(q, spaces, next_pid)
  <2> HIDE DEF p
  <2>1. CASE Resumes(p)
    BY <1>1, <1>2, <2>1 DEF Resumes
  <2>2. CASE ~Resumes(p)
    <3> DEFINE r == [p EXCEPT !.loaded = TRUE, !.stack = TRUE, !.saved = FALSE]
    <3>1. q = r
      BY <2>2
    <3>2. /\ r \in Proc /\ r.state = "RUNNING" /\ r.pid = p.pid /\ r.space = p.space
          /\ r.loaded /\ r.stack /\ r.reason = p.reason /\ ~r.saved
      BY <1>2 DEF Proc
    <3> HIDE DEF r
    <3>3. RecordOK(r, spaces, next_pid)
      BY <1>2, <3>2 DEF RecordOK
    <3> QED
      BY <3>1, <3>2, <3>3
  <2> QED
    BY <2>1, <2>2
<1>4. /\ g \in Frame /\ g.slot = Top.slot /\ g.pid = Top.pid /\ g.by = Top.by
      /\ g.prev = Top.prev /\ g.unwind
  BY <1>2 DEF Frame
<1>5. /\ procs' = [procs EXCEPT ![Top.slot] = q]
      /\ stack' = [stack EXCEPT ![depth] = g]
  BY DEF load, Top
<1> HIDE DEF p, q, g
<1>6. /\ StackOK(stack, procs)' /\ RunningOnStack(stack, procs)'
      /\ procs'[Top.slot] = q /\ \A s \in Slot \ {Top.slot} : procs'[s] = procs[s]
      /\ depth' = depth /\ Top' = g
  <2>1. q.pid = procs[Top.slot].pid /\ q.state # "UNUSED" /\ q \in Proc
    BY <1>3 DEF p
  <2>2. depth > 0 /\ g \in Frame /\ g.slot = Top.slot /\ g.pid = Top.pid /\ g.by = Top.by
        /\ g.prev = Top.prev
    BY <1>2, <1>4
  <2> QED
    BY <1>5, <2>1, <2>2, TopEdit
<1>7. TableOK(procs, spaces, next_pid)'
  <2>1. TableOK([procs EXCEPT ![Top.slot] = q], spaces, next_pid)
    BY <1>2, <1>3, EditRecord DEF ExecInv, p
  <2> QED
    BY <1>1, <1>5, <2>1
<1>8. TypeOK'
  BY <1>1 DEF ExecInv, TypeOK, Place, Status
<1>9. TopOK'
  <2>1. Inside(Top, procs)'
    BY <1>3, <1>4, <1>6 DEF Inside
  <2>2. cr3' = AddressSpace(procs'[Top'.slot])
    <3>1. AddressSpace(q) = AddressSpace(p)
      BY <1>3 DEF AddressSpace
    <3> QED
      BY <1>1, <1>2, <1>4, <1>6, <3>1
  <2> QED
    BY <1>1, <1>2, <1>6, <2>1, <2>2 DEF ExecInv, TopOK
<1>10. SuspendOK'
  BY <1>1 DEF SuspendOK
<1>11. ReasonsOK'
  <2>1. \A s \in Slot : procs[s].reason \notin {"SLEEP", "WAIT_CHILD"}
    BY <1>1 DEF ExecInv, ReasonsOK
  <2>2. \A s \in Slot : procs'[s].reason = procs[s].reason
    BY <1>3, <1>6 DEF p
  <2> QED
    BY <2>1, <2>2 DEF ReasonsOK
<1> QED
  BY <1>6, <1>7, <1>8, <1>9, <1>10, <1>11 DEF ExecInv

\* The frame of a process that is over gives its record and its address space up.
LEMMA Ends ==
    ASSUME ExecInv, UNCHANGED max_depth, pc \in {"load", "settle"}, NEW q \in Proc,
           q.pid = procs[Top.slot].pid, q.state \in {"STOPPED", "EXITED"},
           q.space = None, q.reason = "NONE", ~q.saved,
           q.state = "EXITED" => ~q.loaded /\ ~q.stack /\ ~q.fds,
           procs' = [procs EXCEPT ![Top.slot] = q],
           destroy_address_space(procs[Top.slot].space), pc' = "pop", ret' \in Status,
           UNCHANGED <<stack, tables, active, sync_slot>>
    PROVE  ExecInv'
<1>1. /\ depth > 0 /\ Top \in Frame /\ Top.slot \in Slot /\ next_pid \in Nat \ {0}
      /\ procs[Top.slot].state = "RUNNING" /\ procs[Top.slot].pid = Top.pid
      /\ UNCHANGED <<next_pid, cursor, input>> /\ q.state # "UNUSED"
      /\ TableOK(procs, spaces, next_pid)
  <2>1. depth > 0
    BY CurrentIsTop DEF ExecInv, TopOK
  <2> QED
    BY <2>1, CurrentIsTop DEF ExecInv, TopOK, tables
<1>2. /\ StackOK(stack, procs)' /\ RunningOnStack(stack, procs)'
      /\ procs'[Top.slot] = q /\ \A s \in Slot \ {Top.slot} : procs'[s] = procs[s]
      /\ depth' = depth /\ Top' = Top
  BY <1>1, TopEdit
<1>3. /\ spaces' = spaces \ {procs[Top.slot].space}
      /\ cr3' = IF cr3 = procs[Top.slot].space THEN Kernel ELSE cr3
  BY DEF destroy_address_space
<1>4. TableOK(procs, spaces, next_pid)'
  <2>1. TableOK([procs EXCEPT ![Top.slot] = q], spaces \ {procs[Top.slot].space}, next_pid)
    BY <1>1, ReleaseRecord
  <2> QED
    BY <1>1, <1>3, <2>1
<1>5. TypeOK'
  BY <1>1 DEF ExecInv, TypeOK, Place
<1>6. TopOK'
  <2>1. cr3' \in spaces' \cup {Kernel}
    BY <1>3 DEF ExecInv, TopOK
  <2> QED
    BY <1>1, <1>2, <2>1 DEF ExecInv, TopOK
<1>7. SuspendOK'
  BY DEF SuspendOK, Status
<1>8. ReasonsOK'
  BY <1>2 DEF ExecInv, ReasonsOK
<1> QED
  BY <1>2, <1>4, <1>5, <1>6, <1>7, <1>8 DEF ExecInv

\* No image was loaded, or the process is over.
LEMMA Failures ==
    ASSUME ExecInv, UNCHANGED max_depth, load_fails \/ settle
    PROVE  ExecInv'
<1> DEFINE p == procs[Top.slot]
<1>1. pc \in {"load", "settle"} /\ p \in Proc /\ Top \in Frame
  <2>1. pc \in {"load", "settle"}
    BY DEF load_fails, settle
  <2>2. depth > 0
    BY <2>1, CurrentIsTop DEF ExecInv, TopOK
  <2> QED
    BY <2>1, <2>2, CurrentIsTop
<1>2. CASE load_fails
  <2> DEFINE q == mark_exited(p, "error")
  <2>1. /\ q \in Proc /\ q.state = "EXITED" /\ q.pid = p.pid /\ q.space = None
        /\ ~q.saved /\ ~q.loaded /\ ~q.stack /\ ~q.fds /\ q.reason = "NONE"
    BY <1>1, ExitedRecord DEF Status
  <2>2. /\ procs' = [procs EXCEPT ![Top.slot] = q] /\ destroy_address_space(p.space)
        /\ pc' = "pop" /\ ret' = "failed" /\ UNCHANGED <<stack, tables, active, sync_slot>>
    BY <1>2 DEF load_fails
  <2>3. ret' \in Status
    BY <2>2 DEF Status
  <2> HIDE DEF q
  <2> QED
    BY <1>1, <2>1, <2>2, <2>3, Ends
<1>3. CASE settle
  <2> DEFINE q == IF Top.stop
                  THEN [set_state(release_runtime(p), "STOPPED", "NONE")
                          EXCEPT !.space = None, !.status = ret]
                  ELSE mark_exited(p, ret)
  <2>1. /\ pc = "settle" /\ procs' = [procs EXCEPT ![Top.slot] = q]
        /\ destroy_address_space(p.space)
        /\ pc' = "pop" /\ UNCHANGED <<stack, tables, active, ret, sync_slot>>
    BY <1>3 DEF settle
  <2>2. ret \in Status
    BY <2>1 DEF ExecInv, TypeOK, SuspendOK
  <2>3. /\ q \in Proc /\ q.state \in {"STOPPED", "EXITED"} /\ q.pid = p.pid
        /\ q.space = None /\ ~q.saved /\ q.reason = "NONE"
        /\ q.state = "EXITED" => ~q.loaded /\ ~q.stack /\ ~q.fds
    <3>1. CASE Top.stop
      <4> DEFINE r == set_state(release_runtime(p), "STOPPED", "NONE")
      <4>1. /\ r \in Proc /\ r.state = "STOPPED" /\ r.pid = p.pid /\ ~r.saved
            /\ r.reason = "NONE"
        <5>1. release_runtime(p) \in Proc /\ ~release_runtime(p).saved
              /\ release_runtime(p).pid = p.pid
          BY <1>1 DEF release_runtime, Proc
        <5> QED
          BY <5>1 DEF set_state, Proc, State, Reason
      <4>2. q = [r EXCEPT !.space = None, !.status = ret]
        BY <3>1
      <4> HIDE DEF r, q
      <4> QED
        <5>1. q \in Proc
          <6>1. None \in Int
            BY DEF None
          <6> QED
            BY <2>2, <4>1, <4>2, <6>1 DEF Proc
        <5>2. /\ q.state = r.state /\ q.pid = r.pid /\ q.space = None
              /\ q.saved = r.saved /\ q.reason = r.reason
          BY <4>1, <4>2 DEF Proc
        <5> QED
          BY <4>1, <5>1, <5>2
    <3>2. CASE ~Top.stop
      BY <1>1, <2>2, <3>2, ExitedRecord
    <3> QED
      BY <3>1, <3>2
  <2> HIDE DEF q
  <2> QED
    BY <1>1, <2>1, <2>2, <2>3, Ends
<1> QED
  BY <1>2, <1>3

\* The process has returned or was unwound: it goes back to the pending ones, whole,
\* or is over.
LEMMA Leavings ==
    ASSUME ExecInv, UNCHANGED max_depth, entry_returned \/ suspended
    PROVE  ExecInv'
<1> DEFINE p == procs[Top.slot]
<1>1. /\ depth > 0 /\ depth \in Nat /\ Top \in Frame /\ p \in Proc /\ next_pid \in Nat \ {0}
      /\ procs \in [Slot -> Proc] /\ Top.slot \in Slot
      /\ RecordOK(p, spaces, next_pid) /\ p.state = "RUNNING" /\ p.pid = Top.pid
      /\ cr3 = AddressSpace(p) /\ pc \in {"returned", "suspending"}
      /\ UNCHANGED <<next_pid, cursor, input, active, cr3, spaces, sync_slot, max_depth>>
  <2>1. /\ pc \in {"returned", "suspending"}
        /\ UNCHANGED <<next_pid, cursor, input, active, cr3, spaces, sync_slot, max_depth>>
    BY DEF entry_returned, suspended, tables, memory
  <2>2. depth > 0
    BY <2>1, CurrentIsTop DEF ExecInv, TopOK
  <2> QED
    BY <2>1, <2>2, CurrentIsTop DEF ExecInv, TopOK, TableOK, Inside
<1>2. ASSUME NEW q, RecordOK(q, spaces, next_pid), q.pid = p.pid, q.space = p.space,
             q.reason = p.reason, NEW g \in Frame, g.slot = Top.slot,
             g.pid = Top.pid, g.by = Top.by, g.prev = Top.prev,
             procs' = [procs EXCEPT ![Top.slot] = q],
             stack' = [stack EXCEPT ![depth] = g] \/ (stack' = stack /\ g = Top),
             ret' \in Status \cup {"SUSPEND"},
             \/ /\ pc' \in {"suspending", "settle"} /\ q.state = "RUNNING"
                /\ pc' = "suspending" => q.saved
                /\ pc' = "settle" => ret' # "SUSPEND"
             \/ pc' = "pop" /\ q.state = "PENDING" /\ q.saved
      PROVE  ExecInv'
  <2>1. q \in Proc /\ q.state # "UNUSED"
    BY <1>2 DEF RecordOK
  <2>2. /\ StackOK(stack, procs)' /\ RunningOnStack(stack, procs)'
        /\ procs'[Top.slot] = q /\ \A s \in Slot \ {Top.slot} : procs'[s] = procs[s]
        /\ depth' = depth /\ Top' = g
    BY <1>1, <1>2, <2>1, TopEdit, ZenonT(30)
  <2>3. TableOK(procs, spaces, next_pid)'
    <3>1. TableOK([procs EXCEPT ![Top.slot] = q], spaces, next_pid)
      BY <1>1, <1>2, EditRecord DEF ExecInv
    <3> QED
      BY <1>1, <1>2, <3>1
  <2>4. TypeOK'
    BY <1>1, <1>2 DEF ExecInv, TypeOK, Place
  <2>5. TopOK'
    <3>1. cr3' = AddressSpace(procs'[Top'.slot])
      <4>1. AddressSpace(q) = AddressSpace(p)
        BY <1>2 DEF AddressSpace
      <4> QED
        BY <1>1, <1>2, <2>2, <4>1
    <3>2. /\ active' = active /\ depth' > 0 /\ depth' # 0
          /\ cr3' \in spaces' \cup {Kernel} /\ active
      BY <1>1, <2>2 DEF ExecInv, TopOK
    <3> QED
      BY <1>2, <2>2, <3>1, <3>2 DEF TopOK
  <2>6. SuspendOK'
    BY <1>2, <2>2 DEF SuspendOK
  <2>7. ReasonsOK'
    <3>1. \A s \in Slot : procs[s].reason \notin {"SLEEP", "WAIT_CHILD"}
      BY <1>1 DEF ExecInv, ReasonsOK
    <3>2. \A s \in Slot : procs'[s].reason = procs[s].reason
      BY <1>2, <2>2
    <3> QED
      BY <3>1, <3>2 DEF ReasonsOK
  <2> QED
    BY <2>2, <2>3, <2>4, <2>5, <2>6, <2>7 DEF ExecInv
<1>3. CASE entry_returned
  <2> DEFINE q == Closed(p)
             g == [Top EXCEPT !.unwind = FALSE]
             status == IF Top.exit THEN Top.status ELSE ret
  <2>1. /\ pc = "returned" /\ procs' = [procs EXCEPT ![Top.slot] = q]
        /\ stack' = [stack EXCEPT ![depth] = g]
        /\ ret' = status
        /\ pc' = IF status = "SUSPEND" /\ q.saved THEN "suspending" ELSE "settle"
    BY <1>3 DEF entry_returned, Top
  <2>2. /\ g \in Frame /\ g.slot = Top.slot /\ g.pid = Top.pid /\ g.by = Top.by
        /\ g.prev = Top.prev /\ Top.status \in Status /\ Top.exit \in BOOLEAN
    BY <1>1 DEF Frame
  <2>3. /\ RecordOK(q, spaces, next_pid) /\ q.pid = p.pid /\ q.space = p.space
        /\ q.reason = p.reason /\ q.state = "RUNNING"
    <3>1. CASE ret = "SUSPEND"
      BY <1>1, <3>1 DEF Closed
    <3>2. CASE ret # "SUSPEND"
      <4>1. q = [p EXCEPT !.stack = FALSE, !.saved = FALSE]
        BY <3>2 DEF Closed
      <4> QED
        BY <1>1, <4>1 DEF RecordOK, Proc
    <3> QED
      BY <3>1, <3>2
  <2>4. ret \in Status \cup {"SUSPEND"} /\ "SUSPEND" \notin Status
    BY DEF ExecInv, TypeOK, Status
  <2>5. status \in Status \cup {"SUSPEND"} /\ (status = "SUSPEND" => q.saved)
    <3>1. status = "SUSPEND" => ret = "SUSPEND"
      BY <2>2, <2>4
    <3>2. ret = "SUSPEND" => q = p /\ p.saved
      BY <2>1 DEF Closed, ExecInv, SuspendOK
    <3> QED
      BY <2>2, <2>4, <3>1, <3>2
  <2> HIDE DEF p, q, g, status
  <2>6. \/ pc' = "suspending" /\ q.saved
        \/ pc' = "settle" /\ ret' # "SUSPEND"
    BY <2>1, <2>5
  <2> QED
    BY <1>2, <2>1, <2>2, <2>3, <2>5, <2>6
<1>4. CASE suspended
  <2> DEFINE q == [set_state(p, "PENDING", p.reason) EXCEPT !.status = "error"]
  <2>1. /\ pc = "suspending" /\ procs' = [procs EXCEPT ![Top.slot] = q]
        /\ pc' = "pop" /\ stack' = stack /\ ret' = ret
    BY <1>4 DEF suspended
  <2>2. p.saved /\ ret \in Status \cup {"SUSPEND"}
    BY <2>1 DEF ExecInv, TypeOK, SuspendOK
  <2>3. /\ RecordOK(q, spaces, next_pid) /\ q.pid = p.pid /\ q.space = p.space
        /\ q.reason = p.reason /\ q.state = "PENDING" /\ q.saved
    <3> HIDE DEF p
    <3> DEFINE r == set_state(p, "PENDING", p.reason)
    <3>1. /\ r \in Proc /\ RecordOK(r, spaces, next_pid) /\ r.pid = p.pid
          /\ r.space = p.space /\ r.reason = p.reason /\ r.state = "PENDING" /\ r.saved
      BY <1>1, <2>2 DEF set_state, RecordOK, Proc, State
    <3>2. q = [r EXCEPT !.status = "error"]
      OBVIOUS
    <3> HIDE DEF r, q
    <3> QED
      BY <3>1, <3>2 DEF RecordOK, Proc, Status
  <2> HIDE DEF q
  <2> QED
    BY <1>1, <1>2, <2>1, <2>2, <2>3
<1> QED
  BY <1>3, <1>4

\* The frame is closed: the kernel is back in the caller, or in the usrd task.
LEMMA Pops ==
    ASSUME ExecInv, UNCHANGED max_depth, pop
    PROVE  ExecInv'
<1> DEFINE p == procs[Top.slot]
<1>1. /\ pc = "pop" /\ stack' = Below /\ cr3' = Top.prev
      /\ Return(Top.by, procs, Top.slot, ret)
      /\ UNCHANGED <<next_pid, cursor, input, spaces>>
  BY DEF pop, tables
<1>2. /\ depth > 0 /\ depth \in Nat /\ procs \in [Slot -> Proc] /\ Top.slot \in Slot
      /\ p.state \in {"PENDING", "STOPPED", "EXITED"} /\ active /\ 0 \in Slot
      /\ Top.by = IF depth = 1 THEN "tick" ELSE "run"
      /\ next_pid \in Nat \ {0}
  <2>1. depth > 0
    BY <1>1, CurrentIsTop DEF ExecInv, TopOK
  <2> QED
    BY <1>1, <2>1, CurrentIsTop, ExecAssumption DEF ExecInv, TopOK, Slot
<1>3. procs' = procs
  <2>1. Top.by # "wait"
    BY <1>2
  <2> QED
    BY <2>1 DEF pop
<1>4. /\ StackOK(Below, procs) /\ RunningOnStack(Below, procs)
      /\ Len(Below) = depth - 1
      /\ Len(Below) > 0 => /\ Inside(Below[Len(Below)], procs)
                           /\ Top.prev = AddressSpace(procs[Below[Len(Below)].slot])
      /\ Len(Below) = 0 => Top.prev = Kernel
  <2>1. StackOK(stack, procs) /\ RunningOnStack(stack, procs) /\ Len(stack) > 0
    BY <1>2 DEF ExecInv, depth
  <2> QED
    BY <1>2, <2>1, PopFrame DEF Below, Top, depth
<1>5. depth' = depth - 1 /\ Top' = Below[Len(Below)] /\ depth' = Len(Below)
  BY <1>1, <1>4 DEF depth, Top
<1>6. StackOK(stack, procs)' /\ RunningOnStack(stack, procs)'
      /\ TableOK(procs, spaces, next_pid)'
  BY <1>1, <1>3, <1>4 DEF ExecInv
<1>7. cr3' \in spaces' \cup {Kernel}
  <2>1. CASE depth' = 0
    BY <1>1, <1>4, <1>5, <2>1
  <2>2. CASE depth' # 0
    <3>1. depth' > 0
      BY <1>2, <1>5, <2>2
    <3>2. Inside(Top', procs) /\ cr3' = AddressSpace(procs[Top'.slot])
      BY <1>1, <1>4, <1>5, <3>1
    <3>3. Top'.slot \in Slot
      <4>1. depth' \in 1..Len(stack') /\ stack' \in Seq(Frame) /\ Top' = stack'[depth']
        BY <1>1, <1>2, <1>5, <1>6, <3>1 DEF StackOK, Top, depth
      <4>2. Top' \in Frame
        BY <4>1, ElementOfSeq
      <4> QED
        BY <4>2 DEF Frame
    <3>4. RecordOK(procs[Top'.slot], spaces, next_pid) /\ procs[Top'.slot].state # "UNUSED"
      BY <3>2, <3>3 DEF ExecInv, TableOK, Inside
    <3> QED
      BY <1>1, <1>2, <3>2, <3>4, SpaceLives
  <2> QED
    BY <2>1, <2>2
<1>8. ret' = ret /\ ret \in Status \cup {"SUSPEND"}
  BY <1>1 DEF Return, ExecInv, TypeOK
<1>9. ret = "SUSPEND" => has_internal_suspend(procs, Top.slot, ret)
  BY <1>1 DEF ExecInv, SuspendOK, has_internal_suspend
<1>10. ReasonsOK'
  BY <1>1, <1>3 DEF ExecInv, ReasonsOK
<1>11. CASE depth = 1
  <2>1. pc' = "usrd" /\ active' = FALSE /\ sync_slot' = 0
    BY <1>1, <1>2, <1>11 DEF Return
  <2>2. depth' = 0 /\ cr3' = Kernel
    BY <1>1, <1>4, <1>5, <1>11
  <2>3. TopOK'
    BY <1>7, <2>1, <2>2 DEF TopOK
  <2>4. SuspendOK'
    BY <2>1 DEF SuspendOK
  <2>5. TypeOK'
    BY <1>1, <1>2, <1>8, <2>1 DEF ExecInv, TypeOK, Place
  <2> QED
    BY <1>6, <1>10, <2>3, <2>4, <2>5 DEF ExecInv
<1>12. CASE depth # 1
  <2>1. Top.by = "run" /\ depth' > 0 /\ depth' # 0
    BY <1>2, <1>5, <1>12
  <2>2. active' = active
    BY <1>1, <2>1 DEF Return
  <2>3. /\ Inside(Top, procs)' /\ cr3' = AddressSpace(procs'[Top'.slot])
    BY <1>1, <1>3, <1>4, <1>5, <2>1 DEF Inside
  <2>4. \/ /\ has_internal_suspend(procs, Top.slot, ret)
           /\ pc' = "sync_wait" /\ sync_slot' = Top.slot
        \/ ret # "SUSPEND" /\ pc' = "user" /\ sync_slot' = 0
    <3>1. CASE has_internal_suspend(procs, Top.slot, ret)
      BY <1>1, <2>1, <3>1 DEF Return
    <3>2. CASE ~has_internal_suspend(procs, Top.slot, ret)
      BY <1>1, <1>9, <2>1, <3>2 DEF Return
    <3> QED
      BY <3>1, <3>2
  <2>5. TopOK'
    BY <1>2, <1>7, <2>1, <2>2, <2>3, <2>4 DEF TopOK
  <2>6. SuspendOK'
    BY <1>3, <1>8, <2>4 DEF SuspendOK, has_internal_suspend
  <2>7. TypeOK'
    BY <1>1, <1>2, <1>8, <2>2, <2>4 DEF ExecInv, TypeOK, Place
  <2> QED
    BY <1>6, <1>10, <2>5, <2>6, <2>7 DEF ExecInv
<1> QED
  BY <1>11, <1>12

-----------------------------------------------------------------------------
(* The theorems                                                             *)

\* Nothing runs after clks_exec_init.
LEMMA InitOK ==
    ASSUME Init
    PROVE  ExecInv
<1>1. /\ max_depth \in Depths /\ procs = [s \in Slot |-> NoProc] /\ stack = <<>>
      /\ next_pid = 1 /\ active = FALSE /\ cursor = 0 /\ cr3 = Kernel /\ spaces = {}
      /\ input = FALSE /\ pc = "usrd" /\ ret = "error" /\ sync_slot = 0 /\ 0 \in Slot
  BY ExecAssumption DEF Init, Slot
<1>2. NoProc \in Proc /\ RecordOK(NoProc, {}, 1)
  BY DEF NoProc, Proc, RecordOK, State, Reason, Status, None
<1>3. TableOK(procs, spaces, next_pid)
  BY <1>1, <1>2 DEF TableOK, NoProc
<1>4. depth = 0 /\ stack \in Seq(Frame) /\ Len(stack) = 0
  BY <1>1 DEF depth
<1>5. StackOK(stack, procs)
  BY <1>4 DEF StackOK
<1>6. RunningOnStack(stack, procs)
  BY <1>1 DEF RunningOnStack, NoProc
<1>7. TypeOK /\ SuspendOK
  BY <1>1 DEF TypeOK, SuspendOK, Place, Status
<1>8. TopOK /\ ReasonsOK
  BY <1>1, <1>4 DEF TopOK, ReasonsOK, NoProc
<1> QED
  BY <1>3, <1>5, <1>6, <1>7, <1>8 DEF ExecInv

\* Every step of the kernel, of a process and of the keyboard keeps the invariant.
LEMMA NextOK ==
    ASSUME ExecInv, [Next]_vars
    PROVE  ExecInv'
<1>1. CASE UNCHANGED vars
  <2>1. /\ UNCHANGED <<max_depth, procs, stack, next_pid, active, cr3, spaces, sync_slot>>
        /\ UNCHANGED <<pc, ret, input, cursor>>
    BY <1>1 DEF vars, tables, memory
  <2> QED
    BY <2>1, PlainStep DEF ExecInv, TypeOK
<1>2. CASE kernel
  BY <1>2, PlainSteps, Ticks, Loads, Failures, Leavings, Pops, WaitsSync, ProcessCalls
     DEF kernel
<1>3. CASE process /\ UNCHANGED max_depth
  <2>1. CASE proc_kill
    <3>1. /\ Continues /\ ret' = "error" /\ UNCHANGED <<tables, active, sync_slot>>
          /\ \/ \E s \in Slot : kill_cont(s) \/ kill_stop(s) \/ kill_term(s)
             \/ \E stops \in BOOLEAN : kill_current(stops)
      BY <2>1 DEF proc_kill
    <3> QED
      BY <1>3, <3>1, Kills, Requests
  <2> QED
    BY <1>3, <2>1, Spawns, Runs, BadStdio, PlainSteps, Requests, ProcessCalls DEF process
<1>4. CASE (sleep_loop \/ userland_starts \/ try_unwind \/ force_stop \/ key_pressed)
           /\ UNCHANGED max_depth
  BY <1>4, PlainSteps, Spawns, Requests
<1> QED
  BY <1>1, <1>2, <1>3, <1>4 DEF Next

\* The invariant holds of every state.
THEOREM RuntimeIsSound == Spec => []ExecInv
<1>1. Init => ExecInv
  BY InitOK
<1>2. ExecInv /\ [Next]_vars => ExecInv'
  BY NextOK
<1> QED
  BY <1>1, <1>2, PTL DEF Spec

\* At every place of the kernel but pop the process of the top frame runs.
LEMMA TopRuns ==
    ASSUME ExecInv, depth > 0, pc # "pop"
    PROVE  procs[Top.slot].state = "RUNNING"
BY CurrentIsTop DEF ExecInv, TypeOK, TopOK, Inside, Place

\* clks_exec_current_proc always finds the record that clks_exec_run_proc_slot uses:
\* the running processes are those with a frame, one each.
THEOREM StackIsTable == Spec => []StackMatchesTable
<1>1. ASSUME ExecInv PROVE StackMatchesTable
  <2>1. depth = Len(stack) /\ depth \in Nat
    BY <1>1, CurrentIsTop DEF depth
  <2>2. \A i \in 1..depth : i = depth \/ i \in 1..(Len(stack) - 1)
    BY <2>1
  <2>3. \A i \in 1..(Len(stack) - 1) : procs[stack[i].slot].state = "RUNNING"
    BY <1>1 DEF ExecInv, StackOK, Inside
  <2>4. depth > 0 /\ pc # "pop" => procs[stack[depth].slot].state = "RUNNING"
    BY <1>1, TopRuns DEF Top
  <2>5. \A i \in 1..depth : (pc = "pop" /\ i = depth)
                               \/ procs[stack[i].slot].state = "RUNNING"
    BY <2>1, <2>2, <2>3, <2>4
  <2>6. \A i \in 1..depth : procs[stack[i].slot].pid = stack[i].pid
    BY <1>1, <2>1 DEF ExecInv, StackOK
  <2>7. \A i, j \in 1..depth : stack[i].slot = stack[j].slot => i = j
    BY <1>1, <2>1 DEF ExecInv, StackOK
  <2>8. \A s \in Slot : procs[s].state = "RUNNING" => \E i \in 1..depth : stack[i].slot = s
    BY <1>1, <2>1 DEF ExecInv, RunningOnStack
  <2> QED
    BY <2>5, <2>6, <2>7, <2>8 DEF StackMatchesTable
<1> QED
  BY <1>1, RuntimeIsSound, PTL

\* Yielding suspends the process whenever it asks, nothing is dispatched while it sleeps,
\* and SUSPEND is never the status that a command sees.
THEOREM YieldSuspends == Spec => []AlwaysSuspendable
<1>1. ASSUME ExecInv PROVE AlwaysSuspendable
  <2>1. active <=> depth > 0
    BY <1>1 DEF ExecInv, TopOK
  <2>2. ASSUME pc = "user" PROVE CanSuspend /\ ret # "SUSPEND"
    <3>1. depth > 0 /\ Inside(Top, procs)
      BY <1>1, <2>2, CurrentIsTop DEF ExecInv, TopOK
    <3> QED
      BY <1>1, <2>1, <2>2, <3>1, CurrentIsTop DEF ExecInv, SuspendOK, CanSuspend, Inside
  <2>3. ASSUME NEW s \in SlotsIn("PENDING")
        PROVE  procs[s].reason \notin {"SLEEP", "WAIT_CHILD"}
    <3>1. s \in Slot /\ procs[s].state = "PENDING"
      BY DEF SlotsIn
    <3>2. pc = "sleeping" => procs[Top.slot].state = "RUNNING"
      BY <1>1 DEF ExecInv, TopOK, Inside
    <3> QED
      BY <1>1, <3>1, <3>2 DEF ExecInv, ReasonsOK
  <2> QED
    BY <2>1, <2>2, <2>3 DEF AlwaysSuspendable
<1> QED
  BY <1>1, RuntimeIsSound, PTL

\* Nobody uses, or returns to, an address space that was destroyed, and what is to be
\* resumed kept its image, stack and registers.
THEOREM ResourcesAreLive == Spec => []ResourcesLive
<1>1. ASSUME ExecInv PROVE ResourcesLive
  <2>1. /\ depth = Len(stack) /\ depth \in Nat /\ stack \in Seq(Frame)
        /\ next_pid \in Nat \ {0} /\ TableOK(procs, spaces, next_pid)
    BY <1>1, CurrentIsTop DEF depth, ExecInv
  <2>2. ASSUME NEW i \in 1..depth PROVE stack[i].prev \in spaces \cup {Kernel}
    <3>1. CASE i = 1
      BY <1>1, <2>1, <3>1 DEF ExecInv, StackOK
    <3>2. CASE i # 1
      <4>1. i - 1 \in 1..(Len(stack) - 1) /\ i - 1 \in 1..Len(stack)
        BY <2>1, <3>2
      <4>2. stack[i - 1] \in Frame
        BY <2>1, <4>1, ElementOfSeq
      <4>3. /\ stack[i - 1].slot \in Slot
            /\ stack[i].prev = AddressSpace(procs[stack[i - 1].slot])
            /\ procs[stack[i - 1].slot].state # "UNUSED"
        BY <1>1, <2>1, <3>2, <4>1, <4>2 DEF ExecInv, StackOK, Frame
      <4>4. RecordOK(procs[stack[i - 1].slot], spaces, next_pid)
        BY <2>1, <4>3 DEF TableOK
      <4> QED
        BY <2>1, <4>3, <4>4, SpaceLives
    <3> QED
      BY <3>1, <3>2
  <2>3. pc = "user" => cr3 = AddressSpace(procs[Top.slot])
    BY <1>1 DEF ExecInv, TopOK
  <2>4. cr3 \in spaces \cup {Kernel}
    BY <1>1 DEF ExecInv, TopOK
  <2>5. ResumableIsWhole
    <3> SUFFICES ASSUME NEW s \in Slot
                 PROVE  /\ procs[s].saved /\ pc # "returned"
                              => procs[s].loaded /\ procs[s].stack
                        /\ procs[s].state = "EXITED" =>
                              /\ ~procs[s].loaded /\ ~procs[s].stack /\ ~procs[s].fds
                              /\ procs[s].space = None /\ procs[s].pid \notin spaces
      BY DEF ResumableIsWhole
    <3>1. RecordOK(procs[s], spaces, next_pid)
      BY <2>1 DEF TableOK
    <3>2. procs[s].state = "EXITED" => procs[s].pid # None
      BY <2>1, <3>1 DEF RecordOK, None
    <3> QED
      BY <3>1, <3>2 DEF RecordOK
  <2> QED
    BY <2>2, <2>3, <2>4, <2>5 DEF ResourcesLive, AddressSpaceLive
<1> QED
  BY <1>1, RuntimeIsSound, PTL

\* No exited record changes but for one that another process takes over.
ExitKept ==
    \A s \in Slot : procs[s].state = "EXITED" /\ procs'[s].pid = procs[s].pid
                       => procs'[s] = procs[s]

\* An edit of a record that did not exit, or that gets a new pid.
LEMMA EditKeepsExits ==
    ASSUME ExecInv, NEW s \in Slot, NEW q, procs' = [procs EXCEPT ![s] = q],
           procs[s].state # "EXITED" \/ q.pid # procs[s].pid
    PROVE  ExitKept
<1>1. procs'[s] = q /\ \A t \in Slot \ {s} : procs'[t] = procs[t]
  BY CurrentIsTop
<1> QED
  BY <1>1 DEF ExitKept

\* clks_exec_run_proc_slot edits the record of its slot alone.
LEMMA OpeningKeepsExits ==
    ASSUME ExecInv, NEW s \in Slot, NEW p \in Proc, NEW Sp, NEW by,
           procs[s].state # "EXITED" \/ p.pid # procs[s].pid,
           run_proc_slot([procs EXCEPT ![s] = p], Sp, s, by)
    PROVE  ExitKept
<1> DEFINE P == [procs EXCEPT ![s] = p]
<1>1. procs \in [Slot -> Proc] /\ P[s] = p /\ \A t \in Slot \ {s} : P[t] = procs[t]
  BY CurrentIsTop
<1>2. \/ procs' = [P EXCEPT ![s] = mark_running(P[s])]
      \/ procs' = [P EXCEPT ![s] = mark_exited(P[s], "error")]
  <2>1. run_proc_slot(P, Sp, s, by)
    OBVIOUS
  <2> HIDE DEF P
  <2> QED
    BY <2>1 DEF run_proc_slot
<1>3. mark_running(p).pid = p.pid /\ mark_exited(p, "error").pid = p.pid
  <2>1. mark_exited(p, "error").pid = p.pid
    BY ExitedRecord DEF Status
  <2> QED
    BY <2>1 DEF mark_running, set_state, Proc
<1>4. PICK q : q.pid = p.pid /\ procs' = [P EXCEPT ![s] = q]
  BY <1>1, <1>2, <1>3
<1>5. procs' = [procs EXCEPT ![s] = q]
  BY <1>1, <1>4
<1> QED
  BY <1>4, <1>5, EditKeepsExits

\* The kernel's own steps.
LEMMA KernelKeepsExits ==
    ASSUME ExecInv, kernel
    PROVE  ExitKept
<1> DEFINE p == procs[Top.slot]
<1>1. ASSUME depth > 0, pc # "pop", NEW q, procs' = [procs EXCEPT ![Top.slot] = q]
      PROVE  ExitKept
  BY <1>1, TopRuns, CurrentIsTop, EditKeepsExits
<1>2. ASSUME UNCHANGED procs PROVE ExitKept
  BY <1>2 DEF ExitKept
<1>3. pc \in {"load", "returned", "suspending", "settle", "sleeping", "pop"} => depth > 0
  BY CurrentIsTop DEF ExecInv, TopOK
<1>4. CASE userland_tick
  BY <1>2, <1>4 DEF userland_tick
<1>5. CASE exec_tick
  <2>1. CASE active \/ Attempts = {}
    BY <1>2, <1>5, <2>1 DEF exec_tick, dispatch_pending_once
  <2>2. CASE ~(active \/ Attempts = {})
    <3> DEFINE i == At(Least(Attempts))
    <3>1. run_proc_slot([procs EXCEPT ![i].reason = "NONE"], spaces, i, "tick")
      BY <1>5, <2>2 DEF exec_tick, dispatch_pending_once
    <3>2. i \in Slot /\ Dispatchable(procs[i])
      BY <2>2, AttemptFound
    <3> HIDE DEF i
    <3> DEFINE r == [procs[i] EXCEPT !.reason = "NONE"]
    <3>3. run_proc_slot([procs EXCEPT ![i] = r], spaces, i, "tick")
      BY <3>1
    <3>4. r \in Proc /\ procs[i].state = "PENDING"
      BY <3>2, CurrentIsTop DEF Dispatchable, Proc, Reason
    <3> HIDE DEF r
    <3> QED
      BY <3>2, <3>3, <3>4, OpeningKeepsExits
  <2> QED
    BY <2>1, <2>2
<1>6. CASE load
  BY <1>1, <1>3, <1>6 DEF load
<1>7. CASE load_fails
  BY <1>1, <1>3, <1>7 DEF load_fails
<1>8. CASE entry_returned
  BY <1>1, <1>3, <1>8 DEF entry_returned
<1>9. CASE suspended
  BY <1>1, <1>3, <1>9 DEF suspended
<1>10. CASE settle
  BY <1>1, <1>3, <1>10 DEF settle
<1>11. CASE pop
  <2>1. Top.by # "wait"
    BY <1>3, <1>11, CurrentIsTop DEF pop
  <2> QED
    BY <1>2, <1>11, <2>1 DEF pop
<1>12. CASE wait_sync_proc_slot
  <2> DEFINE s == sync_slot
  <2>1. /\ s \in Slot /\ procs[s] \in Proc /\ procs[s].state = "PENDING"
        /\ procs \in [Slot -> Proc] /\ run_proc_slot(procs, spaces, s, "run")
    BY <1>12, CurrentIsTop DEF wait_sync_proc_slot, ExecInv, TypeOK, SuspendOK
  <2>2. procs = [procs EXCEPT ![s] = procs[s]]
    BY <2>1
  <2> HIDE DEF s
  <2>3. run_proc_slot([procs EXCEPT ![s] = procs[s]], spaces, s, "run")
    BY <2>1, <2>2
  <2> QED
    BY <2>1, <2>3, OpeningKeepsExits
<1>13. CASE sleep_ends
  <2>1. depth > 0 /\ procs' = set_block(procs, "NONE") /\ pc = "sleeping"
    BY <1>3, <1>13 DEF sleep_ends, clear_block
  <2> QED
    BY <1>1, <2>1, SetBlockEdits
<1> QED
  BY <1>4, <1>5, <1>6, <1>7, <1>8, <1>9, <1>10, <1>11, <1>12, <1>13 DEF kernel

\* The steps of processes, of userland and of the keyboard.
LEMMA ProcessKeepsExits ==
    ASSUME ExecInv,
           sleep_loop \/ userland_starts \/ process \/ try_unwind \/ force_stop \/ key_pressed
    PROVE  ExitKept
<1>1. ASSUME UNCHANGED procs PROVE ExitKept
  BY <1>1 DEF ExitKept
<1>2. pc \in {"user", "sleeping"} => depth > 0 /\ active
  BY CurrentIsTop DEF ExecInv, TopOK
<1>3. ASSUME pc = "user", NEW r, procs' = set_block(procs, r) PROVE ExitKept
  <2>1. depth > 0 /\ procs[Top.slot].state = "RUNNING" /\ Top.slot \in Slot
    BY <1>2, <1>3, TopRuns, CurrentIsTop
  <2>2. procs' = [procs EXCEPT ![Top.slot] = [procs[Top.slot] EXCEPT !.reason = r]]
    BY <1>3, <2>1, SetBlockEdits
  <2> QED
    BY <2>1, <2>2, EditKeepsExits
<1>4. ASSUME CanStart
      PROVE  /\ Least(alloc_slot) \in Slot /\ next_pid \in Nat \ {0}
             /\ procs[Least(alloc_slot)].state = "EXITED"
                   => procs[Least(alloc_slot)].pid \in 1..(next_pid - 1)
  BY <1>4, SlotAllocated DEF ExecInv, TableOK, RecordOK
<1>5. CASE spawn
  <2> DEFINE s == Least(alloc_slot)
  <2>1. PICK space \in NewSpaces : procs' = [procs EXCEPT ![s] = Prepared("PENDING", space)]
    BY <1>5 DEF spawn
  <2>2. /\ s \in Slot /\ next_pid \in Nat \ {0}
        /\ procs[s].state = "EXITED" => procs[s].pid \in 1..(next_pid - 1)
    BY <1>4, <1>5 DEF spawn
  <2>3. Prepared("PENDING", space).pid = next_pid
    BY DEF Prepared, NoProc
  <2> HIDE DEF s
  <2>4. procs[s].state # "EXITED" \/ Prepared("PENDING", space).pid # procs[s].pid
    BY <2>2, <2>3
  <2> QED
    BY <2>1, <2>2, <2>4, EditKeepsExits
<1>6. CASE run_pathv
  <2> DEFINE s == Least(alloc_slot)
  <2>1. PICK space \in NewSpaces :
           run_proc_slot([procs EXCEPT ![s] = Prepared("RUNNING", space)],
                         PreparedSpaces(s, space), s, "run")
    BY <1>6 DEF run_pathv
  <2>2. /\ s \in Slot /\ next_pid \in Nat \ {0}
        /\ procs[s].state = "EXITED" => procs[s].pid \in 1..(next_pid - 1)
    BY <1>4, <1>6 DEF run_pathv
  <2>3. /\ Prepared("RUNNING", space).pid = next_pid
        /\ Prepared("RUNNING", space) \in Proc
    BY <2>2, PreparedRecord
  <2> HIDE DEF s
  <2>4. procs[s].state # "EXITED" \/ Prepared("RUNNING", space).pid # procs[s].pid
    BY <2>2, <2>3
  <2> QED
    BY <2>1, <2>2, <2>3, <2>4, OpeningKeepsExits
<1>7. CASE run_pathv_bad_stdio
  <2> DEFINE s == Least(alloc_slot)
  <2>1. /\ s \in Slot /\ procs' = [procs EXCEPT ![s] = NoProc] /\ NoProc.pid = 0
        /\ procs[s].state = "EXITED" => procs[s].pid \in 1..(next_pid - 1)
    BY <1>4, <1>7 DEF run_pathv_bad_stdio, NoProc
  <2>2. procs[s].state # "EXITED" \/ NoProc.pid # procs[s].pid
    BY <1>4, <1>7, <2>1 DEF run_pathv_bad_stdio
  <2> QED
    BY <2>1, <2>2, EditKeepsExits
<1>8. ASSUME NEW s \in Slot, wait_pid(s) PROVE ExitKept
  <2>1. ~WaitRuns(s)
    BY <1>2, <1>8 DEF wait_pid, WaitRuns
  <2> QED
    BY <1>1, <1>8, <2>1 DEF wait_pid
<1>9. CASE proc_kill
  <2>1. ASSUME NEW s \in Slot, kill_cont(s) \/ kill_stop(s) \/ kill_term(s) PROVE ExitKept
    <3>1. procs[s].state # "EXITED" /\ \E q : procs' = [procs EXCEPT ![s] = q]
      BY <2>1 DEF kill_cont, kill_stop, kill_term
    <3> QED
      BY <3>1, EditKeepsExits
  <2>2. ASSUME NEW stops \in BOOLEAN, kill_current(stops) PROVE ExitKept
    BY <1>1, <2>2 DEF kill_current
  <2> QED
    BY <1>9, <2>1, <2>2 DEF proc_kill
<1>10. CASE read_tty \/ read_pty \/ play_tone
  <2>1. pc = "user" /\ \E r : procs' = set_block(procs, r)
    BY <1>10 DEF read_tty, read_pty, play_tone, clear_block, Continues
  <2> QED
    BY <1>3, <2>1
<1>11. CASE yield
  <2>1. pc = "user"
    BY <1>11 DEF yield
  <2>2. CASE CanSuspend
    <3>1. procs' = [s \in Slot |-> IF s \in CurrentSlots THEN Saved(procs[s]) ELSE procs[s]]
      BY <1>11, <2>2 DEF yield
    <3>2. procs \in [Slot -> Proc] /\ CurrentSlots = {Top.slot} /\ Top.slot \in Slot
      BY <1>2, <2>1, CurrentIsTop
    <3>3. procs' = [procs EXCEPT ![Top.slot] = Saved(procs[Top.slot])]
      BY <3>1, <3>2
    <3> QED
      BY <1>2, <2>1, <3>2, <3>3, TopRuns, EditKeepsExits
  <2>3. CASE ~CanSuspend
    <3>1. procs' = set_block(procs, "YIELD")
      BY <1>11, <2>3 DEF yield
    <3> QED
      BY <1>3, <2>1, <3>1
  <2> QED
    BY <2>2, <2>3
<1>12. CASE sleep_loop
  BY <1>1, <1>2, <1>12 DEF sleep_loop, dispatch_pending_once
<1>13. CASE request_exit \/ entry_returns \/ handle_exception \/ try_unwind \/ key_pressed
  BY <1>1, <1>13 DEF request_exit, entry_returns, handle_exception, try_unwind, key_pressed
<1>14. CASE force_stop
  BY <1>1, <1>14 DEF force_stop, kill_current
<1>15. (userland_starts => spawn) /\ (spawn_pathv => spawn)
  BY DEF userland_starts, spawn_pathv
<1> QED
  BY <1>5, <1>6, <1>7, <1>8, <1>9, <1>10, <1>11, <1>12, <1>13, <1>14, <1>15 DEF process

\* An exit is final: the status of a process that exited, which a parent may still ask
\* for, changes only when the slot is given to another one.
THEOREM ExitsAreFinal == Spec => ExitIsFinal
<1>1. ASSUME ExecInv, [Next]_vars PROVE [ExitKept]_vars
  BY <1>1, KernelKeepsExits, ProcessKeepsExits DEF Next
<1> QED
  BY <1>1, RuntimeIsSound, PTL DEF Spec, ExitIsFinal, ExitKept

=============================================================================
