------------------------------ MODULE PtyProofs ------------------------------
(***************************************************************************)
(* The reference counts of pseudo terminals are exact, and the ring        *)
(* buffers implement channels, for every number of ptys, descriptors,      *)
(* processes and bytes.                                                    *)
(*                                                                         *)
(* The holders of a pty are finitely many whatever Procs is, since every   *)
(* one was added by a step; that is part of the invariant, and Cardinality *)
(* is only reasoned about through it.                                      *)
(***************************************************************************)
EXTENDS Pty, FiniteSetTheorems, SequenceTheorems, WellFoundedInduction, TLAPS

-----------------------------------------------------------------------------
(* Positions in a ring                                                      *)

\* A remainder is a position of a ring.
LEMMA ModInRange ==
    ASSUME NEW a \in Nat, NEW n \in Nat \ {0}
    PROVE  a % n \in 0..(n - 1)
OBVIOUS

\* A set of naturals that is not empty has a least element: the first free slot is such.
LEMMA LeastNatural ==
    ASSUME NEW S \in SUBSET Nat, S # {}
    PROVE  \E m \in S : \A n \in S : m <= n
<1>1. PICK m \in S : \A n \in S : ~(<<n, m>> \in OpToRel(<, Nat))
  BY NatLessThanWellFounded, WFMin, Zenon
<1>2. \A n \in S : ~(n < m)
  BY <1>1 DEF OpToRel
<1> QED
  BY <1>2

\* The position k after r in a ring of n.
LEMMA PositionAfter ==
    ASSUME NEW n \in Nat \ {0}, NEW r \in 0..(n - 1), NEW k \in 0..n
    PROVE  /\ (r + k) % n = IF r + k < n THEN r + k ELSE r + k - n
           /\ r % n = r
OBVIOUS

\* What follows the next one is one nearer.
LEMMA NextIsNearer ==
    ASSUME NEW n \in Nat \ {0}, NEW r \in 0..(n - 1), NEW k \in 0..(n - 1)
    PROVE  /\ (r + 1) % n \in 0..(n - 1)
           /\ (((r + 1) % n) + k) % n = (r + (k + 1)) % n
           /\ (((r + k) % n) + 1) % n = (r + (k + 1)) % n
<1>1. 1 \in 0..n /\ k \in 0..n /\ k + 1 \in 0..n
  OBVIOUS
<1>2. /\ (r + 1) % n = IF r + 1 < n THEN r + 1 ELSE r + 1 - n
      /\ (r + k) % n = IF r + k < n THEN r + k ELSE r + k - n
      /\ (r + (k + 1)) % n = IF r + (k + 1) < n THEN r + (k + 1) ELSE r + (k + 1) - n
  BY <1>1, PositionAfter
<1> DEFINE a == (r + 1) % n
           b == (r + k) % n
<1>3. a \in 0..(n - 1) /\ b \in 0..(n - 1)
  BY <1>2
<1>4. /\ (a + k) % n = IF a + k < n THEN a + k ELSE a + k - n
      /\ (b + 1) % n = IF b + 1 < n THEN b + 1 ELSE b + 1 - n
  <2> HIDE DEF a, b
  <2> QED
    BY <1>1, <1>3, PositionAfter
<1>5. a = (IF r + 1 < n THEN r + 1 ELSE r + 1 - n) /\ b = (IF r + k < n THEN r + k ELSE r + k - n)
  BY <1>2
<1> HIDE DEF a, b
<1>6. (a + k) % n = (r + (k + 1)) % n
  BY <1>2, <1>4, <1>5
<1>7. (b + 1) % n = (r + (k + 1)) % n
  BY <1>2, <1>4, <1>5
<1> QED
  BY <1>3, <1>6, <1>7 DEF a, b

\* The positions before the one c after r differ from it: a byte that is added to a ring
\* overwrites none that waits in it.
LEMMA Ahead ==
    ASSUME NEW n \in Nat \ {0}, NEW r \in 0..(n - 1), NEW c \in 0..(n - 1), NEW j \in 0..(c - 1)
    PROVE  (r + j) % n \in 0..(n - 1) /\ (r + j) % n # (r + c) % n
<1>1. j \in 0..n /\ c \in 0..n
  OBVIOUS
<1>2. (r + j) % n = IF r + j < n THEN r + j ELSE r + j - n
  BY <1>1, PositionAfter
<1>3. (r + c) % n = IF r + c < n THEN r + c ELSE r + c - n
  BY <1>1, PositionAfter
<1> DEFINE x == (r + j) % n
           y == (r + c) % n
<1>4. x = (IF r + j < n THEN r + j ELSE r + j - n) /\ y = (IF r + c < n THEN r + c ELSE r + c - n)
  BY <1>2, <1>3
<1> HIDE DEF x, y
<1>5. x \in 0..(n - 1) /\ x # y
  BY <1>4
<1> QED
  BY <1>5 DEF x, y
-----------------------------------------------------------------------------

Ring == 0..(Size - 1)
PtyRec == [id : Nat, ref : Nat, buffer : [Ring -> Byte], read_pos : Ring,
           write_pos : Ring, count : 0..Size]
Entry == [kind : {"free", "tty", "pty"}, id : Nat, reads : BOOLEAN, writes : BOOLEAN]
Start == [child : Procs, parent : Procs, from : [Stdio -> Int], at : 0..3]

\* The descriptors of the tables T that hold pty i.
HoldersIn(T, i) == {h \in Procs \X Fd : T[h[1]][h[2]].kind = "pty" /\ T[h[1]][h[2]].id = i}

\* A ring: what was written follows what is to be read.
RingOK(p) == p \in PtyRec /\ p.write_pos = (p.read_pos + p.count) % Size

\* The slots P, when n is the next id: each is free or has an id of its own.
SlotsOK(P, n) ==
    /\ P \in [Slot -> PtyRec]
    /\ \A s \in Slot : RingOK(P[s]) /\ P[s].id < n
    /\ \A s, t \in Slot : P[s].id # 0 /\ P[s].id = P[t].id => s = t

\* A descriptor of the tables T holds nothing or a pty of P.
EntriesOK(P, T) ==
    /\ T \in [Procs -> [Fd -> Entry]]
    /\ \A p \in Procs, f \in Fd :
          IF T[p][f].kind = "pty"
          THEN T[p][f].id # 0 /\ \E s \in Slot : P[s].id = T[p][f].id
          ELSE T[p][f].id = 0

\* The count of a pty is that of its holders, and it has one.
CountsOK(P, T) ==
    \A s \in Slot : P[s].id # 0 => /\ IsFiniteSet(HoldersIn(T, P[s].id))
                                    /\ Cardinality(HoldersIn(T, P[s].id)) = P[s].ref
                                    /\ P[s].ref > 0

\* Who does not exist holds nothing, nor do the stdio descriptors of a child that are
\* still to be overridden.
ProcsOK ==
    /\ alive \subseteq Procs
    /\ start \in Start
    /\ \A p \in Procs \ alive, f \in Fd : fds[p][f].kind # "pty"
    /\ start.at < 3 => /\ start.child \in alive
                       /\ \A f \in Fd : f >= start.at => fds[start.child][f].kind # "pty"

PtyInv ==
    /\ next_id \in Nat \ {0} /\ next_id <= MaxId + 1
    /\ SlotsOK(ptys, next_id)
    /\ EntriesOK(ptys, fds)
    /\ CountsOK(ptys, fds)
    /\ ProcsOK

-----------------------------------------------------------------------------
(* Sets of holders                                                          *)

\* Taking another reference counts one more holder.
LEMMA OneMore ==
    ASSUME NEW S, IsFiniteSet(S), NEW h, h \notin S
    PROVE  IsFiniteSet(S \cup {h}) /\ Cardinality(S \cup {h}) = Cardinality(S) + 1
           /\ Cardinality(S \cup {h}) \in Nat /\ Cardinality(S) \in Nat
BY FS_AddElement, FS_CardinalityType

\* The descriptors F of p are as many as the pairs of p with them.
LEMMA Paired ==
    ASSUME NEW p, NEW F, IsFiniteSet(F)
    PROVE  IsFiniteSet({p} \X F) /\ Cardinality({p} \X F) = Cardinality(F)
<1>1. IsFiniteSet({p}) /\ Cardinality({p}) = 1
  BY FS_Singleton
<1>2. IsFiniteSet({p} \X F) /\ Cardinality({p} \X F) = 1 * Cardinality(F)
  BY <1>1, FS_Product
<1>3. Cardinality(F) \in Nat
  BY FS_CardinalityType
<1> QED
  BY <1>2, <1>3

\* The least element of a set of indices is one of it.
LEMMA LeastIn ==
    ASSUME NEW S \in SUBSET Nat, S # {}
    PROVE  Least(S) \in S
BY LeastNatural DEF Least

-----------------------------------------------------------------------------
(* The ring of one pty                                                      *)

\* A slot that was wiped, and one that clks_pty_alloc hands out.
LEMMA NoPtyOK ==
    RingOK(NoPty) /\ NoPty.id = 0 /\ NoPty.count = 0
<1>1. AnyByte \in Byte
  BY PtyAssumption DEF AnyByte
<1>2. [k \in 0..(Size - 1) |-> AnyByte] \in [Ring -> Byte]
  BY <1>1 DEF Ring
<1>3. NoPty \in PtyRec
  BY <1>2, PtyAssumption DEF NoPty, PtyRec, Ring
<1>4. (0 + 0) % Size = 0
  BY PtyAssumption, PositionAfter
<1> QED
  BY <1>3, <1>4 DEF RingOK, NoPty

\* A read takes a byte that is there.
LEMMA AdvanceOK ==
    ASSUME NEW p, RingOK(p), p.count > 0
    PROVE  RingOK(advance(p)) /\ advance(p).id = p.id /\ advance(p).ref = p.ref
<1>1. /\ p \in PtyRec /\ p.read_pos \in Ring /\ p.count \in 1..Size
      /\ p.write_pos = (p.read_pos + p.count) % Size
  BY DEF RingOK, PtyRec
<1>2. Size \in Nat \ {0} /\ p.read_pos \in 0..(Size - 1) /\ p.count - 1 \in 0..(Size - 1)
  BY <1>1, PtyAssumption DEF Ring
<1>3. /\ wrapped(p.read_pos) \in Ring /\ p.count - 1 \in 0..Size
      /\ (wrapped(p.read_pos) + (p.count - 1)) % Size = (p.read_pos + p.count) % Size
  <2>1. (p.count - 1) + 1 = p.count /\ p.count - 1 \in 0..Size
    BY <1>1, <1>2
  <2> QED
    BY <1>2, <2>1, NextIsNearer DEF wrapped, Ring
<1>4. advance(p) = [p EXCEPT !.read_pos = wrapped(p.read_pos), !.count = p.count - 1]
  BY DEF advance
<1>5. /\ advance(p) \in PtyRec /\ advance(p).read_pos = wrapped(p.read_pos)
      /\ advance(p).count = p.count - 1 /\ advance(p).write_pos = p.write_pos
      /\ advance(p).id = p.id /\ advance(p).ref = p.ref
  BY <1>1, <1>3, <1>4 DEF PtyRec
<1> QED
  BY <1>1, <1>3, <1>5 DEF RingOK

\* A write drops the oldest byte of a full buffer.
LEMMA PutOK ==
    ASSUME NEW p, RingOK(p), NEW b \in Byte
    PROVE  RingOK(put(p, b)) /\ put(p, b).id = p.id /\ put(p, b).ref = p.ref
<1> DEFINE q == IF p.count = Size THEN advance(p) ELSE p
<1>1. p \in PtyRec /\ p.count \in 0..Size /\ Size \in Nat \ {0}
  BY PtyAssumption DEF RingOK, PtyRec
<1>2. /\ RingOK(q) /\ q.id = p.id /\ q.ref = p.ref /\ q.write_pos = p.write_pos
      /\ q.count < Size /\ q.buffer = p.buffer
  <2>1. CASE p.count = Size
    <3>1. q = advance(p) /\ p.count > 0
      BY <1>1, <2>1
    <3>2. advance(p) = [p EXCEPT !.read_pos = wrapped(p.read_pos), !.count = p.count - 1]
      BY DEF advance
    <3>3. /\ advance(p).write_pos = p.write_pos /\ advance(p).buffer = p.buffer
          /\ advance(p).count = p.count - 1
      BY <1>1, <3>2 DEF PtyRec
    <3> HIDE DEF q
    <3> QED
      BY <1>1, <2>1, <3>1, <3>3, AdvanceOK
  <2>2. CASE p.count # Size
    BY <1>1, <2>2
  <2> QED
    BY <2>1, <2>2
<1>3. put(p, b) = [q EXCEPT !.buffer[p.write_pos] = b, !.write_pos = wrapped(q.write_pos),
                            !.count = q.count + 1]
  BY DEF put
<1> HIDE DEF q
<1> DEFINE w == q.write_pos
           r == q.read_pos
           c == q.count
<1>4. /\ q \in PtyRec /\ q.buffer \in [Ring -> Byte] /\ w \in 0..(Size - 1)
      /\ r \in 0..(Size - 1) /\ c \in 0..(Size - 1) /\ w = (r + c) % Size
  BY <1>1, <1>2 DEF RingOK, PtyRec, Ring
<1>6. /\ wrapped(w) \in Ring /\ c + 1 \in 0..Size
      /\ wrapped(w) = (r + (c + 1)) % Size
  <2> HIDE DEF r, c
  <2>1. wrapped(w) = (r + (c + 1)) % Size
    BY <1>1, <1>4, NextIsNearer DEF wrapped
  <2>2. wrapped(w) \in 0..(Size - 1)
    <3>1. w + 1 \in Nat
      BY <1>1, <1>4
    <3> QED
      BY <1>1, <3>1, ModInRange DEF wrapped
  <2> QED
    BY <1>1, <1>4, <2>1, <2>2 DEF Ring
<1> DEFINE B == [q.buffer EXCEPT ![w] = b]
<1>7. B \in [Ring -> Byte]
  BY <1>4 DEF Ring
<1>8. put(p, b) = [q EXCEPT !.buffer = B, !.write_pos = wrapped(w), !.count = c + 1]
  BY <1>2, <1>3, <1>4 DEF PtyRec
<1> HIDE DEF B
<1>9. /\ put(p, b) \in PtyRec /\ put(p, b).read_pos = r /\ put(p, b).count = c + 1
      /\ put(p, b).write_pos = wrapped(w) /\ put(p, b).id = q.id /\ put(p, b).ref = q.ref
      /\ put(p, b).buffer = B
  BY <1>4, <1>6, <1>7, <1>8 DEF PtyRec
<1> QED
  BY <1>2, <1>6, <1>9 DEF RingOK

-----------------------------------------------------------------------------
(* References                                                               *)

\* Another descriptor of a pty that some descriptor holds: clks_exec_fd_dup and an
\* override of a stdio descriptor.
LEMMA Retains ==
    ASSUME PtyInv, NEW p \in Procs, NEW f \in Fd, fds[p][f].kind # "pty",
           NEW e \in Entry, NEW o \in Procs, NEW g \in Fd, fds[o][g] = e,
           fds' = [fds EXCEPT ![p][f] = e], ptys' = pty_retain(e.id), UNCHANGED next_id
    PROVE  SlotsOK(ptys, next_id)' /\ EntriesOK(ptys, fds)' /\ CountsOK(ptys, fds)'
<1>1. /\ ptys \in [Slot -> PtyRec] /\ fds \in [Procs -> [Fd -> Entry]]
      /\ \A s \in Slot : RingOK(ptys[s])
  BY DEF PtyInv, SlotsOK, EntriesOK
<1>2. /\ fds' \in [Procs -> [Fd -> Entry]] /\ fds'[p][f] = e
      /\ \A q \in Procs, h \in Fd : q # p \/ h # f => fds'[q][h] = fds[q][h]
  BY <1>1
<1>3. \A s \in Slot : ptys'[s] = IF e.id # 0 /\ ptys[s].id = e.id
                                 THEN [ptys[s] EXCEPT !.ref = @ + 1] ELSE ptys[s]
  BY DEF pty_retain, find_slot
<1>4. ASSUME NEW s \in Slot
      PROVE  /\ ptys'[s].id = ptys[s].id /\ RingOK(ptys'[s])
             /\ ptys'[s].ref = IF e.id # 0 /\ ptys[s].id = e.id
                               THEN ptys[s].ref + 1 ELSE ptys[s].ref
  <2>1. CASE e.id # 0 /\ ptys[s].id = e.id
    <3>1. ptys'[s] = [ptys[s] EXCEPT !.ref = ptys[s].ref + 1]
      BY <1>3, <2>1
    <3> QED
      <4>1. ptys[s] \in PtyRec /\ ptys[s].ref + 1 \in Nat
        BY <1>1 DEF PtyRec
      <4>2. /\ ptys'[s] \in PtyRec /\ ptys'[s].id = ptys[s].id
            /\ ptys'[s].ref = ptys[s].ref + 1
            /\ ptys'[s].read_pos = ptys[s].read_pos
            /\ ptys'[s].write_pos = ptys[s].write_pos /\ ptys'[s].count = ptys[s].count
        BY <3>1, <4>1 DEF PtyRec
      <4> QED
        BY <1>1, <2>1, <4>2 DEF RingOK
  <2>2. CASE ~(e.id # 0 /\ ptys[s].id = e.id)
    BY <1>1, <1>3, <2>2
  <2> QED
    BY <2>1, <2>2
<1>5. SlotsOK(ptys, next_id)'
  <2>1. ptys' \in [Slot -> PtyRec]
    BY <1>4 DEF pty_retain, RingOK
  <2> QED
    BY <1>4, <2>1 DEF PtyInv, SlotsOK
<1>6. EntriesOK(ptys, fds)'
  <2>1. IF e.kind = "pty" THEN e.id # 0 /\ \E s \in Slot : ptys[s].id = e.id ELSE e.id = 0
    BY DEF PtyInv, EntriesOK
  <2>2. \A q \in Procs, h \in Fd : \/ fds'[q][h] = e
                                   \/ fds'[q][h] = fds[q][h]
    BY <1>2
  <2> QED
    BY <1>2, <1>4, <2>1, <2>2 DEF PtyInv, EntriesOK
<1>7. CountsOK(ptys, fds)'
  <2> SUFFICES ASSUME NEW s \in Slot, ptys'[s].id # 0
               PROVE  /\ IsFiniteSet(HoldersIn(fds', ptys'[s].id))
                      /\ Cardinality(HoldersIn(fds', ptys'[s].id)) = ptys'[s].ref
                      /\ ptys'[s].ref > 0
    BY DEF CountsOK
  <2> DEFINE i == ptys[s].id
             H == HoldersIn(fds, i)
  <2>1. /\ IsFiniteSet(H) /\ Cardinality(H) = ptys[s].ref /\ ptys[s].ref > 0
        /\ ptys'[s].id = i
    BY <1>4 DEF PtyInv, CountsOK
  <2>2. CASE e.id = i
    <3>1. e.kind = "pty"
      BY <1>4, <2>2 DEF PtyInv, EntriesOK
    <3>2. <<p, f>> \notin H
      BY DEF HoldersIn
    <3>3. HoldersIn(fds', i) = H \cup {<<p, f>>}
      BY <1>2, <2>2, <3>1 DEF HoldersIn
    <3>4. ptys'[s].ref = ptys[s].ref + 1 /\ ptys[s].ref \in Nat
      BY <1>1, <1>4, <2>2 DEF PtyRec
    <3> HIDE DEF H
    <3> QED
      <4>1. IsFiniteSet(H \cup {<<p, f>>}) /\ Cardinality(H \cup {<<p, f>>}) = ptys[s].ref + 1
        BY <2>1, <3>2, OneMore
      <4>2. ptys[s].ref + 1 > 0
        BY <3>4
      <4> QED
        BY <2>1, <3>3, <3>4, <4>1, <4>2
  <2>3. CASE e.id # i
    <3>1. HoldersIn(fds', i) = H
      BY <1>2, <2>3 DEF HoldersIn
    <3> QED
      BY <1>4, <2>1, <2>3, <3>1
  <2> QED
    BY <2>2, <2>3
<1> QED
  BY <1>5, <1>6, <1>7

\* Descriptors that are given up: each release takes one reference, and the last one
\* wipes the slot.
LEMMA Releases ==
    ASSUME PtyInv, NEW p \in Procs, NEW F \in SUBSET Fd, release(p, F), UNCHANGED next_id
    PROVE  SlotsOK(ptys, next_id)' /\ EntriesOK(ptys, fds)' /\ CountsOK(ptys, fds)'
<1>1. /\ ptys \in [Slot -> PtyRec] /\ fds \in [Procs -> [Fd -> Entry]]
      /\ \A s \in Slot : RingOK(ptys[s])
      /\ \A s, t \in Slot : ptys[s].id # 0 /\ ptys[s].id = ptys[t].id => s = t
  BY DEF PtyInv, SlotsOK, EntriesOK
<1>2. Free \in Entry /\ Free.kind = "free" /\ Free.id = 0
  BY DEF Free, Entry
<1>3. /\ fds' \in [Procs -> [Fd -> Entry]]
      /\ \A f \in Fd : fds'[p][f] = IF f \in F THEN Free ELSE fds[p][f]
      /\ \A q \in Procs \ {p} : fds'[q] = fds[q]
  BY <1>1, <1>2 DEF release
<1> DEFINE Gone(i) == {f \in F : fds[p][f].kind = "pty" /\ fds[p][f].id = i}
           H(i) == HoldersIn(fds, i)
<1>4. ASSUME NEW i \in Nat \ {0}
      PROVE  /\ HoldersIn(fds', i) = H(i) \ ({p} \X Gone(i))
             /\ H(i) \cap ({p} \X Gone(i)) = {p} \X Gone(i)
             /\ IsFiniteSet(Gone(i))
  <2>1. {p} \X Gone(i) \subseteq H(i)
    BY DEF HoldersIn
  <2>2. HoldersIn(fds', i) = H(i) \ ({p} \X Gone(i))
    <3>1. ASSUME NEW q \in Procs, NEW f \in Fd
          PROVE  (<<q, f>> \in HoldersIn(fds', i))
                     <=> (<<q, f>> \in H(i) /\ ~(q = p /\ f \in Gone(i)))
      BY <1>2, <1>3 DEF HoldersIn
    <3>2. HoldersIn(fds', i) \subseteq Procs \X Fd /\ H(i) \subseteq Procs \X Fd
      BY DEF HoldersIn
    <3>3. \A x \in Procs \X Fd : (x \in HoldersIn(fds', i))
                                     <=> (x \in H(i) /\ x \notin {p} \X Gone(i))
      <4> SUFFICES ASSUME NEW x \in Procs \X Fd
                   PROVE  (x \in HoldersIn(fds', i)) <=> (x \in H(i) /\ x \notin {p} \X Gone(i))
        OBVIOUS
      <4>1. PICK q \in Procs, f \in Fd : x = <<q, f>>
        OBVIOUS
      <4>2. (x \in {p} \X Gone(i)) <=> (q = p /\ f \in Gone(i))
        BY <4>1
      <4> HIDE DEF Gone, H
      <4> QED
        BY <3>1, <4>1, <4>2
    <3> QED
      BY <3>2, <3>3
  <2>3. IsFiniteSet(Gone(i))
    <3>1. IsFiniteSet(0..(FdMax - 1))
      BY FS_Interval, PtyAssumption
    <3>2. Gone(i) \in SUBSET (0..(FdMax - 1))
      BY DEF Fd
    <3> HIDE DEF Gone
    <3> QED
      BY <3>1, <3>2, FS_Subset
  <2> HIDE DEF Gone, H
  <2> QED
    BY <2>1, <2>2, <2>3
<1>5. \A s \in Slot : /\ Held(p, F, s) = Cardinality(Gone(ptys[s].id))
                      /\ ptys[s].id \in Nat
  BY <1>1 DEF Held, PtyRec
<1>6. ASSUME NEW s \in Slot, ptys[s].id # 0
      PROVE  LET i == ptys[s].id
             IN  /\ IsFiniteSet(HoldersIn(fds', i))
                 /\ Held(p, F, s) \in Nat
                 /\ Cardinality(HoldersIn(fds', i)) = ptys[s].ref - Held(p, F, s)
                 /\ Cardinality(HoldersIn(fds', i)) \in Nat /\ ptys[s].ref \in Nat
                 /\ IF Held(p, F, s) = ptys[s].ref
                    THEN ptys'[s] = NoPty /\ HoldersIn(fds', i) = {}
                    ELSE /\ ptys'[s] = [ptys[s] EXCEPT !.ref = @ - Held(p, F, s)]
                         /\ ptys[s].ref - Held(p, F, s) > 0
  <2> DEFINE i == ptys[s].id
             n == Held(p, F, s)
             K == HoldersIn(fds', i)
  <2>1. /\ IsFiniteSet(H(i)) /\ Cardinality(H(i)) = ptys[s].ref /\ ptys[s].ref > 0
        /\ ptys[s].ref \in Nat /\ i \in Nat \ {0}
    BY <1>1, <1>5, <1>6 DEF PtyInv, CountsOK, PtyRec
  <2>2. n = Cardinality(Gone(i)) /\ IsFiniteSet(Gone(i))
    BY <1>4, <1>5, <2>1
  <2>3. K = H(i) \ ({p} \X Gone(i)) /\ H(i) \cap ({p} \X Gone(i)) = {p} \X Gone(i)
    BY <1>4, <2>1
  <2> HIDE DEF Gone, H
  <2>4. Cardinality({p} \X Gone(i)) = n /\ n \in Nat
    BY <2>2, Paired, FS_CardinalityType
  <2>5. IsFiniteSet(K) /\ Cardinality(K) = ptys[s].ref - n
    <3>1. /\ IsFiniteSet(H(i) \ ({p} \X Gone(i)))
          /\ Cardinality(H(i) \ ({p} \X Gone(i)))
                = Cardinality(H(i)) - Cardinality(H(i) \cap ({p} \X Gone(i)))
      BY <2>1, FS_Difference
    <3> HIDE DEF K
    <3> QED
      BY <2>1, <2>3, <2>4, <3>1
  <2> HIDE DEF K
  <2>6. Cardinality(K) \in Nat
    BY <2>5, FS_CardinalityType
  <2>7. ptys'[s] = IF n > 0 THEN IF ptys[s].ref > n THEN [ptys[s] EXCEPT !.ref = @ - n] ELSE NoPty
                   ELSE ptys[s]
    BY DEF release, Released
  <2> HIDE DEF n
  <2>8. IF n = ptys[s].ref
        THEN ptys'[s] = NoPty /\ K = {}
        ELSE ptys'[s] = [ptys[s] EXCEPT !.ref = @ - n] /\ ptys[s].ref - n > 0
    <3>1. CASE n = ptys[s].ref
      <4>1. ptys'[s] = NoPty /\ Cardinality(K) = 0
        BY <2>1, <2>5, <2>7, <3>1
      <4> QED
        BY <2>5, <3>1, <4>1, FS_EmptySet
    <3>2. CASE n # ptys[s].ref
      <4>1. ptys[s].ref - n > 0 /\ ptys[s].ref > n
        BY <2>1, <2>4, <2>5, <2>6, <3>2
      <4>2. CASE n > 0
        BY <2>7, <3>2, <4>1, <4>2
      <4>3. CASE n = 0
        <5>1. ptys'[s] = ptys[s] /\ ptys[s].ref - n = ptys[s].ref
          BY <2>1, <2>7, <4>3
        <5>2. [ptys[s] EXCEPT !.ref = ptys[s].ref] = ptys[s]
          BY <1>1 DEF PtyRec
        <5> QED
          BY <3>2, <4>1, <5>1, <5>2
      <4> QED
        BY <2>4, <4>2, <4>3
    <3> QED
      BY <3>1, <3>2
  <2> QED
    BY <2>1, <2>4, <2>5, <2>6, <2>8 DEF n, K
<1>7. ASSUME NEW s \in Slot, ptys[s].id = 0 PROVE ptys'[s] = ptys[s]
  <2>1. Gone(0) = {}
    BY <1>1 DEF PtyInv, EntriesOK
  <2>2. Held(p, F, s) = 0
    BY <1>5, <1>7, <2>1, FS_EmptySet
  <2> QED
    BY <2>2 DEF release
<1>8. ASSUME NEW s \in Slot
      PROVE  /\ RingOK(ptys'[s])
             /\ ptys'[s].id = ptys[s].id \/ ptys'[s].id = 0
  <2>1. CASE ptys[s].id = 0
    BY <1>1, <1>7, <2>1
  <2>2. CASE ptys[s].id # 0
    <3>1. CASE ptys'[s] = NoPty
      BY <3>1, NoPtyOK
    <3>2. CASE ptys'[s] # NoPty
      <4>1. PICK r \in Nat : ptys'[s] = [ptys[s] EXCEPT !.ref = r]
        <5>1. ptys[s].ref - Held(p, F, s) \in Nat
          BY <1>6, <2>2
        <5> QED
          BY <1>6, <2>2, <3>2, <5>1
      <4> QED
        BY <1>1, <4>1 DEF RingOK, PtyRec
    <3> QED
      BY <3>1, <3>2
  <2> QED
    BY <2>1, <2>2
<1>9. SlotsOK(ptys, next_id)'
  <2>1. ptys' \in [Slot -> PtyRec]
    BY <1>8 DEF release, RingOK
  <2>2. \A s \in Slot : ptys'[s].id < next_id
    BY <1>8 DEF PtyInv, SlotsOK
  <2> QED
    BY <1>1, <1>8, <2>1, <2>2 DEF SlotsOK
<1>10. CountsOK(ptys, fds)'
  <2> SUFFICES ASSUME NEW s \in Slot, ptys'[s].id # 0
               PROVE  /\ IsFiniteSet(HoldersIn(fds', ptys'[s].id))
                      /\ Cardinality(HoldersIn(fds', ptys'[s].id)) = ptys'[s].ref
                      /\ ptys'[s].ref > 0
    BY DEF CountsOK
  <2>1. ptys[s].id # 0 /\ ptys'[s].id = ptys[s].id /\ ptys'[s] # NoPty
    BY <1>8, NoPtyOK
  <2>2. ptys'[s].ref = ptys[s].ref - Held(p, F, s)
    BY <1>1, <1>6, <2>1 DEF PtyRec
  <2> QED
    BY <1>6, <2>1, <2>2
<1>11. EntriesOK(ptys, fds)'
  <2> SUFFICES ASSUME NEW q \in Procs, NEW f \in Fd
               PROVE  IF fds'[q][f].kind = "pty"
                      THEN fds'[q][f].id # 0 /\ \E s \in Slot : ptys'[s].id = fds'[q][f].id
                      ELSE fds'[q][f].id = 0
    BY <1>3 DEF EntriesOK
  <2>1. CASE fds'[q][f] = Free
    BY <1>2, <2>1
  <2>2. CASE fds'[q][f] # Free
    <3>1. fds'[q][f] = fds[q][f]
      BY <1>3, <2>2
    <3>2. CASE fds[q][f].kind # "pty"
      BY <3>1, <3>2 DEF PtyInv, EntriesOK
    <3>3. CASE fds[q][f].kind = "pty"
      <4>1. PICK s \in Slot : ptys[s].id = fds[q][f].id /\ fds[q][f].id # 0
        BY <3>3 DEF PtyInv, EntriesOK
      <4>2. <<q, f>> \in HoldersIn(fds', ptys[s].id)
        BY <3>1, <3>3, <4>1 DEF HoldersIn
      <4>3. ptys'[s] = [ptys[s] EXCEPT !.ref = @ - Held(p, F, s)]
        BY <1>6, <4>1, <4>2
      <4>4. ptys'[s].id = ptys[s].id
        BY <1>1, <4>3 DEF PtyRec
      <4> QED
        BY <3>1, <3>3, <4>1, <4>4
    <3> QED
      BY <3>2, <3>3
  <2> QED
    BY <2>1, <2>2
<1> QED
  BY <1>9, <1>10, <1>11

\* Whatever leaves alone who holds what leaves the counts right.
LEMMA Unheld ==
    ASSUME PtyInv, UNCHANGED next_id, fds' \in [Procs -> [Fd -> Entry]],
           \A p \in Procs, f \in Fd :
              \/ fds'[p][f] = fds[p][f]
              \/ fds[p][f].kind # "pty" /\ fds'[p][f].kind # "pty" /\ fds'[p][f].id = 0,
           ptys' \in [Slot -> PtyRec],
           \A s \in Slot : /\ RingOK(ptys'[s]) /\ ptys'[s].id = ptys[s].id
                           /\ ptys'[s].ref = ptys[s].ref
    PROVE  SlotsOK(ptys, next_id)' /\ EntriesOK(ptys, fds)' /\ CountsOK(ptys, fds)'
<1>1. SlotsOK(ptys, next_id)'
  BY DEF PtyInv, SlotsOK
<1>2. EntriesOK(ptys, fds)'
  BY DEF PtyInv, EntriesOK
<1>3. ASSUME NEW i PROVE HoldersIn(fds', i) = HoldersIn(fds, i)
  BY DEF HoldersIn
<1>4. CountsOK(ptys, fds)'
  BY <1>3 DEF PtyInv, CountsOK
<1> QED
  BY <1>1, <1>2, <1>4

\* clks_exec_fd_open_pty: the id is new, so the opener is the only holder.
LEMMA Opening ==
    ASSUME PtyInv, NEW p \in Procs, fd_open_pty(p)
    PROVE  PtyInv'
<1> DEFINE f == Least(FreeFds(p))
           s == Least(FreeSlots)
           e == PtyEntry(next_id)
           r == [NoPty EXCEPT !.id = next_id, !.ref = 1]
<1>1. /\ ptys \in [Slot -> PtyRec] /\ fds \in [Procs -> [Fd -> Entry]]
      /\ next_id \in Nat \ {0} /\ \A t \in Slot : RingOK(ptys[t]) /\ ptys[t].id < next_id
  BY DEF PtyInv, SlotsOK, EntriesOK
<1>2. f \in Fd /\ fds[p][f].kind = "free"
  <2>1. FreeFds(p) \in SUBSET Nat /\ FreeFds(p) # {}
    BY PtyAssumption DEF fd_open_pty, FreeFds, Fd
  <2>2. f \in FreeFds(p)
    BY <2>1, LeastIn
  <2> QED
    BY <2>2 DEF FreeFds
<1>3. s \in Slot /\ ptys[s].id = 0
  <2>1. FreeSlots \in SUBSET Nat /\ FreeSlots # {}
    BY PtyAssumption DEF fd_open_pty, pty_alloc, FreeSlots, Slot
  <2>2. s \in FreeSlots
    BY <2>1, LeastIn
  <2> QED
    BY <2>2 DEF FreeSlots
<1>4. e \in Entry /\ e.kind = "pty" /\ e.id = next_id
  BY <1>1 DEF PtyEntry, Entry
<1>5. RingOK(r) /\ r \in PtyRec /\ r.id = next_id /\ r.ref = 1
  <2>1. NoPty \in PtyRec
    BY NoPtyOK DEF RingOK
  <2>2. /\ r \in PtyRec /\ r.id = next_id /\ r.ref = 1 /\ r.read_pos = NoPty.read_pos
        /\ r.write_pos = NoPty.write_pos /\ r.count = NoPty.count
    BY <1>1, <2>1 DEF PtyRec
  <2> QED
    BY <2>2, NoPtyOK DEF RingOK
<1>6. /\ ptys' = [ptys EXCEPT ![s] = r] /\ fds' = [fds EXCEPT ![p][f] = e]
      /\ next_id' = next_id + 1 /\ next_id \in Id /\ UNCHANGED <<alive, start>>
      /\ Runs(p)
  BY DEF fd_open_pty, pty_alloc
<1> HIDE DEF f, s, e, r
<1>7. /\ fds' \in [Procs -> [Fd -> Entry]] /\ fds'[p][f] = e
      /\ \A q \in Procs, h \in Fd : q # p \/ h # f => fds'[q][h] = fds[q][h]
  BY <1>1, <1>2, <1>4, <1>6
<1>8. /\ ptys' \in [Slot -> PtyRec] /\ ptys'[s] = r
      /\ \A t \in Slot \ {s} : ptys'[t] = ptys[t]
  BY <1>1, <1>3, <1>5, <1>6
<1>9. next_id' \in Nat \ {0} /\ next_id' <= MaxId + 1
  BY <1>1, <1>6, PtyAssumption DEF Id
<1>10. SlotsOK(ptys, next_id)'
  <2>1. \A t \in Slot : RingOK(ptys'[t])
    BY <1>1, <1>5, <1>8
  <2>2. \A t \in Slot : ptys'[t].id < next_id + 1
    <3>1. \A t \in Slot : ptys[t].id \in Nat
      BY <1>1 DEF PtyRec
    <3> QED
      BY <1>1, <1>5, <1>8, <3>1
  <2>3. \A t \in Slot : ptys[t].id # next_id
    BY <1>1
  <2>4. \A t, u \in Slot : ptys'[t].id # 0 /\ ptys'[t].id = ptys'[u].id => t = u
    BY <1>5, <1>8, <2>3 DEF PtyInv, SlotsOK
  <2> QED
    BY <1>6, <1>8, <2>1, <2>2, <2>4 DEF SlotsOK
<1>11. EntriesOK(ptys, fds)'
  <2>1. \A q \in Procs, h \in Fd :
          IF fds'[q][h].kind = "pty"
          THEN fds'[q][h].id # 0 /\ \E t \in Slot : ptys'[t].id = fds'[q][h].id
          ELSE fds'[q][h].id = 0
    <3> SUFFICES ASSUME NEW q \in Procs, NEW h \in Fd
                 PROVE  IF fds'[q][h].kind = "pty"
                        THEN fds'[q][h].id # 0 /\ \E t \in Slot : ptys'[t].id = fds'[q][h].id
                        ELSE fds'[q][h].id = 0
      OBVIOUS
    <3>1. CASE q = p /\ h = f
      BY <1>1, <1>3, <1>4, <1>5, <1>7, <1>8, <3>1
    <3>2. CASE ~(q = p /\ h = f)
      <4>1. fds'[q][h] = fds[q][h]
        BY <1>7, <3>2
      <4>2. \A t \in Slot : ptys[t].id # 0 => ptys'[t] = ptys[t]
        BY <1>3, <1>8
      <4> QED
        BY <4>1, <4>2 DEF PtyInv, EntriesOK
    <3> QED
      BY <3>1, <3>2
  <2> QED
    BY <1>7, <2>1 DEF EntriesOK
<1>12. CountsOK(ptys, fds)'
  <2> SUFFICES ASSUME NEW t \in Slot, ptys'[t].id # 0
               PROVE  /\ IsFiniteSet(HoldersIn(fds', ptys'[t].id))
                      /\ Cardinality(HoldersIn(fds', ptys'[t].id)) = ptys'[t].ref
                      /\ ptys'[t].ref > 0
    BY DEF CountsOK
  <2>1. CASE t = s
    <3>1. \A q \in Procs, h \in Fd : ~(fds[q][h].kind = "pty" /\ fds[q][h].id = next_id)
      BY <1>1 DEF PtyInv, EntriesOK
    <3>2. HoldersIn(fds', next_id) = {<<p, f>>}
      BY <1>2, <1>4, <1>7, <3>1 DEF HoldersIn
    <3> QED
      <4>1. ptys'[t].id = next_id /\ ptys'[t].ref = 1
        BY <1>5, <1>8, <2>1
      <4>2. IsFiniteSet({<<p, f>>}) /\ Cardinality({<<p, f>>}) = 1
        BY FS_Singleton
      <4> QED
        BY <3>2, <4>1, <4>2
  <2>2. CASE t # s
    <3>1. ptys'[t] = ptys[t] /\ ptys[t].id # next_id
      BY <1>1, <1>8, <2>2
    <3>2. HoldersIn(fds', ptys[t].id) = HoldersIn(fds, ptys[t].id)
      BY <1>2, <1>4, <1>7, <3>1 DEF HoldersIn
    <3> QED
      BY <3>1, <3>2 DEF PtyInv, CountsOK
  <2> QED
    BY <2>1, <2>2
<1>13. ProcsOK'
  <2>1. p \in alive /\ start.at = 3
    BY <1>6 DEF Runs
  <2>2. \A q \in Procs \ alive, h \in Fd : fds'[q][h] = fds[q][h]
    BY <1>7, <2>1
  <2> QED
    BY <1>6, <2>1, <2>2 DEF PtyInv, ProcsOK
<1> QED
  BY <1>9, <1>10, <1>11, <1>12, <1>13 DEF PtyInv

\* What a child starts with, and that the next override finds a terminal there.
LEMMA DefaultsOK ==
    /\ Defaults \in [Fd -> Entry]
    /\ \A f \in Fd : Defaults[f].kind # "pty" /\ Defaults[f].id = 0
    /\ Idle \in Start /\ Idle.at = 3
    /\ Stdio \subseteq Fd
<1>1. \A f \in Fd : IF f \in Stdio THEN Defaults[f] = Tty(f = 0) ELSE Defaults[f] = Free
  BY DEF Defaults
<1>2. \A b \in BOOLEAN : Tty(b) \in Entry /\ Tty(b).kind = "tty" /\ Tty(b).id = 0
  BY DEF Tty, Entry
<1>3. Free \in Entry /\ Free.kind = "free" /\ Free.id = 0
  BY DEF Free, Entry
<1>4. \A f \in Fd : Defaults[f] \in Entry /\ Defaults[f].kind # "pty" /\ Defaults[f].id = 0
  BY <1>1, <1>2, <1>3
<1>5. Defaults \in [Fd -> Entry]
  BY <1>4 DEF Defaults
<1>6. Idle \in Start /\ Idle.at = 3
  BY PtyAssumption DEF Idle, Start, Inherit
<1>7. Stdio \subseteq Fd
  BY PtyAssumption DEF Stdio, Fd
<1> QED
  BY <1>4, <1>5, <1>6, <1>7

\* Duplicating and closing a descriptor, and reading and writing a pty.
LEMMA Calls ==
    ASSUME PtyInv, NEW p \in Procs, NEW f \in Fd, NEW b \in Byte,
           fd_dup(p, f) \/ fd_close(p, f) \/ fd_read(p, f) \/ fd_write(p, f, b)
    PROVE  PtyInv'
<1>1. /\ p \in alive /\ start.at = 3 /\ UNCHANGED <<next_id, alive, start>>
  BY DEF fd_dup, fd_close, fd_read, fd_write, Runs
<1>2. /\ ptys \in [Slot -> PtyRec] /\ fds \in [Procs -> [Fd -> Entry]]
      /\ \A t \in Slot : RingOK(ptys[t])
  BY DEF PtyInv, SlotsOK, EntriesOK
<1>3. ASSUME SlotsOK(ptys, next_id)', EntriesOK(ptys, fds)', CountsOK(ptys, fds)',
             \A q \in Procs \ {p} : fds'[q] = fds[q]
      PROVE  PtyInv'
  BY <1>1, <1>3 DEF PtyInv, ProcsOK
<1>4. CASE fd_dup(p, f)
  <2> DEFINE g == Least(FreeFds(p))
             e == fds[p][f]
  <2>1. g \in Fd /\ fds[p][g].kind # "pty"
    <3>1. FreeFds(p) \in SUBSET Nat /\ FreeFds(p) # {}
      BY <1>4, PtyAssumption DEF fd_dup, FreeFds, Fd
    <3>2. g \in FreeFds(p)
      BY <3>1, LeastIn
    <3> QED
      BY <3>2 DEF FreeFds
  <2>2. /\ fds' = [fds EXCEPT ![p][g] = e] /\ ptys' = pty_retain(e.id) /\ e \in Entry
    BY <1>2, <1>4 DEF fd_dup
  <2> HIDE DEF g
  <2>3. \A q \in Procs \ {p} : fds'[q] = fds[q]
    BY <1>2, <2>2
  <2>4. SlotsOK(ptys, next_id)' /\ EntriesOK(ptys, fds)' /\ CountsOK(ptys, fds)'
    BY <1>1, <2>1, <2>2, Retains
  <2> QED
    BY <1>3, <2>3, <2>4
<1>5. CASE fd_close(p, f)
  <2>1. release(p, {f}) /\ {f} \in SUBSET Fd
    BY <1>5 DEF fd_close
  <2>2. \A q \in Procs \ {p} : fds'[q] = fds[q]
    BY <1>2, <2>1 DEF release
  <2> QED
    BY <1>1, <1>3, <2>1, <2>2, Releases
<1>6. ASSUME NEW s \in Slot, NEW r, ptys' = [ptys EXCEPT ![s] = r], RingOK(r),
             r.id = ptys[s].id, r.ref = ptys[s].ref, UNCHANGED fds
      PROVE  PtyInv'
  <2>1. r \in PtyRec
    BY <1>6 DEF RingOK
  <2>2. ptys' \in [Slot -> PtyRec] /\ \A t \in Slot : ptys'[t] = IF t = s THEN r ELSE ptys[t]
    BY <1>2, <1>6, <2>1
  <2>3. \A t \in Slot : /\ RingOK(ptys'[t]) /\ ptys'[t].id = ptys[t].id
                        /\ ptys'[t].ref = ptys[t].ref
    BY <1>2, <1>6, <2>2
  <2>4. SlotsOK(ptys, next_id)' /\ EntriesOK(ptys, fds)' /\ CountsOK(ptys, fds)'
    BY <1>1, <1>2, <1>6, <2>2, <2>3, Unheld
  <2> QED
    BY <1>3, <1>6, <2>4
<1>7. CASE fd_read(p, f)
  <2>1. PICK s \in find_slot(fds[p][f].id) :
          IF ptys[s].count > 0
          THEN ptys' = [ptys EXCEPT ![s] = advance(ptys[s])]
          ELSE UNCHANGED ptys
    BY <1>7 DEF fd_read
  <2>2. s \in Slot /\ UNCHANGED fds
    BY <1>7 DEF fd_read, find_slot
  <2>3. CASE ptys[s].count > 0
    BY <1>2, <1>6, <2>1, <2>2, <2>3, AdvanceOK
  <2>4. CASE ~(ptys[s].count > 0)
    BY <1>1, <2>1, <2>2, <2>4 DEF PtyInv, ProcsOK
  <2> QED
    BY <2>3, <2>4
<1>8. CASE fd_write(p, f, b)
  <2>1. PICK s \in find_slot(fds[p][f].id) : ptys' = [ptys EXCEPT ![s] = put(ptys[s], b)]
    BY <1>8 DEF fd_write
  <2>2. s \in Slot /\ UNCHANGED fds
    BY <1>8 DEF fd_write, find_slot
  <2> QED
    BY <1>2, <1>6, <2>1, <2>2, PutOK
<1> QED
  BY <1>4, <1>5, <1>7, <1>8

\* A child is started, or the first process again.
LEMMA Starts ==
    ASSUME PtyInv,
           \/ \E p, c \in Procs, from \in [Stdio -> Sources] : start_child(p, c, from)
           \/ restart
    PROVE  PtyInv'
<1>1. /\ ptys \in [Slot -> PtyRec] /\ fds \in [Procs -> [Fd -> Entry]]
      /\ \A t \in Slot : RingOK(ptys[t])
  BY DEF PtyInv, SlotsOK, EntriesOK
<1>2. PICK c \in Procs : /\ c \notin alive /\ alive' = alive \cup {c}
                         /\ fds' = [fds EXCEPT ![c] = Defaults] /\ UNCHANGED <<ptys, next_id>>
                         /\ start' \in Start
                         /\ start'.at < 3 => start'.child = c
  <2>1. CASE restart
    <3>1. start.at = 3
      BY <2>1 DEF restart, PtyInv, ProcsOK, Start
    <3>2. First \in Procs /\ start' = start /\ start \in Start
      BY <2>1, PtyAssumption DEF restart, PtyInv, ProcsOK
    <3>3. /\ First \notin alive /\ alive' = alive \cup {First}
          /\ fds' = [fds EXCEPT ![First] = Defaults] /\ UNCHANGED <<ptys, next_id>>
      BY <2>1 DEF restart
    <3>4. ~(start'.at < 3)
      BY <3>1, <3>2
    <3> QED
      BY <3>2, <3>3, <3>4
  <2>2. ASSUME NEW p \in Procs, NEW c \in Procs, NEW from \in [Stdio -> Sources],
               start_child(p, c, from)
        PROVE  /\ c \notin alive /\ alive' = alive \cup {c}
               /\ fds' = [fds EXCEPT ![c] = Defaults] /\ UNCHANGED <<ptys, next_id>>
               /\ start' \in Start
               /\ start'.at < 3 => start'.child = c
    <3>1. from \in [Stdio -> Int]
      BY PtyAssumption
    <3>2. start' = [child |-> c, parent |-> p, from |-> from, at |-> 0]
      BY <2>2 DEF start_child
    <3>3. start' \in Start /\ start'.child = c
      BY <3>1, <3>2 DEF Start
    <3> QED
      BY <2>2, <3>3 DEF start_child
  <2> QED
    BY <2>1, <2>2
<1>3. /\ fds' \in [Procs -> [Fd -> Entry]] /\ fds'[c] = Defaults
      /\ \A q \in Procs \ {c} : fds'[q] = fds[q]
  BY <1>1, <1>2, DefaultsOK
<1>4. \A f \in Fd : fds[c][f].kind # "pty"
  BY <1>2 DEF PtyInv, ProcsOK
<1>5. \A p \in Procs, f \in Fd :
         \/ fds'[p][f] = fds[p][f]
         \/ fds[p][f].kind # "pty" /\ fds'[p][f].kind # "pty" /\ fds'[p][f].id = 0
  BY <1>3, <1>4, DefaultsOK
<1>6. SlotsOK(ptys, next_id)' /\ EntriesOK(ptys, fds)' /\ CountsOK(ptys, fds)'
  BY <1>1, <1>2, <1>3, <1>5, Unheld
<1>7. ProcsOK'
  <2>1. alive' \subseteq Procs
    BY <1>2 DEF PtyInv, ProcsOK
  <2>2. \A p \in Procs \ alive', f \in Fd : fds'[p][f].kind # "pty"
    BY <1>2, <1>3 DEF PtyInv, ProcsOK
  <2>3. start'.at < 3 => /\ start'.child \in alive'
                         /\ \A f \in Fd : fds'[start'.child][f].kind # "pty"
    BY <1>2, <1>3, DefaultsOK
  <2> QED
    BY <1>2, <2>1, <2>2, <2>3 DEF ProcsOK
<1> QED
  BY <1>2, <1>6, <1>7 DEF PtyInv

\* A stdio descriptor of the child is overridden.
LEMMA Overrides ==
    ASSUME PtyInv, override
    PROVE  PtyInv'
<1> DEFINE c == start.child
           k == start.at
<1>1. /\ fds \in [Procs -> [Fd -> Entry]] /\ start \in Start
      /\ c \in alive /\ c \in Procs /\ start.parent \in Procs
      /\ k \in 0..2 /\ k \in Fd /\ k < 3 /\ alive \subseteq Procs
      /\ \A f \in Fd : f >= k => fds[c][f].kind # "pty"
      /\ UNCHANGED <<next_id, alive>>
      /\ start' = IF k = 2 THEN Idle ELSE [start EXCEPT !.at = k + 1]
  <2>1. start \in Start /\ k < 3
    BY DEF PtyInv, ProcsOK, override
  <2>2. k \in 0..2 /\ c \in Procs /\ start.parent \in Procs
    BY <2>1 DEF Start
  <2>3. k \in Fd
    BY <2>2, DefaultsOK DEF Stdio
  <2> QED
    BY <2>1, <2>2, <2>3 DEF PtyInv, ProcsOK, override, EntriesOK
<1>2. /\ start' \in Start
      /\ start'.at < 3 => start'.child = c /\ start'.at = k + 1
  <2>1. CASE k = 2
    <3>1. start' = Idle
      BY <1>1, <2>1
    <3> QED
      BY <3>1, DefaultsOK
  <2>2. CASE k # 2
    <3>1. start' = [start EXCEPT !.at = k + 1] /\ k + 1 \in 0..3
      BY <1>1, <2>2
    <3> QED
      BY <1>1, <3>1 DEF Start
  <2> QED
    BY <2>1, <2>2
<1> HIDE DEF c, k
<1>3. ASSUME SlotsOK(ptys, next_id)', EntriesOK(ptys, fds)', CountsOK(ptys, fds)',
             \A q \in Procs, f \in Fd : q # c \/ f # k => fds'[q][f] = fds[q][f]
      PROVE  PtyInv'
  <2>1. \A q \in Procs \ alive, f \in Fd : fds'[q][f].kind # "pty"
    BY <1>1, <1>3 DEF PtyInv, ProcsOK
  <2>2. start'.at < 3 => \A f \in Fd : f >= start'.at => fds'[start'.child][f].kind # "pty"
    <3> SUFFICES ASSUME start'.at < 3, NEW f \in Fd, f >= start'.at
                 PROVE  fds'[start'.child][f].kind # "pty"
      OBVIOUS
    <3>1. f >= k /\ f # k
      BY <1>1, <1>2, PtyAssumption DEF Fd
    <3> QED
      BY <1>1, <1>2, <1>3, <3>1
  <2> QED
    BY <1>1, <1>2, <1>3, <2>1, <2>2 DEF PtyInv, ProcsOK
<1>4. CASE Source = Inherit
  <2>1. UNCHANGED <<fds, ptys>>
    BY <1>4 DEF override
  <2> QED
    BY <1>1, <1>3, <2>1 DEF PtyInv
<1>5. CASE Source # Inherit
  <2> DEFINE e == Inherited
  <2>1. /\ CanCopy /\ fds' = [fds EXCEPT ![c][k] = e] /\ ptys' = pty_retain(e.id)
    BY <1>5 DEF override, c, k
  <2>2. e = fds[start.parent][Source] /\ Source \in Fd /\ e \in Entry
    BY <1>1, <2>1 DEF CanCopy, Inherited
  <2>3. fds[c][k].kind # "pty"
    <3>1. k >= k
      BY <1>1
    <3> QED
      BY <1>1, <3>1
  <2> HIDE DEF e
  <2>4. \A q \in Procs, f \in Fd : q # c \/ f # k => fds'[q][f] = fds[q][f]
    BY <1>1, <2>1
  <2>5. SlotsOK(ptys, next_id)' /\ EntriesOK(ptys, fds)' /\ CountsOK(ptys, fds)'
    BY <1>1, <2>1, <2>2, <2>3, Retains
  <2> QED
    BY <1>3, <2>4, <2>5
<1> QED
  BY <1>4, <1>5

\* A process exits, or a child whose override failed is given up.
LEMMA Exits ==
    ASSUME PtyInv, override_fails \/ \E p \in Procs : fd_release_all(p)
    PROVE  PtyInv'
<1>1. PICK p \in Procs : /\ p \in alive /\ release(p, Fd) /\ alive' = alive \ {p}
                         /\ next_id' = next_id /\ start' \in Start /\ start'.at = 3
  <2>1. CASE override_fails
    <3>1. start.child \in Procs /\ start.child \in alive
      BY <2>1 DEF override_fails, PtyInv, ProcsOK, Start
    <3> QED
      BY <2>1, <3>1, DefaultsOK DEF override_fails
  <2>2. ASSUME NEW p \in Procs, fd_release_all(p)
        PROVE  /\ p \in alive /\ release(p, Fd) /\ alive' = alive \ {p}
               /\ next_id' = next_id /\ start' \in Start /\ start'.at = 3
    BY <2>2 DEF fd_release_all, Runs, PtyInv, ProcsOK
  <2> QED
    BY <2>1, <2>2
<1>2. SlotsOK(ptys, next_id)' /\ EntriesOK(ptys, fds)' /\ CountsOK(ptys, fds)'
  BY <1>1, Releases
<1>3. fds \in [Procs -> [Fd -> Entry]] /\ alive \subseteq Procs
  BY DEF PtyInv, EntriesOK, ProcsOK
<1>4. /\ \A f \in Fd : fds'[p][f] = Free
      /\ \A q \in Procs \ {p} : fds'[q] = fds[q]
  BY <1>1, <1>3 DEF release
<1>5. \A q \in Procs \ alive', f \in Fd : fds'[q][f].kind # "pty"
  BY <1>1, <1>4 DEF PtyInv, ProcsOK, Free
<1>6. ~(start'.at < 3)
  BY <1>1
<1> QED
  BY <1>1, <1>2, <1>3, <1>5, <1>6 DEF PtyInv, ProcsOK

-----------------------------------------------------------------------------
(* The theorems                                                             *)

\* Every state is sound.
THEOREM PtysAreSound == Spec => []PtyInv
<1>1. Init => PtyInv
  <2> SUFFICES ASSUME Init PROVE PtyInv
    OBVIOUS
  <2>1. /\ ptys = [s \in Slot |-> NoPty] /\ next_id = 1 /\ alive = {First} /\ start = Idle
        /\ fds = [p \in Procs |-> IF p = First THEN Defaults ELSE [f \in Fd |-> Free]]
    BY DEF Init
  <2>2. NoPty \in PtyRec /\ NoPty.id = 0 /\ RingOK(NoPty)
    BY NoPtyOK DEF RingOK
  <2>3. SlotsOK(ptys, next_id)
    BY <2>1, <2>2 DEF SlotsOK
  <2>4. Free \in Entry /\ Free.kind = "free" /\ Free.id = 0
    BY DEF Free, Entry
  <2>5. \A p \in Procs : /\ fds[p] \in [Fd -> Entry]
                         /\ \A f \in Fd : fds[p][f].kind # "pty" /\ fds[p][f].id = 0
    BY <2>1, <2>4, DefaultsOK
  <2>6. fds \in [Procs -> [Fd -> Entry]]
    BY <2>1, <2>5
  <2>7. EntriesOK(ptys, fds)
    BY <2>5, <2>6 DEF EntriesOK
  <2>8. CountsOK(ptys, fds)
    BY <2>1, <2>2 DEF CountsOK
  <2>9. ProcsOK
    <3>1. ~(start.at < 3) /\ start \in Start
      BY <2>1, DefaultsOK
    <3> QED
      BY <2>1, <2>5, <3>1, PtyAssumption DEF ProcsOK
  <2>10. next_id \in Nat \ {0} /\ next_id <= MaxId + 1
    BY <2>1, PtyAssumption
  <2> QED
    BY <2>3, <2>7, <2>8, <2>9, <2>10 DEF PtyInv
<1>2. PtyInv /\ [Next]_vars => PtyInv'
  <2> SUFFICES ASSUME PtyInv, [Next]_vars PROVE PtyInv'
    OBVIOUS
  <2>1. CASE UNCHANGED vars
    BY <2>1 DEF vars, PtyInv, SlotsOK, EntriesOK, CountsOK, ProcsOK, HoldersIn
  <2>2. ASSUME NEW p \in Procs, fd_open_pty(p) \/ fd_release_all(p) PROVE PtyInv'
    BY <2>2, Opening, Exits
  <2>3. ASSUME NEW p \in Procs, NEW f \in Fd, fd_dup(p, f) \/ fd_close(p, f) \/ fd_read(p, f)
        PROVE  PtyInv'
    <3>1. \E b : b \in Byte
      BY PtyAssumption
    <3> QED
      BY <2>3, <3>1, Calls
  <2>4. ASSUME NEW p \in Procs, NEW f \in Fd, NEW b \in Byte, fd_write(p, f, b)
        PROVE  PtyInv'
    BY <2>4, Calls
  <2>5. CASE (\E p, c \in Procs, from \in [Stdio -> Sources] : start_child(p, c, from))
             \/ restart
    BY <2>5, Starts
  <2>6. CASE override \/ override_fails
    BY <2>6, Overrides, Exits
  <2> QED
    BY <2>1, <2>2, <2>3, <2>4, <2>5, <2>6 DEF Next
<1> QED
  BY <1>1, <1>2, PTL DEF Spec

\* No descriptor holds a pty that is gone, and a pty is gone with its last descriptor,
\* in whatever order clks_pty_retain and clks_pty_release are called.
THEOREM RefCountsAreExact == Spec => []RefCountsExact
<1>1. ASSUME PtyInv PROVE RefCountsExact
  <2> SUFFICES ASSUME NEW i \in Id
               PROVE  /\ Cardinality(find_slot(i)) = (IF Holders(i) = {} THEN 0 ELSE 1)
                      /\ \A s \in find_slot(i) : ptys[s].ref = Cardinality(Holders(i))
    BY DEF RefCountsExact
  <2>1. i \in Nat \ {0} /\ Holders(i) = HoldersIn(fds, i)
    BY PtyAssumption DEF Id, Holders, HoldersIn
  <2>2. \A s \in find_slot(i) : /\ s \in Slot /\ ptys[s].id = i
                                /\ ptys[s].ref = Cardinality(Holders(i)) /\ ptys[s].ref > 0
    BY <1>1, <2>1 DEF find_slot, PtyInv, CountsOK
  <2>3. CASE Holders(i) = {}
    <3>1. find_slot(i) = {}
      BY <2>2, <2>3, FS_EmptySet
    <3> QED
      BY <2>2, <2>3, <3>1, FS_EmptySet
  <2>4. CASE Holders(i) # {}
    <3>1. PICK h \in Procs \X Fd : fds[h[1]][h[2]].kind = "pty" /\ fds[h[1]][h[2]].id = i
      BY <2>4 DEF Holders
    <3>2. h[1] \in Procs /\ h[2] \in Fd
      BY <3>1
    <3>3. PICK s \in Slot : ptys[s].id = i
      BY <1>1, <3>1, <3>2 DEF PtyInv, EntriesOK
    <3>4. find_slot(i) = {s}
      BY <1>1, <2>1, <3>3 DEF find_slot, PtyInv, SlotsOK
    <3> QED
      BY <2>2, <2>4, <3>4, FS_Singleton
  <2> QED
    BY <2>3, <2>4
<1> QED
  BY <1>1, PtysAreSound, PTL

-----------------------------------------------------------------------------
(* The rings implement channels                                             *)

\* The bytes of a ring as a sequence, and the oldest one.
LEMMA BytesOK ==
    ASSUME NEW p, RingOK(p)
    PROVE  /\ Bytes(p) \in Seq(Byte) /\ Len(Bytes(p)) = p.count /\ p.count \in 0..Size
           /\ Bytes(p) = <<>> <=> p.count = 0
           /\ \A k \in 1..p.count : Bytes(p)[k] = p.buffer[(p.read_pos + (k - 1)) % Size]
           /\ p.count > 0 => Bytes(p)[1] = p.buffer[p.read_pos]
<1>1. /\ p.buffer \in [Ring -> Byte] /\ p.read_pos \in 0..(Size - 1) /\ p.count \in 0..Size
      /\ Size \in Nat \ {0}
  BY PtyAssumption DEF RingOK, PtyRec, Ring
<1>2. ASSUME NEW k \in 1..p.count
      PROVE  /\ (p.read_pos + k - 1) % Size \in Ring
             /\ (p.read_pos + k - 1) % Size = (p.read_pos + (k - 1)) % Size
  <2>1. p.read_pos + k - 1 = p.read_pos + (k - 1) /\ p.read_pos + k - 1 \in Nat
    BY <1>1
  <2> QED
    BY <1>1, <2>1, ModInRange DEF Ring
<1>3. Bytes(p) = [k \in 1..p.count |-> p.buffer[(p.read_pos + k - 1) % Size]]
  BY DEF Bytes
<1>4. \A k \in 1..p.count : p.buffer[(p.read_pos + k - 1) % Size] \in Byte
  BY <1>1, <1>2
<1>5. Bytes(p) \in Seq(Byte) /\ Len(Bytes(p)) = p.count
  BY <1>1, <1>3, <1>4, SMTT(30)
<1>6. \A k \in 1..p.count : Bytes(p)[k] = p.buffer[(p.read_pos + (k - 1)) % Size]
  BY <1>2, <1>3
<1>7. p.count > 0 => Bytes(p)[1] = p.buffer[p.read_pos]
  <2> SUFFICES ASSUME p.count > 0 PROVE Bytes(p)[1] = p.buffer[p.read_pos]
    OBVIOUS
  <2>1. 1 \in 1..p.count /\ 1 - 1 = 0 /\ 0 \in 0..Size
    BY <1>1
  <2>2. p.read_pos % Size = p.read_pos
    BY <1>1, <2>1, PositionAfter
  <2>3. p.read_pos + (1 - 1) = p.read_pos
    BY <1>1
  <2>4. Bytes(p)[1] = p.buffer[(p.read_pos + (1 - 1)) % Size]
    BY <1>6, <2>1
  <2> QED
    BY <2>2, <2>3, <2>4
<1>8. Bytes(p) = <<>> <=> p.count = 0
  BY <1>1, <1>5, EmptySeq
<1> QED
  BY <1>1, <1>5, <1>6, <1>7, <1>8

\* A read takes the oldest byte.
LEMMA AdvanceIsTail ==
    ASSUME NEW p, RingOK(p), p.count > 0
    PROVE  Bytes(advance(p)) = Tail(Bytes(p)) /\ Head(Bytes(p)) = p.buffer[p.read_pos]
<1> DEFINE B == Bytes(p)
           q == advance(p)
           C == Bytes(q)
<1>1. /\ p \in PtyRec /\ p.read_pos \in 0..(Size - 1) /\ p.count \in 1..Size
      /\ Size \in Nat \ {0}
  BY PtyAssumption DEF RingOK, PtyRec, Ring
<1>2. RingOK(q)
  BY AdvanceOK
<1>3. q.read_pos = wrapped(p.read_pos) /\ q.count = p.count - 1 /\ q.buffer = p.buffer
  BY <1>1 DEF advance, PtyRec
<1>4. /\ B \in Seq(Byte) /\ Len(B) = p.count /\ B # <<>>
      /\ \A k \in 1..p.count : B[k] = p.buffer[(p.read_pos + (k - 1)) % Size]
      /\ B[1] = p.buffer[p.read_pos]
  BY <1>1, BytesOK
<1>5. /\ C \in Seq(Byte) /\ Len(C) = p.count - 1
      /\ \A k \in 1..(p.count - 1) : C[k] = p.buffer[(wrapped(p.read_pos) + (k - 1)) % Size]
  BY <1>2, <1>3, BytesOK
<1> HIDE DEF B, C, q
<1>6. /\ Tail(B) \in Seq(Byte) /\ Len(Tail(B)) = p.count - 1
      /\ \A k \in 1..(p.count - 1) : Tail(B)[k] = B[k + 1]
      /\ Head(B) = B[1]
  BY <1>1, <1>4, HeadTailProperties
<1>7. \A k \in 1..(p.count - 1) : C[k] = Tail(B)[k]
  <2> SUFFICES ASSUME NEW k \in 1..(p.count - 1) PROVE C[k] = Tail(B)[k]
    OBVIOUS
  <2>1. /\ k + 1 \in 1..p.count /\ (k + 1) - 1 = (k - 1) + 1 /\ k - 1 \in 0..(Size - 1)
    BY <1>1
  <2>2. (wrapped(p.read_pos) + (k - 1)) % Size = (p.read_pos + ((k - 1) + 1)) % Size
    BY <1>1, <2>1, NextIsNearer DEF wrapped
  <2>3. C[k] = p.buffer[(wrapped(p.read_pos) + (k - 1)) % Size]
    BY <1>5
  <2>4. Tail(B)[k] = p.buffer[(p.read_pos + ((k + 1) - 1)) % Size]
    BY <1>4, <1>6, <2>1
  <2> QED
    BY <2>1, <2>2, <2>3, <2>4
<1>8. C = Tail(B)
  BY <1>5, <1>6, <1>7, SeqEqual
<1> QED
  BY <1>4, <1>6, <1>8 DEF B, C, q

\* A write appends a byte to a ring that is not full.
LEMMA AddIsAppend ==
    ASSUME NEW p, RingOK(p), p.count < Size, NEW b \in Byte, NEW q, RingOK(q),
           q.buffer = [p.buffer EXCEPT ![p.write_pos] = b], q.read_pos = p.read_pos,
           q.count = p.count + 1
    PROVE  Bytes(q) = Append(Bytes(p), b)
<1> DEFINE B == Bytes(p)
           C == Bytes(q)
           n == p.count
           r == p.read_pos
           w == p.write_pos
<1>1. p \in PtyRec /\ w = (r + n) % Size
  BY DEF RingOK
<1>2. /\ r \in 0..(Size - 1) /\ Size \in Nat \ {0} /\ w \in 0..(Size - 1)
      /\ p.buffer \in [0..(Size - 1) -> Byte] /\ n \in 0..Size
  BY <1>1, PtyAssumption DEF PtyRec, Ring
<1>3. n < Size
  OBVIOUS
<1>4. n \in 0..(Size - 1)
  <2> HIDE DEF n
  <2> QED
    BY <1>2, <1>3
<1>5. B \in Seq(Byte) /\ Len(B) = n /\ \A k \in 1..n : B[k] = p.buffer[(r + (k - 1)) % Size]
  BY BytesOK
<1>6. /\ C \in Seq(Byte) /\ Len(C) = q.count
      /\ \A k \in 1..q.count : C[k] = q.buffer[(q.read_pos + (k - 1)) % Size]
  BY BytesOK
<1>7. /\ q.buffer = [p.buffer EXCEPT ![w] = b] /\ q.read_pos = r /\ q.count = n + 1
  OBVIOUS
<1> HIDE DEF B, C, n, r, w
<1>8. /\ Append(B, b) \in Seq(Byte) /\ Len(Append(B, b)) = n + 1
      /\ \A k \in 1..n : Append(B, b)[k] = B[k]
      /\ Append(B, b)[n + 1] = b
  BY <1>2, <1>5, AppendProperties
<1>9. ASSUME NEW k \in 1..(n + 1) PROVE C[k] = Append(B, b)[k]
  <2>1. C[k] = q.buffer[(r + (k - 1)) % Size]
    BY <1>6, <1>7
  <2>2. CASE k = n + 1
    <3>1. k - 1 = n
      BY <1>2, <2>2
    <3>2. C[k] = q.buffer[w]
      BY <1>1, <2>1, <3>1
    <3> QED
      BY <1>2, <1>7, <1>8, <2>2, <3>2
  <2>3. CASE k # n + 1
    <3>1. k \in 1..n /\ k - 1 \in 0..(n - 1)
      BY <1>2, <2>3
    <3>2. (r + (k - 1)) % Size # w /\ (r + (k - 1)) % Size \in 0..(Size - 1)
      BY <1>1, <1>2, <1>4, <3>1, Ahead
    <3>3. C[k] = p.buffer[(r + (k - 1)) % Size]
      BY <1>2, <1>7, <2>1, <3>2
    <3> QED
      BY <1>5, <1>8, <3>1, <3>3
  <2> QED
    BY <2>2, <2>3
<1>10. Len(C) = n + 1
  BY <1>6, <1>7
<1>11. C = Append(B, b)
  BY <1>6, <1>8, <1>9, <1>10, SeqEqual
<1> QED
  BY <1>11 DEF B, C

\* clks_pty_write keeps the last Size bytes.
LEMMA PutIsAppend ==
    ASSUME NEW p, RingOK(p), NEW b \in Byte
    PROVE  Bytes(put(p, b)) = Append(IF Len(Bytes(p)) = Size THEN Tail(Bytes(p)) ELSE Bytes(p), b)
<1> DEFINE o == IF p.count = Size THEN advance(p) ELSE p
           q == put(p, b)
<1>1. p \in PtyRec /\ p.count \in 0..Size /\ Size \in Nat \ {0}
  BY PtyAssumption DEF RingOK, PtyRec
<1>2. /\ RingOK(o) /\ o.count < Size /\ o.write_pos = p.write_pos /\ o \in PtyRec
      /\ Bytes(o) = IF Len(Bytes(p)) = Size THEN Tail(Bytes(p)) ELSE Bytes(p)
  <2>1. Len(Bytes(p)) = p.count
    BY BytesOK
  <2>2. CASE p.count = Size
    <3>1. p.count > 0 /\ o = advance(p)
      BY <1>1, <2>2
    <3>2. RingOK(advance(p)) /\ Bytes(advance(p)) = Tail(Bytes(p))
      BY <3>1, AdvanceOK, AdvanceIsTail
    <3>3. advance(p).count = p.count - 1 /\ advance(p).write_pos = p.write_pos
      BY <1>1 DEF advance, PtyRec
    <3> HIDE DEF o
    <3> QED
      BY <1>1, <2>1, <2>2, <3>1, <3>2, <3>3 DEF RingOK
  <2>3. CASE p.count # Size
    BY <1>1, <2>1, <2>3
  <2> QED
    BY <2>2, <2>3
<1>3. RingOK(q)
  BY PutOK
<1>4. q = [o EXCEPT !.buffer[p.write_pos] = b, !.write_pos = wrapped(o.write_pos),
                    !.count = o.count + 1]
  BY DEF put
<1> HIDE DEF o, q
<1>5. /\ q.buffer = [o.buffer EXCEPT ![o.write_pos] = b] /\ q.read_pos = o.read_pos
      /\ q.count = o.count + 1
  BY <1>2, <1>4 DEF PtyRec
<1>6. Bytes(q) = Append(Bytes(o), b)
  BY <1>2, <1>3, <1>5, AddIsAppend
<1> QED
  BY <1>2, <1>6 DEF q

\* The open ids of the slots P and what each channel holds.
IdsOf(P) == {P[s].id : s \in Slot} \ {0}
ContentOf(P) == [i \in Id |-> IF i \in IdsOf(P) THEN Bytes(P[CHOOSE s \in Slot : P[s].id = i])
                              ELSE <<>>]

\* The channel of a slot's id holds the bytes of that slot.
LEMMA ContentAt ==
    ASSUME NEW P, NEW n, SlotsOK(P, n), NEW s \in Slot, P[s].id \in Id
    PROVE  P[s].id \in IdsOf(P) /\ ContentOf(P)[P[s].id] = Bytes(P[s])
<1> DEFINE i == P[s].id
<1>1. i # 0 /\ i \in IdsOf(P)
  BY PtyAssumption DEF Id, IdsOf
<1>2. (CHOOSE t \in Slot : P[t].id = i) = s
  BY <1>1 DEF SlotsOK
<1> QED
  BY <1>1, <1>2 DEF ContentOf

\* Ids are given in order, up to the bound on them.
LEMMA IdsOK ==
    ASSUME NEW P, NEW n \in Nat, n <= MaxId + 1, SlotsOK(P, n), NEW s \in Slot, P[s].id # 0
    PROVE  P[s].id \in Id /\ P[s].id \in IdsOf(P) /\ P[s].id \in 1..(n - 1)
<1>1. P[s].id \in Nat /\ P[s].id < n
  BY DEF SlotsOK, PtyRec
<1>2. P[s].id \in Id /\ P[s].id \in 1..(n - 1)
  BY <1>1, PtyAssumption DEF Id
<1> QED
  BY <1>2 DEF IdsOf

\* A pty that is opened is one more, and holds nothing.
LEMMA ChannelOpens ==
    ASSUME NEW P, NEW n \in Id, NEW Q, SlotsOK(P, n), SlotsOK(Q, n + 1), NEW s \in Slot,
           P[s].id = 0, Q[s].id = n, Q[s].count = 0, \A t \in Slot \ {s} : Q[t] = P[t]
    PROVE  n \notin IdsOf(P) /\ IdsOf(Q) = IdsOf(P) \cup {n} /\ ContentOf(Q) = ContentOf(P)
<1>1. \A t \in Slot : P[t].id < n
  BY DEF SlotsOK
<1>2. n \in Nat \ {0}
  BY PtyAssumption DEF Id
<1>3. n \notin IdsOf(P)
  BY <1>1, <1>2 DEF IdsOf
<1>4. IdsOf(Q) = IdsOf(P) \cup {n}
  BY <1>2 DEF IdsOf
<1>5. ASSUME NEW i \in Id PROVE ContentOf(Q)[i] = ContentOf(P)[i]
  <2>1. CASE i = n
    <3>1. ContentOf(Q)[n] = Bytes(Q[s])
      BY ContentAt
    <3>2. Bytes(Q[s]) = <<>>
      BY BytesOK DEF SlotsOK
    <3> QED
      BY <1>3, <2>1, <3>1, <3>2 DEF ContentOf
  <2>2. CASE i # n /\ i \in IdsOf(P)
    <3>1. PICK t \in Slot : P[t].id = i
      BY <2>2 DEF IdsOf
    <3>2. t # s
      BY <2>2, <3>1 DEF IdsOf
    <3> QED
      BY <3>1, <3>2, ContentAt
  <2>3. CASE i # n /\ i \notin IdsOf(P)
    BY <1>4, <2>3 DEF ContentOf
  <2> QED
    BY <2>1, <2>2, <2>3
<1>6. ContentOf(Q) = ContentOf(P)
  BY <1>5 DEF ContentOf
<1> QED
  BY <1>3, <1>4, <1>6

\* Reading or writing one pty changes its channel only.
LEMMA ChannelChanges ==
    ASSUME NEW P, NEW n, NEW Q, SlotsOK(P, n), SlotsOK(Q, n), NEW s \in Slot, P[s].id \in Id,
           Q[s].id = P[s].id, \A t \in Slot \ {s} : Q[t] = P[t]
    PROVE  IdsOf(Q) = IdsOf(P) /\ ContentOf(Q) = [ContentOf(P) EXCEPT ![P[s].id] = Bytes(Q[s])]
<1>1. \A t \in Slot : Q[t].id = P[t].id
  OBVIOUS
<1>2. IdsOf(Q) = IdsOf(P)
  BY <1>1 DEF IdsOf
<1>3. ASSUME NEW i \in Id
      PROVE  ContentOf(Q)[i] = IF i = P[s].id THEN Bytes(Q[s]) ELSE ContentOf(P)[i]
  <2>1. CASE i = P[s].id
    BY <2>1, ContentAt
  <2>2. CASE i # P[s].id /\ i \in IdsOf(P)
    <3>1. PICK t \in Slot : P[t].id = i
      BY <2>2 DEF IdsOf
    <3>2. Q[t] = P[t]
      BY <2>2, <3>1
    <3>3. ContentOf(P)[i] = Bytes(P[t]) /\ ContentOf(Q)[i] = Bytes(Q[t])
      BY <3>1, <3>2, ContentAt
    <3> QED
      BY <2>2, <3>2, <3>3
  <2>3. CASE i # P[s].id /\ i \notin IdsOf(P)
    BY <1>2, <2>3 DEF ContentOf
  <2> QED
    BY <2>1, <2>2, <2>3
<1>4. ContentOf(Q) = [i \in Id |-> IF i = P[s].id THEN Bytes(Q[s]) ELSE ContentOf(P)[i]]
  BY <1>3 DEF ContentOf
<1>5. /\ DOMAIN ContentOf(P) = Id
      /\ ContentOf(P) = [i \in Id |-> ContentOf(P)[i]]
  BY DEF ContentOf
<1> QED
  BY <1>2, <1>4, <1>5

\* Releasing references closes the ptys that have none left and keeps the others.
LEMMA ChannelsClose ==
    ASSUME NEW P, NEW n, NEW Q, SlotsOK(P, n), SlotsOK(Q, n),
           \A s \in Slot : \/ Q[s].id = 0
                           \/ Q[s].id = P[s].id /\ Bytes(Q[s]) = Bytes(P[s])
    PROVE  /\ IdsOf(Q) \subseteq IdsOf(P)
           /\ ContentOf(Q) = [i \in Id |-> IF i \in IdsOf(P) \ IdsOf(Q) THEN <<>>
                                           ELSE ContentOf(P)[i]]
<1>1. IdsOf(Q) \subseteq IdsOf(P)
  BY DEF IdsOf
<1>2. ASSUME NEW i \in Id
      PROVE  ContentOf(Q)[i] = IF i \in IdsOf(P) \ IdsOf(Q) THEN <<>> ELSE ContentOf(P)[i]
  <2>1. CASE i \in IdsOf(Q)
    <3>1. PICK t \in Slot : Q[t].id = i /\ i # 0
      BY <2>1 DEF IdsOf
    <3>2. P[t].id = i /\ Bytes(Q[t]) = Bytes(P[t])
      BY <3>1
    <3> QED
      BY <2>1, <3>1, <3>2, ContentAt
  <2>2. CASE i \notin IdsOf(Q)
    BY <1>1, <2>2 DEF ContentOf
  <2> QED
    BY <2>1, <2>2
<1> QED
  BY <1>1, <1>2 DEF ContentOf

\* What the channels are, in terms of the slots.
LEMMA Mapping ==
    /\ OpenIds = IdsOf(ptys) /\ OpenIds' = IdsOf(ptys')
    /\ Content = ContentOf(ptys) /\ Content' = ContentOf(ptys')
BY DEF OpenIds, IdsOf, Content, ContentOf

\* Every step that gives the reader nothing and no pty an id closes some channels, most
\* often none.
LEMMA StepCloses ==
    ASSUME PtyInv, PtyInv', UNCHANGED next_id, got' = <<>>,
           \A s \in Slot : \/ ptys'[s].id = 0
                           \/ ptys'[s].id = ptys[s].id /\ Bytes(ptys'[s]) = Bytes(ptys[s])
    PROVE  Channel!Next
<1> DEFINE S == IdsOf(ptys) \ IdsOf(ptys')
<1>1. /\ next_id \in Nat /\ next_id <= MaxId + 1 /\ SlotsOK(ptys, next_id)
      /\ SlotsOK(ptys', next_id)
  BY DEF PtyInv, SlotsOK
<1>2. /\ IdsOf(ptys') \subseteq IdsOf(ptys)
      /\ ContentOf(ptys') = [i \in Id |-> IF i \in S THEN <<>> ELSE ContentOf(ptys)[i]]
  BY <1>1, ChannelsClose
<1>3. ASSUME NEW i \in IdsOf(ptys) PROVE i \in Id /\ i \in 1..(next_id - 1)
  <2>1. PICK s \in Slot : ptys[s].id = i /\ i # 0
    BY DEF IdsOf
  <2> QED
    BY <1>1, <2>1, IdsOK
<1>4. S \in SUBSET Id /\ S \subseteq IdsOf(ptys)
  BY <1>3
<1>5. IdsOf(ptys') = IdsOf(ptys) \ S
  BY <1>2
<1>6. (1..(next_id - 1)) \ IdsOf(ptys') = ((1..(next_id - 1)) \ IdsOf(ptys)) \cup S
  BY <1>2, <1>3
<1> HIDE DEF S
<1>7. Channel!Close(S)
  BY <1>2, <1>4, <1>5, <1>6, Mapping DEF Channel!Close
<1> QED
  BY <1>4, <1>7 DEF Channel!Next

\* clks_exec_fd_open_pty opens a channel.
LEMMA StepOpens ==
    ASSUME PtyInv, PtyInv', NEW p \in Procs, fd_open_pty(p)
    PROVE  Channel!Next
<1> DEFINE s == Least(FreeSlots)
<1>1. /\ next_id \in Nat \ {0} /\ next_id \in Id /\ SlotsOK(ptys, next_id) /\ got' = <<>>
      /\ next_id' = next_id + 1
  BY DEF PtyInv, fd_open_pty, pty_alloc
<1>2. SlotsOK(ptys', next_id + 1)
  BY <1>1 DEF PtyInv, SlotsOK
<1>3. s \in Slot /\ ptys[s].id = 0
  <2>1. FreeSlots \in SUBSET Nat /\ FreeSlots # {}
    BY PtyAssumption DEF fd_open_pty, pty_alloc, FreeSlots, Slot
  <2>2. s \in FreeSlots
    BY <2>1, LeastIn
  <2> QED
    BY <2>2 DEF FreeSlots
<1>4. ptys' = [ptys EXCEPT ![s] = [NoPty EXCEPT !.id = next_id, !.ref = 1]]
  BY DEF fd_open_pty, pty_alloc
<1> HIDE DEF s
<1>5. ptys'[s].id = next_id /\ ptys'[s].count = 0 /\ \A t \in Slot \ {s} : ptys'[t] = ptys[t]
  BY <1>1, <1>3, <1>4 DEF SlotsOK, NoPty
<1>6. /\ next_id \notin IdsOf(ptys) /\ IdsOf(ptys') = IdsOf(ptys) \cup {next_id}
      /\ ContentOf(ptys') = ContentOf(ptys)
  BY <1>1, <1>2, <1>3, <1>5, ChannelOpens
<1>7. next_id \notin 1..(next_id - 1)
  BY <1>1
<1>8. (1..((next_id + 1) - 1)) \ IdsOf(ptys') = (1..(next_id - 1)) \ IdsOf(ptys)
  <2>1. 1..((next_id + 1) - 1) = (1..(next_id - 1)) \cup {next_id}
    BY <1>1
  <2> QED
    BY <1>6, <1>7, <2>1
<1>9. Channel!Open(next_id)
  BY <1>1, <1>6, <1>7, <1>8, Mapping DEF Channel!Open
<1> QED
  BY <1>1, <1>9 DEF Channel!Next

\* clks_exec_fd_read and clks_exec_fd_write read and write the channel of the pty.
LEMMA StepReads ==
    ASSUME PtyInv, PtyInv', NEW p \in Procs, NEW f \in Fd, NEW b \in Byte,
           fd_read(p, f) \/ fd_write(p, f, b)
    PROVE  Channel!Next
<1>1. PICK s \in find_slot(fds[p][f].id) :
         \/ /\ ptys[s].count > 0 /\ got' = <<ptys[s].buffer[ptys[s].read_pos]>>
            /\ ptys' = [ptys EXCEPT ![s] = advance(ptys[s])]
         \/ ~(ptys[s].count > 0) /\ got' = <<>> /\ ptys' = ptys
         \/ got' = <<>> /\ ptys' = [ptys EXCEPT ![s] = put(ptys[s], b)]
  BY DEF fd_read, fd_write
<1> DEFINE i == ptys[s].id
<1>2. /\ next_id \in Nat /\ next_id <= MaxId + 1 /\ next_id' = next_id
      /\ SlotsOK(ptys, next_id) /\ SlotsOK(ptys', next_id)
  BY DEF PtyInv, SlotsOK, fd_read, fd_write
<1>3. s \in Slot /\ i # 0
  BY <1>1 DEF find_slot
<1>4. i \in Id /\ i \in IdsOf(ptys)
  BY <1>2, <1>3, IdsOK
<1>5. ptys \in [Slot -> PtyRec] /\ RingOK(ptys[s]) /\ ptys[s].count \in Nat
  BY <1>2, <1>3, PtyAssumption DEF SlotsOK, PtyRec
<1>6. ContentOf(ptys)[i] = Bytes(ptys[s])
  BY <1>2, <1>3, <1>4, ContentAt
<1>7. OpenIds' = OpenIds /\ Content' = [Content EXCEPT ![i] = Bytes(ptys'[s])]
  <2>1. ptys'[s].id = i
    BY <1>1, <1>3, <1>5, AdvanceOK, PutOK
  <2>2. \A t \in Slot \ {s} : ptys'[t] = ptys[t]
    BY <1>1, <1>5
  <2> QED
    BY <1>2, <1>3, <1>4, <2>1, <2>2, ChannelChanges, Mapping
<1>8. i \in OpenIds /\ Content[i] = Bytes(ptys[s])
  BY <1>4, <1>6, Mapping
<1>9. (1..(next_id' - 1)) \ OpenIds' = (1..(next_id - 1)) \ OpenIds
  BY <1>2, <1>7
<1>10. CASE ptys[s].count > 0 /\ ptys' = [ptys EXCEPT ![s] = advance(ptys[s])]
            /\ got' = <<ptys[s].buffer[ptys[s].read_pos]>>
  <2>1. ptys'[s] = advance(ptys[s])
    BY <1>3, <1>5, <1>10
  <2>2. /\ Bytes(ptys'[s]) = Tail(Bytes(ptys[s])) /\ Bytes(ptys[s]) # <<>>
        /\ got' = <<Head(Bytes(ptys[s]))>>
    BY <1>5, <1>10, <2>1, AdvanceIsTail, BytesOK
  <2>3. Channel!Read(i)
    BY <1>7, <1>8, <1>9, <2>2 DEF Channel!Read
  <2> QED
    BY <1>4, <2>3 DEF Channel!Next
<1>11. CASE ~(ptys[s].count > 0) /\ got' = <<>> /\ ptys' = ptys
  <2>1. Bytes(ptys[s]) = <<>>
    BY <1>5, <1>11, BytesOK
  <2>2. Content' = Content
    BY <1>11, Mapping
  <2>3. Channel!Read(i)
    BY <1>7, <1>8, <1>9, <1>11, <2>1, <2>2 DEF Channel!Read
  <2> QED
    BY <1>4, <2>3 DEF Channel!Next
<1>12. CASE got' = <<>> /\ ptys' = [ptys EXCEPT ![s] = put(ptys[s], b)]
  <2>1. ptys'[s] = put(ptys[s], b)
    BY <1>3, <1>5, <1>12
  <2>2. Bytes(ptys'[s])
           = Append(IF Len(Bytes(ptys[s])) = Size THEN Tail(Bytes(ptys[s])) ELSE Bytes(ptys[s]), b)
    BY <1>5, <2>1, PutIsAppend
  <2>3. Channel!Write(i, b)
    BY <1>7, <1>8, <1>9, <1>12, <2>2 DEF Channel!Write
  <2> QED
    BY <1>4, <2>3 DEF Channel!Next
<1> QED
  BY <1>1, <1>10, <1>11, <1>12

\* A retained pty only counts one more reference, and a released one is as it was or
\* wiped.
LEMMA KeptOrWiped ==
    ASSUME PtyInv, NEW p \in Procs, NEW F, NEW i,
           ptys' = pty_retain(i) \/ release(p, F) \/ UNCHANGED ptys
    PROVE  \A s \in Slot : \/ ptys'[s].id = 0
                           \/ ptys'[s].id = ptys[s].id /\ Bytes(ptys'[s]) = Bytes(ptys[s])
<1> SUFFICES ASSUME NEW s \in Slot
             PROVE  \/ ptys'[s].id = 0
                    \/ ptys'[s].id = ptys[s].id /\ Bytes(ptys'[s]) = Bytes(ptys[s])
  OBVIOUS
<1>1. ptys[s] \in PtyRec
  BY DEF PtyInv, SlotsOK
<1>2. ASSUME NEW q, q.buffer = ptys[s].buffer, q.read_pos = ptys[s].read_pos,
             q.count = ptys[s].count
      PROVE  Bytes(q) = Bytes(ptys[s])
  BY <1>2 DEF Bytes
<1>3. ASSUME NEW r, ptys'[s] = [ptys[s] EXCEPT !.ref = r]
      PROVE  ptys'[s].id = ptys[s].id /\ Bytes(ptys'[s]) = Bytes(ptys[s])
  <2>1. /\ ptys'[s].id = ptys[s].id /\ ptys'[s].buffer = ptys[s].buffer
        /\ ptys'[s].read_pos = ptys[s].read_pos /\ ptys'[s].count = ptys[s].count
    BY <1>1, <1>3 DEF PtyRec
  <2> QED
    BY <1>2, <2>1
<1>4. CASE ptys' = pty_retain(i)
  <2>1. \/ ptys'[s] = [ptys[s] EXCEPT !.ref = ptys[s].ref + 1]
        \/ ptys'[s] = ptys[s]
    BY <1>4 DEF pty_retain
  <2> QED
    BY <1>3, <2>1
<1>5. CASE release(p, F)
  <2>1. \/ ptys'[s] = Released(ptys[s], Held(p, F, s))
        \/ ptys'[s] = ptys[s]
    BY <1>5 DEF release
  <2>2. \/ ptys'[s] = [ptys[s] EXCEPT !.ref = ptys[s].ref - Held(p, F, s)]
        \/ ptys'[s] = NoPty
        \/ ptys'[s] = ptys[s]
    BY <2>1 DEF Released
  <2> QED
    BY <1>3, <2>2, NoPtyOK
<1>6. CASE UNCHANGED ptys
  BY <1>6
<1> QED
  BY <1>4, <1>5, <1>6

\* The ring buffers and reference counts of pty.c implement channels: what is written is
\* read in order, a full channel forgets its oldest byte, a pty opens empty, and an id is
\* never opened twice.
THEOREM RingsImplementChannels == Spec => ImplementsChannels
<1>1. Init => Channel!Init
  <2> SUFFICES ASSUME Init PROVE Channel!Init
    OBVIOUS
  <2>1. ptys = [s \in Slot |-> NoPty] /\ next_id = 1 /\ got = <<>> /\ NoPty.id = 0
    BY NoPtyOK DEF Init
  <2>2. OpenIds = {}
    BY <2>1 DEF OpenIds
  <2>3. Content = [i \in Id |-> <<>>]
    BY <2>2 DEF Content
  <2>4. (1..(next_id - 1)) \ OpenIds = {}
    BY <2>1
  <2> QED
    BY <2>1, <2>2, <2>3, <2>4 DEF Channel!Init
<1>2. PtyInv /\ PtyInv' /\ [Next]_vars => [Channel!Next]_(Channel!vars)
  <2> SUFFICES ASSUME PtyInv, PtyInv', [Next]_vars
               PROVE  Channel!Next \/ UNCHANGED Channel!vars
    OBVIOUS
  <2>1. CASE UNCHANGED vars
    BY <2>1 DEF vars, OpenIds, Content, Channel!vars
  <2>2. ASSUME NEW p \in Procs, fd_open_pty(p) PROVE Channel!Next
    BY <2>2, StepOpens
  <2>3. ASSUME NEW p \in Procs, NEW f \in Fd, NEW b \in Byte, fd_read(p, f) \/ fd_write(p, f, b)
        PROVE  Channel!Next
    BY <2>3, StepReads
  <2>4. ASSUME NEW p \in Procs, NEW F, NEW i, UNCHANGED next_id, got' = <<>>,
               ptys' = pty_retain(i) \/ release(p, F) \/ UNCHANGED ptys
        PROVE  Channel!Next
    BY <2>4, KeptOrWiped, StepCloses
  <2>5. ASSUME NEW p \in Procs, NEW f \in Fd, fd_dup(p, f) \/ fd_close(p, f)
        PROVE  Channel!Next
    BY <2>4, <2>5 DEF fd_dup, fd_close
  <2>6. ASSUME NEW p \in Procs, fd_release_all(p) PROVE Channel!Next
    BY <2>4, <2>6 DEF fd_release_all
  <2>7. CASE (\E p, c \in Procs, from \in [Stdio -> Sources] : start_child(p, c, from))
             \/ restart
    <3>1. First \in Procs /\ UNCHANGED next_id /\ got' = <<>> /\ UNCHANGED ptys
      BY <2>7, PtyAssumption DEF start_child, restart
    <3> QED
      BY <2>4, <3>1
  <2>8. CASE override
    <3>1. First \in Procs /\ UNCHANGED next_id /\ got' = <<>>
      BY <2>8, PtyAssumption DEF override
    <3>2. UNCHANGED ptys \/ ptys' = pty_retain(Inherited.id)
      BY <2>8 DEF override
    <3> QED
      BY <2>4, <3>1, <3>2
  <2>9. CASE override_fails
    <3>1. start.child \in Procs
      BY DEF PtyInv, ProcsOK, Start
    <3> QED
      BY <2>4, <2>9, <3>1 DEF override_fails
  <2>10. ASSUME NEW p \in Procs, NEW f \in Fd, fd_read(p, f) PROVE Channel!Next
    <3>1. PICK b : b \in Byte
      BY PtyAssumption
    <3> QED
      BY <2>3, <2>10, <3>1
  <2> QED
    BY <2>1, <2>2, <2>3, <2>5, <2>6, <2>7, <2>8, <2>9, <2>10 DEF Next
<1> QED
  BY <1>1, <1>2, PtysAreSound, PTL DEF Spec, ImplementsChannels, Channel!Spec

=============================================================================
