----------------------------- MODULE InputProofs -----------------------------
(* Proofs about Input, for every number of terminals, capacity of their       *)
(* queues, set of keys, input method and mouse.  The inductive invariant has  *)
(* three parts that do not depend on one another: the keyboard (KeysInv), the *)
(* queues (QueuesInv) and the mouse (MouseInv).                               *)
EXTENDS Input, SequenceTheorems, WellFoundedInduction, TLAPS

-----------------------------------------------------------------------------
(* Positions in a ring                                                      *)

\* A remainder is a position of a ring.
LEMMA ModInRange ==
    ASSUME NEW a \in Nat, NEW n \in Nat \ {0}
    PROVE  a % n \in 0..(n - 1)
OBVIOUS

\* A set of naturals that is not empty has a least element: where a text ends is such.
LEMMA LeastNatural ==
    ASSUME NEW S \in SUBSET Nat, S # {}
    PROVE  \E m \in S : \A n \in S : m <= n
<1>1. PICK m \in S : \A n \in S : ~(<<n, m>> \in OpToRel(<, Nat))
  BY NatLessThanWellFounded, WFMin, Zenon
<1>2. \A n \in S : ~(n < m)
  BY <1>1 DEF OpToRel
<1> QED
  BY <1>2

\* The position k after r in a ring of n.
LEMMA PositionAfter ==
    ASSUME NEW n \in Nat \ {0}, NEW r \in 0..(n - 1), NEW k \in 0..n
    PROVE  /\ (r + k) % n = IF r + k < n THEN r + k ELSE r + k - n
           /\ r % n = r
OBVIOUS

\* It is a position.
LEMMA PositionIn ==
    ASSUME NEW n \in Nat \ {0}, NEW r \in 0..(n - 1), NEW k \in 0..(n - 1)
    PROVE  (r + k) % n \in 0..(n - 1)
<1>1. r + k \in Nat
  OBVIOUS
<1> QED
  BY <1>1, ModInRange

\* What follows the next one is one nearer.
LEMMA NextIsNearer ==
    ASSUME NEW n \in Nat \ {0}, NEW r \in 0..(n - 1), NEW k \in 0..(n - 1)
    PROVE  /\ (r + 1) % n \in 0..(n - 1)
           /\ (((r + 1) % n) + k) % n = (r + (k + 1)) % n
           /\ (((r + k) % n) + 1) % n = (r + (k + 1)) % n
<1>1. 1 \in 0..n /\ k \in 0..n /\ k + 1 \in 0..n
  OBVIOUS
<1>2. /\ (r + 1) % n = IF r + 1 < n THEN r + 1 ELSE r + 1 - n
      /\ (r + k) % n = IF r + k < n THEN r + k ELSE r + k - n
      /\ (r + (k + 1)) % n = IF r + (k + 1) < n THEN r + (k + 1) ELSE r + (k + 1) - n
  BY <1>1, PositionAfter
<1> DEFINE a == (r + 1) % n
           b == (r + k) % n
<1>3. a \in 0..(n - 1) /\ b \in 0..(n - 1)
  BY <1>2
<1>4. /\ (a + k) % n = IF a + k < n THEN a + k ELSE a + k - n
      /\ (b + 1) % n = IF b + 1 < n THEN b + 1 ELSE b + 1 - n
  <2> HIDE DEF a, b
  <2> QED
    BY <1>1, <1>3, PositionAfter
<1>5. a = (IF r + 1 < n THEN r + 1 ELSE r + 1 - n) /\ b = (IF r + k < n THEN r + k ELSE r + k - n)
  BY <1>2
<1> HIDE DEF a, b
<1>6. (a + k) % n = (r + (k + 1)) % n
  BY <1>2, <1>4, <1>5
<1>7. (b + 1) % n = (r + (k + 1)) % n
  BY <1>2, <1>4, <1>5
<1> QED
  BY <1>3, <1>6, <1>7 DEF a, b

\* A sequence, of whatever it holds.
IsSeq(q) == \E S : q \in Seq(S)


-----------------------------------------------------------------------------
(* The keyboard.                                                              *)

Mods == [alt : BOOLEAN, lshift : BOOLEAN, rshift : BOOLEAN, lctrl : BOOLEAN, rctrl : BOOLEAN,
         e0 : BOOLEAN, latch : BOOLEAN]

\* A modifier counts as down only if a key of the set h stands for it.
Tracks(h) ==
    /\ mods.lshift => "lshift" \in h
    /\ mods.rshift => "rshift" \in h
    /\ mods.lctrl => "lctrl" \in h
    /\ mods.rctrl => "rctrl" \in h
    /\ mods.alt => h \cap {"lalt", "ralt"} # {}

TracksAlt(h) == mods.alt => h \cap {"lalt", "ralt"} # {}

\* What is left of the fake releases before the code of a cursor key.
Break(s) == [code |-> s, up |-> TRUE]
Hiding(k) ==
    LET w == Scancodes(k, FALSE)
        r == Fake("rshift", TRUE, w) IN
    {Cons(Break("rshift"), w), r, Cons(Break("lshift"), w), Cons(Break("lshift"), r),
     Fake("lshift", TRUE, w), Fake("lshift", TRUE, r)}

\* The keyboard sent that k went up or down, and the kernel has not handled the last
\* code of it yet: a key that went up may still count as down.
Pending(k, up) ==
    /\ IF up THEN k \notin held ELSE k \in held
    /\ Tracks(held \cup {k})
    /\ \/ wire = Scancodes(k, up) /\ (k \in Extended \/ ~mods.e0)
       \/ k \in Extended /\ wire = <<[code |-> Code(k), up |-> up]>> /\ mods.e0
       \/ k \in CursorKeys /\ ~up /\ wire \in Hiding(k) /\ (Head(wire) = E0 \/ mods.e0)

\* Codes that are not of Alt; and what is known of Alt when the rest is not.
Quiet == [code : {Code(k) : k \in session.keys \ {"lalt", "ralt"}} \cup {"e0", "lshift", "rshift"},
          up : BOOLEAN]
AltPending(k, up) ==
    /\ IF up THEN k \notin held ELSE k \in held
    /\ TracksAlt(held \cup {k})
    /\ wire = Scancodes(k, up) \/ wire = <<[code |-> Code(k), up |-> up]>>
AltInv ==
    \/ wire \in Seq(Quiet) /\ TracksAlt(held)
    \/ \E k \in session.keys \cap {"lalt", "ralt"}, up \in BOOLEAN : AltPending(k, up)

\* Until a fake code is misread, every modifier is known; after that Alt is.
KeysInv ==
    /\ session \in Sessions /\ held \subseteq session.keys /\ mods \in Mods
    /\ stops \in {0, 1} /\ (stops = 1 => mods.latch)
    /\ stray \in BOOLEAN
    /\ ~stray => \/ wire = <<>> /\ Tracks(held) /\ ~mods.e0
                 \/ \E k \in session.keys, up \in BOOLEAN : Pending(k, up)
    /\ stray => AltInv

\* Sequences of one and two elements.
LEMMA OneOrTwo ==
    ASSUME NEW a, NEW b
    PROVE  /\ <<>> \o <<b>> = <<b>> /\ <<a>> \o <<b>> = <<a, b>>
           /\ <<b>> # <<>> /\ <<a, b>> # <<>>
           /\ Head(<<b>>) = b /\ Head(<<a, b>>) = a
           /\ Tail(<<b>>) = <<>> /\ Tail(<<a, b>>) = <<b>>
<1>1. <<>> \o <<b>> = <<b>>
  OBVIOUS
<1>2. <<a>> \o <<b>> = <<a, b>>
  <2> DEFINE t == <<a>> \o <<b>>
  <2>1. <<a>> \in Seq({a, b}) /\ <<b>> \in Seq({a, b}) /\ <<a, b>> \in Seq({a, b})
    OBVIOUS
  <2>2. /\ Len(<<a>>) = 1 /\ <<a>>[1] = a /\ Len(<<b>>) = 1 /\ <<b>>[1] = b
        /\ Len(<<a, b>>) = 2 /\ <<a, b>>[1] = a /\ <<a, b>>[2] = b
    OBVIOUS
  <2>3. t \in Seq({a, b}) /\ Len(t) = 2 /\ t[1] = a /\ t[2] = b
    BY <2>1, <2>2, ConcatProperties
  <2> HIDE DEF t
  <2>4. \A i \in 1..Len(t) : t[i] = <<a, b>>[i]
    BY <2>2, <2>3
  <2>5. t = <<a, b>>
    BY <2>1, <2>2, <2>3, <2>4, SeqEqual
  <2> QED
    BY <2>5 DEF t
<1>3. <<b>> # <<>> /\ <<a, b>> # <<>>
  OBVIOUS
<1>4. Head(<<b>>) = b /\ Head(<<a, b>>) = a
  OBVIOUS
<1>5. Tail(<<b>>) = <<>>
  OBVIOUS
<1>6. Tail(<<a, b>>) = <<b>>
  <2> DEFINE t == Tail(<<a, b>>)
  <2>1. <<a, b>> \in Seq({a, b}) /\ <<b>> \in Seq({a, b})
    OBVIOUS
  <2>2. t \in Seq({a, b}) /\ Len(t) = 1 /\ t[1] = b
    BY <2>1, HeadTailProperties
  <2>3. Len(<<b>>) = 1 /\ <<b>>[1] = b
    OBVIOUS
  <2> HIDE DEF t
  <2> QED
    BY <2>1, <2>2, <2>3, SeqEqual DEF t
<1> QED
  BY <1>1, <1>2, <1>3, <1>4, <1>5, <1>6

\* A code before others.
LEMMA ConsParts ==
    ASSUME NEW S, NEW a, NEW q \in Seq(S)
    PROVE  /\ Cons(a, q) \in Seq(S \cup {a}) /\ Cons(a, q) # <<>>
           /\ Head(Cons(a, q)) = a /\ Tail(Cons(a, q)) = q
<1> DEFINE T == S \cup {a}
           t == Cons(a, q)
<1>1. q \in Seq(T) /\ <<a>> \in Seq(T) /\ Len(<<a>>) = 1 /\ <<a>>[1] = a
  <2>1. q \in Seq(T)
    BY SeqMonotonic
  <2> QED
    BY <2>1
<1>2. Len(q) \in Nat
  BY LenProperties
<1> HIDE DEF T
<1>3. /\ t \in Seq(T) /\ Len(t) = 1 + Len(q)
      /\ \A i \in 1 .. (1 + Len(q)) : t[i] = IF i <= 1 THEN <<a>>[i] ELSE q[i - 1]
  BY <1>1, ConcatProperties DEF Cons
<1> HIDE DEF t
<1>4. t # <<>> /\ t[1] = a
  BY <1>1, <1>2, <1>3
<1>5. Head(t) = a
  BY <1>3, <1>4, HeadTailProperties
<1>6. /\ Tail(t) \in Seq(T) /\ Len(Tail(t)) = Len(t) - 1
      /\ \A i \in 1 .. Len(Tail(t)) : Tail(t)[i] = t[i + 1]
  BY <1>3, <1>4, HeadTailProperties
<1> DEFINE u == Tail(t)
<1> HIDE DEF u
<1>7. Len(u) = Len(q) /\ \A i \in 1 .. Len(u) : u[i] = q[i]
  <2>1. Len(u) = Len(q) /\ \A i \in 1 .. Len(u) : u[i] = t[i + 1]
    BY <1>2, <1>3, <1>6 DEF u
  <2>2. ASSUME NEW i \in 1 .. Len(u) PROVE u[i] = q[i]
    <3>1. /\ i + 1 \in 1 .. (1 + Len(q)) /\ ~(i + 1 <= 1) /\ (i + 1) - 1 = i
      BY <1>2, <2>1
    <3>2. t[i + 1] = q[(i + 1) - 1]
      BY <1>3, <3>1
    <3> QED
      BY <2>1, <3>1, <3>2
  <2> QED
    BY <2>1, <2>2
<1>8. u = q
  BY <1>1, <1>6, <1>7, SeqEqual DEF u
<1> QED
  BY <1>3, <1>4, <1>5, <1>8 DEF T, t, u

\* The codes of a key, in the order they are sent.
LEMMA CodesOfKey ==
    ASSUME NEW k, NEW up
    PROVE  /\ k \in Extended => /\ Scancodes(k, up) = <<E0, [code |-> Code(k), up |-> up]>>
                                /\ Head(Scancodes(k, up)) = E0
                                /\ Tail(Scancodes(k, up)) = <<[code |-> Code(k), up |-> up]>>
                                /\ Scancodes(k, up) # <<>>
           /\ k \notin Extended => Scancodes(k, up) = <<[code |-> Code(k), up |-> up]>>
           /\ <<[code |-> Code(k), up |-> up]>> # <<>>
           /\ Head(<<[code |-> Code(k), up |-> up]>>) = [code |-> Code(k), up |-> up]
           /\ Tail(<<[code |-> Code(k), up |-> up]>>) = <<>>
<1> DEFINE c == [code |-> Code(k), up |-> up]
<1>1. Scancodes(k, up) = IF k \in Extended THEN <<E0>> \o <<c>> ELSE <<>> \o <<c>>
  BY DEF Scancodes
<1> HIDE DEF c
<1>2. /\ <<>> \o <<c>> = <<c>> /\ <<E0>> \o <<c>> = <<E0, c>>
      /\ <<c>> # <<>> /\ <<E0, c>> # <<>> /\ Head(<<c>>) = c /\ Head(<<E0, c>>) = E0
      /\ Tail(<<c>>) = <<>> /\ Tail(<<E0, c>>) = <<c>>
  BY OneOrTwo
<1>3. /\ k \in Extended => /\ Scancodes(k, up) = <<E0, c>>
                           /\ Head(Scancodes(k, up)) = E0
                           /\ Tail(Scancodes(k, up)) = <<c>>
                           /\ Scancodes(k, up) # <<>>
      /\ k \notin Extended => Scancodes(k, up) = <<c>>
      /\ <<c>> # <<>> /\ Head(<<c>>) = c /\ Tail(<<c>>) = <<>>
  BY <1>1, <1>2
<1> QED
  BY <1>3 DEF c

\* The codes of a key as a sequence.
LEMMA CodesAreSeq ==
    ASSUME NEW k, NEW up
    PROVE  Scancodes(k, up) \in Seq({E0, [code |-> Code(k), up |-> up]})
<1> DEFINE c == [code |-> Code(k), up |-> up]
<1>1. Scancodes(k, up) = <<E0, c>> \/ Scancodes(k, up) = <<c>>
  BY CodesOfKey
<1> HIDE DEF c
<1>2. <<E0, c>> \in Seq({E0, c}) /\ <<c>> \in Seq({E0, c})
  OBVIOUS
<1>3. Scancodes(k, up) \in Seq({E0, c})
  BY <1>1, <1>2
<1> QED
  BY <1>3 DEF c

\* A fake release is an E0 and the code of a Shift key, with the rest to follow.
LEMMA HidingSteps ==
    ASSUME NEW k, NEW w \in Hiding(k)
    PROVE  /\ w # <<>> /\ Tail(w) \in Hiding(k) \cup {Scancodes(k, FALSE)}
           /\ Head(w) \in {E0, Break("lshift"), Break("rshift")}
<1> DEFINE a == Scancodes(k, FALSE)
           S == {E0, [code |-> Code(k), up |-> FALSE]}
           l == Break("lshift")
           r == Break("rshift")
           ra == Cons(r, a)
           era == Cons(E0, ra)
           la == Cons(l, a)
           lra == Cons(l, era)
           ela == Cons(E0, la)
           elra == Cons(E0, lra)
<1>1. a \in Seq(S)
  BY CodesAreSeq
<1> HIDE DEF S
<1>2. Hiding(k) = {ra, era, la, lra, ela, elra}
  BY DEF Hiding, Fake, Break
<1> HIDE DEF a, l, r
<1>3. ra \in Seq(S \cup {r}) /\ ra # <<>> /\ Head(ra) = r /\ Tail(ra) = a
  BY <1>1, ConsParts
<1>4. la \in Seq(S \cup {l}) /\ la # <<>> /\ Head(la) = l /\ Tail(la) = a
  BY <1>1, ConsParts
<1> HIDE DEF ra, la
<1>5. era \in Seq((S \cup {r}) \cup {E0}) /\ era # <<>> /\ Head(era) = E0 /\ Tail(era) = ra
  BY <1>3, ConsParts
<1>6. ela # <<>> /\ Head(ela) = E0 /\ Tail(ela) = la
  BY <1>4, ConsParts
<1> HIDE DEF era, ela
<1>7. lra \in Seq(((S \cup {r}) \cup {E0}) \cup {l}) /\ lra # <<>> /\ Head(lra) = l /\ Tail(lra) = era
  BY <1>5, ConsParts
<1> HIDE DEF lra
<1>8. elra # <<>> /\ Head(elra) = E0 /\ Tail(elra) = lra
  BY <1>7, ConsParts
<1> HIDE DEF elra
<1>9. /\ w # <<>> /\ Tail(w) \in {ra, era, la, lra, ela, elra} \cup {a}
      /\ Head(w) \in {E0, l, r}
  BY <1>2, <1>3, <1>4, <1>5, <1>6, <1>7, <1>8
<1> QED
  BY <1>2, <1>9 DEF a, l, r

\* What the kernel can find at the head of the wire: an E0, which is the prefix of an
\* extended key or of a fake release; a fake release; or the code of a key, with the
\* prefix seen if and only if the key is extended.
LEMMA TopOfWire ==
    ASSUME KeysInv, ~stray, wire # <<>>
    PROVE  \E k \in session.keys, up \in BOOLEAN :
              /\ IF up THEN k \notin held ELSE k \in held
              /\ Tracks(held \cup {k})
              /\ \/ /\ k \in Extended /\ Top = E0
                    /\ Tail(wire) = <<[code |-> Code(k), up |-> up]>>
                 \/ /\ mods.e0 <=> k \in Extended
                    /\ Top = [code |-> Code(k), up |-> up] /\ Tail(wire) = <<>>
                 \/ /\ k \in CursorKeys /\ ~up
                    /\ Tail(wire) \in Hiding(k) \cup {Scancodes(k, FALSE)}
                    /\ Top = E0 \/ (mods.e0 /\ Top \in {Break("lshift"), Break("rshift")})
<1>1. PICK k \in session.keys, up \in BOOLEAN : Pending(k, up)
  BY DEF KeysInv
<1>2. mods.e0 \in BOOLEAN
  BY DEF KeysInv, Mods
<1> DEFINE c == [code |-> Code(k), up |-> up]
<1>3. /\ k \in Extended => /\ Head(Scancodes(k, up)) = E0
                           /\ Tail(Scancodes(k, up)) = <<c>>
      /\ k \notin Extended => Scancodes(k, up) = <<c>>
      /\ Head(<<c>>) = c /\ Tail(<<c>>) = <<>>
  BY CodesOfKey
<1> HIDE DEF c
<1>4. CASE wire = Scancodes(k, up) /\ (k \in Extended \/ ~mods.e0)
  <2>1. \/ k \in Extended /\ Top = E0 /\ Tail(wire) = <<c>>
        \/ (mods.e0 <=> k \in Extended) /\ Top = c /\ Tail(wire) = <<>>
    BY <1>2, <1>3, <1>4 DEF Top
  <2> QED
    BY <1>1, <2>1 DEF Pending, c
<1>5. CASE k \in Extended /\ wire = <<c>> /\ mods.e0
  <2>1. (mods.e0 <=> k \in Extended) /\ Top = c /\ Tail(wire) = <<>>
    BY <1>2, <1>3, <1>5 DEF Top
  <2> QED
    BY <1>1, <2>1 DEF Pending, c
<1>6. CASE k \in CursorKeys /\ ~up /\ wire \in Hiding(k) /\ (Head(wire) = E0 \/ mods.e0)
  <2>1. /\ Tail(wire) \in Hiding(k) \cup {Scancodes(k, FALSE)}
        /\ Head(wire) \in {E0, Break("lshift"), Break("rshift")}
    BY <1>6, HidingSteps
  <2> QED
    BY <1>1, <1>6, <2>1 DEF Pending, Top
<1> QED
  BY <1>1, <1>4, <1>5, <1>6 DEF Pending, c

\* The codes of a key that is not itself named like one.
LEMMA KeyCodes ==
    ASSUME InputAssumption, KeysInv, NEW k \in session.keys
    PROVE  /\ Code(k) # "e0"
           /\ Code(k) = "ctrl" <=> k \in {"lctrl", "rctrl"}
           /\ Code(k) = "alt" <=> k \in {"lalt", "ralt"}
           /\ Code(k) = "lshift" <=> k = "lshift"
           /\ Code(k) = "rshift" <=> k = "rshift"
           /\ "lctrl" \notin Extended /\ "rctrl" \in Extended
           /\ "lshift" \notin Extended /\ "rshift" \notin Extended
<1>1. k \notin {"ctrl", "alt", "e0"}
  BY DEF KeysInv, InputAssumption
<1> QED
  BY <1>1 DEF Code, Extended

\* No key is down at start.
LEMMA KeysStart == ASSUME InputAssumption, Init PROVE KeysInv
<1>1. mods \in Mods /\ Tracks(held) /\ ~mods.e0
  <2>1. mods = NoMods
    BY DEF Init
  <2>2. NoMods \in Mods
    BY DEF Mods, NoMods
  <2>3. ~mods.e0 /\ ~mods.alt /\ ~mods.lshift /\ ~mods.rshift /\ ~mods.lctrl /\ ~mods.rctrl
    BY <2>1 DEF NoMods
  <2> QED
    BY <2>1, <2>2, <2>3 DEF Tracks
<1>2. /\ session \in Sessions /\ held \subseteq session.keys /\ stops = 0
      /\ stray \in BOOLEAN /\ ~stray /\ wire = <<>>
  BY DEF Init
<1>3. stops \in {0, 1} /\ (stops = 1 => mods.latch)
  BY <1>2
<1>4. ~stray => \/ wire = <<>> /\ Tracks(held) /\ ~mods.e0
                \/ \E k \in session.keys, up \in BOOLEAN : Pending(k, up)
  BY <1>1, <1>2, Zenon
<1> QED
  BY <1>1, <1>2, <1>3, <1>4, Zenon DEF KeysInv

\* Steps that touch no key, code or modifier keep the keyboard's part.
LEMMA KeysKept ==
    ASSUME KeysInv, UNCHANGED <<session, held, mods, stray, stops, wire>>
    PROVE  KeysInv'
BY DEF KeysInv, Tracks, TracksAlt, Pending, AltPending, AltInv, Quiet

\* The latch and the count of force stops go together, and the flags stay flags.
LEMMA LatchKept ==
    ASSUME KeysInv, HandleScancode
    PROVE  /\ mods' \in Mods /\ stops' \in {0, 1} /\ (stops' = 1 => mods'.latch)
           /\ session' = session /\ held' = held /\ stray' = stray /\ wire # <<>> /\ wire' = Tail(wire)
<1>1. mods \in Mods /\ stops \in {0, 1} /\ (stops = 1 => mods.latch)
  BY DEF KeysInv
<1> DEFINE Goal == /\ mods' \in Mods /\ stops' \in {0, 1} /\ (stops' = 1 => mods'.latch)
                   /\ session' = session /\ held' = held /\ stray' = stray /\ wire # <<>> /\ wire' = Tail(wire)
<1> USE DEF Taken, KeepRest
<1>2. Prefix => Goal
  BY <1>1 DEF Prefix, Mods
<1>11. wire # <<>> => (~Top.up) \in BOOLEAN
  OBVIOUS
<1>3. ASSUME CtrlKey PROVE Goal
  <2>1. PICK m : /\ m \in Mods /\ m.latch = mods.latch
                 /\ mods' = IF Top.up THEN [m EXCEPT !.latch = FALSE] ELSE m
    BY <1>1, <1>3, <1>11 DEF CtrlKey, Unlatched, Mods
  <2>2. mods' \in Mods /\ (~Top.up => mods'.latch = mods.latch)
    BY <2>1 DEF Mods
  <2> QED
    BY <1>1, <1>3, <2>2 DEF CtrlKey
<1>4. ASSUME AltKey PROVE Goal
  <2>1. mods' = Unlatched([mods EXCEPT !.alt = ~Top.up, !.e0 = FALSE]) /\ (~Top.up) \in BOOLEAN
    BY <1>4, <1>11 DEF AltKey
  <2>2. /\ mods' \in Mods
        /\ ~Top.up => mods'.latch = mods.latch
    BY <1>1, <2>1 DEF Unlatched, Mods
  <2> QED
    BY <1>1, <1>4, <2>2 DEF AltKey
<1>5. ShiftKey => Goal
  BY <1>1 DEF ShiftKey, Mods
<1>6. ASSUME Released PROVE Goal
  <2>1. (mods.latch /\ Top.code # "c") \in BOOLEAN
    OBVIOUS
  <2>2. mods' \in Mods /\ mods'.latch = (mods.latch /\ Top.code # "c")
    BY <1>1, <1>6, <2>1 DEF Released, Mods
  <2>3. CASE Top.code = "c"
    BY <1>1, <1>6, <2>2, <2>3 DEF Released
  <2>4. CASE Top.code # "c"
    BY <1>1, <1>6, <2>2, <2>4 DEF Released
  <2> QED
    BY <2>3, <2>4
<1>7. ExtendedKey => Goal
  BY <1>1 DEF ExtendedKey, Mods
<1>8. SwitchTty \/ CycleMethod \/ CtrlShortcut => Goal
  BY <1>1 DEF SwitchTty, CycleMethod, CtrlShortcut
<1>9. ASSUME ForceStop PROVE Goal
  <2>1. mods' \in Mods /\ mods'.latch
    BY <1>1, <1>9 DEF ForceStop, Mods
  <2>2. stops' \in {0, 1}
    BY <1>1, <1>9 DEF ForceStop
  <2> QED
    BY <1>9, <2>1, <2>2 DEF ForceStop
<1>10. ASSUME NEW swallowed \in BOOLEAN, EscapeKey(swallowed) \/ Typed(swallowed) PROVE Goal
  BY <1>1, <1>10 DEF EscapeKey, Typed
<1> QED
  BY <1>2, <1>3, <1>4, <1>5, <1>6, <1>7, <1>8, <1>9, <1>10 DEF HandleScancode

\* The prefix is noted and nothing else happens.
LEMMA PrefixNoted ==
    ASSUME KeysInv, HandleScancode, Top = E0
    PROVE  mods' = [mods EXCEPT !.e0 = TRUE]
<1>1. ~Top.up /\ Top.code = "e0"
  BY DEF E0
<1>2. ~CtrlKey /\ ~AltKey /\ ~ShiftKey /\ ~Released
  BY <1>1 DEF CtrlKey, AltKey, ShiftKey, Released
<1>3. ~Ordinary
  BY <1>1 DEF Ordinary
<1> QED
  BY <1>2, <1>3 DEF HandleScancode, Prefix, ExtendedKey, SwitchTty, CycleMethod, ForceStop,
                    CtrlShortcut, EscapeKey, Typed, Plain

\* The code of a key changes the modifiers as the key stands, and ends the prefix.
LEMMA CodeHandled ==
    ASSUME InputAssumption, KeysInv, HandleScancode, NEW k \in session.keys, NEW up \in BOOLEAN,
           IF up THEN k \notin held ELSE k \in held,
           Tracks(held \cup {k}),
           mods.e0 <=> k \in Extended,
           Top = [code |-> Code(k), up |-> up]
    PROVE  Tracks(held)' /\ ~mods'.e0
<1>1. Top.up = up /\ Top.code = Code(k)
  OBVIOUS
<1>2. /\ Code(k) # "e0"
      /\ Code(k) = "ctrl" <=> k \in {"lctrl", "rctrl"}
      /\ Code(k) = "alt" <=> k \in {"lalt", "ralt"}
      /\ Code(k) = "lshift" <=> k = "lshift"
      /\ Code(k) = "rshift" <=> k = "rshift"
      /\ "lctrl" \notin Extended /\ "rctrl" \in Extended
      /\ "lshift" \notin Extended /\ "rshift" \notin Extended
  BY KeyCodes
<1>3. mods \in Mods /\ held' = held
  BY LatchKept DEF KeysInv
<1> DEFINE Goal == Tracks(held)' /\ ~mods'.e0
<1>4. ~Prefix
  BY <1>1, <1>2 DEF Prefix, E0
<1>5. CASE CtrlKey
  <2>1. k \in {"lctrl", "rctrl"} /\ (mods.e0 <=> k = "rctrl")
    BY <1>1, <1>2, <1>5 DEF CtrlKey
  <2>2. /\ mods'.alt = mods.alt /\ mods'.lshift = mods.lshift /\ mods'.rshift = mods.rshift
        /\ ~mods'.e0
        /\ mods'.lctrl = IF k = "lctrl" THEN ~up ELSE mods.lctrl
        /\ mods'.rctrl = IF k = "rctrl" THEN ~up ELSE mods.rctrl
    BY <1>1, <1>3, <1>5, <2>1 DEF CtrlKey, Unlatched, Mods
  <2> QED
    BY <1>3, <2>1, <2>2 DEF Tracks
<1>6. CASE AltKey
  <2>1. k \in {"lalt", "ralt"}
    BY <1>1, <1>2, <1>6 DEF AltKey
  <2>2. /\ mods'.alt = ~up /\ mods'.lshift = mods.lshift /\ mods'.rshift = mods.rshift
        /\ ~mods'.e0 /\ mods'.lctrl = mods.lctrl /\ mods'.rctrl = mods.rctrl
    BY <1>1, <1>3, <1>6 DEF AltKey, Unlatched, Mods
  <2> QED
    BY <1>3, <2>1, <2>2 DEF Tracks
<1>7. CASE ShiftKey
  <2>1. k \in {"lshift", "rshift"} /\ ~mods.e0
    BY <1>1, <1>2, <1>7 DEF ShiftKey
  <2>2. /\ mods'.alt = mods.alt /\ mods'.lctrl = mods.lctrl /\ mods'.rctrl = mods.rctrl
        /\ mods'.e0 = mods.e0
        /\ mods'.lshift = IF k = "lshift" THEN ~up ELSE mods.lshift
        /\ mods'.rshift = IF k = "rshift" THEN ~up ELSE mods.rshift
    BY <1>1, <1>2, <1>3, <1>7, <2>1 DEF ShiftKey, Mods
  <2> QED
    BY <1>3, <2>1, <2>2 DEF Tracks
\* Another key: a modifier that is down is one of the other keys held.
<1>8. ASSUME k \notin {"lctrl", "rctrl", "lalt", "ralt", "lshift", "rshift"},
             mods' = [mods EXCEPT !.e0 = FALSE, !.latch = mods'.latch]
      PROVE  Goal
  <2>1. /\ mods'.alt = mods.alt /\ mods'.lctrl = mods.lctrl /\ mods'.rctrl = mods.rctrl
        /\ ~mods'.e0 /\ mods'.lshift = mods.lshift /\ mods'.rshift = mods.rshift
    BY <1>3, <1>8 DEF Mods
  <2> QED
    BY <1>3, <1>8, <2>1 DEF Tracks
<1>9. CASE Released
  <2>1. k \notin {"lctrl", "rctrl", "lalt", "ralt", "lshift", "rshift"}
    BY <1>1, <1>2, <1>9 DEF Released, ModifierCodes
  <2>2. mods' = [mods EXCEPT !.e0 = FALSE, !.latch = mods'.latch]
    BY <1>3, <1>9 DEF Released, Mods
  <2> QED
    BY <1>8, <2>1, <2>2
<1>10. CASE ExtendedKey
  <2>1. k \notin {"lctrl", "rctrl", "lalt", "ralt", "lshift", "rshift"}
    BY <1>1, <1>2, <1>10 DEF ExtendedKey, Ordinary, ModifierCodes
  <2>2. mods' = [mods EXCEPT !.e0 = FALSE, !.latch = mods'.latch]
    BY <1>3, <1>10 DEF ExtendedKey, Mods
  <2> QED
    BY <1>8, <2>1, <2>2
<1>11. CASE \/ SwitchTty \/ CycleMethod \/ ForceStop \/ CtrlShortcut
            \/ \E swallowed \in BOOLEAN : EscapeKey(swallowed) \/ Typed(swallowed)
  <2>1. Plain /\ (mods' = mods \/ mods' = [mods EXCEPT !.latch = TRUE])
    BY <1>11 DEF SwitchTty, CycleMethod, ForceStop, CtrlShortcut, EscapeKey, Typed
  <2>2. k \notin {"lctrl", "rctrl", "lalt", "ralt", "lshift", "rshift"} /\ ~mods.e0
    BY <1>1, <1>2, <2>1 DEF Plain, Ordinary, ModifierCodes
  <2>3. mods' = [mods EXCEPT !.e0 = FALSE, !.latch = mods'.latch]
    BY <1>3, <2>1, <2>2 DEF Mods
  <2> QED
    BY <1>8, <2>2, <2>3
<1> QED
  BY <1>4, <1>5, <1>6, <1>7, <1>9, <1>10, <1>11 DEF HandleScancode

\* A fake release takes Shift for released, and the prefix stays.
LEMMA FakeHandled ==
    ASSUME KeysInv, HandleScancode, NEW s \in {"lshift", "rshift"}, Top = Break(s)
    PROVE  /\ mods'.alt = mods.alt /\ mods'.lctrl = mods.lctrl /\ mods'.rctrl = mods.rctrl
           /\ mods'.e0 = mods.e0 /\ (mods'.lshift => mods.lshift) /\ (mods'.rshift => mods.rshift)
<1>1. Top.up /\ Top.code = s
  BY DEF Break
<1>2. Top # E0
  BY <1>1 DEF E0
<1>3. ~Prefix /\ ~CtrlKey /\ ~AltKey /\ ~Released
  BY <1>1, <1>2 DEF Prefix, CtrlKey, AltKey, Released, ModifierCodes
<1>4. ~Ordinary
  BY <1>1 DEF Ordinary
<1>5. ShiftKey
  BY <1>3, <1>4 DEF HandleScancode, ExtendedKey, SwitchTty, CycleMethod, ForceStop,
                    CtrlShortcut, EscapeKey, Typed, Plain
<1>6. mods \in Mods
  BY DEF KeysInv
<1> QED
  BY <1>1, <1>5, <1>6 DEF ShiftKey, Mods

\* A code changes Alt only if it is the code of Alt, which says how the key stands.
LEMMA AltHandled ==
    ASSUME KeysInv, HandleScancode
    PROVE  /\ Top.code # "alt" => mods'.alt = mods.alt
           /\ Top.code = "alt" => mods'.alt = ~Top.up
<1>1. mods \in Mods
  BY DEF KeysInv
<1>2. CASE Prefix
  <2>1. Top.code = "e0"
    BY <1>2 DEF Prefix, E0
  <2> QED
    BY <1>1, <1>2, <2>1 DEF Prefix, Mods
<1>3. CASE CtrlKey
  BY <1>1, <1>3 DEF CtrlKey, Unlatched, Mods
<1>4. CASE AltKey
  <2>1. Top.code = "alt"
    BY <1>4 DEF AltKey
  <2>2. mods' = Unlatched([mods EXCEPT !.alt = ~Top.up, !.e0 = FALSE])
    BY <1>4 DEF AltKey
  <2>3. mods'.alt = ~Top.up
    BY <1>1, <2>2 DEF Unlatched, Mods
  <2> QED
    BY <2>1, <2>3
<1>5. CASE ShiftKey
  BY <1>1, <1>5 DEF ShiftKey, Mods
<1>6. CASE Released
  BY <1>1, <1>6 DEF Released, ModifierCodes, Mods
<1>7. CASE ExtendedKey
  BY <1>1, <1>7 DEF ExtendedKey, Ordinary, ModifierCodes, Mods
<1>8. CASE \/ SwitchTty \/ CycleMethod \/ ForceStop \/ CtrlShortcut
           \/ \E swallowed \in BOOLEAN : EscapeKey(swallowed) \/ Typed(swallowed)
  <2>1. Plain /\ (mods' = mods \/ mods' = [mods EXCEPT !.latch = TRUE])
    BY <1>8 DEF SwitchTty, CycleMethod, ForceStop, CtrlShortcut, EscapeKey, Typed
  <2>2. Top.code # "alt"
    BY <2>1 DEF Plain, Ordinary, ModifierCodes
  <2> QED
    BY <1>1, <2>1, <2>2 DEF Mods
<1> QED
  BY <1>2, <1>3, <1>4, <1>5, <1>6, <1>7, <1>8 DEF HandleScancode

\* A quiet code is not Alt's.
LEMMA QuietCodes ==
    ASSUME InputAssumption, KeysInv, NEW c \in Quiet
    PROVE  c.code # "alt"
<1>1. CASE c.code \in {"e0", "lshift", "rshift"}
  BY <1>1
<1>2. CASE \E k \in session.keys \ {"lalt", "ralt"} : c.code = Code(k)
  BY <1>2, KeyCodes
<1> QED
  BY <1>1, <1>2 DEF Quiet

\* What is known of Alt stays known.
LEMMA ScancodeAlt ==
    ASSUME InputAssumption, KeysInv, AltInv, HandleScancode
    PROVE  AltInv'
<1>1. /\ session' = session /\ held' = held /\ wire # <<>> /\ wire' = Tail(wire)
  BY LatchKept
<1>2. Quiet' = Quiet
  BY <1>1 DEF Quiet
<1>3. CASE wire \in Seq(Quiet) /\ TracksAlt(held)
  <2>1. Top \in Quiet /\ Tail(wire) \in Seq(Quiet)
    BY <1>1, <1>3, HeadTailProperties DEF Top
  <2>2. mods'.alt = mods.alt
    BY <2>1, QuietCodes, AltHandled
  <2> QED
    BY <1>1, <1>2, <1>3, <2>1, <2>2 DEF AltInv, TracksAlt
<1>4. ASSUME NEW k \in session.keys \cap {"lalt", "ralt"}, NEW up \in BOOLEAN, AltPending(k, up)
      PROVE  AltInv'
  <2> DEFINE c == [code |-> Code(k), up |-> up]
  <2>1. /\ k \in Extended => /\ Head(Scancodes(k, up)) = E0
                             /\ Tail(Scancodes(k, up)) = <<c>>
        /\ k \notin Extended => Scancodes(k, up) = <<c>>
        /\ Head(<<c>>) = c /\ Tail(<<c>>) = <<>>
    BY CodesOfKey
  <2>2. c.code = "alt" /\ c.up = up
    BY DEF Code
  <2>3. /\ IF up THEN k \notin held ELSE k \in held
        /\ TracksAlt(held \cup {k})
        /\ wire = Scancodes(k, up) \/ wire = <<c>>
    BY <1>4 DEF AltPending
  <2> HIDE DEF c
  <2>4. CASE Top = E0 /\ Tail(wire) = <<c>>
    <3>1. mods'.alt = mods.alt
      BY <2>4, AltHandled DEF E0
    <3>2. AltPending(k, up)'
      BY <1>1, <2>3, <2>4, <3>1 DEF AltPending, TracksAlt, c
    <3> QED
      BY <1>1, <3>2 DEF AltInv
  <2>5. CASE Top = c /\ Tail(wire) = <<>>
    <3>1. mods'.alt = ~up
      BY <2>2, <2>5, AltHandled
    <3>2. TracksAlt(held)'
      BY <1>1, <2>3, <3>1 DEF TracksAlt
    <3>3. <<>> \in Seq(Quiet)
      BY EmptySeq
    <3> QED
      BY <1>1, <1>2, <2>5, <3>2, <3>3 DEF AltInv
  <2> QED
    BY <2>1, <2>3, <2>4, <2>5 DEF Top
<1> QED
  BY <1>3, <1>4 DEF AltInv

\* clks_keyboard_handle_scancode keeps the invariant.
LEMMA ScancodeKeys ==
    ASSUME InputAssumption, KeysInv, HandleScancode
    PROVE  KeysInv'
<1>1. /\ mods' \in Mods /\ stops' \in {0, 1} /\ (stops' = 1 => mods'.latch)
      /\ session' = session /\ held' = held /\ stray' = stray /\ wire # <<>> /\ wire' = Tail(wire)
  BY LatchKept
<1>2. CASE stray
  <2>1. AltInv'
    BY <1>2, ScancodeAlt DEF KeysInv
  <2> QED
    BY <1>1, <1>2, <2>1 DEF KeysInv
<1>3. CASE ~stray
  <2>1. PICK k \in session.keys, up \in BOOLEAN :
              /\ IF up THEN k \notin held ELSE k \in held
              /\ Tracks(held \cup {k})
              /\ \/ /\ k \in Extended /\ Top = E0
                    /\ Tail(wire) = <<[code |-> Code(k), up |-> up]>>
                 \/ /\ mods.e0 <=> k \in Extended
                    /\ Top = [code |-> Code(k), up |-> up] /\ Tail(wire) = <<>>
                 \/ /\ k \in CursorKeys /\ ~up
                    /\ Tail(wire) \in Hiding(k) \cup {Scancodes(k, FALSE)}
                    /\ Top = E0 \/ (mods.e0 /\ Top \in {Break("lshift"), Break("rshift")})
    BY <1>1, <1>3, TopOfWire
  <2>2. ASSUME Top = E0
        PROVE  /\ mods'.alt = mods.alt /\ mods'.lctrl = mods.lctrl /\ mods'.rctrl = mods.rctrl
               /\ mods'.e0 /\ mods'.lshift = mods.lshift /\ mods'.rshift = mods.rshift
    BY <2>2, PrefixNoted DEF KeysInv, Mods
  <2>3. CASE k \in Extended /\ Top = E0 /\ Tail(wire) = <<[code |-> Code(k), up |-> up]>>
    <3>1. Pending(k, up)'
      BY <1>1, <2>1, <2>2, <2>3 DEF Pending, Tracks
    <3> QED
      BY <1>1, <1>3, <3>1 DEF KeysInv
  <2>4. CASE /\ mods.e0 <=> k \in Extended
             /\ Top = [code |-> Code(k), up |-> up] /\ Tail(wire) = <<>>
    <3>1. Tracks(held)' /\ ~mods'.e0
      BY <2>1, <2>4, CodeHandled
    <3> QED
      BY <1>1, <1>3, <2>4, <3>1 DEF KeysInv
  <2>5. CASE /\ k \in CursorKeys /\ ~up
             /\ Tail(wire) \in Hiding(k) \cup {Scancodes(k, FALSE)}
             /\ Top = E0 \/ (mods.e0 /\ Top \in {Break("lshift"), Break("rshift")})
    <3>1. /\ mods'.alt = mods.alt /\ mods'.lctrl = mods.lctrl /\ mods'.rctrl = mods.rctrl
          /\ mods'.e0 /\ (mods'.lshift => mods.lshift) /\ (mods'.rshift => mods.rshift)
      BY <2>2, <2>5, FakeHandled
    <3>2. k \in Extended /\ up = FALSE
      BY <2>5 DEF CursorKeys, Extended
    <3>3. Tracks(held \cup {k})'
      BY <1>1, <2>1, <3>1 DEF Tracks
    <3>4. Pending(k, up)'
      BY <1>1, <2>1, <2>5, <3>1, <3>2, <3>3 DEF Pending
    <3> QED
      BY <1>1, <1>3, <3>4 DEF KeysInv
  <2> QED
    BY <2>1, <2>3, <2>4, <2>5
<1> QED
  BY <1>2, <1>3

\* What a key sends, when none of it is misread: its codes, or fake releases and then they.
LEMMA FaithfulPress ==
    ASSUME NEW k, NEW h, ~Misread(k, FALSE, h)
    PROVE  \/ PressCodes(k, h) = Scancodes(k, FALSE)
           \/ /\ k \in CursorKeys /\ PressCodes(k, h) \in Hiding(k)
              /\ Head(PressCodes(k, h)) = E0
<1> DEFINE a == Scancodes(k, FALSE)
           r == Fake("rshift", TRUE, a)
           S == {E0, [code |-> Code(k), up |-> FALSE]}
<1>1. CASE k = "prtsc"
  BY <1>1 DEF Misread, PressCodes, FakeIf
<1>2. CASE k # "prtsc" /\ ~(k \in CursorKeys \ h)
  BY <1>2 DEF PressCodes, FakeIf
<1>3. CASE k # "prtsc" /\ k \in CursorKeys \ h
  <2>1. PressCodes(k, h) \in {a, r, Fake("lshift", TRUE, a), Fake("lshift", TRUE, r)}
    BY <1>3 DEF PressCodes, FakeIf
  <2>2. {r, Fake("lshift", TRUE, a), Fake("lshift", TRUE, r)} \subseteq Hiding(k)
    BY DEF Hiding
  <2>3. ASSUME NEW T, NEW q \in Seq(T), NEW s
        PROVE  Head(Fake(s, TRUE, q)) = E0 /\ \E U : Fake(s, TRUE, q) \in Seq(U)
    <3> DEFINE c == [code |-> s, up |-> TRUE]
               u == Cons(c, q)
    <3>1. u \in Seq(T \cup {c})
      BY ConsParts
    <3>2. Fake(s, TRUE, q) = Cons(E0, u)
      BY DEF Fake
    <3> HIDE DEF c, u
    <3>3. Cons(E0, u) \in Seq((T \cup {c}) \cup {E0}) /\ Head(Cons(E0, u)) = E0
      BY <3>1, ConsParts
    <3> QED
      BY <3>2, <3>3
  <2>4. a \in Seq(S)
    BY CodesAreSeq
  <2> HIDE DEF S, a
  <2>5. Head(r) = E0 /\ \E U : r \in Seq(U)
    BY <2>3, <2>4
  <2> HIDE DEF r
  <2>6. Head(Fake("lshift", TRUE, a)) = E0 /\ Head(Fake("lshift", TRUE, r)) = E0
    BY <2>3, <2>4, <2>5
  <2> QED
    BY <1>3, <2>1, <2>2, <2>5, <2>6 DEF a
<1> QED
  BY <1>1, <1>2, <1>3

\* When a key comes up and nothing is misread, no fake code follows its own.
LEMMA FaithfulRelease ==
    ASSUME NEW k, NEW h, k \notin h, ~Misread(k, TRUE, h)
    PROVE  ReleaseCodes(k, h) = Scancodes(k, TRUE)
<1>1. ReleaseCodes(k, h) = Scancodes(k, TRUE) \o <<>>
  BY DEF ReleaseCodes, Misread, FakeIf, ShiftKeys
<1> QED
  BY <1>1, CodesAreSeq, ConcatEmptySeq

\* Keys other than Alt send no code of Alt; Alt sends its own alone.
LEMMA CodesSent ==
    ASSUME KeysInv, NEW k \in session.keys, NEW h
    PROVE  /\ k \notin {"lalt", "ralt"} => PressCodes(k, h) \in Seq(Quiet) /\ ReleaseCodes(k, h) \in Seq(Quiet)
           /\ k \in {"lalt", "ralt"} => /\ PressCodes(k, h) = Scancodes(k, FALSE)
                                       /\ ReleaseCodes(k, h) = Scancodes(k, TRUE)
<1>1. CASE k \in {"lalt", "ralt"}
  <2>1. k \notin CursorKeys /\ k # "prtsc"
    BY <1>1 DEF CursorKeys
  <2>2. PressCodes(k, h) = Scancodes(k, FALSE) /\ ReleaseCodes(k, h) = Scancodes(k, TRUE) \o <<>>
    BY <2>1 DEF PressCodes, ReleaseCodes, FakeIf
  <2>3. Scancodes(k, TRUE) \o <<>> = Scancodes(k, TRUE)
    BY CodesAreSeq, ConcatEmptySeq
  <2> QED
    BY <1>1, <2>2, <2>3
<1>2. CASE k \notin {"lalt", "ralt"}
  <2>1. E0 \in Quiet
    BY DEF E0, Quiet
  <2>2. ASSUME NEW up \in BOOLEAN PROVE Scancodes(k, up) \in Seq(Quiet)
    <3> DEFINE S == {E0, [code |-> Code(k), up |-> up]}
    <3>1. S \subseteq Quiet
      BY <1>2, <2>1 DEF Quiet
    <3>2. Scancodes(k, up) \in Seq(S)
      BY CodesAreSeq
    <3> HIDE DEF S
    <3> QED
      BY <3>1, <3>2, SeqMonotonic
  <2>3. ASSUME NEW yes, NEW s \in {"lshift", "rshift"}, NEW up \in BOOLEAN, NEW q \in Seq(Quiet)
        PROVE  FakeIf(yes, s, up, q) \in Seq(Quiet)
    <3> DEFINE c == [code |-> s, up |-> up]
    <3>1. c \in Quiet
      BY DEF Quiet
    <3> HIDE DEF c
    <3>2. Quiet \cup {c} = Quiet /\ Quiet \cup {E0} = Quiet
      BY <2>1, <3>1
    <3>3. Cons(c, q) \in Seq(Quiet)
      BY <3>2, ConsParts
    <3>4. Cons(E0, Cons(c, q)) \in Seq(Quiet)
      BY <3>2, <3>3, ConsParts
    <3> QED
      BY <3>4 DEF FakeIf, Fake, c
  <2>4. PressCodes(k, h) \in Seq(Quiet)
    <3> DEFINE hides == k \in CursorKeys \ h
               after == FakeIf(hides /\ "rshift" \in h, "rshift", TRUE, Scancodes(k, FALSE))
    <3>1. after \in Seq(Quiet)
      BY <2>2, <2>3
    <3> HIDE DEF after
    <3>2. /\ FakeIf(Alone(h) /\ k \notin h, "lshift", FALSE, Scancodes(k, FALSE)) \in Seq(Quiet)
          /\ FakeIf(hides /\ "lshift" \in h, "lshift", TRUE, after) \in Seq(Quiet)
      BY <2>2, <2>3, <3>1
    <3> QED
      BY <3>2 DEF PressCodes, after
  <2>5. ReleaseCodes(k, h) \in Seq(Quiet)
    <3>1. <<>> \in Seq(Quiet)
      BY EmptySeq
    <3>2. FakeIf(k \in CursorKeys /\ "rshift" \in h, "rshift", FALSE, <<>>) \in Seq(Quiet)
      BY <2>3, <3>1
    <3>3. /\ FakeIf(Alone(h), "lshift", TRUE, <<>>) \in Seq(Quiet)
          /\ FakeIf(k \in CursorKeys /\ "lshift" \in h, "lshift", FALSE,
                    FakeIf(k \in CursorKeys /\ "rshift" \in h, "rshift", FALSE, <<>>)) \in Seq(Quiet)
      BY <2>3, <3>1, <3>2
    <3> QED
      BY <2>2, <3>3, ConcatProperties DEF ReleaseCodes
  <2> QED
    BY <1>2, <2>4, <2>5
<1> QED
  BY <1>1, <1>2

\* When every code has been handled, what counts as down is known.
LEMMA NothingOnTheWire ==
    ASSUME KeysInv, wire = <<>>
    PROVE  TracksAlt(held) /\ (~stray => Tracks(held) /\ ~mods.e0)
<1>1. \A q, up : Scancodes(q, up) # <<>> /\ <<[code |-> Code(q), up |-> up]>> # <<>>
  BY CodesOfKey, ZenonT(30)
<1>2. \A q : \A w \in Hiding(q) : w # <<>>
  BY HidingSteps, ZenonT(30)
<1>3. CASE ~stray
  <2>1. ~\E q \in session.keys, up \in BOOLEAN : Pending(q, up)
    BY <1>1, <1>2 DEF Pending
  <2> QED
    BY <1>3, <2>1 DEF KeysInv, Tracks, TracksAlt
<1>4. CASE stray
  BY <1>1, <1>4 DEF KeysInv, AltInv, AltPending
<1> QED
  BY <1>3, <1>4 DEF KeysInv

\* A key goes down or up.
LEMMA KeyMoves ==
    ASSUME KeysInv, NEW k \in session.keys, Press(k) \/ Release(k)
    PROVE  KeysInv'
<1>1. wire = <<>> /\ UNCHANGED <<session, mods, stops>>
  BY DEF Press, Release
<1>2. TracksAlt(held) /\ (~stray => Tracks(held) /\ ~mods.e0)
  BY <1>1, NothingOnTheWire
<1>3. PICK up \in BOOLEAN :
          /\ held' = IF up THEN held \ {k} ELSE held \cup {k}
          /\ IF up THEN wire' = ReleaseCodes(k, held') ELSE wire' = PressCodes(k, held)
          /\ stray' = (stray \/ Misread(k, up, IF up THEN held' ELSE held))
  <2>1. CASE Press(k)
    BY <2>1 DEF Press
  <2>2. CASE Release(k)
    BY <2>2 DEF Release
  <2> QED
    BY <2>1, <2>2
<1>4. held \subseteq held' \cup {k} /\ (IF up THEN k \notin held' ELSE k \in held')
  BY <1>3
<1>5. held' \subseteq session.keys /\ stray' \in BOOLEAN
  BY <1>3 DEF KeysInv
<1>6. CASE ~stray'
  <2>1. \/ wire' = Scancodes(k, up)
        \/ k \in CursorKeys /\ ~up /\ wire' \in Hiding(k) /\ Head(wire') = E0
    <3>1. CASE up
      BY <1>3, <1>4, <1>6, <3>1, FaithfulRelease
    <3>2. CASE ~up
      BY <1>3, <1>6, <3>2, FaithfulPress
    <3> QED
      BY <3>1, <3>2
  <2>2. Tracks(held \cup {k})'
    BY <1>1, <1>2, <1>3, <1>4, <1>6 DEF Tracks
  <2>3. ~mods'.e0
    BY <1>1, <1>2, <1>3, <1>6
  <2>4. Pending(k, up)'
    BY <1>4, <2>1, <2>2, <2>3 DEF Pending
  <2> QED
    BY <1>1, <1>5, <1>6, <2>4 DEF KeysInv
<1>7. CASE stray'
  <2>1. Quiet' = Quiet
    BY <1>1 DEF Quiet
  <2>2. CASE k \in {"lalt", "ralt"}
    <3>1. wire' = Scancodes(k, up)
      BY <1>3, <2>2, CodesSent
    <3>2. TracksAlt(held \cup {k})'
      BY <1>1, <1>2, <1>4 DEF TracksAlt
    <3>3. AltPending(k, up)'
      BY <1>4, <3>1, <3>2 DEF AltPending
    <3>4. AltInv'
      BY <1>1, <2>2, <3>3 DEF AltInv
    <3> QED
      BY <1>1, <1>5, <1>7, <3>4 DEF KeysInv
  <2>3. CASE k \notin {"lalt", "ralt"}
    <3>1. wire' \in Seq(Quiet)
      BY <1>3, <2>3, CodesSent
    <3>2. TracksAlt(held)'
      BY <1>1, <1>2, <1>3, <2>3 DEF TracksAlt
    <3>3. AltInv'
      BY <2>1, <3>1, <3>2 DEF AltInv
    <3> QED
      BY <1>1, <1>5, <1>7, <3>3 DEF KeysInv
  <2> QED
    BY <2>2, <2>3
<1> QED
  BY <1>5, <1>6, <1>7

\* Every step keeps the keyboard's part: one case per kind of step.
LEMMA KeysNext ==
    ASSUME InputAssumption, KeysInv, [Next]_vars
    PROVE  KeysInv'
<1>1. CASE HandleScancode
  BY <1>1, ScancodeKeys
<1>2. CASE \/ \E k \in session.keys : Press(k)
           \/ \E k \in held : Release(k)
  BY <1>2, KeyMoves DEF KeysInv
<1>3. ASSUME UNCHANGED <<session, held, mods, stray, stops, wire>> PROVE KeysInv'
  BY <1>3, KeysKept
<1>4. CASE \/ InitSucceeds \/ InitFails \/ InitReady \/ MouseByteLost
           \/ \E sent \in BOOLEAN : InitBails(sent)
           \/ \E b \in MouseBytes : MouseByte(b)
  BY <1>3, <1>4 DEF InitSucceeds, InitFails, InitReady, MouseByteLost, InitBails, MouseByte, kbdVars
<1>5. CASE \/ \E t \in Ttys : PopChar(t)
           \/ WmPopBegin
           \/ \E reloaded \in BOOLEAN : WmPopEnd(reloaded)
           \/ \E i \in 1 .. MethodMax : Select(i)
           \/ \E new \in Offered : Register(new)
  BY <1>3, <1>5 DEF PopChar, WmPopBegin, WmPopEnd, Select, Register
<1>6. CASE UNCHANGED vars
  BY <1>3, <1>6 DEF vars, kbdVars
<1> QED
  BY <1>1, <1>2, <1>4, <1>5, <1>6 DEF Next

-----------------------------------------------------------------------------
(* The mouse.                                                                 *)

Controller == [kbd : BOOLEAN, aux : BOOLEAN, irq : BOOLEAN, stream : BOOLEAN, refused : BOOLEAN]

\* What the steps of clks_mouse_init that may not fail have achieved by step s.
StepDone(s) ==
    /\ s \in {"read_cfg", "write_cfg", "defaults", "tune", "stream", "kbd_on", "ready"} => ctl.aux
    /\ s \in {"defaults", "tune", "stream", "kbd_on", "ready"} => ctl.irq
    /\ s \in {"kbd_on", "ready"} => ctl.stream
    /\ s \in {"ready", "run"} => ctl.kbd \/ ctl.refused

StepName == {"kbd_off", "aux_off", "drain", "aux_on", "read_cfg", "write_cfg",
             "defaults", "tune", "stream", "kbd_on", "ready", "bail", "run"}

MouseInv ==
    /\ pc \in StepName /\ ctl \in Controller /\ StepDone(pc)
    /\ lost \in BOOLEAN /\ phase \in 0 .. 2
    /\ mouse = [ready |-> mouse.ready, packet |-> mouse.packet, x |-> mouse.x,
                buttons |-> mouse.buttons]
    /\ mouse.ready \in BOOLEAN /\ mouse.x \in 0 .. Width - 1
    /\ mouse.packet \in Seq(MouseBytes) /\ Len(mouse.packet) < 3
    /\ IF mouse.ready THEN pc = "run" /\ ctl.aux /\ ctl.irq /\ ctl.stream
       ELSE mouse.packet = <<>>
    /\ (mouse.ready /\ ~lost) => Len(mouse.packet) = phase

\* The order of the steps.
LEMMA StepOrder ==
    /\ After("kbd_off") = "aux_off" /\ After("aux_off") = "drain" /\ After("drain") = "aux_on"
    /\ After("aux_on") = "read_cfg" /\ After("read_cfg") = "write_cfg"
    /\ After("write_cfg") = "defaults" /\ After("defaults") = "tune" /\ After("tune") = "stream"
    /\ After("stream") = "kbd_on" /\ After("kbd_on") = "ready"
<1>1. /\ DOMAIN Steps = 1 .. 11
      /\ Steps[1] = "kbd_off" /\ Steps[2] = "aux_off" /\ Steps[3] = "drain" /\ Steps[4] = "aux_on"
      /\ Steps[5] = "read_cfg" /\ Steps[6] = "write_cfg" /\ Steps[7] = "defaults"
      /\ Steps[8] = "tune" /\ Steps[9] = "stream" /\ Steps[10] = "kbd_on" /\ Steps[11] = "ready"
  BY DEF Steps
<1>2. \A i \in 1 .. 11 : i \in {1, 2, 3, 4, 5, 6, 7, 8, 9, 10, 11}
  OBVIOUS
<1>3. ASSUME NEW n \in 1 .. 10 PROVE After(Steps[n]) = Steps[n + 1]
  <2>1. n \in DOMAIN Steps
    BY <1>1
  <2>2. \A i \in DOMAIN Steps : Steps[i] = Steps[n] => i = n
    BY <1>1, <1>2
  <2>3. (CHOOSE i \in DOMAIN Steps : Steps[i] = Steps[n]) = n
    BY <2>1, <2>2
  <2> QED
    BY <2>3 DEF After
<1> QED
  BY <1>1, <1>3

\* The commands of the mouse's set-up, by their place in Steps.
LEMMA StepNames ==
    ToSet(Steps) \ {"ready"} = StepName \ {"ready", "bail", "run"}
<1>1. ToSet(Steps) = {"kbd_off", "aux_off", "drain", "aux_on", "read_cfg", "write_cfg",
                      "defaults", "tune", "stream", "kbd_on", "ready"}
  <2>1. /\ DOMAIN Steps = 1 .. 11
        /\ Steps[1] = "kbd_off" /\ Steps[2] = "aux_off" /\ Steps[3] = "drain" /\ Steps[4] = "aux_on"
        /\ Steps[5] = "read_cfg" /\ Steps[6] = "write_cfg" /\ Steps[7] = "defaults"
        /\ Steps[8] = "tune" /\ Steps[9] = "stream" /\ Steps[10] = "kbd_on" /\ Steps[11] = "ready"
    BY DEF Steps
  <2>2. \A i : i \in 1 .. 11 <=> i \in {1, 2, 3, 4, 5, 6, 7, 8, 9, 10, 11}
    OBVIOUS
  <2> QED
    BY <2>1, <2>2 DEF ToSet
<1> QED
  BY <1>1 DEF StepName

\* The mouse before its set-up.
LEMMA MouseStart == ASSUME InputAssumption, Init PROVE MouseInv
<1>1. (Width - 1) \div 2 \in 0 .. Width - 1
  BY DEF InputAssumption
<1>2. Steps[1] = "kbd_off"
  BY DEF Steps
<1> QED
  BY <1>1, <1>2 DEF Init, MouseInv, StepName, Controller, StepDone

\* A command is sent, or fails.
LEMMA MouseCommand ==
    ASSUME MouseInv, InitSucceeds \/ InitFails
    PROVE  MouseInv'
<1>1. /\ pc \in StepName \ {"ready", "bail", "run"}
      /\ UNCHANGED <<mouse, lost, phase>> /\ ~mouse.ready
  BY StepNames DEF InitSucceeds, InitFails, MouseInv
<1>2. pc' \in StepName /\ ctl' \in Controller /\ StepDone(pc)'
  <2>1. CASE InitSucceeds
    <3>1. ctl' = Sent(ctl, pc) /\ pc' = After(pc)
      BY <2>1 DEF InitSucceeds
    <3>2. ctl' \in Controller
      BY <3>1 DEF MouseInv, Sent, Controller
    <3>3. pc' \in StepName
      BY <1>1, <3>1, StepOrder DEF StepName
    <3>4. StepDone(pc)'
      BY <1>1, <3>1, StepOrder DEF MouseInv, StepDone, StepName, Sent, Controller
    <3> QED
      BY <3>2, <3>3, <3>4
  <2>2. CASE InitFails
    <3>1. /\ pc' = Fails(pc) /\ pc # "drain"
          /\ \/ ctl' = [ctl EXCEPT !.refused = @ \/ pc = "kbd_on"]
             \/ pc \in {"defaults", "tune", "stream"} /\ ctl' = Sent(ctl, pc)
      BY <2>2 DEF InitFails, Acknowledged
    <3>2. ctl' \in Controller
      <4>1. (ctl.refused \/ pc = "kbd_on") \in BOOLEAN
        OBVIOUS
      <4> QED
        BY <3>1, <4>1 DEF MouseInv, Sent, Controller
    <3>3. pc' = IF pc = "kbd_off" THEN "aux_off" ELSE IF pc = "aux_off" THEN "drain"
                ELSE IF pc = "tune" THEN "stream" ELSE IF pc = "kbd_on" THEN "ready" ELSE "bail"
      BY <1>1, <3>1, StepOrder DEF StepName, Fails, Unchecked
    <3>4. StepDone(pc)'
      BY <1>1, <3>1, <3>3 DEF MouseInv, StepDone, Sent, Controller
    <3> QED
      BY <3>2, <3>3, <3>4 DEF StepName
  <2> QED
    BY <2>1, <2>2
<1> QED
  BY <1>1, <1>2 DEF MouseInv

\* The steps of clks_mouse_init, whichever command fails.
LEMMA MouseSetUp ==
    ASSUME MouseInv, InitReady \/ \E sent \in BOOLEAN : InitBails(sent)
    PROVE  MouseInv'
<1>1. CASE InitReady
  <2>1. /\ pc = "ready" /\ ctl' = ctl /\ pc' = "run" /\ mouse' = [mouse EXCEPT !.ready = TRUE]
        /\ phase' \in 0 .. 2 /\ lost' = (phase' # 0)
    BY <1>1 DEF InitReady
  <2>2. /\ ~mouse.ready /\ mouse.packet = <<>> /\ ctl.aux /\ ctl.irq /\ ctl.stream
        /\ ctl.kbd \/ ctl.refused
    BY <2>1 DEF MouseInv, StepDone
  <2>3. /\ mouse'.ready /\ mouse'.packet = <<>> /\ mouse'.x = mouse.x
        /\ mouse' = [ready |-> mouse'.ready, packet |-> mouse'.packet, x |-> mouse'.x,
                     buttons |-> mouse'.buttons]
    BY <2>1, <2>2 DEF MouseInv
  <2>4. Len(mouse'.packet) = 0 /\ mouse'.packet \in Seq(MouseBytes)
    BY <2>3
  <2> QED
    BY <2>1, <2>2, <2>3, <2>4 DEF MouseInv, StepName, StepDone
<1>2. ASSUME NEW sent \in BOOLEAN, InitBails(sent) PROVE MouseInv'
  <2>1. /\ pc = "bail" /\ pc' = "run" /\ UNCHANGED <<mouse, lost, phase>>
        /\ ctl' = IF sent THEN Sent(ctl, "bail") ELSE [ctl EXCEPT !.refused = TRUE]
    BY <1>2 DEF InitBails
  <2>2. ~mouse.ready
    BY <2>1 DEF MouseInv
  <2>3. ctl' \in Controller /\ (ctl'.kbd \/ ctl'.refused)
    BY <2>1 DEF MouseInv, Sent, Controller
  <2> QED
    BY <2>1, <2>2, <2>3 DEF MouseInv, StepName, StepDone
<1> QED
  BY <1>1, <1>2

\* The pointer stays on the screen and a packet grows or is complete.
LEMMA ByteHandled ==
    ASSUME InputAssumption, MouseInv, mouse.ready, NEW b \in MouseBytes
    PROVE  LET m == HandleByte(mouse, b) IN
           /\ m = [ready |-> TRUE, packet |-> m.packet, x |-> m.x, buttons |-> m.buttons]
           /\ m.x \in 0 .. Width - 1
           /\ m.packet \in Seq(MouseBytes) /\ Len(m.packet) < 3
           /\ (mouse.packet # <<>> \/ b.sync) => Len(m.packet) = (Len(mouse.packet) + 1) % 3
<1> DEFINE p == Append(mouse.packet, b)
           m == HandleByte(mouse, b)
<1> DEFINE l == Len(mouse.packet)
<1>1. /\ mouse = [ready |-> TRUE, packet |-> mouse.packet, x |-> mouse.x,
                  buttons |-> mouse.buttons]
      /\ mouse.packet \in Seq(MouseBytes) /\ l \in 0 .. 2
      /\ mouse.x \in 0 .. Width - 1
  <2>1. mouse.ready = TRUE
    BY DEF MouseInv
  <2>2. mouse.packet \in Seq(MouseBytes) /\ Len(mouse.packet) < 3
    BY DEF MouseInv
  <2>3. l \in 0 .. 2
    <3>1. l \in Nat /\ l < 3
      BY <2>2, LenProperties
    <3> HIDE DEF l
    <3> QED
      BY <3>1
  <2> QED
    BY <2>1, <2>2, <2>3 DEF MouseInv
<1>2. p \in Seq(MouseBytes) /\ Len(p) = l + 1
  BY <1>1, AppendProperties
<1> HIDE DEF l
<1>6. l < 3 /\ l + 1 \in 1 .. 3
  BY <1>1
<1>3. CASE mouse.packet = <<>> /\ ~b.sync
  <2>1. m = mouse
    BY <1>1, <1>3 DEF HandleByte
  <2> QED
    BY <1>1, <1>3, <1>6, <2>1 DEF l
<1>4. CASE (mouse.packet # <<>> \/ b.sync) /\ Len(p) < 3
  <2>1. m = [mouse EXCEPT !.packet = p]
    BY <1>1, <1>4 DEF HandleByte
  <2>2. (l + 1) % 3 = Len(p)
    BY <1>2, <1>4, <1>6
  <2> HIDE DEF p
  <2>3. m = [ready |-> TRUE, packet |-> p, x |-> mouse.x, buttons |-> mouse.buttons]
    BY <1>1, <2>1
  <2> HIDE DEF m
  <2> QED
    BY <1>1, <1>2, <1>4, <2>2, <2>3 DEF m, l
<1>5. CASE (mouse.packet # <<>> \/ b.sync) /\ ~(Len(p) < 3)
  <2> DEFINE x == IF p[1].overflow THEN mouse.x ELSE Clamp(mouse.x + p[2].d)
             bt == p[1].buttons
  <2>1. Len(p) = 3 /\ (l + 1) % 3 = 0
    BY <1>2, <1>5, <1>6
  <2>2. m = [mouse EXCEPT !.packet = <<>>, !.buttons = bt, !.x = x]
    BY <1>1, <1>5 DEF HandleByte
  <2>3. x \in 0 .. Width - 1
    <3>1. p[2] \in MouseBytes
      BY <1>2, <2>1
    <3> HIDE DEF p
    <3> DEFINE to == mouse.x + p[2].d
    <3>2. to \in Int /\ Width \in Nat \ {0}
      <4>1. p[2].d \in Int /\ Width \in Nat \ {0}
        BY <3>1 DEF InputAssumption
      <4>2. mouse.x \in Int
        BY <1>1, <4>1
      <4> QED
        BY <4>1, <4>2
    <3> HIDE DEF to
    <3>4. Clamp(to) \in 0 .. Width - 1
      BY <3>2 DEF Clamp
    <3>3. Clamp(mouse.x + p[2].d) \in 0 .. Width - 1
      BY <3>4 DEF to
    <3> QED
      BY <1>1, <3>3
  <2> HIDE DEF x, bt, p
  <2>4. m = [ready |-> TRUE, packet |-> <<>>, x |-> x, buttons |-> bt]
    BY <1>1, <2>2
  <2>5. <<>> \in Seq(MouseBytes) /\ Len(<<>>) = 0
    OBVIOUS
  <2> HIDE DEF m
  <2>6. /\ m = [ready |-> TRUE, packet |-> m.packet, x |-> m.x, buttons |-> m.buttons]
        /\ m.x \in 0 .. Width - 1
        /\ m.packet \in Seq(MouseBytes) /\ Len(m.packet) < 3 /\ Len(m.packet) = (l + 1) % 3
    BY <2>1, <2>3, <2>4, <2>5
  <2> QED
    BY <2>6 DEF m, l
<1> QED
  BY <1>3, <1>4, <1>5

\* The bytes of the packets, lost ones included.
LEMMA MouseMoves ==
    ASSUME InputAssumption, MouseInv, MouseByteLost \/ \E b \in MouseBytes : MouseByte(b)
    PROVE  MouseInv'
<1>1. CASE MouseByteLost
  <2>1. lost' = TRUE /\ phase' = (phase + 1) % 3 /\ UNCHANGED <<pc, ctl, mouse>>
    BY <1>1 DEF MouseByteLost
  <2>2. phase' \in 0 .. 2
    BY <2>1 DEF MouseInv
  <2> QED
    BY <2>1, <2>2 DEF MouseInv, StepDone
<1>2. ASSUME NEW b \in MouseBytes, MouseByte(b) PROVE MouseInv'
  <2>1. /\ phase' = (phase + 1) % 3 /\ UNCHANGED <<pc, ctl, lost>>
        /\ mouse' = HandleByte(mouse, b) /\ (phase = 0 => b.sync)
    BY <1>2 DEF MouseByte
  <2>2. phase' \in 0 .. 2
    BY <2>1 DEF MouseInv
  <2>3. CASE ~mouse.ready
    <3>1. mouse' = mouse
      BY <2>1, <2>3 DEF HandleByte
    <3> QED
      BY <2>1, <2>2, <2>3, <3>1 DEF MouseInv, StepDone
  <2>4. CASE mouse.ready
    <3>1. /\ mouse' = [ready |-> TRUE, packet |-> mouse'.packet, x |-> mouse'.x,
                       buttons |-> mouse'.buttons]
          /\ mouse'.x \in 0 .. Width - 1
          /\ mouse'.packet \in Seq(MouseBytes) /\ Len(mouse'.packet) < 3
          /\ (mouse.packet # <<>> \/ b.sync) => Len(mouse'.packet) = (Len(mouse.packet) + 1) % 3
      BY <2>1, <2>4, ByteHandled
    <3>2. ~lost => Len(mouse'.packet) = phase'
      <4>1. ASSUME ~lost PROVE Len(mouse'.packet) = phase'
        <5>1. Len(mouse.packet) = phase /\ mouse.packet \in Seq(MouseBytes)
          BY <2>4, <4>1 DEF MouseInv
        <5>2. mouse.packet # <<>> \/ b.sync
          BY <2>1, <5>1, EmptySeq
        <5> QED
          BY <2>1, <3>1, <5>1, <5>2
      <4> QED
        BY <4>1
    <3>3. mouse'.ready
      BY <3>1
    <3>4. pc = "run" /\ ctl.aux /\ ctl.irq /\ ctl.stream
      BY <2>4 DEF MouseInv
    <3> QED
      BY <2>1, <2>2, <3>1, <3>2, <3>3, <3>4 DEF MouseInv, StepDone
  <2> QED
    BY <2>3, <2>4
<1> QED
  BY <1>1, <1>2

\* Every step keeps the mouse's part.
LEMMA MouseNext ==
    ASSUME InputAssumption, MouseInv, [Next]_vars
    PROVE  MouseInv'
<1>1. CASE InitSucceeds \/ InitFails
  BY <1>1, MouseCommand
<1>2. CASE InitReady \/ \E sent \in BOOLEAN : InitBails(sent)
  BY <1>2, MouseSetUp
<1>3. CASE MouseByteLost \/ \E b \in MouseBytes : MouseByte(b)
  BY <1>3, MouseMoves
<1>4. ASSUME UNCHANGED mouseVars PROVE MouseInv'
  BY <1>4 DEF MouseInv, StepDone, mouseVars
<1>5. HandleScancode => UNCHANGED mouseVars
  BY DEF HandleScancode, Prefix, CtrlKey, AltKey, ShiftKey, Released, ExtendedKey, SwitchTty,
         CycleMethod, ForceStop, CtrlShortcut, EscapeKey, Typed, Taken
<1>6. CASE \/ \E k \in session.keys : Press(k)
           \/ \E k \in held : Release(k)
           \/ \E t \in Ttys : PopChar(t)
           \/ WmPopBegin
           \/ \E reloaded \in BOOLEAN : WmPopEnd(reloaded)
           \/ \E i \in 1 .. MethodMax : Select(i)
           \/ \E new \in Offered : Register(new)
  BY <1>4, <1>6 DEF Press, Release, PopChar, WmPopBegin, WmPopEnd, Select, Register
<1>7. CASE UNCHANGED vars
  BY <1>4, <1>7 DEF vars
<1> QED
  BY <1>1, <1>2, <1>3, <1>4, <1>5, <1>6, <1>7 DEF Next

-----------------------------------------------------------------------------
(* The queues.                                                                *)

\* The queue r holds exactly the characters of u.
Exact(r, u) ==
    /\ r.head = (r.tail + Len(u)) % Cap
    /\ \A k \in 0 .. Len(u) - 1 : r.buf[(r.tail + k) % Cap] = u[k + 1]

\* A queue never counts more than is unread, and while it counts all of it, it holds it.
QueueOK(r, u) ==
    /\ r = [buf |-> r.buf, head |-> r.head, tail |-> r.tail, count |-> r.count]
    /\ r.buf = [i \in 0 .. Cap - 1 |-> r.buf[i]]
    /\ r.head \in 0 .. Cap - 1 /\ r.tail \in 0 .. Cap - 1 /\ r.count \in 0 .. Cap
    /\ IsSeq(u) /\ Len(u) \in Nat /\ r.count <= Len(u)
    /\ r.count = Len(u) => Exact(r, u)

\* The window manager's reader has read a count that cannot have shrunk since, and
\* nothing was counted wrong unless a key came while it ran.
QueuesInv ==
    /\ ring = [t \in Ttys |-> ring[t]] /\ unread = [t \in Ttys |-> unread[t]]
    /\ \A t \in Ttys : QueueOK(ring[t], unread[t])
    /\ active \in Ttys /\ raced \in BOOLEAN
    /\ wm = -1 \/ wm \in 1 .. ring[WmTty].count
    /\ \A t \in Ttys : (~raced \/ t # WmTty) => ring[t].count = Len(unread[t])
    /\ (wm >= 0 /\ ~raced) => wm = ring[WmTty].count

\* How far position k is behind position c, in a ring of n counted from r.
LEMMA Behind ==
    ASSUME NEW n \in Nat \ {0}, NEW r \in 0..(n - 1), NEW c \in 0..n, NEW k \in 0..(n - 1)
    PROVE  (((r + k) % n) + n - ((r + c) % n)) % n = IF c <= k THEN k - c ELSE k - c + n
<1> DEFINE p == (r + k) % n
           h == (r + c) % n
<1>1. /\ p = IF r + k < n THEN r + k ELSE r + k - n
      /\ h = IF r + c < n THEN r + c ELSE r + c - n
  <2>1. k \in 0..n
    OBVIOUS
  <2> QED
    BY <2>1, PositionAfter
<1> HIDE DEF p, h
<1>2. p \in 0..(n - 1) /\ h \in 0..(n - 1)
  BY <1>1
<1>3. CASE p >= h
  <2>1. p - h \in 0..(n - 1) /\ n \in 0..n /\ p + n - h = (p - h) + n /\ ~((p - h) + n < n)
    BY <1>2, <1>3
  <2> DEFINE d == p - h
  <2>2. (d + n) % n = d + n - n
    <3>1. d \in 0..(n - 1) /\ n \in 0..n /\ ~(d + n < n)
      BY <2>1
    <3> HIDE DEF d
    <3> QED
      BY <3>1, PositionAfter
  <2>3. (p + n - h) % n = p - h
    BY <1>2, <2>1, <2>2
  <2>4. p - h = IF c <= k THEN k - c ELSE k - c + n
    BY <1>1, <1>2, <1>3
  <2> QED
    BY <2>3, <2>4 DEF p, h
<1>4. CASE p < h
  <2> DEFINE d == p + n - h
  <2>1. d \in 0..(n - 1)
    BY <1>2, <1>4
  <2>2. d % n = d
    <3> HIDE DEF d
    <3> QED
      BY <2>1, PositionAfter
  <2>3. d = IF c <= k THEN k - c ELSE k - c + n
    BY <1>1, <1>2, <1>4
  <2> QED
    BY <2>2, <2>3 DEF p, h
<1> QED
  BY <1>2, <1>3, <1>4

\* The characters that fit: there is room for them and they are the first of the text.
LEMMA Fits ==
    ASSUME InputAssumption, NEW r, NEW text, r.count \in 0 .. Cap
    PROVE  Fitting(r, text) \in 0 .. Cap - r.count
<1> DEFINE room == Cap - r.count
           S == {n \in 0 .. room : n = room \/ n + 1 \notin DOMAIN text}
<1>1. room \in Nat
  BY DEF InputAssumption
<1> HIDE DEF room
<1>2. room \in S /\ S \in SUBSET Nat
  BY <1>1
<1> HIDE DEF S
<1>3. PICK n \in S : \A m \in S : n <= m
  BY <1>2, LeastNatural
<1>4. n \in 0 .. room /\ (n = room \/ n + 1 \notin DOMAIN text)
  BY <1>3 DEF S
<1>5. ASSUME NEW i \in 1 .. n PROVE i \in DOMAIN text
  <2>1. i - 1 \in 0 .. room /\ ~(n <= i - 1) /\ i - 1 # room /\ (i - 1) + 1 = i
    BY <1>1, <1>4
  <2>2. i - 1 \notin S
    BY <1>3, <2>1
  <2> QED
    BY <2>1, <2>2 DEF S
<1>6. (n = room \/ n + 1 \notin DOMAIN text) /\ \A i \in 1 .. n : i \in DOMAIN text
  BY <1>4, <1>5
<1>7. (CHOOSE m \in 0 .. room : (m = room \/ m + 1 \notin DOMAIN text)
                                /\ \A i \in 1 .. m : i \in DOMAIN text) \in 0 .. room
  BY <1>4, <1>6
<1> QED
  BY <1>7 DEF Fitting, room

\* Joining two sequences of whatever they hold.
LEMMA Joined ==
    ASSUME NEW u, NEW v, IsSeq(u), IsSeq(v)
    PROVE  /\ IsSeq(u \o v) /\ Len(u \o v) = Len(u) + Len(v) /\ Len(u) \in Nat /\ Len(v) \in Nat
           /\ \A i \in 1 .. Len(u) : (u \o v)[i] = u[i]
           /\ \A i \in 1 .. Len(v) : (u \o v)[Len(u) + i] = v[i]
           /\ v = <<>> <=> Len(v) = 0
<1>1. PICK S : u \in Seq(S)
  BY DEF IsSeq
<1>2. PICK T : v \in Seq(T)
  BY DEF IsSeq
<1> DEFINE W == S \cup T
<1>3. u \in Seq(W) /\ v \in Seq(W)
  BY <1>1, <1>2, SeqMonotonic
<1> HIDE DEF W
<1>4. /\ u \o v \in Seq(W) /\ Len(u \o v) = Len(u) + Len(v) /\ Len(u) \in Nat /\ Len(v) \in Nat
      /\ \A i \in 1 .. Len(u) + Len(v) :
            (u \o v)[i] = IF i <= Len(u) THEN u[i] ELSE v[i - Len(u)]
  BY <1>3, ConcatProperties, LenProperties
<1>5. v = <<>> <=> Len(v) = 0
  BY <1>3, EmptySeq
<1> DEFINE l == Len(u)
           m == Len(v)
           c == u \o v
<1>6. l \in Nat /\ m \in Nat /\ \A i \in 1 .. l + m : c[i] = IF i <= l THEN u[i] ELSE v[i - l]
  BY <1>4
<1> HIDE DEF l, m, c
<1>7. /\ \A i \in 1 .. l : c[i] = u[i]
      /\ \A i \in 1 .. m : c[l + i] = v[i]
  BY <1>6
<1> QED
  BY <1>4, <1>5, <1>7 DEF IsSeq, l, m, c

\* clks_keyboard_inject_text_for_tty: the characters taken are the ones added.
LEMMA Pushed ==
    ASSUME InputAssumption, NEW r, NEW u, NEW text, QueueOK(r, u)
    PROVE  LET q == PushText(r, text) IN
           /\ IsSeq(q.taken) /\ Len(q.taken) \in Nat /\ (q.taken = <<>> <=> Len(q.taken) = 0)
           /\ q.r.count = r.count + Len(q.taken)
           /\ QueueOK(q.r, u \o q.taken) /\ Len(u \o q.taken) = Len(u) + Len(q.taken)
<1> DEFINE n == Fitting(r, text)
           at(i) == (i + Cap - r.head) % Cap
           tk == [i \in 1 .. n |-> text[i]]
           b == [i \in 0 .. Cap - 1 |-> IF at(i) < n THEN text[at(i) + 1] ELSE r.buf[i]]
           h == (r.head + n) % Cap
           c == r.count + n
           s == [r EXCEPT !.buf = b, !.head = h, !.count = c]
<1>1. /\ r = [buf |-> r.buf, head |-> r.head, tail |-> r.tail, count |-> r.count]
      /\ r.head \in 0 .. Cap - 1 /\ r.tail \in 0 .. Cap - 1 /\ r.count \in 0 .. Cap
      /\ IsSeq(u) /\ Len(u) \in Nat /\ r.count <= Len(u) /\ Cap \in Nat \ {0}
  BY DEF QueueOK, InputAssumption
<1>2. n \in 0 .. Cap - r.count
  BY <1>1, Fits
<1>3. PushText(r, text) = [r |-> s, taken |-> tk]
  BY DEF PushText
<1> HIDE DEF n
<1>4. n \in Nat /\ n <= Cap /\ c \in 0 .. Cap /\ h \in 0 .. Cap - 1
  <2>1. n \in Nat /\ n <= Cap /\ c \in 0 .. Cap
    BY <1>1, <1>2
  <2>2. r.head + n \in Nat
    BY <1>1, <2>1
  <2> QED
    BY <1>1, <2>1, <2>2, ModInRange
<1>5. IsSeq(tk) /\ Len(tk) = n /\ (tk = <<>> <=> n = 0) /\ \A i \in 1 .. n : tk[i] = text[i]
  <2>1. tk \in Seq({text[i] : i \in 1 .. n})
    BY <1>4
  <2>2. Len(tk) = n
    BY <1>4, <2>1
  <2>3. tk = <<>> <=> n = 0
    BY <2>1, <2>2, EmptySeq
  <2> QED
    BY <2>1, <2>2, <2>3 DEF IsSeq
<1> HIDE DEF tk
<1>6. /\ IsSeq(u \o tk) /\ Len(u \o tk) = Len(u) + n
      /\ \A i \in 1 .. Len(u) : (u \o tk)[i] = u[i]
      /\ \A i \in 1 .. n : (u \o tk)[Len(u) + i] = text[i]
  <2>1. /\ IsSeq(u \o tk) /\ Len(u \o tk) = Len(u) + Len(tk)
        /\ \A i \in 1 .. Len(u) : (u \o tk)[i] = u[i]
        /\ \A i \in 1 .. Len(tk) : (u \o tk)[Len(u) + i] = tk[i]
    <3>1. IsSeq(u) /\ IsSeq(tk)
      BY <1>1, <1>5
    <3> QED
      BY <3>1, Joined
  <2> QED
    BY <1>5, <2>1
<1> DEFINE w == u \o tk
<1> HIDE DEF w
<1> HIDE DEF b, h, c
<1>16. s = [r EXCEPT !.buf = b, !.head = h, !.count = c]
  OBVIOUS
<1> HIDE DEF s
<1>7. s = [buf |-> b, head |-> h, tail |-> r.tail, count |-> c]
  BY <1>1, <1>16
<1>8. /\ s.buf = b /\ s.head = h /\ s.tail = r.tail /\ s.count = c
      /\ s = [buf |-> s.buf, head |-> s.head, tail |-> s.tail, count |-> s.count]
  BY <1>7
<1>9. b = [i \in 0 .. Cap - 1 |-> b[i]]
  BY DEF b
<1>10. IsSeq(w) /\ Len(w) = Len(u) + n
  BY <1>6 DEF w
<1>11. c <= Len(w)
  BY <1>1, <1>4, <1>10 DEF c
<1>12. ASSUME c = Len(w) PROVE Exact(s, w)
  <2>1. r.count = Len(u)
    BY <1>1, <1>4, <1>10, <1>12 DEF c
  <2>2. Exact(r, u)
    BY <2>1 DEF QueueOK
  <2> DEFINE l == Len(u)
             t == r.tail
             hd == r.head
  <2>3. /\ hd = (t + l) % Cap /\ l \in 0 .. Cap /\ t \in 0 .. Cap - 1
        /\ \A k \in 0 .. l - 1 : r.buf[(t + k) % Cap] = u[k + 1]
        /\ n \in 0 .. Cap - l /\ hd \in 0 .. Cap - 1
    BY <1>1, <1>2, <2>1, <2>2 DEF Exact
  <2>4. /\ \A i \in 1 .. l : w[i] = u[i]
        /\ \A i \in 1 .. n : w[l + i] = text[i]
    BY <1>6 DEF w
  <2>5. h = (hd + n) % Cap
    BY DEF h
  <2>6. b = [i \in 0 .. Cap - 1 |-> IF (i + Cap - hd) % Cap < n THEN text[((i + Cap - hd) % Cap) + 1]
                                    ELSE r.buf[i]]
    BY DEF b
  <2>7. Cap \in Nat \ {0} /\ n \in Nat
    BY <1>1, <1>4
  <2> HIDE DEF l, t, hd
  <2>8. h = (t + (l + n)) % Cap
    <3>1. l + n \in 0 .. Cap /\ n \in 0 .. Cap
      BY <2>3, <2>7
    <3>2. hd = IF t + l < Cap THEN t + l ELSE t + l - Cap
      BY <2>3, <2>7, PositionAfter
    <3>3. h = IF hd + n < Cap THEN hd + n ELSE hd + n - Cap
      BY <2>3, <2>5, <2>7, <3>1, PositionAfter
    <3>4. (t + (l + n)) % Cap = IF t + (l + n) < Cap THEN t + (l + n) ELSE t + (l + n) - Cap
      BY <2>3, <2>7, <3>1, PositionAfter
    <3> QED
      BY <2>3, <2>7, <3>1, <3>2, <3>3, <3>4
  <2>9. ASSUME NEW k \in 0 .. (l + n) - 1 PROVE b[(t + k) % Cap] = w[k + 1]
    <3> DEFINE p == (t + k) % Cap
               d == (p + Cap - hd) % Cap
    <3>1. k \in 0 .. Cap - 1
      BY <2>3, <2>7
    <3>2. p \in 0 .. Cap - 1
      BY <2>3, <2>7, <3>1, PositionIn
    <3>3. d = IF l <= k THEN k - l ELSE k - l + Cap
      BY <2>3, <2>7, <3>1, Behind
    <3>4. b[p] = IF d < n THEN text[d + 1] ELSE r.buf[p]
      <4> HIDE DEF p
      <4> QED
        BY <2>6, <3>2
    <3> HIDE DEF d
    <3>5. CASE l <= k
      <4>1. d = k - l /\ d < n /\ d + 1 \in 1 .. n /\ l + (d + 1) = k + 1
        BY <2>3, <2>7, <3>1, <3>3, <3>5
      <4> HIDE DEF p
      <4>2. b[p] = w[k + 1]
        BY <2>4, <3>4, <4>1
      <4> QED
        BY <4>2 DEF p
    <3>6. CASE ~(l <= k)
      <4>1. ~(d < n) /\ k \in 0 .. l - 1 /\ k + 1 \in 1 .. l
        BY <2>3, <2>7, <3>1, <3>3, <3>6
      <4>2. r.buf[p] = u[k + 1]
        BY <2>3, <4>1
      <4> HIDE DEF p
      <4>3. b[p] = w[k + 1]
        BY <2>4, <3>4, <4>1, <4>2
      <4> QED
        BY <4>3 DEF p
    <3> QED
      BY <3>5, <3>6
  <2>10. Len(w) = l + n
    BY <1>10 DEF l
  <2>11. s.head = (s.tail + Len(w)) % Cap
    BY <1>8, <2>8, <2>10 DEF t
  <2>12. \A k \in 0 .. Len(w) - 1 : s.buf[(s.tail + k) % Cap] = w[k + 1]
    BY <1>8, <2>9, <2>10 DEF t
  <2> QED
    BY <2>11, <2>12 DEF Exact
<1>13. QueueOK(s, w)
  <2>1. Len(w) \in Nat
    BY <1>1, <1>4, <1>10
  <2> QED
    BY <1>1, <1>4, <1>8, <1>9, <1>10, <1>11, <1>12, <2>1 DEF QueueOK
<1>14. /\ PushText(r, text).r = s /\ PushText(r, text).taken = tk
  BY <1>3
<1>15. s.count = r.count + n
  BY <1>8 DEF c
<1> QED
  BY <1>4, <1>5, <1>10, <1>13, <1>14, <1>15 DEF w

\* clks_keyboard_pop_char_for_tty, with the count c that the reader has read.
LEMMA Pops ==
    ASSUME InputAssumption, NEW r, NEW u, QueueOK(r, u), NEW c \in 1 .. r.count
    PROVE  LET q == Popped(r, c) IN
           /\ QueueOK(q, Tail(u)) /\ q.count = c - 1 /\ Len(Tail(u)) = Len(u) - 1
<1> DEFINE q == Popped(r, c)
           t == Tail(u)
<1>1. /\ r = [buf |-> r.buf, head |-> r.head, tail |-> r.tail, count |-> r.count]
      /\ r.buf = [i \in 0 .. Cap - 1 |-> r.buf[i]]
      /\ r.head \in 0 .. Cap - 1 /\ r.tail \in 0 .. Cap - 1 /\ r.count \in 0 .. Cap
      /\ IsSeq(u) /\ Len(u) \in Nat /\ r.count <= Len(u) /\ Cap \in Nat \ {0}
  BY DEF QueueOK, InputAssumption
<1>2. c \in 1 .. Cap /\ c <= Len(u) /\ c - 1 \in 0 .. Cap /\ Len(u) >= 1
  BY <1>1
<1>3. /\ IsSeq(t) /\ Len(t) = Len(u) - 1 /\ \A k \in 1 .. Len(u) - 1 : t[k] = u[k + 1]
  <2>1. PICK S : u \in Seq(S)
    BY <1>1 DEF IsSeq
  <2>2. u # <<>>
    BY <1>2, <2>1, EmptySeq
  <2> QED
    BY <2>1, <2>2, HeadTailProperties DEF IsSeq
<1> HIDE DEF t
<1> DEFINE tl == (r.tail + 1) % Cap
<1>4. tl \in 0 .. Cap - 1
  <2>1. r.tail + 1 \in Nat
    BY <1>1
  <2> QED
    BY <1>1, <2>1, ModInRange
<1> HIDE DEF tl
<1>10. q = [r EXCEPT !.tail = tl, !.count = c - 1]
  <2>1. q = [r EXCEPT !.tail = (r.tail + 1) % Cap, !.count = c - 1]
    BY DEF Popped
  <2> QED
    BY <2>1 DEF tl
<1> HIDE DEF q
<1>5. q = [buf |-> r.buf, head |-> r.head, tail |-> tl, count |-> c - 1]
  BY <1>1, <1>10
<1>6. /\ q.buf = r.buf /\ q.head = r.head /\ q.tail = tl /\ q.count = c - 1
      /\ q = [buf |-> q.buf, head |-> q.head, tail |-> q.tail, count |-> q.count]
  BY <1>5
<1>7. Len(t) \in Nat /\ c - 1 <= Len(t)
  BY <1>1, <1>2, <1>3
<1>8. ASSUME c - 1 = Len(t) PROVE Exact(q, t)
  <2>1. r.count = Len(u)
    BY <1>1, <1>2, <1>3, <1>8
  <2>2. Exact(r, u)
    BY <2>1 DEF QueueOK
  <2> DEFINE l == Len(u)
             a == r.tail
  <2>3. /\ r.head = (a + l) % Cap /\ \A k \in 0 .. l - 1 : r.buf[(a + k) % Cap] = u[k + 1]
        /\ a \in 0 .. Cap - 1 /\ l \in 1 .. Cap /\ Len(t) = l - 1
        /\ \A k \in 1 .. l - 1 : t[k] = u[k + 1]
        /\ tl = (a + 1) % Cap
    <3>1. l \in 1 .. Cap
      BY <1>1, <1>2, <2>1
    <3> QED
      BY <1>1, <1>3, <2>2, <3>1 DEF Exact, tl
  <2>4. Cap \in Nat \ {0}
    BY <1>1
  <2> HIDE DEF l, a
  <2>5. \A k \in 0 .. Cap - 1 : (tl + k) % Cap = (a + (k + 1)) % Cap
    BY <2>3, <2>4, NextIsNearer
  <2>6. l - 1 \in 0 .. Cap - 1 /\ (l - 1) + 1 = l
    BY <2>3, <2>4
  <2>7. r.head = (tl + (l - 1)) % Cap
    BY <2>3, <2>5, <2>6
  <2>8. ASSUME NEW k \in 0 .. (l - 1) - 1 PROVE r.buf[(tl + k) % Cap] = t[k + 1]
    <3>1. k \in 0 .. Cap - 1 /\ k + 1 \in 0 .. l - 1 /\ k + 1 \in 1 .. l - 1
      BY <2>3, <2>4
    <3>2. r.buf[(tl + k) % Cap] = u[(k + 1) + 1]
      BY <2>3, <2>5, <3>1
    <3> QED
      BY <2>3, <3>1, <3>2
  <2> QED
    BY <1>6, <2>3, <2>7, <2>8 DEF Exact
<1>9. QueueOK(q, t)
  BY <1>1, <1>2, <1>3, <1>4, <1>6, <1>7, <1>8 DEF QueueOK
<1> QED
  BY <1>3, <1>6, <1>9 DEF q, t

\* The counts of a queue and of what it stands for.
LEMMA Counts ==
    ASSUME InputAssumption, NEW r, NEW u, QueueOK(r, u)
    PROVE  r.count \in Nat /\ Len(u) \in Nat /\ r.count <= Len(u)
<1>1. Cap \in Nat \ {0} /\ r.count \in 0 .. Cap /\ Len(u) \in Nat /\ r.count <= Len(u)
  BY DEF QueueOK, InputAssumption
<1> QED
  BY <1>1

\* Empty queues at start, with nobody reading.
LEMMA QueuesStart == ASSUME InputAssumption, Init PROVE QueuesInv
<1>1. /\ ring = [t \in Ttys |-> EmptyRing] /\ unread = [t \in Ttys |-> <<>>]
      /\ wm = -1 /\ raced = FALSE /\ active = 0
  BY DEF Init
<1>2. 0 \in Ttys /\ Cap \in Nat \ {0}
  BY DEF InputAssumption
<1>3. IsSeq(<<>>) /\ Len(<<>>) = 0
  BY DEF IsSeq
<1>4. EmptyRing.count = 0 /\ QueueOK(EmptyRing, <<>>)
  <2>1. 0 % Cap = 0
    BY <1>2
  <2>2. Exact(EmptyRing, <<>>)
    BY <1>2, <1>3, <2>1 DEF Exact, EmptyRing
  <2> QED
    BY <1>2, <1>3, <2>2 DEF QueueOK, EmptyRing
<1> DEFINE er == EmptyRing
<1> HIDE DEF er
<1>5. ring = [t \in Ttys |-> er] /\ er.count = 0 /\ QueueOK(er, <<>>)
  BY <1>1, <1>4 DEF er
<1>6. ring = [t \in Ttys |-> ring[t]] /\ unread = [t \in Ttys |-> unread[t]]
  BY <1>1, <1>5
<1>7. \A t \in Ttys : QueueOK(ring[t], unread[t])
  BY <1>1, <1>5
<1>8. \A t \in Ttys : ring[t].count = Len(unread[t])
  BY <1>1, <1>3, <1>5
<1> QED
  BY <1>1, <1>2, <1>6, <1>7, <1>8 DEF QueuesInv

\* Characters go to the queue of terminal t.
LEMMA Delivers ==
    ASSUME InputAssumption, QueuesInv, NEW t \in Ttys, NEW text, NEW more,
           Deliver(t, text, more), UNCHANGED <<wm, active>>
    PROVE  QueuesInv'
<1> DEFINE u == unread[t]
           f == PushText(ring[t], text)
           u1 == u \o f.taken
           g == PushText(f.r, more)
           u2 == u1 \o g.taken
           n == Len(f.taken)
           m == Len(g.taken)
<1>1. QueueOK(ring[t], u)
  BY DEF QueuesInv
<1>2. /\ IsSeq(f.taken) /\ n \in Nat /\ f.r.count = ring[t].count + n
      /\ QueueOK(f.r, u1) /\ Len(u1) = Len(u) + n
  <2> HIDE DEF u
  <2> QED
    BY <1>1, Pushed
<1>3. /\ IsSeq(g.taken) /\ m \in Nat /\ g.r.count = f.r.count + m
      /\ QueueOK(g.r, u2) /\ Len(u2) = Len(u1) + m
  <2> DEFINE fr == f.r
             h == PushText(fr, more)
  <2>1. QueueOK(fr, u1)
    BY <1>2
  <2> HIDE DEF fr, u1
  <2>2. /\ IsSeq(h.taken) /\ Len(h.taken) \in Nat /\ h.r.count = fr.count + Len(h.taken)
        /\ QueueOK(h.r, u1 \o h.taken) /\ Len(u1 \o h.taken) = Len(u1) + Len(h.taken)
    BY <2>1, Pushed
  <2>3. h = g
    BY DEF fr
  <2> HIDE DEF f, g, h
  <2> QED
    BY <2>2, <2>3 DEF fr
<1>4. f.taken \o g.taken = <<>> <=> n = 0 /\ m = 0
  <2> DEFINE a == f.taken
             b == g.taken
  <2>1. IsSeq(a) /\ IsSeq(b)
    BY <1>2, <1>3
  <2> HIDE DEF a, b
  <2>2. IsSeq(a \o b) /\ Len(a \o b) = Len(a) + Len(b) /\ Len(a) \in Nat /\ Len(b) \in Nat
    BY <2>1, Joined
  <2>3. a \o b = <<>> <=> Len(a \o b) = 0
    BY <2>2, EmptySeq DEF IsSeq
  <2>4. a \o b = <<>> <=> Len(a) = 0 /\ Len(b) = 0
    BY <2>2, <2>3
  <2> QED
    BY <2>4 DEF a, b
<1>5. /\ ring' = [ring EXCEPT ![t] = g.r] /\ unread' = [unread EXCEPT ![t] = u2]
      /\ raced' = (raced \/ (wm >= 0 /\ t = WmTty /\ f.taken \o g.taken # <<>>))
  BY DEF Deliver
<1> DEFINE gr == g.r
<1>6. /\ QueueOK(gr, u2) /\ gr.count = ring[t].count + n + m /\ Len(u2) = Len(u) + n + m
      /\ n \in Nat /\ m \in Nat
      /\ raced' = (raced \/ (wm >= 0 /\ t = WmTty /\ ~(n = 0 /\ m = 0)))
      /\ ring' = [ring EXCEPT ![t] = gr] /\ unread' = [unread EXCEPT ![t] = u2]
  BY <1>2, <1>3, <1>4, <1>5
<1> HIDE DEF gr, u2, n, m
<1>7. /\ ring = [x \in Ttys |-> ring[x]] /\ unread = [x \in Ttys |-> unread[x]]
      /\ \A x \in Ttys : QueueOK(ring[x], unread[x])
      /\ active \in Ttys /\ raced \in BOOLEAN /\ WmTty \in Ttys
      /\ wm = -1 \/ wm \in 1 .. ring[WmTty].count
      /\ \A x \in Ttys : (~raced \/ x # WmTty) => ring[x].count = Len(unread[x])
      /\ (wm >= 0 /\ ~raced) => wm = ring[WmTty].count
  BY DEF QueuesInv, InputAssumption
<1>8. /\ ring' = [x \in Ttys |-> ring'[x]] /\ unread' = [x \in Ttys |-> unread'[x]]
      /\ ring'[t] = gr /\ unread'[t] = u2
      /\ \A x \in Ttys : x # t => ring'[x] = ring[x] /\ unread'[x] = unread[x]
  BY <1>6, <1>7
<1>9. \A x \in Ttys : QueueOK(ring'[x], unread'[x])
  BY <1>6, <1>7, <1>8
<1>15. \A x \in Ttys : QueueOK(ring[x], unread[x])'
  BY <1>9 DEF QueueOK, Exact
<1>16. \A x \in Ttys : ring[x].count \in Nat /\ Len(unread[x]) \in Nat
  BY <1>7, Counts
<1>10. \A x \in Ttys : (~raced' \/ x # WmTty) => ring'[x].count = Len(unread'[x])
  <2> SUFFICES ASSUME NEW x \in Ttys, ~raced' \/ x # WmTty PROVE ring'[x].count = Len(unread'[x])
    OBVIOUS
  <2>1. CASE x # t
    <3>1. ~raced \/ x # WmTty
      BY <1>6
    <3> QED
      BY <1>7, <1>8, <2>1, <3>1
  <2>2. CASE x = t
    <3>1. ~raced \/ t # WmTty
      BY <1>6, <2>2
    <3>2. ring[t].count = Len(u)
      BY <1>7, <3>1 DEF u
    <3> DEFINE a == ring[t].count
               b == Len(u)
    <3>3. gr.count = a + n + m /\ Len(u2) = b + n + m /\ a = b
      BY <1>6, <3>2
    <3> HIDE DEF a, b
    <3> QED
      BY <1>8, <2>2, <3>3
  <2> QED
    BY <2>1, <2>2
<1>11. /\ ring'[WmTty].count \in Nat /\ ring[WmTty].count \in Nat
       /\ ring'[WmTty].count >= ring[WmTty].count
  <2>1. ring[WmTty].count \in Nat
    BY <1>7, <1>16
  <2>2. CASE WmTty # t
    BY <1>7, <1>8, <2>1, <2>2
  <2>3. CASE WmTty = t
    <3> DEFINE a == ring[t].count
               b == gr.count
    <3>1. a \in Nat /\ b = a + n + m /\ n \in Nat /\ m \in Nat
      BY <1>6, <2>1, <2>3
    <3>2. ring'[WmTty].count = b /\ ring[WmTty].count = a
      BY <1>8, <2>3
    <3> HIDE DEF a, b
    <3>3. b \in Nat /\ b >= a
      BY <3>1
    <3> QED
      BY <3>1, <3>2, <3>3
  <2> QED
    BY <2>2, <2>3
<1>12. wm = -1 \/ wm \in 1 .. ring'[WmTty].count
  <2> DEFINE a == ring[WmTty].count
             b == ring'[WmTty].count
  <2>1. a \in Nat /\ b \in Nat /\ b >= a /\ (wm = -1 \/ wm \in 1 .. a)
    BY <1>7, <1>11
  <2> HIDE DEF a, b
  <2>2. wm = -1 \/ wm \in 1 .. b
    BY <2>1
  <2> QED
    BY <2>2 DEF b
<1>13. (wm >= 0 /\ ~raced') => wm = ring'[WmTty].count
  <2> SUFFICES ASSUME wm >= 0, ~raced' PROVE wm = ring'[WmTty].count
    OBVIOUS
  <2>1. ~raced /\ wm = ring[WmTty].count
    BY <1>6, <1>7
  <2>2. CASE WmTty # t
    BY <1>7, <1>8, <2>1, <2>2
  <2>3. CASE WmTty = t
    <3>1. n = 0 /\ m = 0
      BY <1>6, <2>3
    <3> DEFINE a == ring[t].count
    <3>2. gr.count = a + n + m /\ a \in Nat
      BY <1>6, <1>16
    <3>3. wm = a
      BY <2>1, <2>3
    <3> HIDE DEF a
    <3>4. gr.count = a
      BY <3>1, <3>2
    <3> QED
      BY <1>8, <2>3, <3>3, <3>4
  <2> QED
    BY <2>2, <2>3
<1>14. raced' \in BOOLEAN
  BY <1>6
<1> QED
  BY <1>7, <1>8, <1>10, <1>12, <1>13, <1>14, <1>15 DEF QueuesInv

\* A reader takes a character, with the count c that it read.
LEMMA Takes ==
    ASSUME InputAssumption, QueuesInv, NEW t \in Ttys, NEW c \in 1 .. ring[t].count,
           ring' = [ring EXCEPT ![t] = Popped(@, c)], unread' = [unread EXCEPT ![t] = Tail(@)]
    PROVE  /\ ring' = [x \in Ttys |-> ring'[x]] /\ unread' = [x \in Ttys |-> unread'[x]]
           /\ \A x \in Ttys : QueueOK(ring[x], unread[x])'
           /\ \A x \in Ttys : x # t => ring'[x] = ring[x] /\ unread'[x] = unread[x]
           /\ ring'[t].count = c - 1 /\ Len(unread'[t]) = Len(unread[t]) - 1
<1>1. QueueOK(ring[t], unread[t])
  BY DEF QueuesInv
<1> DEFINE q == Popped(ring[t], c)
           u == Tail(unread[t])
<1>2. QueueOK(q, u) /\ q.count = c - 1 /\ Len(u) = Len(unread[t]) - 1
  BY <1>1, Pops
<1>3. /\ ring' = [ring EXCEPT ![t] = q] /\ unread' = [unread EXCEPT ![t] = u]
      /\ ring = [x \in Ttys |-> ring[x]] /\ unread = [x \in Ttys |-> unread[x]]
      /\ \A x \in Ttys : QueueOK(ring[x], unread[x])
  BY DEF QueuesInv
<1> HIDE DEF q, u
<1>4. /\ ring' = [x \in Ttys |-> ring'[x]] /\ unread' = [x \in Ttys |-> unread'[x]]
      /\ ring'[t] = q /\ unread'[t] = u
      /\ \A x \in Ttys : x # t => ring'[x] = ring[x] /\ unread'[x] = unread[x]
  BY <1>3
<1>5. \A x \in Ttys : QueueOK(ring'[x], unread'[x])
  BY <1>2, <1>3, <1>4
<1>6. \A x \in Ttys : QueueOK(ring[x], unread[x])'
  BY <1>5 DEF QueueOK, Exact
<1> QED
  BY <1>2, <1>4, <1>6

\* The readers: system calls at once, the window manager in two steps.
LEMMA ReaderQueues ==
    ASSUME InputAssumption, QueuesInv,
           \/ \E t \in Ttys : PopChar(t)
           \/ WmPopBegin
           \/ \E reloaded \in BOOLEAN : WmPopEnd(reloaded)
    PROVE  QueuesInv'
<1>1. /\ active \in Ttys /\ raced \in BOOLEAN /\ WmTty \in Ttys
      /\ wm = -1 \/ wm \in 1 .. ring[WmTty].count
      /\ \A x \in Ttys : (~raced \/ x # WmTty) => ring[x].count = Len(unread[x])
      /\ (wm >= 0 /\ ~raced) => wm = ring[WmTty].count
  BY DEF QueuesInv, InputAssumption
<1>2. \A x \in Ttys : ring[x].count \in Nat /\ Len(unread[x]) \in Nat /\ ring[x].count <= Len(unread[x])
  BY Counts DEF QueuesInv
<1>3. ASSUME NEW t \in Ttys, PopChar(t) PROVE QueuesInv'
  <2> DEFINE c == ring[t].count
  <2>1. /\ wm < 0 /\ c > 0 /\ UNCHANGED <<wm, raced, active>>
        /\ ring' = [ring EXCEPT ![t] = Popped(@, c)] /\ unread' = [unread EXCEPT ![t] = Tail(@)]
    BY <1>3 DEF PopChar
  <2>2. c \in 1 .. ring[t].count
    BY <1>2, <2>1
  <2>3. /\ ring' = [x \in Ttys |-> ring'[x]] /\ unread' = [x \in Ttys |-> unread'[x]]
        /\ \A x \in Ttys : QueueOK(ring[x], unread[x])'
        /\ \A x \in Ttys : x # t => ring'[x] = ring[x] /\ unread'[x] = unread[x]
        /\ ring'[t].count = c - 1 /\ Len(unread'[t]) = Len(unread[t]) - 1
    <3> HIDE DEF c
    <3> QED
      BY <2>1, <2>2, Takes
  <2>4. \A x \in Ttys : (~raced \/ x # WmTty) => ring'[x].count = Len(unread'[x])
    BY <1>1, <1>2, <2>3
  <2> QED
    BY <1>1, <2>1, <2>3, <2>4 DEF QueuesInv
<1>4. CASE WmPopBegin
  <2>1. wm' = ring[WmTty].count /\ ring[WmTty].count > 0 /\ UNCHANGED <<ring, unread, raced, active>>
    BY <1>4 DEF WmPopBegin
  <2>2. wm' \in 1 .. ring[WmTty].count
    BY <1>1, <1>2, <2>1
  <2> QED
    BY <2>1, <2>2 DEF QueuesInv, QueueOK, Exact
<1>5. ASSUME NEW reloaded \in BOOLEAN, WmPopEnd(reloaded) PROVE QueuesInv'
  <2> DEFINE c == IF reloaded THEN ring[WmTty].count ELSE wm
  <2>1. /\ wm >= 0 /\ wm' = -1 /\ UNCHANGED active
        /\ ring' = [ring EXCEPT ![WmTty] = Popped(@, c)]
        /\ unread' = [unread EXCEPT ![WmTty] = Tail(@)]
        /\ raced' = (raced /\ ring'[WmTty].count # Len(unread'[WmTty]))
    BY <1>5 DEF WmPopEnd
  <2>2. c \in 1 .. ring[WmTty].count /\ (~raced => c = ring[WmTty].count)
    BY <1>1, <1>2, <2>1
  <2>3. /\ ring' = [x \in Ttys |-> ring'[x]] /\ unread' = [x \in Ttys |-> unread'[x]]
        /\ \A x \in Ttys : QueueOK(ring[x], unread[x])'
        /\ \A x \in Ttys : x # WmTty => ring'[x] = ring[x] /\ unread'[x] = unread[x]
        /\ ring'[WmTty].count = c - 1 /\ Len(unread'[WmTty]) = Len(unread[WmTty]) - 1
    <3> HIDE DEF c
    <3> QED
      BY <1>1, <2>1, <2>2, Takes
  <2>4. ASSUME NEW x \in Ttys, ~raced' \/ x # WmTty PROVE ring'[x].count = Len(unread'[x])
    <3>1. CASE x # WmTty
      BY <1>1, <2>3, <3>1
    <3>2. CASE x = WmTty /\ raced
      BY <2>1, <2>4, <3>2
    <3>3. CASE x = WmTty /\ ~raced
      BY <1>1, <1>2, <2>2, <2>3, <3>3
    <3> QED
      BY <3>1, <3>2, <3>3
  <2>5. raced' \in BOOLEAN
    BY <2>1
  <2> QED
    BY <1>1, <2>1, <2>3, <2>4, <2>5 DEF QueuesInv
<1> QED
  BY <1>3, <1>4, <1>5

\* Every step keeps the queues' part: keys deliver, readers take, the rest leaves them.
LEMMA QueuesNext ==
    ASSUME InputAssumption, QueuesInv, [Next]_vars
    PROVE  QueuesInv'
<1>1. ASSUME UNCHANGED <<ring, unread, raced, wm>>, active' \in Ttys PROVE QueuesInv'
  BY <1>1 DEF QueuesInv, QueueOK, Exact
<1>2. active \in Ttys
  BY DEF QueuesInv
<1>3. CASE \/ \E t \in Ttys : PopChar(t)
           \/ WmPopBegin
           \/ \E reloaded \in BOOLEAN : WmPopEnd(reloaded)
  BY <1>3, ReaderQueues
<1>4. CASE Prefix \/ CtrlKey \/ AltKey \/ ShiftKey \/ Released \/ CycleMethod \/ ForceStop
           \/ \E swallowed \in BOOLEAN : EscapeKey(swallowed)
  BY <1>1, <1>2, <1>4 DEF Prefix, CtrlKey, AltKey, ShiftKey, Released, CycleMethod, ForceStop,
                          EscapeKey, Taken, KeepRest, NothingDelivered
<1>5. CASE SwitchTty
  BY <1>1, <1>2, <1>5 DEF SwitchTty, Taken, NothingDelivered
<1>6. CASE ExtendedKey \/ CtrlShortcut \/ \E swallowed \in BOOLEAN : Typed(swallowed)
  <2>1. UNCHANGED <<wm, active>>
    BY <1>6 DEF ExtendedKey, CtrlShortcut, Typed, Taken
  <2>2. NothingDelivered \/ \E text, more : Deliver(active, text, more)
    BY <1>6 DEF ExtendedKey, CtrlShortcut, Typed
  <2> QED
    BY <1>1, <1>2, <2>1, <2>2, Delivers DEF NothingDelivered
<1>7. CASE \/ InitSucceeds \/ InitFails \/ InitReady \/ MouseByteLost
           \/ \E sent \in BOOLEAN : InitBails(sent)
           \/ \E b \in MouseBytes : MouseByte(b)
  BY <1>1, <1>2, <1>7 DEF InitSucceeds, InitFails, InitReady, MouseByteLost, InitBails, MouseByte, kbdVars
<1>8. CASE \/ \E k \in session.keys : Press(k)
           \/ \E k \in held : Release(k)
           \/ \E i \in 1 .. MethodMax : Select(i)
           \/ \E new \in Offered : Register(new)
  BY <1>1, <1>2, <1>8 DEF Press, Release, Select, Register
<1>9. CASE UNCHANGED vars
  BY <1>1, <1>2, <1>9 DEF vars, kbdVars
<1> QED
  BY <1>3, <1>4, <1>5, <1>6, <1>7, <1>8, <1>9 DEF Next, HandleScancode

-----------------------------------------------------------------------------

InputInv == KeysInv /\ QueuesInv /\ MouseInv

\* The inductive invariant: keys, queues and mouse are what the scan codes, the readers
\* and the packets made them.
THEOREM InputIsSound == Spec => []InputInv
<1>1. Init => InputInv
  BY InputAssumption, KeysStart, QueuesStart, MouseStart DEF InputInv
<1>2. InputInv /\ [Next]_vars => InputInv'
  BY InputAssumption, KeysNext, QueuesNext, MouseNext DEF InputInv
<1> QED
  BY <1>1, <1>2, PTL DEF Spec

\* A hot key acts for the keys that are down, and Ctrl+Alt+C once for each press, however
\* presses, repeats and releases of both sides' keys follow one another; once a fake shift
\* of the keyboard has been misread, the first is claimed of Alt alone
\* (clks_keyboard_handle_scancode).
THEOREM HotKeysHold == Spec => []HotKeys
<1>1. KeysInv => HotKeys
  <2> SUFFICES ASSUME KeysInv PROVE HotKeys
    OBVIOUS
  <2>1. stops <= 1
    BY DEF KeysInv
  <2>2. ASSUME wire = <<>> PROVE TracksAlt(held) /\ (~stray => Tracks(held) /\ ~mods.e0)
    BY <2>2, NothingOnTheWire
  <2> QED
    BY <2>1, <2>2 DEF HotKeys, ForceStopOncePerPress, ModifiersTrackKeys, Tracks, TracksAlt
<1> QED
  BY <1>1, InputIsSound, PTL DEF InputInv

\* The mouse's set-up leaves the keyboard on, packets are read from their first byte and
\* the pointer stays on the screen, whichever command fails (clks_mouse_init,
\* clks_mouse_handle_byte).
THEOREM MouseSetUpIsSafe == Spec => []MouseInitSafe
<1>1. MouseInv => MouseInitSafe
  BY DEF MouseInv, MouseInitSafe, StepDone
<1> QED
  BY <1>1, InputIsSound, PTL DEF InputInv

\* A terminal's queue gives back exactly the characters it took, in order; only a reader
\* that an interrupt raced can lose count, and then of too many, never of too few
\* (clks_keyboard_pop_char_for_tty).
THEOREM QueuesHoldUnread == Spec => []RingHoldsUnread
<1>1. QueuesInv => RingHoldsUnread
  <2> SUFFICES ASSUME QueuesInv, NEW t \in Ttys
               PROVE  /\ ring[t].count <= Len(unread[t])
                      /\ (~raced \/ t # WmTty) =>
                            /\ ring[t].count = Len(unread[t])
                            /\ \A i \in DOMAIN unread[t] :
                                 ring[t].buf[(ring[t].tail + i - 1) % Cap] = unread[t][i]
    BY DEF RingHoldsUnread
  <2>1. QueueOK(ring[t], unread[t])
    BY DEF QueuesInv
  <2>2. ASSUME ~raced \/ t # WmTty, NEW i \in DOMAIN unread[t]
        PROVE  ring[t].buf[(ring[t].tail + i - 1) % Cap] = unread[t][i]
    <3>1. Exact(ring[t], unread[t])
      BY <2>1, <2>2 DEF QueuesInv, QueueOK
    <3>2. i \in 1 .. Len(unread[t])
      <4>1. PICK S : unread[t] \in Seq(S)
        BY <2>1 DEF QueueOK, IsSeq
      <4> QED
        BY <4>1
    <3>3. i - 1 \in 0 .. Len(unread[t]) - 1 /\ (i - 1) + 1 = i /\ ring[t].tail + (i - 1) = ring[t].tail + i - 1
      BY <2>1, <3>2 DEF QueueOK, InputAssumption
    <3> QED
      BY <3>1, <3>3 DEF Exact
  <2>3. (~raced \/ t # WmTty) => ring[t].count = Len(unread[t])
    BY DEF QueuesInv
  <2> QED
    BY <2>1, <2>2, <2>3 DEF QueueOK
<1> QED
  BY <1>1, InputIsSound, PTL DEF InputInv

=============================================================================
