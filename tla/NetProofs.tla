------------------------------ MODULE NetProofs ------------------------------
(***************************************************************************)
(* The rings of the card, the ARP table and the UDP queue hold what they   *)
(* should, in order, an address is one a server gave this card, and a ping *)
(* of another machine that succeeds was answered: for every ring, table    *)
(* and queue size, every network and every scene.                          *)
(*                                                                         *)
(* Frames are not typed: all the invariant says of one that was received   *)
(* is that it was on the wire.                                             *)
(***************************************************************************)
EXTENDS Net, FiniteSetTheorems, FunctionTheorems, SequenceTheorems, WellFoundedInduction, TLAPS

-----------------------------------------------------------------------------
(* Positions in a ring                                                      *)

\* A remainder is a position of a ring.
LEMMA ModInRange ==
    ASSUME NEW a \in Nat, NEW n \in Nat \ {0}
    PROVE  a % n \in 0..(n - 1)
OBVIOUS

\* A set of naturals that is not empty has a least element: the first entry for an address
\* is such.
LEMMA LeastNatural ==
    ASSUME NEW S \in SUBSET Nat, S # {}
    PROVE  \E m \in S : \A n \in S : m <= n
<1>1. PICK m \in S : \A n \in S : ~(<<n, m>> \in OpToRel(<, Nat))
  BY NatLessThanWellFounded, WFMin, Zenon
<1>2. \A n \in S : ~(n < m)
  BY <1>1 DEF OpToRel
<1> QED
  BY <1>2

\* The position k after r in a ring of n.
LEMMA PositionAfter ==
    ASSUME NEW n \in Nat \ {0}, NEW r \in 0..(n - 1), NEW k \in 0..n
    PROVE  /\ (r + k) % n = IF r + k < n THEN r + k ELSE r + k - n
           /\ r % n = r
OBVIOUS

\* It is a position.
LEMMA PositionIn ==
    ASSUME NEW n \in Nat \ {0}, NEW r \in 0..(n - 1), NEW k \in 0..(n - 1)
    PROVE  (r + k) % n \in 0..(n - 1)
<1>1. r + k \in Nat
  OBVIOUS
<1> QED
  BY <1>1, ModInRange

\* What follows the next one is one nearer.
LEMMA NextIsNearer ==
    ASSUME NEW n \in Nat \ {0}, NEW r \in 0..(n - 1), NEW k \in 0..(n - 1)
    PROVE  /\ (r + 1) % n \in 0..(n - 1)
           /\ (((r + 1) % n) + k) % n = (r + (k + 1)) % n
           /\ (((r + k) % n) + 1) % n = (r + (k + 1)) % n
<1>1. 1 \in 0..n /\ k \in 0..n /\ k + 1 \in 0..n
  OBVIOUS
<1>2. /\ (r + 1) % n = IF r + 1 < n THEN r + 1 ELSE r + 1 - n
      /\ (r + k) % n = IF r + k < n THEN r + k ELSE r + k - n
      /\ (r + (k + 1)) % n = IF r + (k + 1) < n THEN r + (k + 1) ELSE r + (k + 1) - n
  BY <1>1, PositionAfter
<1> DEFINE a == (r + 1) % n
           b == (r + k) % n
<1>3. a \in 0..(n - 1) /\ b \in 0..(n - 1)
  BY <1>2
<1>4. /\ (a + k) % n = IF a + k < n THEN a + k ELSE a + k - n
      /\ (b + 1) % n = IF b + 1 < n THEN b + 1 ELSE b + 1 - n
  <2> HIDE DEF a, b
  <2> QED
    BY <1>1, <1>3, PositionAfter
<1>5. a = (IF r + 1 < n THEN r + 1 ELSE r + 1 - n) /\ b = (IF r + k < n THEN r + k ELSE r + k - n)
  BY <1>2
<1> HIDE DEF a, b
<1>6. (a + k) % n = (r + (k + 1)) % n
  BY <1>2, <1>4, <1>5
<1>7. (b + 1) % n = (r + (k + 1)) % n
  BY <1>2, <1>4, <1>5
<1> QED
  BY <1>3, <1>6, <1>7 DEF a, b

\* The positions before the one c after r differ from it: a frame or a datagram that is
\* added to a ring overwrites none that waits in it.
LEMMA Ahead ==
    ASSUME NEW n \in Nat \ {0}, NEW r \in 0..(n - 1), NEW c \in 0..(n - 1), NEW j \in 0..(c - 1)
    PROVE  (r + j) % n \in 0..(n - 1) /\ (r + j) % n # (r + c) % n
<1>1. j \in 0..n /\ c \in 0..n
  OBVIOUS
<1>2. (r + j) % n = IF r + j < n THEN r + j ELSE r + j - n
  BY <1>1, PositionAfter
<1>3. (r + c) % n = IF r + c < n THEN r + c ELSE r + c - n
  BY <1>1, PositionAfter
<1> DEFINE x == (r + j) % n
           y == (r + c) % n
<1>4. x = (IF r + j < n THEN r + j ELSE r + j - n) /\ y = (IF r + c < n THEN r + c ELSE r + c - n)
  BY <1>2, <1>3
<1> HIDE DEF x, y
<1>5. x \in 0..(n - 1) /\ x # y
  BY <1>4
<1> QED
  BY <1>5 DEF x, y

\* Different distances from r are different positions, and every position is at one.
LEMMA PositionsDiffer ==
    ASSUME NEW n \in Nat \ {0}, NEW r \in 0..(n - 1), NEW j \in 0..(n - 1), NEW k \in 0..(n - 1),
           j # k
    PROVE  (r + j) % n # (r + k) % n
<1>1. CASE j < k
  BY <1>1, Ahead
<1>2. CASE k < j
  BY <1>2, Ahead
<1> QED
  BY <1>1, <1>2

LEMMA PositionReached ==
    ASSUME NEW n \in Nat \ {0}, NEW r \in 0..(n - 1), NEW i \in 0..(n - 1)
    PROVE  \E k \in 0..(n - 1) : (r + k) % n = i
<1> DEFINE k == IF r <= i THEN i - r ELSE i - r + n
<1>1. k \in 0..(n - 1) /\ k \in 0..n
  OBVIOUS
<1>2. IF r <= i THEN k = i - r ELSE k = i - r + n
  OBVIOUS
<1> HIDE DEF k
<1>3. (r + k) % n = IF r + k < n THEN r + k ELSE r + k - n
  BY <1>1, PositionAfter
<1>4. (r + k) % n = i
  BY <1>1, <1>2, <1>3
<1> QED
  BY <1>1, <1>4

\* A sequence, of whatever it holds.
IsSeq(q) == \E S : q \in Seq(S)

\* The ring f of n positions holds the elements of q from position h on, and e elsewhere.
RingHolds(f, h, n, q, e) ==
    /\ f = [i \in 0..(n - 1) |-> f[i]]
    /\ h \in 0..(n - 1)
    /\ IsSeq(q) /\ Len(q) \in 0..n
    /\ \A k \in 0..(n - 1) : f[(h + k) % n] = IF k < Len(q) THEN q[k + 1] ELSE e

\* Where the next element goes, and that it is appended.
LEMMA RingAdds ==
    ASSUME NEW n \in Nat \ {0}, NEW f, NEW h, NEW q, NEW e, RingHolds(f, h, n, q, e),
           Len(q) < n, NEW v
    PROVE  /\ RingHolds([f EXCEPT ![(h + Len(q)) % n] = v], h, n, Append(q, v), e)
           /\ Len(Append(q, v)) = Len(q) + 1
<1> DEFINE l == Len(q)
           w == (h + l) % n
           g == [f EXCEPT ![w] = v]
           a == Append(q, v)
<1>1. /\ f = [i \in 0..(n - 1) |-> f[i]] /\ h \in 0..(n - 1) /\ l \in 0..(n - 1)
      /\ \A k \in 0..(n - 1) : f[(h + k) % n] = IF k < l THEN q[k + 1] ELSE e
  <2>1. Len(q) \in 0..n /\ Len(q) < n
    BY DEF RingHolds
  <2>2. l \in 0..(n - 1)
    BY <2>1
  <2> QED
    BY <2>2 DEF RingHolds
<1>2. /\ IsSeq(a) /\ Len(a) = l + 1 /\ a[l + 1] = v
      /\ \A k \in 1..l : a[k] = q[k]
  <2>1. PICK S : q \in Seq(S)
    BY DEF RingHolds, IsSeq
  <2>2. q \in Seq(S \cup {v})
    BY <2>1, SeqMonotonic
  <2> QED
    BY <2>2, AppendProperties DEF IsSeq
<1> HIDE DEF a, l
<1>3. w \in 0..(n - 1)
  BY <1>1, PositionIn
<1>4. /\ g = [i \in 0..(n - 1) |-> g[i]]
      /\ \A i \in 0..(n - 1) : g[i] = IF i = w THEN v ELSE f[i]
  BY <1>1, <1>3
<1> HIDE DEF g, w
<1>5. ASSUME NEW k \in 0..(n - 1) PROVE g[(h + k) % n] = IF k < l + 1 THEN a[k + 1] ELSE e
  <2>1. (h + k) % n \in 0..(n - 1)
    BY <1>1, PositionIn
  <2>2. CASE k = l
    <3>1. g[(h + k) % n] = v
      BY <1>3, <1>4, <2>2 DEF w
    <3> QED
      BY <1>1, <1>2, <2>2, <3>1
  <2>3. CASE k # l
    <3>1. (h + k) % n # w
      BY <1>1, <2>3, PositionsDiffer DEF w
    <3>2. g[(h + k) % n] = IF k < l THEN q[k + 1] ELSE e
      BY <1>1, <1>4, <2>1, <3>1
    <3>3. CASE k < l
      <4>1. k + 1 \in 1..l /\ k < l + 1
        BY <1>1, <3>3
      <4> QED
        BY <1>2, <3>2, <3>3, <4>1
    <3>4. CASE ~(k < l)
      <4>1. ~(k < l + 1)
        BY <1>1, <2>3, <3>4
      <4> QED
        BY <3>2, <3>4, <4>1
    <3> QED
      BY <3>3, <3>4
  <2> QED
    BY <2>2, <2>3
<1>6. Len(a) \in 0..n
  BY <1>1, <1>2
<1>7. RingHolds(g, h, n, a, e)
  BY <1>1, <1>2, <1>4, <1>5, <1>6 DEF RingHolds
<1> QED
  BY <1>2, <1>7 DEF a, l, g, w

\* The first element is at the front, and is taken from there.
LEMMA RingDrops ==
    ASSUME NEW n \in Nat \ {0}, NEW f, NEW h, NEW q, NEW e, RingHolds(f, h, n, q, e), q # <<>>
    PROVE  /\ RingHolds([f EXCEPT ![h] = e], (h + 1) % n, n, Tail(q), e)
           /\ f[h] = Head(q) /\ Len(q) > 0 /\ Len(Tail(q)) = Len(q) - 1
<1> DEFINE l == Len(q)
           g == [f EXCEPT ![h] = e]
           t == Tail(q)
           h1 == (h + 1) % n
<1>1. /\ f = [i \in 0..(n - 1) |-> f[i]] /\ h \in 0..(n - 1) /\ l \in 0..n
      /\ \A k \in 0..(n - 1) : f[(h + k) % n] = IF k < l THEN q[k + 1] ELSE e
  BY DEF RingHolds
<1>2. PICK S : q \in Seq(S)
  BY DEF RingHolds, IsSeq
<1>3. /\ IsSeq(t) /\ Len(t) = l - 1 /\ l > 0 /\ Head(q) = q[1]
      /\ \A k \in 1..(l - 1) : t[k] = q[k + 1]
  <2>1. l > 0
    BY <1>1, <1>2, EmptySeq
  <2> QED
    BY <1>2, <2>1, HeadTailProperties DEF IsSeq
<1> HIDE DEF t, l
<1>4. h % n = h /\ 0 \in 0..(n - 1) /\ h + 0 = h /\ (h + 0) % n = h
  BY <1>1
<1>5. f[h] = Head(q)
  <2>1. 0 < l /\ 0 + 1 = 1
    BY <1>1, <1>3
  <2> QED
    BY <1>1, <1>3, <1>4, <2>1
<1>6. h1 \in 0..(n - 1)
  BY <1>1
<1>7. /\ g = [i \in 0..(n - 1) |-> g[i]]
      /\ \A i \in 0..(n - 1) : g[i] = IF i = h THEN e ELSE f[i]
  BY <1>1
<1> HIDE DEF g, h1
<1>8. ASSUME NEW k \in 0..(n - 1) PROVE g[(h1 + k) % n] = IF k < l - 1 THEN t[k + 1] ELSE e
  <2>1. (h1 + k) % n = (h + (k + 1)) % n
    BY <1>1, NextIsNearer DEF h1
  <2>2. CASE k = n - 1
    <3>1. (h + (k + 1)) % n = h
      <4>1. k + 1 = n /\ n \in 0..n /\ ~(h + n < n) /\ h + n - n = h
        BY <1>1, <2>2
      <4>2. (h + n) % n = h
        BY <1>1, <4>1, PositionAfter
      <4> QED
        BY <4>1, <4>2
    <3>2. ~(k < l - 1)
      BY <1>1, <2>2
    <3> QED
      BY <1>1, <1>7, <2>1, <3>1, <3>2
  <2>3. CASE k # n - 1
    <3>1. k + 1 \in 0..(n - 1) /\ k + 1 # 0
      BY <2>3
    <3>2. (h + (k + 1)) % n # h /\ (h + (k + 1)) % n \in 0..(n - 1)
      BY <1>1, <1>4, <3>1, PositionsDiffer, PositionIn
    <3>3. g[(h1 + k) % n] = IF k + 1 < l THEN q[(k + 1) + 1] ELSE e
      BY <1>1, <1>7, <2>1, <3>1, <3>2
    <3>4. CASE k + 1 < l
      <4>1. k + 1 \in 1..(l - 1) /\ k < l - 1
        BY <1>1, <3>4
      <4> QED
        BY <1>3, <3>3, <3>4, <4>1
    <3>5. CASE ~(k + 1 < l)
      <4>1. ~(k < l - 1)
        BY <1>1, <3>5
      <4> QED
        BY <3>3, <3>5, <4>1
    <3> QED
      BY <3>4, <3>5
  <2> QED
    BY <2>2, <2>3
<1>9. Len(t) \in 0..n
  BY <1>1, <1>3
<1>10. RingHolds(g, h1, n, t, e)
  BY <1>3, <1>6, <1>7, <1>8, <1>9 DEF RingHolds
<1> QED
  BY <1>3, <1>5, <1>10 DEF t, l, g, h1
-----------------------------------------------------------------------------

Desc == 0..(DescCount - 1)

NicFields(n) ==
    n = [rx |-> n.rx, rx_head |-> n.rx_head, rx_tail |-> n.rx_tail, rx_index |-> n.rx_index,
         tx |-> n.tx, tx_head |-> n.tx_head, tx_index |-> n.tx_index]
GhostFields(g) ==
    g = [queued |-> g.queued, heard |-> g.heard, unread |-> g.unread, answered |-> g.answered]
CallFields(c) ==
    c = [phase |-> c.phase, try |-> c.try, processed |-> c.processed, then |-> c.then,
         dst |-> c.dst, hop |-> c.hop, mac |-> c.mac]

\* What is on the wire, w.
FramesOK(w) == \A f \in w : f.kind \in {"arp", "ip"}

\* The receive ring of the card n: the frames q, each from the wire w, wait from our
\* index to the card's head, and the card never owns all descriptors.
RxHolds(n, w, q) ==
    /\ RingHolds(n.rx, n.rx_index, DescCount, q, None)
    /\ Len(q) < DescCount
    /\ \A k \in 1..Len(q) : q[k] \in w
    /\ n.rx_head = (n.rx_index + Len(q)) % DescCount
    /\ n.rx_tail \in Desc /\ n.rx_index = After(n.rx_tail)
RxOK(n, w) == \E q : RxHolds(n, w, q)

\* The transmit ring: the frames q wait from the card's head to our index.
TxOK(n, q) ==
    /\ RingHolds(n.tx, n.tx_head, DescCount, q, None)
    /\ n.tx_index = (n.tx_head + Len(q)) % DescCount
    /\ \A k \in 1..Len(q) : q[k] # None

NicOK(n, w, q) == NicFields(n) /\ RxOK(n, w) /\ TxOK(n, q)

\* The UDP queue u holds the datagrams q.
UdpOK(u, q) ==
    /\ u = [slot |-> u.slot, head |-> u.head, tail |-> u.tail, count |-> u.count]
    /\ RingHolds(u.slot, u.head, QueueCap, q, None)
    /\ u.count = Len(q)
    /\ u.tail = (u.head + Len(q)) % QueueCap

\* The ARP table a: the addresses in h are its entries, at P, youngest last.
ArpAt(a, h, P) ==
    /\ \A k \in 1..Len(h) : /\ h[k] = <<a.table[P[k]].ip, a.table[P[k]].mac>>
                            /\ a.table[P[k]].ip # 0
    /\ \A j, k \in 1..Len(h) : j < k => a.table[P[j]].stamp < a.table[P[k]].stamp
    /\ \A j, k \in 1..Len(h) : j # k => a.table[P[j]].ip # a.table[P[k]].ip
    /\ \A i \in 1..ArpCap : a.table[i].ip # 0 => \E k \in 1..Len(h) : P[k] = i
ArpFields(a, h) ==
    /\ a = [table |-> a.table, stamp |-> a.stamp] /\ a.stamp \in Nat
    /\ a.table = [i \in 1..ArpCap |-> a.table[i]]
    /\ \A i \in 1..ArpCap : a.table[i].stamp \in Nat /\ a.table[i].stamp < a.stamp
    /\ IsSeq(h) /\ Len(h) \in 0..ArpCap
ArpOK(a, h) == ArpFields(a, h) /\ \E P \in [1..Len(h) -> 1..ArpCap] : ArpAt(a, h, P)

\* A DHCP message of one of the types for our card.
Told(f, types) == /\ f.kind = "ip" /\ f.proto = "dhcp" /\ f.body.for = OurMac
                  /\ f.body.type \in types
\* The address of a lease is one that was told, and an acknowledged one was acknowledged.
DhcpOK(d, w) ==
    /\ d = [active |-> d.active, offer_ready |-> d.offer_ready, ack_ready |-> d.ack_ready,
            failed |-> d.failed, ip |-> d.ip, server |-> d.server, mask |-> d.mask,
            router |-> d.router, dns |-> d.dns]
    /\ d.ack_ready \in BOOLEAN
    /\ d.ip # 0 => \E f \in w : Told(f, {"OFFER", "ACK", "none"}) /\ f.body.ip = d.ip
    /\ d.ack_ready => \E f \in w : Told(f, {"ACK", "none"})
LeaseOK(c, r, w) ==
    r => \/ c = Fallback
         \/ /\ c.ip # 0 /\ \E f \in w : Told(f, {"ACK", "none"})
            /\ \E f \in w : Told(f, {"OFFER", "ACK", "none"}) /\ f.body.ip = c.ip

\* An echo reply with our identifier from one of the hosts.
Replied(w, seq, hosts) ==
    \E f \in w : /\ f.kind = "ip" /\ f.proto = "icmp" /\ f.body.type = "reply" /\ f.body.own
                 /\ f.body.seq = seq /\ f.src \in hosts
PingOK(p, w) ==
    /\ p = [seq |-> p.seq, waiting |-> p.waiting, reply_ok |-> p.reply_ok, dst |-> p.dst,
            alt |-> p.alt]
    /\ p.reply_ok \in BOOLEAN
    /\ p.reply_ok => Replied(w, p.seq, {p.dst, p.alt} \ {0})
\* The call c resolves the next hop of its destination, and pings that.
CallOK(c, p) ==
    /\ CallFields(c)
    /\ c.phase = "resolve" => c.then \in {"ping", "send"}
    /\ c.phase \in {"resolve", "ping", "reply"} => c.hop = next_hop_for(c.dst)
    /\ c.phase = "reply" => p.dst = c.dst /\ p.alt \in {0, c.hop}
AnsweredOK(r, w) == (r # NoResult /\ ~r.own) => Replied(w, r.seq, {r.dst, r.via})

NetInv ==
    /\ scene \in Scenes
    /\ FramesOK(wire)
    /\ NicOK(nic, wire, ghost.queued)
    /\ UdpOK(udp, ghost.unread)
    /\ ArpOK(arp, ghost.heard)
    /\ DhcpOK(dhcp, wire) /\ LeaseOK(config, ready, wire)
    /\ PingOK(ping, wire) /\ CallOK(call, ping) /\ AnsweredOK(ghost.answered, wire)
    /\ GhostFields(ghost)

-----------------------------------------------------------------------------
(* The rings of the card                                                    *)

\* A frame is not the mark of an empty descriptor.
LEMMA FrameIsNotNone ==
    ASSUME NEW f, f.kind \in {"arp", "ip"}
    PROVE  f # None
BY DEF None

\* clks_net_tx_frame: an accepted frame is the last to leave.
LEMMA Sends ==
    ASSUME NEW n, NEW w, NEW g, NicOK(n, w, g.queued), GhostFields(g), NEW f, f # None
    PROVE  /\ NicOK(tx_frame(n, f), w, Queued(g, n, f).queued)
           /\ GhostFields(Queued(g, n, f)) /\ Queued(g, n, f).heard = g.heard
           /\ Queued(g, n, f).unread = g.unread /\ Queued(g, n, f).answered = g.answered
           /\ tx_frame(n, f).rx = n.rx /\ tx_frame(n, f).rx_index = n.rx_index
<1> DEFINE q == g.queued
           m == tx_frame(n, f)
           h == Queued(g, n, f)
<1>1. /\ NicFields(n) /\ RxOK(n, w) /\ RingHolds(n.tx, n.tx_head, DescCount, q, None)
      /\ n.tx_index = (n.tx_head + Len(q)) % DescCount
      /\ \A k \in 1..Len(q) : q[k] # None
  BY DEF NicOK, TxOK
<1>2. DescCount \in Nat \ {0} /\ n.tx_head \in 0..(DescCount - 1) /\ Len(q) \in 0..DescCount
  BY <1>1, NetAssumption DEF RingHolds
<1>3. CASE ~TxFree(n)
  BY <1>3 DEF tx_frame, Queued
<1>4. CASE TxFree(n)
  <2>1. /\ m = [n EXCEPT !.tx[n.tx_index] = f, !.tx_index = After(n.tx_index)]
        /\ h = [g EXCEPT !.queued = Append(q, f)]
    BY <1>4 DEF tx_frame, Queued
  <2>2. /\ GhostFields(h) /\ h.queued = Append(q, f) /\ h.heard = g.heard
        /\ h.unread = g.unread /\ h.answered = g.answered
    BY <2>1 DEF GhostFields
  <2>3. /\ NicFields(m) /\ m.rx = n.rx /\ m.rx_head = n.rx_head /\ m.rx_tail = n.rx_tail
        /\ m.rx_index = n.rx_index /\ m.tx = [n.tx EXCEPT ![n.tx_index] = f]
        /\ m.tx_head = n.tx_head /\ m.tx_index = After(n.tx_index)
    BY <1>1, <2>1 DEF NicFields
  <2> HIDE DEF m, h, q
  <2>4. Len(q) < DescCount
    <3> SUFFICES ASSUME Len(q) = DescCount PROVE FALSE
      BY <1>2
    <3>1. (n.tx_head + DescCount) % DescCount = n.tx_head
      BY <1>2, SMTT(30)
    <3>2. n.tx[n.tx_head] = None
      BY <1>1, <1>4, <3>1 DEF TxFree
    <3>3. 0 < Len(q) /\ 0 \in 0..(DescCount - 1) /\ 0 + 1 = 1 /\ 1 \in 1..Len(q)
      BY <1>2
    <3>4. (n.tx_head + 0) % DescCount = n.tx_head
      BY <1>2
    <3>5. n.tx[(n.tx_head + 0) % DescCount] = q[1]
      BY <1>1, <3>3 DEF RingHolds
    <3> QED
      BY <1>1, <3>2, <3>3, <3>4, <3>5
  <2>5. RingHolds(m.tx, m.tx_head, DescCount, Append(q, f), None) /\ Len(Append(q, f)) = Len(q) + 1
    BY <1>1, <1>2, <2>3, <2>4, RingAdds
  <2>6. m.tx_index = (m.tx_head + (Len(q) + 1)) % DescCount
    <3>1. Len(q) \in 0..(DescCount - 1)
      BY <1>2, <2>4
    <3>2. (((n.tx_head + Len(q)) % DescCount) + 1) % DescCount
             = (n.tx_head + (Len(q) + 1)) % DescCount
      BY <1>2, <3>1, NextIsNearer
    <3>3. m.tx_index = (n.tx_index + 1) % DescCount
      BY <2>3 DEF After
    <3> QED
      BY <1>1, <2>3, <3>2, <3>3
  <2>7. \A k \in 1..Len(Append(q, f)) : Append(q, f)[k] # None
    <3>1. PICK S : q \in Seq(S)
      BY <1>1 DEF RingHolds, IsSeq
    <3>2. q \in Seq(S \cup {f})
      BY <3>1, SeqMonotonic
    <3> QED
      BY <1>1, <1>2, <3>2, AppendProperties
  <2>8. RxOK(m, w)
    BY <1>1, <2>3 DEF RxOK, RxHolds
  <2> QED
    BY <2>2, <2>3, <2>5, <2>6, <2>7, <2>8 DEF NicOK, TxOK, m, h
<1> QED
  BY <1>3, <1>4

\* A frame of ours that leaves: the card takes the one accepted first.
LEMMA Leaves ==
    ASSUME NEW n, NEW w, NEW q, NicOK(n, w, q), n.tx_head # n.tx_index
    PROVE  NicOK([n EXCEPT !.tx[n.tx_head] = None, !.tx_head = After(n.tx_head)], w, Tail(q))
<1> DEFINE m == [n EXCEPT !.tx[n.tx_head] = None, !.tx_head = After(n.tx_head)]
<1>1. /\ NicFields(n) /\ RxOK(n, w) /\ RingHolds(n.tx, n.tx_head, DescCount, q, None)
      /\ n.tx_index = (n.tx_head + Len(q)) % DescCount
      /\ \A k \in 1..Len(q) : q[k] # None
  BY DEF NicOK, TxOK
<1>2. DescCount \in Nat \ {0} /\ n.tx_head \in 0..(DescCount - 1) /\ Len(q) \in 0..DescCount
  BY <1>1, NetAssumption DEF RingHolds
<1>3. q # <<>>
  <2>1. (n.tx_head + 0) % DescCount = n.tx_head
    BY <1>2
  <2>2. Len(<<>>) = 0
    OBVIOUS
  <2> QED
    BY <1>1, <2>1, <2>2
<1>4. /\ NicFields(m) /\ m.rx = n.rx /\ m.rx_head = n.rx_head /\ m.rx_tail = n.rx_tail
      /\ m.rx_index = n.rx_index /\ m.tx = [n.tx EXCEPT ![n.tx_head] = None]
      /\ m.tx_head = After(n.tx_head) /\ m.tx_index = n.tx_index
  <2> DEFINE i == n.tx_head
             x == After(n.tx_head)
  <2>1. m = [n EXCEPT !.tx[i] = None, !.tx_head = x]
    OBVIOUS
  <2> HIDE DEF m, i, x
  <2>2. NicFields(n)
    BY <1>1
  <2>3. /\ NicFields(m) /\ m.rx = n.rx /\ m.rx_head = n.rx_head /\ m.rx_tail = n.rx_tail
        /\ m.rx_index = n.rx_index /\ m.tx = [n.tx EXCEPT ![i] = None] /\ m.tx_head = x
        /\ m.tx_index = n.tx_index
    BY <2>1, <2>2 DEF NicFields
  <2> QED
    BY <2>3 DEF i, x
<1> HIDE DEF m
<1>5. /\ RingHolds(m.tx, (n.tx_head + 1) % DescCount, DescCount, Tail(q), None)
      /\ Len(q) > 0 /\ Len(Tail(q)) = Len(q) - 1
  <2>1. RingHolds(n.tx, n.tx_head, DescCount, q, None) /\ DescCount \in Nat \ {0}
    BY <1>1, <1>2
  <2> QED
    BY <1>3, <1>4, <2>1, RingDrops
<1>6. m.tx_index = (m.tx_head + Len(Tail(q))) % DescCount
  <2>1. Len(q) - 1 \in 0..(DescCount - 1) /\ (Len(q) - 1) + 1 = Len(q)
    BY <1>2, <1>5
  <2>2. (((n.tx_head + 1) % DescCount) + (Len(q) - 1)) % DescCount = (n.tx_head + Len(q)) % DescCount
    BY <1>2, <2>1, NextIsNearer
  <2> QED
    BY <1>1, <1>4, <1>5, <2>2 DEF After
<1>7. \A k \in 1..Len(Tail(q)) : Tail(q)[k] # None
  <2>1. PICK S : q \in Seq(S)
    BY <1>1 DEF RingHolds, IsSeq
  <2>2. \A k \in 1..Len(Tail(q)) : k + 1 \in 1..Len(q) /\ Tail(q)[k] = q[k + 1]
    BY <1>2, <1>3, <1>5, <2>1, HeadTailProperties
  <2> QED
    BY <1>1, <2>2
<1>8. RxOK(m, w)
  BY <1>1, <1>4 DEF RxOK, RxHolds
<1> QED
  BY <1>4, <1>5, <1>6, <1>7, <1>8 DEF NicOK, TxOK, After, m

\* A frame that arrives is the last to be read; the card has a descriptor for it.
LEMMA Receives ==
    ASSUME NEW n, NEW w, NEW q, NicOK(n, w, q), n.rx_head # n.rx_tail, FramesOK(w), NEW f \in w
    PROVE  NicOK([n EXCEPT !.rx[n.rx_head] = f, !.rx_head = After(n.rx_head)], w, q)
<1> DEFINE m == [n EXCEPT !.rx[n.rx_head] = f, !.rx_head = After(n.rx_head)]
<1>1. PICK r : RxHolds(n, w, r)
  BY DEF NicOK, RxOK
<1>2. /\ NicFields(n) /\ TxOK(n, q) /\ RingHolds(n.rx, n.rx_index, DescCount, r, None)
      /\ Len(r) < DescCount
      /\ \A k \in 1..Len(r) : r[k] \in w
      /\ n.rx_head = (n.rx_index + Len(r)) % DescCount
      /\ n.rx_tail \in 0..(DescCount - 1) /\ n.rx_index = (n.rx_tail + 1) % DescCount
  BY <1>1 DEF NicOK, RxHolds, After, Desc
<1>3. /\ DescCount \in Nat \ {0} /\ n.rx_index \in 0..(DescCount - 1) /\ Len(r) \in 0..DescCount
  BY <1>2, NetAssumption DEF RingHolds
<1>4. Len(r) \in 0..(DescCount - 1)
  BY <1>2, <1>3
<1>5. Len(r) + 1 < DescCount
  <2> SUFFICES ASSUME ~(Len(r) + 1 < DescCount) PROVE FALSE
    OBVIOUS
  <2>1. Len(r) = DescCount - 1 /\ DescCount - 1 \in 0..(DescCount - 1)
        /\ (DescCount - 1) + 1 = DescCount
    BY <1>3, <1>4
  <2>2. (((n.rx_tail + 1) % DescCount) + (DescCount - 1)) % DescCount
           = (n.rx_tail + DescCount) % DescCount
    BY <1>2, <1>3, <2>1, NextIsNearer, ZenonT(30)
  <2>3. (n.rx_tail + DescCount) % DescCount = n.rx_tail
    <3>1. DescCount \in 0..DescCount /\ ~(n.rx_tail + DescCount < DescCount)
          /\ n.rx_tail + DescCount - DescCount = n.rx_tail
      BY <1>2, <1>3
    <3>2. n.rx_tail \in 0..(DescCount - 1) /\ DescCount \in Nat \ {0}
      BY <1>2, <1>3
    <3> QED
      BY <3>1, <3>2, PositionAfter
  <2> QED
    BY <1>2, <2>1, <2>2, <2>3
<1>6. /\ NicFields(m) /\ m.rx = [n.rx EXCEPT ![(n.rx_index + Len(r)) % DescCount] = f]
      /\ m.rx_head = (n.rx_head + 1) % DescCount /\ m.rx_tail = n.rx_tail
      /\ m.rx_index = n.rx_index /\ m.tx = n.tx
      /\ m.tx_head = n.tx_head /\ m.tx_index = n.tx_index
  <2> DEFINE i == n.rx_head
             x == After(n.rx_head)
  <2>1. m = [n EXCEPT !.rx[i] = f, !.rx_head = x]
    OBVIOUS
  <2> HIDE DEF m, i, x
  <2>2. NicFields(n)
    BY <1>2
  <2>3. /\ NicFields(m) /\ m.rx = [n.rx EXCEPT ![i] = f] /\ m.rx_head = x
        /\ m.rx_tail = n.rx_tail /\ m.rx_index = n.rx_index /\ m.tx = n.tx
        /\ m.tx_head = n.tx_head /\ m.tx_index = n.tx_index
    BY <2>1, <2>2 DEF NicFields
  <2> QED
    BY <1>2, <2>3 DEF After, i, x
<1> HIDE DEF m
<1>7. RingHolds(m.rx, m.rx_index, DescCount, Append(r, f), None) /\ Len(Append(r, f)) = Len(r) + 1
  <2>1. RingHolds(n.rx, n.rx_index, DescCount, r, None) /\ DescCount \in Nat \ {0} /\ Len(r) < DescCount
    BY <1>2, <1>3
  <2> QED
    BY <1>6, <2>1, RingAdds
<1>8. m.rx_head = (m.rx_index + (Len(r) + 1)) % DescCount
  <2>1. (((n.rx_index + Len(r)) % DescCount) + 1) % DescCount
           = (n.rx_index + (Len(r) + 1)) % DescCount
    BY <1>3, <1>4, NextIsNearer
  <2> QED
    BY <1>2, <1>6, <2>1
<1>9. \A k \in 1..Len(Append(r, f)) : Append(r, f)[k] \in w
  <2>1. PICK S : r \in Seq(S)
    BY <1>2 DEF RingHolds, IsSeq
  <2>2. r \in Seq(S \cup {f})
    BY <2>1, SeqMonotonic
  <2> QED
    BY <1>2, <1>3, <2>2, AppendProperties
<1>10. RxHolds(m, w, Append(r, f))
  BY <1>2, <1>5, <1>6, <1>7, <1>8, <1>9 DEF RxHolds, After, Desc
<1>11. TxOK(m, q)
  BY <1>2, <1>6 DEF TxOK
<1> QED
  BY <1>6, <1>10, <1>11 DEF NicOK, RxOK, m

\* The frame to be read is one from the wire, and the descriptor of a frame that was
\* read is the card's again.
LEMMA GivesBack ==
    ASSUME NEW n, NEW w, NEW q, NicOK(n, w, q), n.rx[n.rx_index] # None
    PROVE  n.rx[n.rx_index] \in w /\ NicOK(Returned(n), w, q)
<1> DEFINE m == Returned(n)
           i == n.rx_index
<1>1. PICK r : RxHolds(n, w, r)
  BY DEF NicOK, RxOK
<1>2. /\ NicFields(n) /\ TxOK(n, q) /\ RingHolds(n.rx, i, DescCount, r, None)
      /\ Len(r) < DescCount
      /\ \A k \in 1..Len(r) : r[k] \in w
      /\ n.rx_head = (i + Len(r)) % DescCount
  BY <1>1 DEF NicOK, RxHolds
<1>3. DescCount \in Nat \ {0} /\ i \in 0..(DescCount - 1) /\ Len(r) \in 0..DescCount
  BY <1>2, NetAssumption DEF RingHolds
<1>4. /\ NicFields(m) /\ m.rx = [n.rx EXCEPT ![i] = None]
      /\ m.rx_head = n.rx_head /\ m.rx_tail = i
      /\ m.rx_index = (i + 1) % DescCount /\ m.tx = n.tx
      /\ m.tx_head = n.tx_head /\ m.tx_index = n.tx_index
  <2> DEFINE x == After(i)
  <2>1. m = [n EXCEPT !.rx[i] = None, !.rx_tail = i, !.rx_index = x]
    BY DEF Returned
  <2> HIDE DEF m, i, x
  <2>2. NicFields(n)
    BY <1>2
  <2>3. /\ NicFields(m) /\ m.rx = [n.rx EXCEPT ![i] = None] /\ m.rx_head = n.rx_head
        /\ m.rx_tail = i /\ m.rx_index = x /\ m.tx = n.tx
        /\ m.tx_head = n.tx_head /\ m.tx_index = n.tx_index
    BY <2>1, <2>2 DEF NicFields
  <2>4. x = (i + 1) % DescCount
    BY DEF x, After
  <2> QED
    BY <2>3, <2>4
<1>5. n.rx[i] # None
  OBVIOUS
<1> HIDE DEF m, i
<1>6. (i + 0) % DescCount = i /\ 0 \in 0..(DescCount - 1) /\ 0 + 1 = 1
  BY <1>3
<1>7. n.rx[i] = IF 0 < Len(r) THEN r[0 + 1] ELSE None
  BY <1>2, <1>6 DEF RingHolds
<1>8. 0 < Len(r) /\ n.rx[i] = r[1] /\ 1 \in 1..Len(r)
  BY <1>3, <1>5, <1>6, <1>7
<1>9. r # <<>>
  <2>1. Len(<<>>) = 0
    OBVIOUS
  <2> QED
    BY <1>8, <2>1
<1>10. RingHolds(m.rx, m.rx_index, DescCount, Tail(r), None) /\ Len(Tail(r)) = Len(r) - 1
  <2>1. RingHolds(n.rx, i, DescCount, r, None) /\ DescCount \in Nat \ {0}
    BY <1>2, <1>3
  <2> QED
    BY <1>4, <1>9, <2>1, RingDrops
<1>11. m.rx_head = (m.rx_index + Len(Tail(r))) % DescCount
  <2>1. Len(r) - 1 \in 0..(DescCount - 1) /\ (Len(r) - 1) + 1 = Len(r)
    BY <1>3, <1>8
  <2>2. (((i + 1) % DescCount) + (Len(r) - 1)) % DescCount = (i + Len(r)) % DescCount
    BY <1>3, <2>1, NextIsNearer
  <2> QED
    BY <1>2, <1>4, <1>10, <2>2
<1>12. \A k \in 1..Len(Tail(r)) : Tail(r)[k] \in w
  <2>1. PICK S : r \in Seq(S)
    BY <1>2 DEF RingHolds, IsSeq
  <2>2. \A k \in 1..Len(Tail(r)) : k + 1 \in 1..Len(r) /\ Tail(r)[k] = r[k + 1]
    BY <1>3, <1>9, <1>10, <2>1, HeadTailProperties
  <2> QED
    BY <1>2, <2>2
<1>13. Len(Tail(r)) < DescCount
  BY <1>2, <1>3, <1>10
<1>14. RxHolds(m, w, Tail(r))
  BY <1>3, <1>4, <1>10, <1>11, <1>12, <1>13 DEF RxHolds, After, Desc
<1>15. TxOK(m, q)
  BY <1>2, <1>4 DEF TxOK
<1> QED
  BY <1>2, <1>4, <1>8, <1>14, <1>15 DEF NicOK, RxOK, m, i

-----------------------------------------------------------------------------
(* The UDP queue                                                            *)

\* What the invariant says of the queue, in pieces.
LEMMA UdpFacts ==
    ASSUME NEW u, NEW q, UdpOK(u, q)
    PROVE  /\ QueueCap \in Nat \ {0} /\ u.head \in 0..(QueueCap - 1) /\ Len(q) \in 0..QueueCap
           /\ RingHolds(u.slot, u.head, QueueCap, q, None) /\ u.count = Len(q)
           /\ u.tail = (u.head + Len(q)) % QueueCap
           /\ u = [slot |-> u.slot, head |-> u.head, tail |-> u.tail, count |-> u.count]
<1>1. RingHolds(u.slot, u.head, QueueCap, q, None)
  BY DEF UdpOK
<1> QED
  BY <1>1, NetAssumption DEF UdpOK, RingHolds

\* clks_net_udp_recv: the datagram read is the oldest, and the queue holds the others.
LEMMA UdpPops ==
    ASSUME NEW u, NEW q, UdpOK(u, q), u.count # 0,
           NEW m, m = [u EXCEPT !.slot[u.head] = None, !.head = (u.head + 1) % QueueCap,
                                !.count = u.count - 1]
    PROVE  UdpOK(m, Tail(q))
<1> DEFINE h == u.head
           x == (u.head + 1) % QueueCap
           y == u.count - 1
<1>1. /\ QueueCap \in Nat \ {0} /\ h \in 0..(QueueCap - 1) /\ Len(q) \in 0..QueueCap
      /\ RingHolds(u.slot, h, QueueCap, q, None) /\ u.count = Len(q)
      /\ u.tail = (h + Len(q)) % QueueCap
      /\ u = [slot |-> u.slot, head |-> u.head, tail |-> u.tail, count |-> u.count]
  BY UdpFacts
<1>2. q # <<>>
  <2>1. Len(<<>>) = 0
    OBVIOUS
  <2> QED
    BY <1>1, <2>1
<1>3. m = [u EXCEPT !.slot[h] = None, !.head = x, !.count = y]
  OBVIOUS
<1>4. RingHolds([u.slot EXCEPT ![h] = None], (h + 1) % QueueCap, QueueCap, Tail(q), None)
      /\ Len(q) > 0 /\ Len(Tail(q)) = Len(q) - 1
  <2>1. RingHolds(u.slot, h, QueueCap, q, None) /\ QueueCap \in Nat \ {0}
    BY <1>1
  <2> HIDE DEF h
  <2> QED
    BY <1>2, <2>1, RingDrops
<1>5. x = (h + 1) % QueueCap /\ y = Len(q) - 1
  BY <1>1
<1>6. ((((h + 1) % QueueCap) + (Len(q) - 1)) % QueueCap) = (h + Len(q)) % QueueCap
  <2> DEFINE k == Len(q) - 1
  <2> HIDE DEF h
  <2>1. k \in 0..(QueueCap - 1) /\ k + 1 = Len(q)
    BY <1>1, <1>4
  <2>2. QueueCap \in Nat \ {0} /\ h \in 0..(QueueCap - 1)
    BY <1>1
  <2> HIDE DEF k
  <2>3. (((h + 1) % QueueCap) + k) % QueueCap = (h + (k + 1)) % QueueCap
    BY <2>1, <2>2, NextIsNearer
  <2> QED
    BY <2>1, <2>3 DEF k
<1> HIDE DEF h, x, y
<1>7. /\ m.slot = [u.slot EXCEPT ![h] = None] /\ m.head = x /\ m.tail = u.tail /\ m.count = y
      /\ m = [slot |-> m.slot, head |-> m.head, tail |-> m.tail, count |-> m.count]
  BY <1>1, <1>3
<1>8. m.tail = (m.head + Len(Tail(q))) % QueueCap
  BY <1>1, <1>4, <1>5, <1>6, <1>7
<1> QED
  BY <1>4, <1>5, <1>7, <1>8 DEF UdpOK

\* A full queue gives up the datagram at its front, where the new one is stored.
LEMMA UdpPushes ==
    ASSUME NEW u, NEW q, UdpOK(u, q), NEW d
    PROVE  UdpOK(udp_queue_push(u, d),
                 IF Len(q) = QueueCap THEN Append(Tail(q), d) ELSE Append(q, d))
<1> DEFINE r == MadeRoom(u)
           m == udp_queue_push(u, d)
           p == IF Len(q) = QueueCap THEN Tail(q) ELSE q
           s == IF Len(q) = QueueCap THEN [u.slot EXCEPT ![u.head] = None] ELSE u.slot
<1>1. /\ QueueCap \in Nat \ {0} /\ u.head \in 0..(QueueCap - 1) /\ Len(q) \in 0..QueueCap
      /\ RingHolds(u.slot, u.head, QueueCap, q, None) /\ u.count = Len(q)
      /\ u.tail = (u.head + Len(q)) % QueueCap
      /\ u = [slot |-> u.slot, head |-> u.head, tail |-> u.tail, count |-> u.count]
  BY UdpFacts
<1>2. /\ r = [slot |-> r.slot, head |-> r.head, tail |-> r.tail, count |-> r.count]
      /\ r.slot = u.slot /\ r.tail = u.tail /\ r.count = Len(p) /\ Len(p) < QueueCap
      /\ RingHolds(s, r.head, QueueCap, p, None)
      /\ [s EXCEPT ![r.tail] = d] = [r.slot EXCEPT ![r.tail] = d]
      /\ r.tail = (r.head + Len(p)) % QueueCap
  <2>1. CASE Len(q) = QueueCap
    <3>1. p = Tail(q) /\ s = [u.slot EXCEPT ![u.head] = None] /\ u.count >= QueueCap
      BY <1>1, <2>1
    <3>2. r = [u EXCEPT !.head = (u.head + 1) % QueueCap, !.count = u.count - 1]
      BY <3>1 DEF MadeRoom
    <3> HIDE DEF r, p, s
    <3>3. /\ r.slot = u.slot /\ r.tail = u.tail /\ r.head = (u.head + 1) % QueueCap
          /\ r.count = u.count - 1
          /\ r = [slot |-> r.slot, head |-> r.head, tail |-> r.tail, count |-> r.count]
      BY <1>1, <3>2
    <3>4. q # <<>>
      <4>1. Len(<<>>) = 0
        OBVIOUS
      <4> QED
        BY <1>1, <2>1, <4>1
    <3>5. RingHolds([u.slot EXCEPT ![u.head] = None], (u.head + 1) % QueueCap, QueueCap, Tail(q), None)
          /\ Len(q) > 0 /\ Len(Tail(q)) = Len(q) - 1
      <4>1. RingHolds(u.slot, u.head, QueueCap, q, None) /\ QueueCap \in Nat \ {0}
        BY <1>1
      <4> QED
        BY <3>4, <4>1, RingDrops
    <3>6. ((((u.head + 1) % QueueCap) + (Len(q) - 1)) % QueueCap) = (u.head + Len(q)) % QueueCap
      <4> DEFINE k == Len(q) - 1
                 h == u.head
      <4>1. k \in 0..(QueueCap - 1) /\ k + 1 = Len(q)
        BY <1>1, <3>5
      <4>2. QueueCap \in Nat \ {0} /\ h \in 0..(QueueCap - 1)
        BY <1>1
      <4> HIDE DEF k, h
      <4>3. (((h + 1) % QueueCap) + k) % QueueCap = (h + (k + 1)) % QueueCap
        BY <4>1, <4>2, NextIsNearer
      <4> QED
        BY <4>1, <4>3 DEF k, h
    <3>7. r.tail = u.head
      <4>1. QueueCap \in 0..QueueCap /\ ~(u.head + QueueCap < QueueCap)
            /\ u.head + QueueCap - QueueCap = u.head
        BY <1>1
      <4>2. (u.head + QueueCap) % QueueCap = u.head
        BY <1>1, <4>1, PositionAfter
      <4> QED
        BY <1>1, <2>1, <3>3, <4>2
    <3>8. [[u.slot EXCEPT ![u.head] = None] EXCEPT ![u.head] = d] = [u.slot EXCEPT ![u.head] = d]
      <4>1. u.slot = [i \in 0..(QueueCap - 1) |-> u.slot[i]]
        BY <1>1 DEF RingHolds
      <4> QED
        BY <1>1, <4>1
    <3>9. Len(p) < QueueCap
      BY <1>1, <3>1, <3>5
    <3> QED
      BY <1>1, <3>1, <3>3, <3>5, <3>6, <3>7, <3>8, <3>9
  <2>2. CASE Len(q) # QueueCap
    <3>1. p = q /\ s = u.slot /\ ~(u.count >= QueueCap) /\ Len(p) < QueueCap
      BY <1>1, <2>2
    <3>2. r = u
      BY <3>1 DEF MadeRoom
    <3> HIDE DEF r, p, s
    <3> QED
      BY <1>1, <3>1, <3>2
  <2> QED
    BY <2>1, <2>2
<1>3. m = [r EXCEPT !.slot[r.tail] = d, !.tail = (r.tail + 1) % QueueCap, !.count = r.count + 1]
  BY DEF udp_queue_push
<1>4. Append(p, d) = IF Len(q) = QueueCap THEN Append(Tail(q), d) ELSE Append(q, d)
  OBVIOUS
<1> HIDE DEF r, p, s, m
<1>5. RingHolds([r.slot EXCEPT ![r.tail] = d], r.head, QueueCap, Append(p, d), None)
      /\ Len(Append(p, d)) = Len(p) + 1
  <2>1. RingHolds(s, r.head, QueueCap, p, None) /\ QueueCap \in Nat \ {0} /\ Len(p) < QueueCap
    BY <1>1, <1>2
  <2>2. RingHolds([s EXCEPT ![(r.head + Len(p)) % QueueCap] = d], r.head, QueueCap, Append(p, d), None)
        /\ Len(Append(p, d)) = Len(p) + 1
    BY <2>1, RingAdds
  <2> QED
    BY <1>2, <2>2
<1>6. (r.tail + 1) % QueueCap = (r.head + (Len(p) + 1)) % QueueCap
  <2>1. r.head \in 0..(QueueCap - 1) /\ Len(p) \in 0..QueueCap /\ Len(p) < QueueCap
    BY <1>2 DEF RingHolds
  <2>2. Len(p) \in 0..(QueueCap - 1)
    BY <1>1, <2>1
  <2>3. (((r.head + Len(p)) % QueueCap) + 1) % QueueCap = (r.head + (Len(p) + 1)) % QueueCap
    BY <1>1, <2>1, <2>2, NextIsNearer
  <2> QED
    BY <1>2, <2>3
<1>7. /\ m.slot = [r.slot EXCEPT ![r.tail] = d] /\ m.head = r.head
      /\ m.tail = (r.tail + 1) % QueueCap /\ m.count = r.count + 1
      /\ m = [slot |-> m.slot, head |-> m.head, tail |-> m.tail, count |-> m.count]
  <2> DEFINE i == r.tail
             x == (r.tail + 1) % QueueCap
             y == r.count + 1
  <2>1. m = [r EXCEPT !.slot[i] = d, !.tail = x, !.count = y]
    BY <1>3
  <2>2. r = [slot |-> r.slot, head |-> r.head, tail |-> r.tail, count |-> r.count]
    BY <1>2
  <2> HIDE DEF i, x, y
  <2>3. /\ m.slot = [r.slot EXCEPT ![i] = d] /\ m.head = r.head /\ m.tail = x /\ m.count = y
        /\ m = [slot |-> m.slot, head |-> m.head, tail |-> m.tail, count |-> m.count]
    BY <2>1, <2>2
  <2> QED
    BY <2>3 DEF i, x, y
<1>8. UdpOK(m, Append(p, d))
  BY <1>2, <1>5, <1>6, <1>7 DEF UdpOK
<1> QED
  BY <1>4, <1>8 DEF m

-----------------------------------------------------------------------------
(* The ARP table                                                            *)

\* The elements that are numbered from 1 to n are n.
LEMMA Numbered ==
    ASSUME NEW n \in Nat, NEW S, NEW f \in [1..n -> S],
           \A j, k \in 1..n : j # k => f[j] # f[k],
           \A s \in S : \E k \in 1..n : f[k] = s
    PROVE  Cardinality(S) = n
<1>1. f \in Bijection(1..n, S)
  BY Fun_IsBij
<1>2. ExistsBijection(1..n, S)
  BY <1>1, Fun_ExistsBij
<1> QED
  BY <1>2, FS_CountingElements

\* The table when entry i becomes that of an address just heard.
Written(a, i, ip, mac) ==
    [table |-> [a.table EXCEPT ![i] = [ip |-> ip, mac |-> mac, stamp |-> a.stamp]],
     stamp |-> a.stamp + 1]

\* The addresses of g but the last are those of the entries Q of the table a.
Youngest(a, g, Q, ip, mac) ==
    /\ Len(g) \in 1..ArpCap /\ Q \in [1..Len(g) -> 1..ArpCap]
    /\ g[Len(g)] = <<ip, mac>>
    /\ \A k \in 1..(Len(g) - 1) : /\ g[k] = <<a.table[Q[k]].ip, a.table[Q[k]].mac>>
                                  /\ a.table[Q[k]].ip # 0 /\ a.table[Q[k]].ip # ip
                                  /\ Q[k] # Q[Len(g)]
    /\ \A j, k \in 1..(Len(g) - 1) : j < k => a.table[Q[j]].stamp < a.table[Q[k]].stamp
    /\ \A j, k \in 1..(Len(g) - 1) : j # k => a.table[Q[j]].ip # a.table[Q[k]].ip
    /\ \A i \in 1..ArpCap : a.table[i].ip # 0 => \E k \in 1..Len(g) : Q[k] = i

\* The entry Q[Len(g)] is written with the youngest stamp: it becomes the last of the
\* entries at the places Q, the others keep their order.
LEMMA ArpWrites ==
    ASSUME NEW a, NEW h, ArpFields(a, h), NEW g, IsSeq(g), NEW Q, NEW ip, ip # 0, NEW mac,
           Youngest(a, g, Q, ip, mac)
    PROVE  ArpOK(Written(a, Q[Len(g)], ip, mac), g)
<1> DEFINE n == Len(g)
           T == a.table
           b == Written(a, Q[Len(g)], ip, mac)
           U == b.table
<1>0. /\ n \in 1..ArpCap /\ Q \in [1..n -> 1..ArpCap] /\ g[n] = <<ip, mac>>
      /\ \A k \in 1..(n - 1) : /\ g[k] = <<T[Q[k]].ip, T[Q[k]].mac>>
                               /\ T[Q[k]].ip # 0 /\ T[Q[k]].ip # ip /\ Q[k] # Q[n]
      /\ \A j, k \in 1..(n - 1) : j < k => T[Q[j]].stamp < T[Q[k]].stamp
      /\ \A j, k \in 1..(n - 1) : j # k => T[Q[j]].ip # T[Q[k]].ip
      /\ \A i \in 1..ArpCap : T[i].ip # 0 => \E k \in 1..n : Q[k] = i
  BY DEF Youngest
<1>1. /\ n \in Nat \ {0} /\ n \in 1..n /\ Q[n] \in 1..ArpCap /\ a.stamp \in Nat
      /\ n \in 0..ArpCap
  <2>1. ArpCap \in Nat /\ n \in 1..ArpCap
    BY <1>0, NetAssumption
  <2>2. n \in Nat \ {0} /\ n \in 1..n /\ n \in 0..ArpCap
    BY <2>1
  <2> QED
    BY <1>0, <2>2 DEF ArpFields
<1>2. /\ T = [i \in 1..ArpCap |-> T[i]]
      /\ \A i \in 1..ArpCap : T[i].stamp \in Nat /\ T[i].stamp < a.stamp
  BY DEF ArpFields
<1>3. /\ U = [i \in 1..ArpCap |-> U[i]]
      /\ U[Q[n]] = [ip |-> ip, mac |-> mac, stamp |-> a.stamp]
      /\ \A i \in 1..ArpCap : i # Q[n] => U[i] = T[i]
      /\ b.stamp = a.stamp + 1 /\ b = [table |-> U, stamp |-> b.stamp]
  BY <1>1, <1>2 DEF Written
<1> HIDE DEF b
<1>4. U[Q[n]].ip = ip /\ U[Q[n]].mac = mac /\ U[Q[n]].stamp = a.stamp
  BY <1>3
<1>5. ArpFields(b, g)
  <2>1. ASSUME NEW i \in 1..ArpCap PROVE U[i].stamp \in Nat /\ U[i].stamp < b.stamp
    <3>1. CASE i = Q[n]
      BY <1>1, <1>3, <1>4, <3>1
    <3>2. CASE i # Q[n]
      <4>1. U[i].stamp = T[i].stamp /\ T[i].stamp \in Nat /\ T[i].stamp < a.stamp
        BY <1>2, <1>3, <3>2
      <4> QED
        BY <1>1, <1>3, <4>1
    <3> QED
      BY <3>1, <3>2
  <2>2. b.stamp \in Nat
    BY <1>1, <1>3
  <2> QED
    BY <1>1, <1>3, <2>1, <2>2 DEF ArpFields
<1>6. ASSUME NEW k \in 1..n, k # n
      PROVE  k \in 1..(n - 1) /\ Q[k] \in 1..ArpCap /\ U[Q[k]] = T[Q[k]]
  <2>1. k \in 1..(n - 1)
    BY <1>1, <1>6
  <2> QED
    BY <1>0, <1>3, <2>1
<1>7. ASSUME NEW k \in 1..n
      PROVE  g[k] = <<U[Q[k]].ip, U[Q[k]].mac>> /\ U[Q[k]].ip # 0
  <2>1. CASE k = n
    BY <1>0, <1>4, <2>1
  <2>2. CASE k # n
    BY <1>0, <1>6, <2>2
  <2> QED
    BY <2>1, <2>2
<1>8. ASSUME NEW j \in 1..n, NEW k \in 1..n, j < k PROVE U[Q[j]].stamp < U[Q[k]].stamp
  <2>1. j # n /\ j \in 1..(n - 1) /\ U[Q[j]] = T[Q[j]] /\ Q[j] \in 1..ArpCap
    BY <1>1, <1>6, <1>8
  <2>2. CASE k = n
    BY <1>2, <1>4, <2>1, <2>2
  <2>3. CASE k # n
    <3>1. k \in 1..(n - 1) /\ U[Q[k]] = T[Q[k]]
      BY <1>6, <2>3
    <3> QED
      BY <1>0, <1>8, <2>1, <3>1
  <2> QED
    BY <2>2, <2>3
<1>9. ASSUME NEW j \in 1..n, NEW k \in 1..n, j # k PROVE U[Q[j]].ip # U[Q[k]].ip
  <2>1. CASE k = n
    BY <1>0, <1>4, <1>6, <1>9, <2>1
  <2>2. CASE j = n
    BY <1>0, <1>4, <1>6, <1>9, <2>2
  <2>3. CASE j # n /\ k # n
    <3>1. j \in 1..(n - 1) /\ U[Q[j]] = T[Q[j]] /\ k \in 1..(n - 1) /\ U[Q[k]] = T[Q[k]]
      BY <1>6, <2>3
    <3> QED
      BY <1>0, <1>9, <3>1
  <2> QED
    BY <2>1, <2>2, <2>3
<1>10. ASSUME NEW i \in 1..ArpCap, U[i].ip # 0 PROVE \E k \in 1..n : Q[k] = i
  <2>1. CASE i = Q[n]
    BY <1>1, <2>1
  <2>2. CASE i # Q[n]
    BY <1>0, <1>3, <1>10, <2>2
  <2> QED
    BY <2>1, <2>2
<1>11. ArpAt(b, g, Q)
  BY <1>7, <1>8, <1>9, <1>10 DEF ArpAt
<1> QED
  BY <1>0, <1>5, <1>11 DEF ArpOK, b


\* The sequence g is h without the element c and with v added.
Replaces(h, c, v, g) ==
    /\ IsSeq(g) /\ Len(g) = Len(h) /\ g[Len(h)] = v
    /\ \A k \in 1..(Len(h) - 1) : g[k] = IF k < c THEN h[k] ELSE h[k + 1]

\* The entry of the address h[c] becomes that of the address ip, the last in g.
LEMMA ArpReplaces ==
    ASSUME NEW a, NEW h, ArpFields(a, h), NEW P \in [1..Len(h) -> 1..ArpCap], ArpAt(a, h, P),
           NEW c \in 1..Len(h), NEW ip, ip # 0, NEW mac,
           \A j \in 1..Len(h) : j # c => a.table[P[j]].ip # ip,
           NEW g, Replaces(h, c, <<ip, mac>>, g)
    PROVE  ArpOK(Written(a, P[c], ip, mac), g)
<1> DEFINE n == Len(h)
           T == a.table
           o == [k \in 1..n |-> IF k = n THEN c ELSE IF k < c THEN k ELSE k + 1]
           Q == [k \in 1..n |-> P[o[k]]]
<1>0. /\ IsSeq(g) /\ Len(g) = n /\ g[n] = <<ip, mac>>
      /\ \A k \in 1..(n - 1) : g[k] = IF k < c THEN h[k] ELSE h[k + 1]
  BY DEF Replaces
<1>1. n \in Nat \ {0} /\ n \in 1..n /\ n \in 1..ArpCap /\ c \in 1..n
  <2>1. n \in 0..ArpCap /\ c \in 1..n /\ ArpCap \in Nat
    BY NetAssumption DEF ArpFields
  <2> QED
    BY <2>1
<1>2. /\ o \in [1..n -> 1..n] /\ o[n] = c
      /\ \A k \in 1..(n - 1) : k \in 1..n /\ o[k] = (IF k < c THEN k ELSE k + 1) /\ o[k] # c
  BY <1>1
<1>3. ASSUME NEW j \in 1..n PROVE \E k \in 1..n : o[k] = j
  <2>1. CASE j = c
    BY <1>1, <1>2, <2>1
  <2>2. CASE j < c
    <3>1. j \in 1..(n - 1)
      BY <1>1, <2>2
    <3> QED
      BY <1>2, <2>2, <3>1
  <2>3. CASE j > c
    <3>1. j - 1 \in 1..(n - 1) /\ ~(j - 1 < c) /\ (j - 1) + 1 = j
      BY <1>1, <2>3
    <3> QED
      BY <1>2, <3>1
  <2> QED
    BY <1>1, <2>1, <2>2, <2>3
<1>4. ASSUME NEW j \in 1..(n - 1), NEW k \in 1..(n - 1) PROVE (j < k => o[j] < o[k]) /\ (j # k => o[j] # o[k])
  BY <1>1, <1>2
<1> HIDE DEF o
<1>5. /\ Q \in [1..n -> 1..ArpCap]
      /\ \A k \in 1..n : Q[k] = P[o[k]]
  BY <1>2
<1> HIDE DEF Q
<1>6. /\ \A k \in 1..n : h[k] = <<T[P[k]].ip, T[P[k]].mac>> /\ T[P[k]].ip # 0
      /\ \A j, k \in 1..n : j < k => T[P[j]].stamp < T[P[k]].stamp
      /\ \A j, k \in 1..n : j # k => T[P[j]].ip # T[P[k]].ip
      /\ \A i \in 1..ArpCap : T[i].ip # 0 => \E k \in 1..n : P[k] = i
  BY DEF ArpAt
<1>7. Q[n] = P[c]
  BY <1>1, <1>2, <1>5
<1>8. ASSUME NEW k \in 1..(n - 1)
      PROVE  /\ g[k] = <<T[Q[k]].ip, T[Q[k]].mac>> /\ T[Q[k]].ip # 0 /\ T[Q[k]].ip # ip
             /\ Q[k] # Q[n]
  <2>1. k \in 1..n /\ o[k] \in 1..n /\ o[k] # c /\ Q[k] = P[o[k]]
    BY <1>2, <1>5
  <2>2. g[k] = h[o[k]]
    BY <1>0, <1>2
  <2>3. T[P[o[k]]].ip # T[P[c]].ip
    BY <1>1, <1>6, <2>1
  <2> QED
    BY <1>6, <1>7, <2>1, <2>2, <2>3
<1>9. ASSUME NEW j \in 1..(n - 1), NEW k \in 1..(n - 1)
      PROVE  /\ j < k => T[Q[j]].stamp < T[Q[k]].stamp
             /\ j # k => T[Q[j]].ip # T[Q[k]].ip
  <2>1. /\ j \in 1..n /\ o[j] \in 1..n /\ Q[j] = P[o[j]]
        /\ k \in 1..n /\ o[k] \in 1..n /\ Q[k] = P[o[k]]
    BY <1>2, <1>5
  <2>2. /\ j < k => o[j] < o[k]
        /\ j # k => o[j] # o[k]
    BY <1>4
  <2>3. /\ j < k => T[P[o[j]]].stamp < T[P[o[k]]].stamp
        /\ j # k => T[P[o[j]]].ip # T[P[o[k]]].ip
    BY <1>6, <2>1, <2>2
  <2> QED
    BY <2>1, <2>3
<1>10. ASSUME NEW i \in 1..ArpCap, T[i].ip # 0 PROVE \E k \in 1..n : Q[k] = i
  <2>1. PICK j \in 1..n : P[j] = i
    BY <1>6, <1>10
  <2>2. PICK k \in 1..n : o[k] = j
    BY <1>3
  <2> QED
    BY <1>5, <2>1, <2>2
<1>11. /\ Len(g) = n /\ Len(g) \in 1..ArpCap /\ Q \in [1..Len(g) -> 1..ArpCap]
       /\ g[Len(g)] = <<ip, mac>>
  BY <1>0, <1>1, <1>5, <1>7
<1> HIDE DEF n
<1>12. \A k \in 1..(Len(g) - 1) : /\ g[k] = <<a.table[Q[k]].ip, a.table[Q[k]].mac>>
                                   /\ a.table[Q[k]].ip # 0 /\ a.table[Q[k]].ip # ip
                                   /\ Q[k] # Q[Len(g)]
  BY <1>8, <1>11
<1>13. \A j, k \in 1..(Len(g) - 1) : j < k => a.table[Q[j]].stamp < a.table[Q[k]].stamp
  BY <1>9, <1>11
<1>14. \A j, k \in 1..(Len(g) - 1) : j # k => a.table[Q[j]].ip # a.table[Q[k]].ip
  BY <1>9, <1>11
<1>15. \A i \in 1..ArpCap : a.table[i].ip # 0 => \E k \in 1..Len(g) : Q[k] = i
  BY <1>10, <1>11
<1>16. Youngest(a, g, Q, ip, mac)
  BY <1>11, <1>12, <1>13, <1>14, <1>15 DEF Youngest
<1>17. ArpOK(Written(a, Q[Len(g)], ip, mac), g)
  BY <1>0, <1>16, ArpWrites
<1> QED
  BY <1>7, <1>11, <1>17


\* An address that is new takes a free entry: it is the last.
LEMMA ArpAdds ==
    ASSUME NEW a, NEW h, ArpFields(a, h), NEW P \in [1..Len(h) -> 1..ArpCap], ArpAt(a, h, P),
           Len(h) < ArpCap, NEW i \in 1..ArpCap, a.table[i].ip = 0, NEW ip, ip # 0, NEW mac,
           \A j \in 1..ArpCap : a.table[j].ip # ip
    PROVE  ArpOK(Written(a, i, ip, mac), Append(h, <<ip, mac>>))
<1> DEFINE n == Len(h)
           T == a.table
           g == Append(h, <<ip, mac>>)
           Q == [k \in 1..(n + 1) |-> IF k = n + 1 THEN i ELSE P[k]]
<1>1. n \in Nat /\ n + 1 \in 1..ArpCap /\ n + 1 \in 1..(n + 1) /\ 1..((n + 1) - 1) = 1..n
  <2>1. n \in 0..ArpCap /\ n < ArpCap /\ ArpCap \in Nat
    BY NetAssumption DEF ArpFields
  <2> QED
    BY <2>1
<1>2. /\ IsSeq(g) /\ Len(g) = n + 1 /\ g[n + 1] = <<ip, mac>>
      /\ \A k \in 1..n : g[k] = h[k]
  <2>1. PICK S : h \in Seq(S)
    BY DEF ArpFields, IsSeq
  <2>2. h \in Seq(S \cup {<<ip, mac>>})
    BY <2>1, SeqMonotonic
  <2> QED
    BY <2>2, AppendProperties DEF IsSeq
<1>3. /\ Q \in [1..(n + 1) -> 1..ArpCap] /\ Q[n + 1] = i
      /\ \A k \in 1..n : k \in 1..(n + 1) /\ Q[k] = P[k] /\ P[k] \in 1..ArpCap
  BY <1>1
<1> HIDE DEF g, Q
<1>4. /\ \A k \in 1..n : h[k] = <<T[P[k]].ip, T[P[k]].mac>> /\ T[P[k]].ip # 0
      /\ \A j, k \in 1..n : j < k => T[P[j]].stamp < T[P[k]].stamp
      /\ \A j, k \in 1..n : j # k => T[P[j]].ip # T[P[k]].ip
      /\ \A m \in 1..ArpCap : T[m].ip # 0 => \E k \in 1..n : P[k] = m
  BY DEF ArpAt
<1> HIDE DEF n
<1>5. ASSUME NEW k \in 1..n
      PROVE  /\ g[k] = <<T[Q[k]].ip, T[Q[k]].mac>> /\ T[Q[k]].ip # 0 /\ T[Q[k]].ip # ip
             /\ Q[k] # Q[n + 1]
  <2>1. g[k] = h[k] /\ Q[k] = P[k] /\ P[k] \in 1..ArpCap
    BY <1>2, <1>3
  <2>2. h[k] = <<T[P[k]].ip, T[P[k]].mac>> /\ T[P[k]].ip # 0
    BY <1>4
  <2>3. T[P[k]].ip # ip /\ P[k] # i
    BY <2>1, <2>2
  <2> QED
    BY <1>3, <2>1, <2>2, <2>3
<1>6. ASSUME NEW j \in 1..n, NEW k \in 1..n
      PROVE  /\ j < k => T[Q[j]].stamp < T[Q[k]].stamp
             /\ j # k => T[Q[j]].ip # T[Q[k]].ip
  <2>1. Q[j] = P[j] /\ Q[k] = P[k]
    BY <1>3
  <2>2. /\ j < k => T[P[j]].stamp < T[P[k]].stamp
        /\ j # k => T[P[j]].ip # T[P[k]].ip
    BY <1>4
  <2> QED
    BY <2>1, <2>2
<1>7. ASSUME NEW m \in 1..ArpCap, T[m].ip # 0 PROVE \E k \in 1..(n + 1) : Q[k] = m
  BY <1>3, <1>4, <1>7
<1>8. Youngest(a, g, Q, ip, mac)
  <2>1. Len(g) - 1 = n /\ 1..(Len(g) - 1) = 1..n
    BY <1>1, <1>2
  <2> QED
    BY <1>1, <1>2, <1>3, <1>5, <1>6, <1>7, <2>1 DEF Youngest
<1>9. ArpOK(Written(a, Q[Len(g)], ip, mac), g)
  BY <1>2, <1>8, ArpWrites
<1> QED
  BY <1>2, <1>3, <1>9 DEF g

\* What a sequence is whose element c is taken away and v added.
LEMMA Replaced ==
    ASSUME NEW h, IsSeq(h), NEW c \in 1..Len(h), NEW v
    PROVE  Replaces(h, c, v, Append(RemoveAt(h, c), v))
<1> DEFINE n == Len(h)
           x == SubSeq(h, 1, c - 1)
           y == SubSeq(h, c + 1, n)
           z == RemoveAt(h, c)
<1>1. PICK R : h \in Seq(R)
  BY DEF IsSeq
<1> DEFINE S == R \cup {v}
<1>2. h \in Seq(S) /\ v \in S
  BY <1>1, SeqMonotonic
<1>3. n \in Nat /\ c \in 1..n /\ \A k \in 1..n : h[k] \in S
  BY <1>2, LenProperties, ElementOfSeq
<1>4. /\ x \in Seq(S) /\ Len(x) = c - 1
      /\ \A k \in 1..(c - 1) : x[k] = h[k]
  <2>1. 1 \in Int /\ c - 1 \in Int /\ \A k \in 1..(c - 1) : h[k] \in S
    BY <1>3
  <2>2. /\ x \in Seq(S) /\ Len(x) = IF 1 <= c - 1 THEN (c - 1) - 1 + 1 ELSE 0
        /\ \A k \in 1..((c - 1) - 1 + 1) : x[k] = h[1 + k - 1]
    BY <2>1, SubSeqProperties
  <2> HIDE DEF x
  <2>3. Len(x) = c - 1 /\ (c - 1) - 1 + 1 = c - 1 /\ \A k \in 1..(c - 1) : 1 + k - 1 = k
    BY <1>3, <2>2
  <2> QED
    BY <2>2, <2>3
<1>5. /\ y \in Seq(S) /\ Len(y) = n - c
      /\ \A k \in 1..(n - c) : y[k] = h[c + k]
  <2>1. c + 1 \in Int /\ n \in Int /\ \A k \in (c + 1)..n : h[k] \in S
    BY <1>3
  <2>2. /\ y \in Seq(S) /\ Len(y) = IF c + 1 <= n THEN n - (c + 1) + 1 ELSE 0
        /\ \A k \in 1..(n - (c + 1) + 1) : y[k] = h[c + 1 + k - 1]
    BY <2>1, SubSeqProperties
  <2> HIDE DEF y
  <2>3. Len(y) = n - c /\ n - (c + 1) + 1 = n - c /\ \A k \in 1..(n - c) : c + 1 + k - 1 = c + k
    BY <1>3, <2>2
  <2> QED
    BY <2>2, <2>3
<1>6. z = x \o y
  BY DEF RemoveAt
<1> HIDE DEF x, y
<1>7. /\ z \in Seq(S) /\ Len(z) = (c - 1) + (n - c)
      /\ \A k \in 1..((c - 1) + (n - c)) : z[k] = IF k <= c - 1 THEN x[k] ELSE y[k - (c - 1)]
  <2> HIDE DEF S
  <2>1. x \in Seq(S) /\ y \in Seq(S)
    BY <1>4, <1>5
  <2>2. /\ (x \o y) \in Seq(S) /\ Len(x \o y) = Len(x) + Len(y)
        /\ \A k \in 1..(Len(x) + Len(y)) :
              (x \o y)[k] = IF k <= Len(x) THEN x[k] ELSE y[k - Len(x)]
    BY <2>1, ConcatProperties
  <2>3. Len(x) = c - 1 /\ Len(y) = n - c
    BY <1>4, <1>5
  <2> QED
    BY <1>6, <2>2, <2>3
<1> HIDE DEF z
<1>8. (c - 1) + (n - c) = n - 1 /\ n - 1 \in Nat
  BY <1>3
<1>9. ASSUME NEW k \in 1..(n - 1) PROVE z[k] = IF k < c THEN h[k] ELSE h[k + 1]
  <2>1. z[k] = IF k <= c - 1 THEN x[k] ELSE y[k - (c - 1)]
    BY <1>7, <1>8
  <2>2. CASE k < c
    <3>1. k <= c - 1 /\ k \in 1..(c - 1)
      BY <1>3, <2>2
    <3> QED
      BY <1>4, <2>1, <2>2, <3>1
  <2>3. CASE ~(k < c)
    <3>1. ~(k <= c - 1) /\ k - (c - 1) \in 1..(n - c) /\ c + (k - (c - 1)) = k + 1
      BY <1>3, <2>3
    <3>2. y[k - (c - 1)] = h[c + (k - (c - 1))]
      BY <1>5, <3>1
    <3> QED
      BY <2>1, <2>3, <3>1, <3>2
  <2> QED
    BY <2>2, <2>3
<1> DEFINE g == Append(z, v)
<1>10. /\ g \in Seq(S) /\ Len(g) = Len(z) + 1 /\ g[Len(z) + 1] = v
       /\ \A k \in 1..Len(z) : g[k] = z[k]
  BY <1>2, <1>7, AppendProperties
<1> HIDE DEF g
<1>11. Len(z) = n - 1 /\ (n - 1) + 1 = n
  BY <1>3, <1>7, <1>8
<1>12. Len(g) = n /\ g[n] = v /\ \A k \in 1..(n - 1) : g[k] = z[k]
  BY <1>10, <1>11
<1> HIDE DEF n
<1>13. /\ IsSeq(g) /\ Len(g) = n /\ g[n] = v
       /\ \A k \in 1..(n - 1) : g[k] = IF k < c THEN h[k] ELSE h[k + 1]
  BY <1>9, <1>10, <1>12 DEF IsSeq
<1> QED
  BY <1>13 DEF Replaces, g, z, n

\* And one that loses its first element.
LEMMA Shifted ==
    ASSUME NEW h, IsSeq(h), Len(h) \in Nat \ {0}, NEW v
    PROVE  Replaces(h, 1, v, Tail(Append(h, v)))
<1> DEFINE n == Len(h)
           z == Append(h, v)
           g == Tail(z)
<1>1. PICK R : h \in Seq(R)
  BY DEF IsSeq
<1> DEFINE S == R \cup {v}
<1>2. h \in Seq(S) /\ v \in S
  BY <1>1, SeqMonotonic
<1>3. /\ z \in Seq(S) /\ z # <<>> /\ Len(z) = n + 1 /\ z[n + 1] = v
      /\ \A k \in 1..n : z[k] = h[k]
  BY <1>2, AppendProperties
<1> HIDE DEF z, S
<1>4. g \in Seq(S) /\ Len(g) = Len(z) - 1 /\ \A k \in 1..Len(g) : g[k] = z[k + 1]
  BY <1>3, HeadTailProperties
<1> HIDE DEF g
<1>5. n \in Nat \ {0} /\ Len(g) = n /\ \A k \in 1..n : g[k] = z[k + 1]
  BY <1>3, <1>4
<1>6. g[n] = v
  BY <1>3, <1>5
<1>7. ASSUME NEW k \in 1..(n - 1) PROVE g[k] = h[k + 1]
  <2>1. k \in 1..n /\ k + 1 \in 1..n
    BY <1>5
  <2> QED
    BY <1>3, <1>5, <2>1
<1> HIDE DEF n
<1>8. \A k \in 1..(n - 1) : g[k] = IF k < 1 THEN h[k] ELSE h[k + 1]
  BY <1>5, <1>7
<1>9. IsSeq(g) /\ Len(g) = n /\ g[n] = v
  BY <1>4, <1>5, <1>6 DEF IsSeq
<1> QED
  BY <1>8, <1>9 DEF Replaces, g, z, n


\* clks_net_arp_upsert: the address heard is the youngest, and the table that is full
\* gives up the oldest.
LEMMA ArpHears ==
    ASSUME NEW a, NEW h, ArpOK(a, h), NEW ip, NEW mac
    PROVE  ArpOK(arp_upsert(a, ip, mac), Heard(h, ip, mac))
<1> DEFINE n == Len(h)
           T == a.table
           v == <<ip, mac>>
           known == {i \in 1..ArpCap : T[i].ip = ip}
           free == {i \in 1..ArpCap : T[i].ip = 0}
           oldest == {i \in 1..ArpCap : \A j \in 1..ArpCap : T[i].stamp <= T[j].stamp}
           pick == IF known # {} THEN known ELSE IF free # {} THEN free ELSE oldest
           i == CHOOSE k \in pick : \A j \in pick : k <= j
           heard == {k \in 1..n : h[k][1] = ip}
           all == Append(IF heard = {} THEN h ELSE RemoveAt(h, CHOOSE k \in heard : TRUE), v)
<1>1. SUFFICES ASSUME ip # 0, mac # InvalidMac
               PROVE  ArpOK(Written(a, i, ip, mac), IF Len(all) > ArpCap THEN Tail(all) ELSE all)
  <2>1. CASE ip = 0 \/ mac = InvalidMac
    BY <2>1 DEF arp_upsert, Heard
  <2>2. CASE ~(ip = 0 \/ mac = InvalidMac)
    <3>1. arp_upsert(a, ip, mac) = Written(a, i, ip, mac)
      BY <2>2 DEF arp_upsert, Stamped, Written
    <3>2. Heard(h, ip, mac) = IF Len(all) > ArpCap THEN Tail(all) ELSE all
      BY <2>2 DEF Heard
    <3> HIDE DEF i, all
    <3> QED
      BY <1>1, <2>2, <3>1, <3>2
  <2> QED
    BY <2>1, <2>2
<1>2. PICK P \in [1..n -> 1..ArpCap] : ArpAt(a, h, P)
  BY DEF ArpOK
<1>3. /\ \A k \in 1..n : h[k] = <<T[P[k]].ip, T[P[k]].mac>> /\ T[P[k]].ip # 0
      /\ \A j, k \in 1..n : j < k => T[P[j]].stamp < T[P[k]].stamp
      /\ \A j, k \in 1..n : j # k => T[P[j]].ip # T[P[k]].ip
      /\ \A m \in 1..ArpCap : T[m].ip # 0 => \E k \in 1..n : P[k] = m
  BY <1>2 DEF ArpAt
<1>4. /\ ArpFields(a, h) /\ IsSeq(h) /\ n \in 0..ArpCap /\ ArpCap \in Nat \ {0}
      /\ \A m \in 1..ArpCap : T[m].stamp \in Nat
  BY NetAssumption DEF ArpOK, ArpFields
<1>5. ASSUME pick # {} PROVE i \in pick
  <2> HIDE DEF pick
  <2>1. pick \in SUBSET Nat
    BY <1>4 DEF pick
  <2> QED
    BY <1>5, <2>1, LeastNatural
<1>6. \A k \in 1..n : h[k][1] = T[P[k]].ip /\ P[k] \in 1..ArpCap
  BY <1>2, <1>3
<1> HIDE DEF n, i
<1>7. CASE known # {}
  <2>1. i \in 1..ArpCap /\ T[i].ip = ip
    BY <1>5, <1>7
  <2>2. PICK c \in 1..n : P[c] = i
    BY <1>1, <1>3, <2>1
  <2>3. \A j \in 1..n : j # c => T[P[j]].ip # ip
    BY <1>3, <2>1, <2>2
  <2>4. heard = {c}
    BY <1>6, <2>1, <2>2, <2>3
  <2>5. all = Append(RemoveAt(h, c), v)
    BY <2>4
  <2> HIDE DEF all, heard, known, pick, v
  <2>6. Replaces(h, c, v, all)
    BY <1>4, <2>5, Replaced DEF n
  <2>7. ArpOK(Written(a, P[c], ip, mac), all)
    BY <1>1, <1>2, <1>4, <2>3, <2>6, ArpReplaces DEF n, v
  <2>8. ~(Len(all) > ArpCap)
    BY <1>4, <2>6 DEF Replaces, n
  <2> QED
    BY <2>2, <2>7, <2>8
<1>8. CASE known = {}
  <2>1. \A j \in 1..ArpCap : T[j].ip # ip
    BY <1>8
  <2>2. heard = {}
    BY <1>6, <2>1
  <2>3. all = Append(h, v)
    BY <2>2
  <2>4. pick = IF free # {} THEN free ELSE oldest
    BY <1>8
  <2> HIDE DEF all, heard, known, pick, v
  <2> DEFINE used == {m \in 1..ArpCap : T[m].ip # 0}
  <2>5. Cardinality(used) = n /\ n \in Nat
    <3>1. n \in Nat
      BY <1>4
    <3>2. P \in [1..n -> used]
      BY <1>2, <1>3
    <3>3. \A j, k \in 1..n : j # k => P[j] # P[k]
      BY <1>3
    <3>4. \A m \in used : \E k \in 1..n : P[k] = m
      BY <1>3
    <3> HIDE DEF used
    <3> QED
      BY <3>1, <3>2, <3>3, <3>4, Numbered
  <2>6. /\ IsFiniteSet(1..ArpCap) /\ Cardinality(1..ArpCap) = ArpCap
        /\ used \in SUBSET (1..ArpCap)
    <3>1. 1 \in Int /\ ArpCap \in Int /\ ~(1 > ArpCap) /\ ArpCap - 1 + 1 = ArpCap
      BY <1>4
    <3> QED
      BY <3>1, FS_Interval
  <2>7. CASE free # {}
    <3>1. i \in 1..ArpCap /\ T[i].ip = 0
      BY <1>5, <2>4, <2>7
    <3>2. used # 1..ArpCap
      BY <3>1
    <3> HIDE DEF used
    <3>3. n # ArpCap
      BY <2>5, <2>6, <3>2, FS_Subset
    <3>4. n < ArpCap
      BY <1>4, <3>3
    <3>5. ArpOK(Written(a, i, ip, mac), Append(h, v))
      BY <1>1, <1>2, <1>4, <2>1, <3>1, <3>4, ArpAdds DEF n, v
    <3>6. Len(Append(h, v)) = n + 1
      <4>1. PICK S : h \in Seq(S)
        BY <1>4 DEF IsSeq
      <4>2. h \in Seq(S \cup {v})
        BY <4>1, SeqMonotonic
      <4> QED
        BY <4>2, AppendProperties DEF n
    <3>7. ~(Len(all) > ArpCap)
      BY <1>4, <2>3, <3>4, <3>6
    <3> QED
      BY <2>3, <3>5, <3>7
  <2>8. CASE free = {}
    <3>1. used = 1..ArpCap
      BY <2>8
    <3>2. n = ArpCap /\ n \in Nat \ {0} /\ 1 \in 1..n
      <4>1. Cardinality(used) = ArpCap
        BY <2>6, <3>1
      <4> HIDE DEF used
      <4>2. n = ArpCap
        BY <2>5, <4>1
      <4> QED
        BY <1>4, <4>2
    <3>3. \A m \in 1..ArpCap : \E k \in 1..n : P[k] = m
      BY <1>3, <3>1
    <3>4. ASSUME NEW m \in 1..ArpCap PROVE T[P[1]].stamp <= T[m].stamp
      <4>1. PICK k \in 1..n : P[k] = m
        BY <3>3
      <4>2. T[P[1]].stamp \in Nat /\ T[m].stamp \in Nat
        BY <1>4, <1>6, <3>2
      <4>3. CASE k = 1
        BY <4>1, <4>2, <4>3
      <4>4. CASE k # 1
        <5>1. 1 < k
          BY <3>2, <4>4
        <5>2. T[P[1]].stamp < T[P[k]].stamp
          BY <1>3, <3>2, <5>1
        <5> QED
          BY <4>1, <4>2, <5>2
      <4> QED
        BY <4>3, <4>4
    <3>5. P[1] \in oldest
      BY <1>6, <3>2, <3>4
    <3>6. i \in 1..ArpCap /\ \A m \in 1..ArpCap : T[i].stamp <= T[m].stamp
      BY <1>5, <2>4, <2>8, <3>5
    <3>7. i = P[1]
      <4>1. PICK k \in 1..n : P[k] = i
        BY <3>3, <3>6
      <4> SUFFICES ASSUME k # 1 PROVE FALSE
        BY <4>1
      <4>2. 1 < k
        BY <3>2
      <4>3. T[P[1]].stamp < T[P[k]].stamp
        BY <1>3, <3>2, <4>2
      <4>4. T[i].stamp <= T[P[1]].stamp /\ T[i].stamp \in Nat /\ T[P[1]].stamp \in Nat
        BY <1>4, <1>6, <3>2, <3>6
      <4> QED
        BY <4>1, <4>3, <4>4
    <3> DEFINE g == Tail(all)
    <3>8. Replaces(h, 1, v, g)
      BY <1>4, <2>3, <3>2, Shifted DEF n
    <3>9. Len(all) > ArpCap
      <4>1. PICK S : h \in Seq(S)
        BY <1>4 DEF IsSeq
      <4>2. h \in Seq(S \cup {v})
        BY <4>1, SeqMonotonic
      <4>3. Len(all) = n + 1
        BY <2>3, <4>2, AppendProperties DEF n
      <4> QED
        BY <1>4, <3>2, <4>3
    <3> HIDE DEF g
    <3>10. \A j \in 1..n : j # 1 => T[P[j]].ip # ip
      BY <1>6, <2>1
    <3>11. ArpOK(Written(a, P[1], ip, mac), g)
      BY <1>1, <1>2, <1>4, <3>2, <3>8, <3>10, ArpReplaces DEF n, v
    <3> QED
      BY <3>7, <3>9, <3>11 DEF g
  <2> QED
    BY <2>7, <2>8
<1> QED
  BY <1>7, <1>8

-----------------------------------------------------------------------------
(* The lease and the wire                                                   *)

\* clks_net_dhcp_process_payload: an address is taken only from a message to this card,
\* and only an acknowledgement, or a message without a type, acknowledges.
LEMMA LeaseTaken ==
    ASSUME NEW d, NEW w, DhcpOK(d, w), NEW f \in w, f.kind = "ip", f.proto = "dhcp"
    PROVE  DhcpOK(process_payload(d, f), w)
<1> DEFINE e == process_payload(d, f)
           b == f.body
           server == IF b.server = 0 THEN f.src ELSE b.server
           Or(x, y) == IF x # 0 THEN x ELSE y
<1>1. /\ d = [active |-> d.active, offer_ready |-> d.offer_ready, ack_ready |-> d.ack_ready,
              failed |-> d.failed, ip |-> d.ip, server |-> d.server, mask |-> d.mask,
              router |-> d.router, dns |-> d.dns]
      /\ d.ack_ready \in BOOLEAN
      /\ d.ip # 0 => \E g \in w : Told(g, {"OFFER", "ACK", "none"}) /\ g.body.ip = d.ip
      /\ d.ack_ready => \E g \in w : Told(g, {"ACK", "none"})
  BY DEF DhcpOK
<1>2. CASE e = d
  BY <1>2
<1>3. CASE /\ f.body.for = OurMac /\ b.type \in {"OFFER", "none"}
           /\ e = [d EXCEPT !.offer_ready = TRUE, !.ip = b.ip, !.server = server, !.mask = b.mask,
                            !.router = b.router, !.dns = b.dns]
  <2> HIDE DEF e, server
  <2>1. /\ e = [active |-> e.active, offer_ready |-> e.offer_ready, ack_ready |-> e.ack_ready,
                failed |-> e.failed, ip |-> e.ip, server |-> e.server, mask |-> e.mask,
                router |-> e.router, dns |-> e.dns]
        /\ e.ack_ready = d.ack_ready /\ e.ip = b.ip
    BY <1>1, <1>3
  <2>2. Told(f, {"OFFER", "ACK", "none"})
    BY <1>3 DEF Told
  <2>3. e.ack_ready \in BOOLEAN /\ (e.ack_ready => \E g \in w : Told(g, {"ACK", "none"}))
    BY <1>1, <2>1
  <2>4. \E g \in w : Told(g, {"OFFER", "ACK", "none"}) /\ g.body.ip = e.ip
    BY <2>1, <2>2
  <2>5. DhcpOK(e, w)
    BY <2>1, <2>3, <2>4 DEF DhcpOK
  <2> QED
    BY <2>5 DEF e
<1>4. CASE /\ f.body.for = OurMac /\ b.type \in {"ACK", "none"}
           /\ e = [d EXCEPT !.ack_ready = TRUE, !.ip = Or(b.ip, d.ip),
                            !.server = Or(server, d.server), !.mask = Or(b.mask, d.mask),
                            !.router = Or(b.router, d.router), !.dns = Or(b.dns, d.dns)]
  <2> DEFINE i == Or(b.ip, d.ip)
             s == Or(server, d.server)
             m == Or(b.mask, d.mask)
             r == Or(b.router, d.router)
             n == Or(b.dns, d.dns)
  <2>1. e = [d EXCEPT !.ack_ready = TRUE, !.ip = i, !.server = s, !.mask = m, !.router = r,
                      !.dns = n]
    BY <1>4
  <2>2. i = IF b.ip # 0 THEN b.ip ELSE d.ip
    OBVIOUS
  <2> HIDE DEF e, i, s, m, r, n
  <2>3. /\ e = [active |-> e.active, offer_ready |-> e.offer_ready, ack_ready |-> e.ack_ready,
                failed |-> e.failed, ip |-> e.ip, server |-> e.server, mask |-> e.mask,
                router |-> e.router, dns |-> e.dns]
        /\ e.ack_ready = TRUE /\ e.ip = i
    BY <1>1, <2>1
  <2>4. Told(f, {"OFFER", "ACK", "none"}) /\ Told(f, {"ACK", "none"})
    BY <1>4 DEF Told
  <2>5. e.ip # 0 => \E g \in w : Told(g, {"OFFER", "ACK", "none"}) /\ g.body.ip = e.ip
    BY <1>1, <2>2, <2>3, <2>4
  <2>6. e.ack_ready \in BOOLEAN /\ \E g \in w : Told(g, {"ACK", "none"})
    BY <2>3, <2>4
  <2>7. DhcpOK(e, w)
    BY <2>3, <2>5, <2>6 DEF DhcpOK
  <2> QED
    BY <2>7 DEF e
<1>5. CASE e = [d EXCEPT !.failed = TRUE]
  <2> HIDE DEF e
  <2>1. /\ e = [active |-> e.active, offer_ready |-> e.offer_ready, ack_ready |-> e.ack_ready,
                failed |-> e.failed, ip |-> e.ip, server |-> e.server, mask |-> e.mask,
                router |-> e.router, dns |-> e.dns]
        /\ e.ack_ready = d.ack_ready /\ e.ip = d.ip
    BY <1>1, <1>5
  <2>2. DhcpOK(e, w)
    BY <1>1, <2>1 DEF DhcpOK
  <2> QED
    BY <2>2 DEF e
<1>6. \/ e = d
      \/ /\ f.body.for = OurMac /\ b.type \in {"OFFER", "none"}
         /\ e = [d EXCEPT !.offer_ready = TRUE, !.ip = b.ip, !.server = server, !.mask = b.mask,
                          !.router = b.router, !.dns = b.dns]
      \/ /\ f.body.for = OurMac /\ b.type \in {"ACK", "none"}
         /\ e = [d EXCEPT !.ack_ready = TRUE, !.ip = Or(b.ip, d.ip),
                          !.server = Or(server, d.server), !.mask = Or(b.mask, d.mask),
                          !.router = Or(b.router, d.router), !.dns = Or(b.dns, d.dns)]
      \/ e = [d EXCEPT !.failed = TRUE]
  <2>1. CASE ~d.active \/ ~IsOurs(f)
    BY <2>1 DEF process_payload
  <2>2. CASE ~(~d.active \/ ~IsOurs(f)) /\ (b.type = "OFFER" \/ (b.type = "none" /\ ~d.offer_ready))
    BY <2>2 DEF process_payload, IsOurs
  <2>3. CASE /\ ~(~d.active \/ ~IsOurs(f)) /\ ~(b.type = "OFFER" \/ (b.type = "none" /\ ~d.offer_ready))
             /\ b.type = "ACK" \/ (b.type = "none" /\ ~d.ack_ready)
    BY <2>3 DEF process_payload, IsOurs
  <2>4. CASE /\ ~(~d.active \/ ~IsOurs(f)) /\ ~(b.type = "OFFER" \/ (b.type = "none" /\ ~d.offer_ready))
             /\ ~(b.type = "ACK" \/ (b.type = "none" /\ ~d.ack_ready))
    BY <2>4 DEF process_payload
  <2> QED
    BY <2>1, <2>2, <2>3, <2>4
<1> QED
  BY <1>2, <1>3, <1>4, <1>5, <1>6

\* What was on the wire stays there.
LEMMA WireGrows ==
    ASSUME NEW w, NEW x, w \subseteq x, NEW n, NEW q, NEW d, NEW c, NEW r, NEW p, NEW s
    PROVE  /\ NicOK(n, w, q) => NicOK(n, x, q)
           /\ DhcpOK(d, w) => DhcpOK(d, x)
           /\ LeaseOK(c, r, w) => LeaseOK(c, r, x)
           /\ PingOK(p, w) => PingOK(p, x)
           /\ AnsweredOK(s, w) => AnsweredOK(s, x)
<1>1. RxOK(n, w) => RxOK(n, x)
  BY DEF RxOK, RxHolds
<1>2. NicOK(n, w, q) => NicOK(n, x, q)
  BY <1>1 DEF NicOK
<1>3. DhcpOK(d, w) => DhcpOK(d, x)
  BY DEF DhcpOK
<1>4. LeaseOK(c, r, w) => LeaseOK(c, r, x)
  BY DEF LeaseOK
<1>5. \A seq, hosts : Replied(w, seq, hosts) => Replied(x, seq, hosts)
  BY DEF Replied
<1>6. PingOK(p, w) => PingOK(p, x)
  BY <1>5 DEF PingOK
<1>7. AnsweredOK(s, w) => AnsweredOK(s, x)
  BY <1>5 DEF AnsweredOK
<1> QED
  BY <1>2, <1>3, <1>4, <1>6, <1>7

-----------------------------------------------------------------------------
(* The steps                                                                *)

\* A frame that is handled: clks_net_poll_internal looks at the descriptor, learns who
\* sent the frame, answers with r and gives the descriptor back.
LEMMA FrameHandled ==
    ASSUME NetInv, NEW f, f = Unread, f.kind \in {"arp", "ip"}, NEW ip, NEW r,
           r = None \/ r.kind \in {"arp", "ip"}, NEW u, Reads(f, ip, r, u)
    PROVE  /\ f \in wire
           /\ NicOK(nic', wire, ghost'.queued) /\ ArpOK(arp', ghost'.heard)
           /\ ghost'.unread = u /\ ghost'.answered = ghost.answered /\ GhostFields(ghost')
           /\ CallFields(call') /\ call'.phase = call.phase /\ call'.then = call.then
           /\ call'.dst = call.dst /\ call'.hop = call.hop
<1> DEFINE n == IF r = None THEN nic ELSE tx_frame(nic, r)
           g == [ghost EXCEPT !.heard = Heard(ghost.heard, ip, f.from), !.unread = u]
           h == IF r = None THEN g ELSE Queued(g, nic, r)
<1>1. /\ NicOK(nic, wire, ghost.queued) /\ ArpOK(arp, ghost.heard) /\ GhostFields(ghost)
      /\ CallFields(call)
  BY DEF NetInv, CallOK
<1>2. /\ f # None /\ nic' = Returned(n) /\ ghost' = h /\ arp' = arp_upsert(arp, ip, f.from)
      /\ call' = IF call = Idle THEN call ELSE [call EXCEPT !.processed = call.processed + 1]
  BY DEF Reads
<1>3. /\ GhostFields(g) /\ g.queued = ghost.queued /\ g.heard = Heard(ghost.heard, ip, f.from)
      /\ g.unread = u /\ g.answered = ghost.answered
  <2> DEFINE l == Heard(ghost.heard, ip, f.from)
  <2>1. g = [ghost EXCEPT !.heard = l, !.unread = u]
    OBVIOUS
  <2> HIDE DEF g, l
  <2>2. /\ GhostFields(g) /\ g.queued = ghost.queued /\ g.heard = l
        /\ g.unread = u /\ g.answered = ghost.answered
    BY <1>1, <2>1 DEF GhostFields
  <2> QED
    BY <2>2 DEF l
<1> HIDE DEF g
<1>4. /\ NicOK(n, wire, h.queued) /\ GhostFields(h) /\ h.heard = g.heard
      /\ h.unread = g.unread /\ h.answered = g.answered
      /\ n.rx = nic.rx /\ n.rx_index = nic.rx_index
  <2>1. CASE r = None
    BY <1>1, <1>3, <2>1
  <2>2. CASE r # None
    <3>1. NicOK(nic, wire, g.queued)
      BY <1>1, <1>3
    <3> QED
      BY <1>3, <2>2, <3>1, Sends
  <2> QED
    BY <2>1, <2>2
<1> HIDE DEF n, h
<1>5. n.rx[n.rx_index] = f
  BY <1>4 DEF Unread
<1>6. f \in wire /\ NicOK(nic', wire, h.queued)
  BY <1>2, <1>4, <1>5, GivesBack
<1>7. ArpOK(arp', h.heard)
  BY <1>1, <1>2, <1>3, <1>4, ArpHears
<1>8. /\ CallFields(call') /\ call'.phase = call.phase /\ call'.then = call.then
      /\ call'.dst = call.dst /\ call'.hop = call.hop
  <2>1. CASE call = Idle
    BY <1>1, <1>2, <2>1
  <2>2. CASE call # Idle
    <3> DEFINE m == call'
               k == call.processed + 1
    <3>1. m = [call EXCEPT !.processed = k]
      BY <1>2, <2>2
    <3> HIDE DEF m, k
    <3>2. /\ CallFields(m) /\ m.phase = call.phase /\ m.then = call.then
          /\ m.dst = call.dst /\ m.hop = call.hop
      BY <1>1, <3>1 DEF CallFields
    <3> QED
      BY <3>2 DEF m
  <2> QED
    BY <2>1, <2>2
<1> QED
  BY <1>2, <1>3, <1>4, <1>6, <1>7, <1>8


\* A call that changes nothing the invariant is about.
LEMMA CallKept ==
    ASSUME NetInv, CallFields(call'), call'.phase = call.phase, call'.then = call.then,
           call'.dst = call.dst, call'.hop = call.hop, config' = config,
           ping'.dst = ping.dst, ping'.alt = ping.alt
    PROVE  CallOK(call, ping)'
<1>1. CallOK(call, ping)
  BY DEF NetInv
<1>2. next_hop_for(call.dst)' = next_hop_for(call.dst)
  BY DEF next_hop_for
<1> QED
  BY <1>1, <1>2 DEF CallOK

\* clks_net_poll_internal and its handlers.
LEMMA FrameStep ==
    ASSUME NetInv,
           \/ process_arp \/ process_other \/ process_dhcp \/ process_echo_request
           \/ process_echo_reply \/ process_datagram
    PROVE  NetInv'
<1> DEFINE f == Unread
           Rest == /\ CallOK(call, ping)' /\ UNCHANGED <<scene, wire, config, ready>>
                   /\ NicOK(nic', wire, ghost'.queued) /\ ArpOK(arp', ghost'.heard)
                   /\ ghost'.answered = ghost.answered /\ GhostFields(ghost')
<1>1. /\ scene \in Scenes /\ FramesOK(wire) /\ UdpOK(udp, ghost.unread)
      /\ DhcpOK(dhcp, wire) /\ LeaseOK(config, ready, wire)
      /\ PingOK(ping, wire) /\ AnsweredOK(ghost.answered, wire)
  BY DEF NetInv
<1>2. ASSUME NEW ip, NEW r, r = None \/ r.kind \in {"arp", "ip"}, NEW u, Reads(f, ip, r, u),
             f.kind \in {"arp", "ip"}, ping'.dst = ping.dst, ping'.alt = ping.alt
      PROVE  Rest /\ ghost'.unread = u /\ f \in wire
  <2>1. UNCHANGED <<scene, wire, config, ready>>
    BY <1>2 DEF Reads
  <2> HIDE DEF f
  <2>2. f = Unread
    BY DEF f
  <2>3. /\ f \in wire
        /\ NicOK(nic', wire, ghost'.queued) /\ ArpOK(arp', ghost'.heard)
        /\ ghost'.unread = u /\ ghost'.answered = ghost.answered /\ GhostFields(ghost')
        /\ CallFields(call') /\ call'.phase = call.phase /\ call'.then = call.then
        /\ call'.dst = call.dst /\ call'.hop = call.hop
    BY <1>2, <2>2, FrameHandled
  <2>4. CallOK(call, ping)'
    BY <1>2, <2>1, <2>3, CallKept
  <2> QED
    BY <2>1, <2>3, <2>4
<1>3. ASSUME Rest, UdpOK(udp', ghost'.unread), DhcpOK(dhcp', wire), PingOK(ping', wire)
      PROVE  NetInv'
  BY <1>1, <1>3 DEF NetInv
<1> HIDE DEF f, Rest
<1>4. CASE process_arp
  <2> DEFINE r == IF f.op = "request" /\ f.tpa = config.ip
                  THEN Arp("reply", OurMac, config.ip, f.from, f.spa) ELSE None
             ip == f.spa
             u == ghost.unread
  <2>1. Reads(f, ip, r, u) /\ f.kind = "arp" /\ UNCHANGED <<dhcp, ping, udp>>
    BY <1>4 DEF process_arp, f
  <2>2. r = None \/ r.kind \in {"arp", "ip"}
    BY DEF Arp
  <2> HIDE DEF r, ip, u
  <2>3. Rest /\ ghost'.unread = u
    BY <1>2, <2>1, <2>2
  <2> QED
    BY <1>1, <1>3, <2>1, <2>3 DEF u
<1>5. CASE process_other
  <2> DEFINE u == ghost.unread
  <2>1. Reads(f, 0, None, u) /\ f.kind = "ip" /\ UNCHANGED <<dhcp, ping, udp>>
    BY <1>5 DEF process_other, f
  <2> HIDE DEF u
  <2>2. Rest /\ ghost'.unread = u
    BY <1>2, <2>1
  <2> QED
    BY <1>1, <1>3, <2>1, <2>2 DEF u
<1>6. CASE process_dhcp
  <2> DEFINE u == ghost.unread
             ip == f.src
  <2>1. /\ Reads(f, ip, None, u) /\ f.kind = "ip" /\ f.proto = "dhcp" /\ UNCHANGED <<ping, udp>>
        /\ dhcp' = process_payload(dhcp, f)
    BY <1>6 DEF process_dhcp, f
  <2> HIDE DEF u, ip
  <2>2. Rest /\ ghost'.unread = u /\ f \in wire
    BY <1>2, <2>1
  <2>3. DhcpOK(dhcp', wire)
    BY <1>1, <2>1, <2>2, LeaseTaken
  <2> QED
    BY <1>1, <1>3, <2>1, <2>2, <2>3 DEF u
<1>7. CASE process_echo_request
  <2> DEFINE r == IF f.body.own
                  THEN Packet(OurMac, f.from, config.ip, f.src, "icmp",
                              Echo("reply", TRUE, f.body.seq))
                  ELSE None
             ip == f.src
             u == ghost.unread
  <2>1. Reads(f, ip, r, u) /\ f.kind = "ip" /\ UNCHANGED <<dhcp, ping, udp>>
    BY <1>7 DEF process_echo_request, f
  <2>2. r = None \/ r.kind \in {"arp", "ip"}
    BY DEF Packet
  <2> HIDE DEF r, ip, u
  <2>3. Rest /\ ghost'.unread = u
    BY <1>2, <2>1, <2>2
  <2> QED
    BY <1>1, <1>3, <2>1, <2>3 DEF u
<1>8. CASE process_echo_reply
  <2> DEFINE u == ghost.unread
             ip == f.src
  <2>1. /\ Reads(f, ip, None, u) /\ f.kind = "ip" /\ f.proto = "icmp" /\ f.body.type = "reply"
        /\ UNCHANGED <<dhcp, udp>>
        /\ ping' = IF ReplyAwaited(ping, f)
                   THEN [ping EXCEPT !.reply_ok = TRUE, !.waiting = FALSE] ELSE ping
        /\ f.src # 0
    BY <1>8 DEF process_echo_reply, f, Accepted
  <2>2. CASE ReplyAwaited(ping, f)
    <3> DEFINE p == ping'
    <3>1. p = [ping EXCEPT !.reply_ok = TRUE, !.waiting = FALSE]
      BY <2>1, <2>2
    <3> HIDE DEF p
    <3>2. /\ p = [seq |-> p.seq, waiting |-> p.waiting, reply_ok |-> p.reply_ok, dst |-> p.dst,
                  alt |-> p.alt]
          /\ p.reply_ok = TRUE /\ p.seq = ping.seq /\ p.dst = ping.dst /\ p.alt = ping.alt
      BY <1>1, <3>1 DEF PingOK
    <3> HIDE DEF ip, u
    <3>3. Rest /\ ghost'.unread = u /\ f \in wire
      BY <1>2, <2>1, <3>2 DEF p
    <3>4. Replied(wire, p.seq, {p.dst, p.alt} \ {0})
      BY <2>1, <2>2, <3>2, <3>3 DEF Replied, ReplyAwaited
    <3>5. PingOK(ping', wire)
      BY <3>2, <3>4 DEF PingOK, p
    <3> QED
      BY <1>1, <1>3, <2>1, <3>3, <3>5 DEF u
  <2>3. CASE ~ReplyAwaited(ping, f)
    <3>1. ping' = ping
      BY <2>1, <2>3
    <3> HIDE DEF ip, u
    <3>2. Rest /\ ghost'.unread = u
      BY <1>2, <2>1, <3>1
    <3> QED
      BY <1>1, <1>3, <2>1, <3>1, <3>2 DEF u
  <2> QED
    BY <2>2, <2>3
<1>9. CASE process_datagram
  <2> DEFINE u == IF Len(ghost.unread) = QueueCap THEN Append(Tail(ghost.unread), f.body)
                  ELSE Append(ghost.unread, f.body)
             ip == f.src
  <2>1. /\ Reads(f, ip, None, u) /\ f.kind = "ip" /\ UNCHANGED <<dhcp, ping>>
        /\ udp' = udp_queue_push(udp, f.body)
    BY <1>9 DEF process_datagram, f
  <2>2. UdpOK(udp', u)
    BY <1>1, <2>1, UdpPushes
  <2> HIDE DEF u, ip
  <2>3. Rest /\ ghost'.unread = u
    BY <1>2, <2>1
  <2> QED
    BY <1>1, <1>3, <2>1, <2>2, <2>3
<1> QED
  BY <1>4, <1>5, <1>6, <1>7, <1>8, <1>9


\* The card's own steps.
LEMMA CardStep ==
    ASSUME NetInv, CardReceives \/ CardTransmits
    PROVE  NetInv'
<1>1. /\ scene \in Scenes /\ FramesOK(wire) /\ NicOK(nic, wire, ghost.queued)
      /\ UdpOK(udp, ghost.unread) /\ ArpOK(arp, ghost.heard)
      /\ DhcpOK(dhcp, wire) /\ LeaseOK(config, ready, wire)
      /\ PingOK(ping, wire) /\ CallOK(call, ping) /\ AnsweredOK(ghost.answered, wire)
      /\ GhostFields(ghost)
  BY DEF NetInv
<1>2. CASE CardReceives
  <2>1. /\ nic.rx_head # nic.rx_tail
        /\ UNCHANGED <<scene, ready, config, dhcp, arp, ping, udp, call, wire, ghost>>
        /\ \E f \in wire : nic' = [nic EXCEPT !.rx[nic.rx_head] = f, !.rx_head = After(nic.rx_head)]
    BY <1>2 DEF CardReceives, protocols
  <2>2. PICK f \in wire : nic' = [nic EXCEPT !.rx[nic.rx_head] = f, !.rx_head = After(nic.rx_head)]
    BY <2>1
  <2>3. NicOK(nic', wire, ghost.queued)
    <3>1. NicOK([nic EXCEPT !.rx[nic.rx_head] = f, !.rx_head = After(nic.rx_head)], wire, ghost.queued)
      BY <1>1, <2>1, Receives
    <3> QED
      BY <2>2, <3>1
  <2>4. CallOK(call, ping)'
    BY <1>1, <2>1, CallKept DEF CallOK
  <2> QED
    BY <1>1, <2>1, <2>3, <2>4 DEF NetInv
<1>3. CASE CardTransmits
  <2> DEFINE q == Tail(ghost.queued)
             w == wire'
             f == nic.tx[nic.tx_head]
  <2>1. /\ nic.tx_head # nic.tx_index
        /\ UNCHANGED <<scene, ready, config, dhcp, arp, ping, udp, call>>
        /\ nic' = [nic EXCEPT !.tx[nic.tx_head] = None, !.tx_head = After(nic.tx_head)]
        /\ wire' = wire \cup Answers(f)
        /\ ghost' = [ghost EXCEPT !.queued = q]
    BY <1>3 DEF CardTransmits, protocols
  <2>2. NicOK(nic', wire, q)
    <3>1. NicOK([nic EXCEPT !.tx[nic.tx_head] = None, !.tx_head = After(nic.tx_head)], wire, q)
      BY <1>1, <2>1, Leaves
    <3> QED
      BY <2>1, <3>1
  <2>3. \A x \in Answers(f) : x.kind \in {"arp", "ip"}
    <3> HIDE DEF f
    <3>1. \A x \in scene.offers \cup scene.acks : x.kind \in {"arp", "ip"}
      BY <1>1, NetAssumption
    <3> SUFFICES ASSUME NEW x \in Answers(f) PROVE x.kind \in {"arp", "ip"}
      OBVIOUS
    <3>2. CASE f.kind = "arp"
      <4>1. x = Arp("reply", Peers[f.tpa], f.tpa, OurMac, f.spa)
        BY <3>2 DEF Answers
      <4> QED
        BY <4>1 DEF Arp
    <3>3. CASE f.kind # "arp" /\ f.proto = "dhcp"
      <4>1. x \in scene.offers \cup scene.acks
        BY <3>3 DEF Answers
      <4> QED
        BY <3>1, <4>1
    <3>4. CASE f.kind # "arp" /\ f.proto # "dhcp"
      <4>1. \E s : x = Packet(f.to, OurMac, s, f.src, "icmp", Echo("reply", TRUE, f.body.seq))
        BY <3>4 DEF Answers
      <4> QED
        BY <4>1 DEF Packet
    <3> QED
      BY <3>2, <3>3, <3>4
  <2>4. FramesOK(w)
    <3> HIDE DEF f
    <3> QED
      BY <1>1, <2>1, <2>3 DEF FramesOK
  <2>5. /\ GhostFields(ghost') /\ ghost'.queued = q /\ ghost'.heard = ghost.heard
        /\ ghost'.unread = ghost.unread /\ ghost'.answered = ghost.answered
    <3> DEFINE g == ghost'
    <3>1. g = [ghost EXCEPT !.queued = q]
      BY <2>1
    <3> HIDE DEF g, q
    <3>2. /\ GhostFields(g) /\ g.queued = q /\ g.heard = ghost.heard
          /\ g.unread = ghost.unread /\ g.answered = ghost.answered
      BY <1>1, <3>1 DEF GhostFields
    <3> QED
      BY <3>2 DEF g
  <2>6. wire \subseteq w
    BY <2>1
  <2>7. CallOK(call, ping)'
    BY <1>1, <2>1, CallKept DEF CallOK
  <2> HIDE DEF w, q, f
  <2>8. /\ NicOK(nic', w, q) /\ DhcpOK(dhcp, w) /\ LeaseOK(config, ready, w) /\ PingOK(ping, w)
        /\ AnsweredOK(ghost.answered, w)
    BY <1>1, <2>2, <2>6, WireGrows
  <2> QED
    BY <1>1, <2>1, <2>4, <2>5, <2>7, <2>8 DEF NetInv, w
<1> QED
  BY <1>2, <1>3

\* A step of clks_net_init: it configures the network or goes on with a stage.
LEMMA BootMoves ==
    ASSUME NetInv, UNCHANGED <<scene, arp, ping, udp, wire>>,
           GhostFields(ghost'), ghost'.heard = ghost.heard, ghost'.unread = ghost.unread,
           ghost'.answered = ghost.answered, NicOK(nic', wire, ghost'.queued),
           \/ Configured(dhcp, FALSE)
           \/ Configured(dhcp, Acknowledged(dhcp))
           \/ /\ CallFields(call') /\ call'.phase \notin {"resolve", "ping", "reply"}
              /\ UNCHANGED <<dhcp, config, ready>>
    PROVE  NetInv'
<1>1. /\ scene \in Scenes /\ FramesOK(wire)
      /\ UdpOK(udp, ghost.unread) /\ ArpOK(arp, ghost.heard)
      /\ DhcpOK(dhcp, wire) /\ LeaseOK(config, ready, wire)
      /\ PingOK(ping, wire) /\ AnsweredOK(ghost.answered, wire)
  BY DEF NetInv
<1>2. ASSUME DhcpOK(dhcp', wire), LeaseOK(config', ready', wire), CallFields(call'),
             call'.phase \notin {"resolve", "ping", "reply"}
      PROVE  NetInv'
  <2>1. CallOK(call, ping)'
    BY <1>2 DEF CallOK
  <2> QED
    BY <1>1, <1>2, <2>1 DEF NetInv
<1>3. CASE /\ CallFields(call') /\ call'.phase \notin {"resolve", "ping", "reply"}
           /\ UNCHANGED <<dhcp, config, ready>>
  BY <1>1, <1>2, <1>3
<1>4. ASSUME NEW ok \in BOOLEAN, ok => Acknowledged(dhcp), Configured(dhcp, ok) PROVE NetInv'
  <2>1. /\ dhcp' = [dhcp EXCEPT !.active = FALSE] /\ call' = Idle
        /\ config' = Fallback \/ (ok /\ config'.ip = dhcp.ip)
    BY <1>4 DEF Configured
  <2>2. DhcpOK(dhcp', wire)
    <3> DEFINE d == dhcp'
    <3>1. d = [dhcp EXCEPT !.active = FALSE]
      BY <2>1
    <3> HIDE DEF d
    <3>2. /\ d = [active |-> d.active, offer_ready |-> d.offer_ready, ack_ready |-> d.ack_ready,
                  failed |-> d.failed, ip |-> d.ip, server |-> d.server, mask |-> d.mask,
                  router |-> d.router, dns |-> d.dns]
          /\ d.ack_ready = dhcp.ack_ready /\ d.ip = dhcp.ip
      BY <1>1, <3>1 DEF DhcpOK
    <3>3. DhcpOK(d, wire)
      BY <1>1, <3>2 DEF DhcpOK
    <3> QED
      BY <3>3 DEF d
  <2>3. LeaseOK(config', ready', wire)
    <3>1. CASE config' = Fallback
      BY <3>1 DEF LeaseOK
    <3>2. CASE ok /\ config'.ip = dhcp.ip
      BY <1>1, <1>4, <3>2 DEF LeaseOK, DhcpOK, Acknowledged
    <3> QED
      BY <2>1, <3>1, <3>2
  <2>4. CallFields(call') /\ call'.phase \notin {"resolve", "ping", "reply"}
    BY <2>1 DEF Idle, Call, CallFields
  <2> QED
    BY <1>2, <2>2, <2>3, <2>4
<1>5. Acknowledged(dhcp) \in BOOLEAN
  BY <1>1 DEF Acknowledged, DhcpOK
<1> QED
  BY <1>3, <1>4, <1>5

\* clks_net_init and clks_net_dhcp_autoconfigure.
LEMMA BootStep ==
    ASSUME NetInv,
           hw_init \/ dhcp_send_discover \/ dhcp_send_request \/ OfferLook \/ AckLook
    PROVE  NetInv'
<1> DEFINE Goes == /\ CallFields(call') /\ call'.phase \notin {"resolve", "ping", "reply"}
                   /\ UNCHANGED <<dhcp, config, ready>>
           Ends == Configured(dhcp, FALSE) \/ Configured(dhcp, Acknowledged(dhcp))
<1>1. /\ NicOK(nic, wire, ghost.queued) /\ GhostFields(ghost) /\ DhcpOK(dhcp, wire)
      /\ scene \in Scenes /\ FramesOK(wire)
      /\ UdpOK(udp, ghost.unread) /\ ArpOK(arp, ghost.heard)
      /\ LeaseOK(config, ready, wire)
      /\ PingOK(ping, wire) /\ AnsweredOK(ghost.answered, wire)
  BY DEF NetInv
<1>2. ASSUME NEW stage \in {"discover", "request"}, NextTry(stage) PROVE Goes \/ Ends
  BY <1>2 DEF NextTry, LastTry, Moves, Call, CallFields
<1>3. ASSUME UNCHANGED <<scene, nic, arp, ping, udp, wire, ghost>>, Goes \/ Ends PROVE NetInv'
  BY <1>1, <1>3, BootMoves
<1>4. ASSUME NEW stage \in {"discover", "request"}, NEW type, NEW ip,
             NEW next \in {"offer", "ack"}, NEW sendable,
             dhcp_send(stage, type, ip, next, sendable)
      PROVE  NetInv'
  <2> DEFINE f == Message(type, ip)
  <2>1. UNCHANGED <<scene, arp, ping, udp, wire>>
    BY <1>4 DEF dhcp_send
  <2>2. CASE sendable /\ TxFree(nic)
    <3>1. /\ nic' = tx_frame(nic, f) /\ ghost' = Queued(ghost, nic, f)
          /\ Moves([Call(next) EXCEPT !.try = call.try])
      BY <1>4, <2>2 DEF dhcp_send
    <3>2. f # None
      BY DEF Message, Packet, None
    <3> HIDE DEF f
    <3>3. /\ NicOK(nic', wire, ghost'.queued) /\ GhostFields(ghost')
          /\ ghost'.heard = ghost.heard /\ ghost'.unread = ghost.unread
          /\ ghost'.answered = ghost.answered
      BY <1>1, <3>1, <3>2, Sends
    <3>4. Goes
      BY <3>1 DEF Moves, Call, CallFields
    <3> QED
      BY <2>1, <3>3, <3>4, BootMoves
  <2>3. CASE ~(sendable /\ TxFree(nic))
    <3>1. NextTry(stage) /\ UNCHANGED <<nic, ghost>>
      BY <1>4, <2>3 DEF dhcp_send
    <3> QED
      BY <1>2, <1>3, <2>1, <3>1
  <2> QED
    BY <2>2, <2>3
<1>5. CASE hw_init
  <2>1. /\ UNCHANGED <<scene, nic, ready, config, arp, ping, udp, wire, ghost>>
        /\ dhcp' = [dhcp EXCEPT !.active = scene.card]
        /\ call' = Call("discover") \/ call' = Idle
    BY <1>5 DEF hw_init
  <2>2. CallFields(call') /\ call'.phase \notin {"resolve", "ping", "reply"}
    <3>1. CASE call' = Call("discover")
      BY <3>1 DEF Call, CallFields
    <3>2. CASE call' = Idle
      BY <3>2 DEF Idle, Call, CallFields
    <3> QED
      BY <2>1, <3>1, <3>2
  <2>3. DhcpOK(dhcp', wire)
    <3> DEFINE d == dhcp'
               c == scene.card
    <3>1. d = [dhcp EXCEPT !.active = c]
      BY <2>1
    <3> HIDE DEF d, c
    <3>2. /\ d = [active |-> d.active, offer_ready |-> d.offer_ready, ack_ready |-> d.ack_ready,
                  failed |-> d.failed, ip |-> d.ip, server |-> d.server, mask |-> d.mask,
                  router |-> d.router, dns |-> d.dns]
          /\ d.ack_ready = dhcp.ack_ready /\ d.ip = dhcp.ip
      BY <1>1, <3>1 DEF DhcpOK
    <3>3. DhcpOK(d, wire)
      BY <1>1, <3>2 DEF DhcpOK
    <3> QED
      BY <3>3 DEF d
  <2>4. CallOK(call, ping)'
    BY <2>2 DEF CallOK
  <2> QED
    BY <1>1, <2>1, <2>3, <2>4 DEF NetInv
<1>6. CASE dhcp_send_discover
  BY <1>4, <1>6 DEF dhcp_send_discover
<1>7. CASE dhcp_send_request
  BY <1>4, <1>7 DEF dhcp_send_request
<1>8. CASE OfferLook
  <2>1. /\ UNCHANGED <<scene, nic, arp, ping, udp, wire, ghost>>
        /\ Configured(dhcp, FALSE) \/ NextTry("discover") \/ Moves(Call("request"))
    BY <1>8 DEF OfferLook
  <2>2. CASE Moves(Call("request"))
    <3>1. Goes
      BY <2>2 DEF Moves, Call, CallFields
    <3> QED
      BY <1>3, <2>1, <3>1
  <2> QED
    BY <1>2, <1>3, <2>1, <2>2
<1>9. CASE AckLook
  <2>1. /\ UNCHANGED <<scene, nic, arp, ping, udp, wire, ghost>>
        /\ Ends \/ NextTry("request")
    BY <1>9 DEF AckLook
  <2> QED
    BY <1>2, <1>3, <2>1
<1> QED
  BY <1>5, <1>6, <1>7, <1>8, <1>9


\* A step of a call leaves the lease, the ARP table and the wire alone.
LEMMA CallMoves ==
    ASSUME NetInv, UNCHANGED <<scene, ready, config, dhcp, arp, wire>>,
           GhostFields(ghost'), ghost'.heard = ghost.heard,
           NicOK(nic', wire, ghost'.queued), UdpOK(udp', ghost'.unread), PingOK(ping', wire),
           CallOK(call, ping)', AnsweredOK(ghost'.answered, wire)
    PROVE  NetInv'
BY DEF NetInv

\* What clks_net_resolve_ipv4 and its callers do when they give up.
LEMMA ReturnFields ==
    ASSUME GhostFields(ghost), NEW dst, NEW ok, Returns(dst, ok)
    PROVE  /\ GhostFields(ghost') /\ ghost'.queued = ghost.queued /\ ghost'.heard = ghost.heard
           /\ ghost'.unread = ghost.unread
           /\ ghost'.answered = IF ok THEN [dst |-> dst, via |-> next_hop_for(dst), seq |-> ping.seq,
                                            own |-> dst = config.ip]
                                ELSE NoResult
           /\ CallOK(call, ping)'
<1> DEFINE g == ghost'
           v == IF ok THEN [dst |-> dst, via |-> next_hop_for(dst), seq |-> ping.seq, own |-> dst = config.ip]
                ELSE NoResult
<1>1. g = [ghost EXCEPT !.answered = v] /\ call' = Idle
  BY DEF Returns
<1>2. CallOK(call, ping)'
  BY <1>1 DEF CallOK, CallFields, Idle, Call
<1> HIDE DEF g, v
<1>3. /\ GhostFields(g) /\ g.queued = ghost.queued /\ g.heard = ghost.heard
      /\ g.unread = ghost.unread /\ g.answered = v
  BY <1>1 DEF GhostFields
<1> QED
  BY <1>2, <1>3 DEF g, v

\* The calls of programs.
LEMMA CallStep ==
    ASSUME NetInv,
           \/ PollAgain \/ call_returns \/ call_starts \/ ResolveLook \/ send_echo_request
           \/ ReplyLook \/ send_datagram \/ udp_recv \/ RecvLook
    PROVE  NetInv'
<1>1. /\ NicOK(nic, wire, ghost.queued) /\ UdpOK(udp, ghost.unread) /\ GhostFields(ghost)
      /\ PingOK(ping, wire) /\ CallOK(call, ping) /\ AnsweredOK(ghost.answered, wire)
  BY DEF NetInv
<1>2. AnsweredOK(NoResult, wire)
  BY DEF AnsweredOK
<1>3. ASSUME NEW f, f.kind \in {"arp", "ip"}, nic' = tx_frame(nic, f), ghost' = Queued(ghost, nic, f)
      PROVE  /\ NicOK(nic', wire, ghost'.queued) /\ GhostFields(ghost')
             /\ ghost'.heard = ghost.heard /\ ghost'.unread = ghost.unread
             /\ ghost'.answered = ghost.answered
  BY <1>1, <1>3, FrameIsNotNone, Sends
<1>4. ASSUME CallFields(call'), call'.phase \notin {"resolve", "ping", "reply"}
      PROVE  CallOK(call, ping)'
  BY <1>4 DEF CallOK
<1>5. ASSUME config' = config PROVE \A d : next_hop_for(d)' = next_hop_for(d)
  BY <1>5 DEF next_hop_for
<1>6. CASE PollAgain
  <2>1. /\ UNCHANGED <<scene, nic, ready, config, dhcp, arp, ping, udp, wire, ghost>>
        /\ call' = [call EXCEPT !.processed = 0]
    BY <1>6 DEF PollAgain, protocols
  <2>2. /\ CallFields(call') /\ call'.phase = call.phase /\ call'.then = call.then
        /\ call'.dst = call.dst /\ call'.hop = call.hop
    BY <1>1, <2>1 DEF CallOK, CallFields
  <2>3. CallOK(call, ping)'
    BY <2>1, <2>2, CallKept
  <2> QED
    BY <1>1, <2>1, <2>3, CallMoves
<1>7. CASE call_returns
  <2>1. UNCHANGED <<scene, nic, ready, config, dhcp, arp, ping, udp, wire>>
    BY <1>7 DEF call_returns, protocols
  <2>2. CASE Returns(0, FALSE)
    <3>1. /\ GhostFields(ghost') /\ ghost'.queued = ghost.queued /\ ghost'.heard = ghost.heard
          /\ ghost'.unread = ghost.unread /\ ghost'.answered = NoResult /\ CallOK(call, ping)'
      BY <1>1, <2>2, ReturnFields
    <3> QED
      BY <1>1, <1>2, <2>1, <3>1, CallMoves
  <2>3. ASSUME NEW d, d = config.ip, Returns(d, TRUE)
        PROVE  NetInv'
    <3> DEFINE r == ghost'.answered
    <3>1. /\ GhostFields(ghost') /\ ghost'.queued = ghost.queued /\ ghost'.heard = ghost.heard
          /\ ghost'.unread = ghost.unread /\ CallOK(call, ping)'
          /\ r = [dst |-> d, via |-> next_hop_for(d), seq |-> ping.seq, own |-> d = config.ip]
      BY <1>1, <2>3, ReturnFields
    <3> HIDE DEF r
    <3>2. r.own = (d = config.ip)
      BY <3>1
    <3>3. AnsweredOK(r, wire)
      BY <2>3, <3>2 DEF AnsweredOK
    <3> QED
      BY <1>1, <2>1, <3>1, <3>3, CallMoves DEF r
  <2> QED
    BY <1>7, <2>2, <2>3 DEF call_returns
<1>8. CASE call_starts
  <2>1. PICK c \in scene.calls :
          /\ c.op \in {"ping", "send"}
          /\ LET hop == next_hop_for(c.dst)
                 known == IF c.dst = config.ip THEN {OurMac}
                          ELSE IF c.op = "send" /\ c.dst = BroadcastIp THEN {BroadcastMac}
                          ELSE arp_lookup(arp, hop)
                 request == Arp("request", OurMac, config.ip, BroadcastMac, hop)
                 goal == [Call("resolve") EXCEPT !.then = c.op, !.dst = c.dst, !.hop = hop]
             IN  IF known # {}
                 THEN /\ \E m \in known : call' = [goal EXCEPT !.phase = c.op, !.mac = m]
                      /\ UNCHANGED <<nic, ghost>>
                 ELSE /\ call' = goal
                      /\ nic' = tx_frame(nic, request)
                      /\ ghost' = Queued(ghost, nic, request)
    BY <1>8 DEF call_starts
  <2> DEFINE hop == next_hop_for(c.dst)
             request == Arp("request", OurMac, config.ip, BroadcastMac, hop)
             goal == [Call("resolve") EXCEPT !.then = c.op, !.dst = c.dst, !.hop = hop]
             k == call'
  <2>2. UNCHANGED <<scene, ready, config, dhcp, arp, ping, udp, wire>>
    BY <1>8 DEF call_starts, protocols
  <2>3. /\ k = goal \/ \E m : k = [goal EXCEPT !.phase = c.op, !.mac = m]
        /\ UNCHANGED <<nic, ghost>> \/ (nic' = tx_frame(nic, request) /\ ghost' = Queued(ghost, nic, request))
    BY <2>1
  <2> HIDE DEF k
  <2>4. /\ CallFields(goal) /\ goal.phase = "resolve" /\ goal.then = c.op /\ goal.dst = c.dst
        /\ goal.hop = hop
    <3> DEFINE o == c.op
               d == c.dst
               b == Call("resolve")
               g == goal
    <3>1. g = [b EXCEPT !.then = o, !.dst = d, !.hop = hop]
      OBVIOUS
    <3>2. CallFields(b) /\ b.phase = "resolve"
      BY DEF Call, CallFields
    <3> HIDE DEF hop, o, d, b, g
    <3>3. CallFields(g) /\ g.phase = "resolve" /\ g.then = o /\ g.dst = d /\ g.hop = hop
      BY <3>1, <3>2 DEF CallFields
    <3> QED
      BY <3>3 DEF g, o, d
  <2> HIDE DEF goal
  <2>5. /\ CallFields(k) /\ k.phase \in {"resolve", "ping", "send"} /\ k.then = c.op
        /\ k.dst = c.dst /\ k.hop = hop
    <3>1. CASE k = goal
      BY <2>4, <3>1
    <3>2. CASE k # goal
      <4>1. PICK m : k = [goal EXCEPT !.phase = c.op, !.mac = m]
        BY <2>3, <3>2
      <4> HIDE DEF hop
      <4> QED
        BY <2>1, <2>4, <4>1 DEF CallFields
    <3> QED
      BY <3>1, <3>2
  <2>6. CallOK(call, ping)'
    BY <1>5, <2>1, <2>2, <2>5 DEF CallOK, k
  <2>7. /\ NicOK(nic', wire, ghost'.queued) /\ GhostFields(ghost')
        /\ ghost'.heard = ghost.heard /\ ghost'.unread = ghost.unread
        /\ ghost'.answered = ghost.answered
    <3>1. request.kind = "arp"
      BY DEF Arp
    <3> HIDE DEF request
    <3>2. CASE UNCHANGED <<nic, ghost>>
      BY <1>1, <3>2
    <3>3. CASE nic' = tx_frame(nic, request) /\ ghost' = Queued(ghost, nic, request)
      BY <1>3, <3>1, <3>3
    <3> QED
      BY <2>3, <3>2, <3>3
  <2> QED
    BY <1>1, <2>2, <2>6, <2>7, CallMoves
<1>9. CASE ResolveLook
  <2>1. /\ UNCHANGED <<scene, nic, ready, config, dhcp, arp, ping, udp, wire>>
        /\ call.phase = "resolve"
        /\ \/ Returns(0, FALSE)
           \/ \E m : call' = [call EXCEPT !.phase = call.then, !.processed = 0, !.mac = m] /\ ghost' = ghost
    BY <1>9 DEF ResolveLook, protocols
  <2>2. CASE Returns(0, FALSE)
    <3>1. /\ GhostFields(ghost') /\ ghost'.queued = ghost.queued /\ ghost'.heard = ghost.heard
          /\ ghost'.unread = ghost.unread /\ ghost'.answered = NoResult /\ CallOK(call, ping)'
      BY <1>1, <2>2, ReturnFields
    <3> QED
      BY <1>1, <1>2, <2>1, <3>1, CallMoves
  <2>3. CASE \E m : call' = [call EXCEPT !.phase = call.then, !.processed = 0, !.mac = m] /\ ghost' = ghost
    <3> DEFINE k == call'
               t == call.then
    <3>1. PICK m : k = [call EXCEPT !.phase = t, !.processed = 0, !.mac = m]
      BY <2>3
    <3> HIDE DEF k, t
    <3>2. CallFields(k) /\ k.phase = t /\ k.then = call.then /\ k.dst = call.dst /\ k.hop = call.hop
      BY <1>1, <3>1 DEF CallOK, CallFields
    <3>3. t \in {"ping", "send"} /\ call.hop = next_hop_for(call.dst)
      BY <1>1, <2>1 DEF CallOK, t
    <3>4. CallOK(call, ping)'
      BY <1>5, <2>1, <3>2, <3>3 DEF CallOK, k
    <3> QED
      BY <1>1, <2>1, <2>3, <3>4, CallMoves
  <2> QED
    BY <2>1, <2>2, <2>3
<1>10. CASE send_echo_request
  <2> DEFINE seq == (ping.seq + 1) % Wrap16
             f == Packet(OurMac, call.mac, config.ip, call.dst, "icmp", Echo("request", TRUE, seq))
             alt == IF call.hop = call.dst THEN 0 ELSE call.hop
             sent == TxFree(nic)
             x == IF sent THEN alt ELSE 0
  <2>1. /\ UNCHANGED <<scene, ready, config, dhcp, arp, udp, wire>> /\ call.phase = "ping"
        /\ ping' = [seq |-> seq, waiting |-> sent, reply_ok |-> FALSE, dst |-> call.dst, alt |-> x]
        /\ nic' = tx_frame(nic, f)
        /\ IF sent THEN call' = [call EXCEPT !.phase = "reply"] /\ ghost' = Queued(ghost, nic, f)
           ELSE Returns(0, FALSE)
    BY <1>10 DEF send_echo_request
  <2>2. f.kind = "ip" /\ x \in {0, call.hop}
    BY DEF Packet
  <2> HIDE DEF seq, f, alt, x
  <2>3. PingOK(ping', wire) /\ ping'.dst = call.dst /\ ping'.alt = x
    BY <2>1 DEF PingOK
  <2>4. CASE sent
    <3>1. call' = [call EXCEPT !.phase = "reply"] /\ ghost' = Queued(ghost, nic, f)
      BY <2>1, <2>4
    <3>2. /\ NicOK(nic', wire, ghost'.queued) /\ GhostFields(ghost')
          /\ ghost'.heard = ghost.heard /\ ghost'.unread = ghost.unread
          /\ ghost'.answered = ghost.answered
      BY <1>3, <2>1, <2>2, <3>1
    <3> DEFINE k == call'
    <3>3. /\ CallFields(k) /\ k.phase = "reply" /\ k.dst = call.dst /\ k.hop = call.hop
      BY <1>1, <3>1 DEF CallOK, CallFields
    <3> HIDE DEF k
    <3>4. call.hop = next_hop_for(call.dst)
      BY <1>1, <2>1 DEF CallOK
    <3>5. CallOK(call, ping)'
      BY <1>5, <2>1, <2>2, <2>3, <3>3, <3>4 DEF CallOK, k
    <3> QED
      BY <1>1, <2>1, <2>3, <3>2, <3>5, CallMoves
  <2>5. CASE ~sent
    <3>1. Returns(0, FALSE) /\ nic' = nic
      BY <2>1, <2>5 DEF tx_frame
    <3>2. /\ GhostFields(ghost') /\ ghost'.queued = ghost.queued /\ ghost'.heard = ghost.heard
          /\ ghost'.unread = ghost.unread /\ ghost'.answered = NoResult /\ CallOK(call, ping)'
      BY <1>1, <3>1, ReturnFields
    <3> QED
      BY <1>1, <1>2, <2>1, <2>3, <3>1, <3>2, CallMoves
  <2> QED
    BY <2>4, <2>5
<1>11. CASE ReplyLook
  <2> DEFINE p == ping'
  <2>1. /\ UNCHANGED <<scene, nic, ready, config, dhcp, arp, udp, wire>> /\ call.phase = "reply"
        /\ p = [ping EXCEPT !.waiting = FALSE, !.reply_ok = FALSE, !.alt = 0]
        /\ Returns(call.dst, ping.reply_ok)
    BY <1>11 DEF ReplyLook
  <2> HIDE DEF p
  <2>2. PingOK(p, wire)
    BY <1>1, <2>1 DEF PingOK
  <2>3. /\ GhostFields(ghost') /\ ghost'.queued = ghost.queued /\ ghost'.heard = ghost.heard
        /\ ghost'.unread = ghost.unread /\ CallOK(call, ping)'
        /\ ghost'.answered = IF ping.reply_ok
                             THEN [dst |-> call.dst, via |-> next_hop_for(call.dst), seq |-> ping.seq,
                                   own |-> call.dst = config.ip]
                             ELSE NoResult
    BY <1>1, <2>1, ReturnFields
  <2>4. AnsweredOK(ghost'.answered, wire)
    <3>1. CASE ~ping.reply_ok
      BY <1>2, <2>3, <3>1
    <3>2. CASE ping.reply_ok
      <4> DEFINE v == next_hop_for(call.dst)
                 r == ghost'.answered
      <4>1. /\ Replied(wire, ping.seq, {ping.dst, ping.alt} \ {0})
            /\ call.hop = v /\ ping.dst = call.dst /\ ping.alt \in {0, call.hop}
        BY <1>1, <2>1, <3>2 DEF PingOK, CallOK
      <4>2. r = [dst |-> call.dst, via |-> v, seq |-> ping.seq, own |-> call.dst = config.ip]
        BY <2>3, <3>2
      <4> HIDE DEF v, r
      <4>3. {ping.dst, ping.alt} \ {0} \subseteq {r.dst, r.via} /\ r.seq = ping.seq
        BY <4>1, <4>2
      <4>4. Replied(wire, r.seq, {r.dst, r.via})
        BY <4>1, <4>3 DEF Replied
      <4> QED
        BY <4>4 DEF AnsweredOK, r
    <3> QED
      BY <3>1, <3>2
  <2> QED
    BY <1>1, <2>1, <2>2, <2>3, <2>4, CallMoves DEF p
<1>12. CASE send_datagram
  <2> DEFINE f == Packet(OurMac, call.mac, config.ip, call.dst, "udp", 0)
  <2>1. /\ UNCHANGED <<scene, ready, config, dhcp, arp, ping, udp, wire>> /\ call' = Idle
        /\ nic' = tx_frame(nic, f) /\ ghost' = Queued(ghost, nic, f)
    BY <1>12 DEF send_datagram, protocols
  <2>2. f.kind = "ip"
    BY DEF Packet
  <2> HIDE DEF f
  <2>3. /\ NicOK(nic', wire, ghost'.queued) /\ GhostFields(ghost')
        /\ ghost'.heard = ghost.heard /\ ghost'.unread = ghost.unread
        /\ ghost'.answered = ghost.answered
    BY <1>3, <2>1, <2>2
  <2>4. CallOK(call, ping)'
    BY <2>1 DEF CallOK, CallFields, Idle, Call
  <2> QED
    BY <1>1, <2>1, <2>3, <2>4, CallMoves
<1>13. CASE udp_recv
  <2>1. /\ UNCHANGED <<scene, nic, ready, config, dhcp, arp, ping, udp, wire, ghost>>
        /\ call' = Call("recv")
    BY <1>13 DEF udp_recv, protocols
  <2>2. CallOK(call, ping)'
    BY <2>1 DEF CallOK, CallFields, Call
  <2> QED
    BY <1>1, <2>1, <2>2, CallMoves
<1>14. CASE RecvLook
  <2>1. /\ UNCHANGED <<scene, nic, ready, config, dhcp, arp, ping, wire>> /\ call' = Idle
        /\ IF udp.count = 0 THEN UNCHANGED <<udp, ghost>>
           ELSE /\ udp' = [udp EXCEPT !.slot[udp.head] = None,
                                      !.head = (udp.head + 1) % QueueCap, !.count = udp.count - 1]
                /\ ghost' = [ghost EXCEPT !.unread = Tail(ghost.unread)]
    BY <1>14 DEF RecvLook
  <2>2. CallOK(call, ping)'
    BY <2>1 DEF CallOK, CallFields, Idle, Call
  <2>3. CASE udp.count = 0
    BY <1>1, <2>1, <2>2, <2>3, CallMoves
  <2>4. CASE udp.count # 0
    <3> DEFINE t == Tail(ghost.unread)
               g == ghost'
    <3>1. UdpOK(udp', t)
      <4>1. UdpOK([udp EXCEPT !.slot[udp.head] = None, !.head = (udp.head + 1) % QueueCap,
                              !.count = udp.count - 1], t)
        BY <1>1, <2>4, UdpPops
      <4> QED
        BY <2>1, <2>4, <4>1
    <3>2. g = [ghost EXCEPT !.unread = t]
      BY <2>1, <2>4
    <3> HIDE DEF t, g
    <3>3. /\ GhostFields(g) /\ g.queued = ghost.queued /\ g.heard = ghost.heard
          /\ g.unread = t /\ g.answered = ghost.answered
      BY <1>1, <3>2 DEF GhostFields
    <3> QED
      BY <1>1, <2>1, <2>2, <3>1, <3>3, CallMoves DEF g
  <2> QED
    BY <2>3, <2>4
<1> QED
  BY <1>6, <1>7, <1>8, <1>9, <1>10, <1>11, <1>12, <1>13, <1>14

-----------------------------------------------------------------------------
(* The theorems                                                             *)

\* The rings, tables and the queue are empty before clks_net_init.
LEMMA NetStarts ==
    ASSUME Init
    PROVE  NetInv
<1>1. /\ nic = setup_descs /\ config = NoConfig /\ ready = FALSE /\ dhcp = dhcp_state_reset
      /\ arp = arp_table_reset /\ udp = udp_queue_reset /\ ping = NoPing /\ call = Call("off")
      /\ wire = scene.strays /\ ghost = NoGhost /\ scene \in Scenes
  BY DEF Init
<1>2. FramesOK(wire)
  BY <1>1, NetAssumption DEF FramesOK
<1>3. IsSeq(<<>>) /\ Len(<<>>) = 0
  <2>1. <<>> \in Seq({})
    OBVIOUS
  <2> QED
    BY <2>1 DEF IsSeq
<1>4. ASSUME NEW n \in Nat \ {0}, NEW f, f = [i \in 0..(n - 1) |-> None]
      PROVE  RingHolds(f, 0, n, <<>>, None) /\ (0 + Len(<<>>)) % n = 0
  <2>1. \A k \in 0..(n - 1) : (0 + k) % n = k
    OBVIOUS
  <2>2. (0 + 0) % n = 0 /\ 0 \in 0..(n - 1) /\ 0 \in 0..n
    OBVIOUS
  <2>3. \A k \in 0..(n - 1) : f[(0 + k) % n] = None /\ ~(k < 0)
    BY <1>4, <2>1
  <2> QED
    BY <1>3, <1>4, <2>2, <2>3 DEF RingHolds
<1>5. DescCount \in Nat \ {0} /\ QueueCap \in Nat \ {0}
  BY NetAssumption
<1>6. NicOK(nic, wire, ghost.queued)
  <2>1. /\ NicFields(nic) /\ nic.rx = [i \in 0..(DescCount - 1) |-> None] /\ nic.rx_head = 0
        /\ nic.rx_tail = DescCount - 1 /\ nic.rx_index = 0
        /\ nic.tx = [i \in 0..(DescCount - 1) |-> None] /\ nic.tx_head = 0 /\ nic.tx_index = 0
        /\ ghost.queued = <<>>
    BY <1>1 DEF setup_descs, NicFields, NoGhost
  <2>2. /\ RingHolds(nic.rx, 0, DescCount, <<>>, None) /\ (0 + Len(<<>>)) % DescCount = 0
        /\ RingHolds(nic.tx, 0, DescCount, <<>>, None)
    BY <1>4, <1>5, <2>1
  <2>3. /\ DescCount - 1 \in Desc /\ Len(<<>>) < DescCount
        /\ 0 = After(DescCount - 1)
    <3>1. DescCount - 1 + 1 = DescCount /\ DescCount % DescCount = 0
      BY <1>5
    <3>2. After(DescCount - 1) = 0
      BY <3>1 DEF After
    <3> QED
      BY <1>3, <1>5, <3>2 DEF Desc
  <2>4. \A k \in 1..Len(<<>>) : FALSE
    BY <1>3
  <2>5. RxHolds(nic, wire, <<>>)
    BY <2>1, <2>2, <2>3, <2>4 DEF RxHolds
  <2>6. TxOK(nic, <<>>)
    BY <2>1, <2>2, <2>4 DEF TxOK
  <2> QED
    BY <2>1, <2>5, <2>6 DEF NicOK, RxOK
<1>7. UdpOK(udp, ghost.unread)
  <2>1. /\ udp = [slot |-> udp.slot, head |-> udp.head, tail |-> udp.tail, count |-> udp.count]
        /\ udp.slot = [i \in 0..(QueueCap - 1) |-> None] /\ udp.head = 0 /\ udp.tail = 0
        /\ udp.count = 0 /\ ghost.unread = <<>>
    BY <1>1 DEF udp_queue_reset, NoGhost
  <2>2. RingHolds(udp.slot, 0, QueueCap, <<>>, None) /\ (0 + Len(<<>>)) % QueueCap = 0
    BY <1>4, <1>5, <2>1
  <2> QED
    BY <1>3, <2>1, <2>2 DEF UdpOK
<1>8. ArpOK(arp, ghost.heard)
  <2>1. /\ arp = [table |-> arp.table, stamp |-> arp.stamp] /\ arp.stamp = 1
        /\ arp.table = [i \in 1..ArpCap |-> arp.table[i]]
        /\ \A i \in 1..ArpCap : arp.table[i].stamp = 0 /\ arp.table[i].ip = 0
        /\ ghost.heard = <<>>
    BY <1>1 DEF arp_table_reset, NoGhost
  <2>2. ArpCap \in Nat /\ Len(<<>>) \in 0..ArpCap
    BY <1>3, NetAssumption
  <2>3. \A i \in 1..ArpCap : arp.table[i].stamp \in Nat /\ arp.table[i].stamp < arp.stamp
    BY <2>1
  <2>4. arp.stamp \in Nat
    BY <2>1
  <2>5. ArpFields(arp, <<>>)
    BY <1>3, <2>1, <2>2, <2>3, <2>4 DEF ArpFields
  <2> DEFINE P == [k \in 1..Len(<<>>) |-> 1]
  <2>6. P \in [1..Len(<<>>) -> 1..ArpCap] /\ \A k \in 1..Len(<<>>) : FALSE
    BY <1>3
  <2> HIDE DEF P
  <2>7. ArpAt(arp, <<>>, P)
    BY <2>1, <2>6 DEF ArpAt
  <2> QED
    BY <2>1, <2>5, <2>6, <2>7 DEF ArpOK
<1>9. DhcpOK(dhcp, wire) /\ LeaseOK(config, ready, wire)
  BY <1>1 DEF DhcpOK, LeaseOK, dhcp_state_reset
<1>10. PingOK(ping, wire) /\ CallOK(call, ping)
  BY <1>1 DEF PingOK, NoPing, CallOK, CallFields, Call
<1>11. AnsweredOK(ghost.answered, wire) /\ GhostFields(ghost)
  BY <1>1 DEF AnsweredOK, GhostFields, NoGhost
<1> QED
  BY <1>1, <1>2, <1>6, <1>7, <1>8, <1>9, <1>10, <1>11 DEF NetInv

\* Every step keeps the invariant.
LEMMA NetSteps ==
    ASSUME NetInv, [Next]_vars
    PROVE  NetInv'
<1>1. CASE Next
  BY <1>1, CardStep, FrameStep, BootStep, CallStep DEF Next
<1>2. CASE UNCHANGED vars
  <2>1. UNCHANGED <<scene, nic, ready, config, dhcp, arp, ping, udp, call, wire, ghost>>
    BY <1>2 DEF vars, protocols
  <2>2. CallOK(call, ping)'
    BY <2>1, CallKept DEF NetInv, CallOK
  <2> QED
    BY <2>1, <2>2 DEF NetInv
<1> QED
  BY <1>1, <1>2

\* The network stack is sound: its rings, its ARP table and its datagram queue hold what
\* they should in order, the lease and the last ping are accounted for.
THEOREM NetIsSound == Spec => []NetInv
<1>1. Init => NetInv
  BY NetStarts
<1>2. NetInv /\ [Next]_vars => NetInv'
  BY NetSteps
<1> QED
  BY <1>1, <1>2, PTL DEF Spec

\* The distance from a position to one k further is k.
LEMMA Distance ==
    ASSUME NEW n \in Nat \ {0}, NEW r \in 0..(n - 1), NEW k \in 0..(n - 1)
    PROVE  (((r + k) % n) - r) % n = k
<1> DEFINE a == (r + k) % n
           b == a - r
<1>1. a = IF r + k < n THEN r + k ELSE r + k - n
  <2>1. k \in 0..n
    OBVIOUS
  <2> QED
    BY <2>1, PositionAfter
<1> HIDE DEF a
<1>2. b = k \/ b = k - n
  BY <1>1
<1> HIDE DEF b
<1>3. b % n = k
  <2>1. CASE b = k
    BY <2>1
  <2>2. CASE b = k - n
    BY <2>2
  <2> QED
    BY <1>2, <2>1, <2>2
<1> QED
  BY <1>3 DEF a, b

\* The driver and the card never touch the same descriptor, and the frames accepted
\* leave in order: clks_net_tx_frame and clks_net_poll_internal.
THEOREM RingsStayInOrder == Spec => []RingsInOrder
<1>1. ASSUME NetInv PROVE RingsInOrder
  <2> DEFINE q == ghost.queued
             l == Len(q)
             h == nic.tx_head
  <2>1. RxOK(nic, wire) /\ TxOK(nic, q) /\ FramesOK(wire)
    BY <1>1 DEF NetInv, NicOK
  <2>2. PICK r : RxHolds(nic, wire, r)
    BY <2>1 DEF RxOK
  <2> DEFINE i == nic.rx_index
             m == Len(r)
  <2>3. /\ i \in 0..(DescCount - 1) /\ m \in 0..DescCount /\ m < DescCount /\ DescCount \in Nat \ {0}
        /\ nic.rx_head = (i + m) % DescCount /\ nic.rx_index = After(nic.rx_tail)
        /\ \A k \in 1..m : r[k] \in wire
        /\ \A k \in 0..(DescCount - 1) : nic.rx[(i + k) % DescCount] = IF k < m THEN r[k + 1] ELSE None
    BY <2>2, NetAssumption DEF RxHolds, RingHolds
  <2>4. m \in 0..(DescCount - 1)
    BY <2>3
  <2>5. Span(i, nic.rx_head) = {(i + k) % DescCount : k \in 0..(m - 1)}
    BY <2>3, <2>4, Distance DEF Span
  <2> HIDE DEF i, m
  <2>6. ASSUME NEW k \in 0..(DescCount - 1)
        PROVE  nic.rx[(i + k) % DescCount] # None <=> k < m
    <3>1. CASE k < m
      <4>1. k + 1 \in 1..m
        BY <2>3, <3>1
      <4>2. r[k + 1] # None
        BY <2>1, <2>3, <4>1, FrameIsNotNone DEF FramesOK
      <4> QED
        BY <2>3, <3>1, <4>2
    <3>2. CASE ~(k < m)
      BY <2>3, <3>2
    <3> QED
      BY <3>1, <3>2
  <2>7. {j \in 0..(DescCount - 1) : nic.rx[j] # None} = {(i + k) % DescCount : k \in 0..(m - 1)}
    <3>1. ASSUME NEW j \in 0..(DescCount - 1), nic.rx[j] # None
          PROVE  \E k \in 0..(m - 1) : j = (i + k) % DescCount
      <4>1. PICK k \in 0..(DescCount - 1) : (i + k) % DescCount = j
        BY <2>3, PositionReached
      <4>2. k < m
        BY <2>6, <3>1, <4>1
      <4>3. k \in 0..(m - 1)
        BY <2>3, <4>2
      <4> QED
        BY <4>1, <4>3
    <3>2. ASSUME NEW k \in 0..(m - 1)
          PROVE  (i + k) % DescCount \in 0..(DescCount - 1) /\ nic.rx[(i + k) % DescCount] # None
      <4>1. k \in 0..(DescCount - 1) /\ k < m
        BY <2>3
      <4> QED
        BY <2>3, <2>6, <4>1, PositionIn
    <3> QED
      BY <3>1, <3>2
  <2>8. /\ h \in 0..(DescCount - 1) /\ l \in 0..DescCount /\ \A k \in 1..l : q[k] # None
        /\ \A k \in 0..(DescCount - 1) : nic.tx[(h + k) % DescCount] = IF k < l THEN q[k + 1] ELSE None
    BY <2>1 DEF TxOK, RingHolds
  <2> HIDE DEF q, l, h
  <2>9. ASSUME NEW k \in 1..l
        PROVE  /\ k - 1 \in 0..(DescCount - 1) /\ h + k - 1 = h + (k - 1)
               /\ (h + (k - 1)) % DescCount \in 0..(DescCount - 1)
               /\ nic.tx[(h + (k - 1)) % DescCount] = q[k]
    <3>1. k - 1 \in 0..(DescCount - 1) /\ k - 1 < l /\ (k - 1) + 1 = k /\ h + k - 1 = h + (k - 1)
      BY <2>3, <2>8
    <3>2. (h + (k - 1)) % DescCount \in 0..(DescCount - 1)
      BY <2>3, <2>8, <3>1, PositionIn
    <3> QED
      BY <2>8, <3>1, <3>2
  <2>10. \A k \in 1..l : nic.tx[(h + k - 1) % DescCount] = q[k]
    BY <2>9
  <2> DEFINE S == {j \in 0..(DescCount - 1) : nic.tx[j] # None}
             F == [k \in 1..l |-> (h + (k - 1)) % DescCount]
  <2>11. Cardinality(S) = l
    <3>1. F \in [1..l -> S]
      BY <2>8, <2>9
    <3>2. ASSUME NEW j \in 1..l, NEW k \in 1..l, j # k PROVE F[j] # F[k]
      <4> DEFINE a == j - 1
                 b == k - 1
      <4>1. a # b
        BY <2>8, <3>2
      <4>2. /\ a \in 0..(DescCount - 1) /\ b \in 0..(DescCount - 1)
            /\ h \in 0..(DescCount - 1) /\ DescCount \in Nat \ {0}
        BY <2>3, <2>8, <2>9
      <4>3. F[j] = (h + a) % DescCount /\ F[k] = (h + b) % DescCount
        OBVIOUS
      <4> HIDE DEF a, b, F
      <4> QED
        BY <4>1, <4>2, <4>3, PositionsDiffer
    <3>3. ASSUME NEW s \in S PROVE \E k \in 1..l : F[k] = s
      <4>1. PICK k \in 0..(DescCount - 1) : (h + k) % DescCount = s
        BY <2>3, <2>8, PositionReached
      <4>2. k < l
        BY <2>8, <4>1
      <4> DEFINE b == k + 1
      <4>3. l \in 0..DescCount /\ k < l /\ DescCount \in Nat
        BY <2>3, <2>8, <4>2
      <4>4. b \in 1..l /\ b - 1 = k
        BY <4>3
      <4> HIDE DEF b
      <4>5. F[b] = (h + (b - 1)) % DescCount
        BY <4>4
      <4> QED
        BY <4>1, <4>4, <4>5
    <3>4. l \in Nat
      BY <2>3, <2>8
    <3> HIDE DEF F, S
    <3> QED
      BY <3>1, <3>2, <3>3, <3>4, Numbered
  <2> QED
    BY <2>3, <2>5, <2>7, <2>10, <2>11 DEF RingsInOrder, q, l, h, i
<1> QED
  BY <1>1, NetIsSound, PTL

\* The network is available only with the fallback or with an address that a server gave
\* this card after one acknowledged: clks_net_dhcp_autoconfigure.
THEOREM LeasesAreOurs == Spec => []LeaseOurs
<1>1. ASSUME NetInv PROVE LeaseOurs
  <2>1. LeaseOK(config, ready, wire)
    BY <1>1 DEF NetInv
  <2>2. \A types : \A f \in wire : Told(f, types) => f \in ForUs(types)
    BY DEF Told, ForUs
  <2> QED
    BY <2>1, <2>2 DEF LeaseOK, LeaseOurs
<1> QED
  BY <1>1, NetIsSound, PTL

\* A ping that succeeds, but for one to the machine's own address, was answered, and
\* not by a late reply to an earlier one: clks_net_ping_ipv4.
THEOREM PingsAreTruthful == Spec => []PingTruthful
<1>1. ASSUME NetInv PROVE PingTruthful
  BY <1>1 DEF NetInv, AnsweredOK, Replied, PingTruthful
<1> QED
  BY <1>1, NetIsSound, PTL

\* The ARP table and the datagram queue give up what is oldest in them and nothing else:
\* clks_net_arp_upsert and clks_net_udp_queue_push.
THEOREM NewestAreKept == Spec => []NewestKept
<1>1. ASSUME NetInv PROVE UdpNewestKept
  <2> DEFINE q == ghost.unread
             h == udp.head
             l == Len(q)
  <2>1. UdpOK(udp, q)
    BY <1>1 DEF NetInv
  <2>2. /\ QueueCap \in Nat \ {0} /\ h \in 0..(QueueCap - 1) /\ l \in 0..QueueCap /\ udp.count = l
        /\ \A k \in 0..(QueueCap - 1) : udp.slot[(h + k) % QueueCap] = IF k < l THEN q[k + 1] ELSE None
    BY <2>1, UdpFacts DEF RingHolds
  <2> HIDE DEF q, h, l
  <2>3. ASSUME NEW k \in 1..l PROVE udp.slot[(h + k - 1) % QueueCap] = q[k]
    <3>1. k - 1 \in 0..(QueueCap - 1) /\ k - 1 < l /\ (k - 1) + 1 = k /\ h + k - 1 = h + (k - 1)
      BY <2>2
    <3> QED
      BY <2>2, <3>1
  <2> QED
    BY <2>2, <2>3 DEF UdpNewestKept, q, h, l
<1>2. ASSUME NetInv PROVE ArpNewest
  <2> DEFINE h == ghost.heard
             T == arp.table
  <2>1. ArpOK(arp, h)
    BY <1>2 DEF NetInv
  <2>2. PICK P \in [1..Len(h) -> 1..ArpCap] : ArpAt(arp, h, P)
    BY <2>1 DEF ArpOK
  <2>3. /\ \A k \in 1..Len(h) : h[k] = <<T[P[k]].ip, T[P[k]].mac>> /\ T[P[k]].ip # 0
        /\ \A i \in 1..ArpCap : T[i].ip # 0 => \E k \in 1..Len(h) : P[k] = i
    BY <2>2 DEF ArpAt
  <2>4. ToSet(h) = {h[k] : k \in 1..Len(h)}
    <3>1. PICK S : h \in Seq(S)
      BY <2>1 DEF ArpOK, ArpFields, IsSeq
    <3>2. DOMAIN h = 1..Len(h)
      BY <3>1
    <3> QED
      BY <3>2 DEF ToSet
  <2> HIDE DEF h, T
  <2>5. {<<T[i].ip, T[i].mac>> : i \in {k \in 1..ArpCap : T[k].ip # 0}} = {h[k] : k \in 1..Len(h)}
    <3>1. ASSUME NEW i \in 1..ArpCap, T[i].ip # 0
          PROVE  \E k \in 1..Len(h) : <<T[i].ip, T[i].mac>> = h[k]
      BY <2>3, <3>1
    <3>2. ASSUME NEW k \in 1..Len(h)
          PROVE  P[k] \in 1..ArpCap /\ T[P[k]].ip # 0 /\ h[k] = <<T[P[k]].ip, T[P[k]].mac>>
      BY <2>2, <2>3
    <3> DEFINE A == {<<T[i].ip, T[i].mac>> : i \in {k \in 1..ArpCap : T[k].ip # 0}}
               B == {h[k] : k \in 1..Len(h)}
    <3>3. A \subseteq B
      BY <3>1
    <3>4. ASSUME NEW x \in B PROVE x \in A
      <4>1. PICK k \in 1..Len(h) : x = h[k]
        OBVIOUS
      <4> DEFINE i == P[k]
      <4>2. i \in {j \in 1..ArpCap : T[j].ip # 0} /\ x = <<T[i].ip, T[i].mac>>
        BY <3>2, <4>1
      <4> HIDE DEF i
      <4> QED
        BY <4>2
    <3> QED
      BY <3>3, <3>4
  <2> QED
    BY <2>4, <2>5 DEF ArpNewest, h, T
<1> QED
  BY <1>1, <1>2, NetIsSound, PTL DEF NewestKept

=============================================================================
