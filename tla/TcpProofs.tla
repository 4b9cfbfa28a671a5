------------------------------ MODULE TcpProofs ------------------------------
(***************************************************************************)
(* Theorems about Tcp: the two ends of a connection agree, the program     *)
(* reads the remote end's bytes in order, and what the calls say arrived   *)
(* has arrived.                                                            *)
(***************************************************************************)
EXTENDS Tcp, SequenceTheorems, TLAPS

Seqno == 0..(SeqMod - 1)

-----------------------------------------------------------------------------
(* Sequence numbers                                                        *)

\* A remainder, where the number lies less than a turn away.
LEMMA Wraps ==
    ASSUME SeqMod \in Nat \ {0}, NEW x \in Int, 0 - SeqMod < x, x < 2 * SeqMod
    PROVE  x % SeqMod = IF x < 0 THEN x + SeqMod ELSE IF x < SeqMod THEN x ELSE x - SeqMod
OBVIOUS

LEMMA DistanceIs ==
    ASSUME SeqMod \in Nat \ {0}, NEW a \in Seqno, NEW b \in Seqno
    PROVE  /\ Distance(a, b) = IF a <= b THEN b - a ELSE b - a + SeqMod
           /\ Distance(a, b) \in Seqno
<1>1. b - a \in Int /\ 0 - SeqMod < b - a /\ b - a < 2 * SeqMod
  BY DEF Seqno
<1>2. (b - a) % SeqMod = IF b - a < 0 THEN b - a + SeqMod
                         ELSE IF b - a < SeqMod THEN b - a ELSE b - a - SeqMod
  BY <1>1, Wraps
<1> QED
  BY <1>1, <1>2 DEF Distance, Seqno

LEMMA PlusIs ==
    ASSUME SeqMod \in Nat \ {0}, NEW a \in Seqno, NEW k \in 0..SeqMod
    PROVE  /\ Plus(a, k) = IF a + k < SeqMod THEN a + k ELSE a + k - SeqMod
           /\ Plus(a, k) \in Seqno
<1>1. a + k \in Int /\ 0 - SeqMod < a + k /\ a + k < 2 * SeqMod
  BY DEF Seqno
<1> DEFINE x == a + k
<1>2. x \in Int /\ 0 - SeqMod < x /\ x < 2 * SeqMod
  BY <1>1
<1>3. x % SeqMod = IF x < 0 THEN x + SeqMod ELSE IF x < SeqMod THEN x ELSE x - SeqMod
  <2> HIDE DEF x
  <2> QED
    BY <1>2, Wraps
<1> QED
  BY <1>3 DEF Plus, Seqno

\* A number counted from another: distances from it add up.
LEMMA DistancePlus ==
    ASSUME SeqMod \in Nat \ {0}, NEW a \in Seqno, NEW b \in Seqno, NEW k \in Nat,
           Distance(a, b) + k < SeqMod
    PROVE  Plus(b, k) \in Seqno /\ Distance(a, Plus(b, k)) = Distance(a, b) + k
<1>1. Distance(a, b) = (IF a <= b THEN b - a ELSE b - a + SeqMod) /\ Distance(a, b) \in Seqno
  BY DistanceIs
<1>2. k \in 0..SeqMod
  BY <1>1 DEF Seqno
<1>3. Plus(b, k) = (IF b + k < SeqMod THEN b + k ELSE b + k - SeqMod) /\ Plus(b, k) \in Seqno
  BY <1>2, PlusIs
<1> DEFINE c == Plus(b, k)
<1> HIDE DEF c
<1>4. Distance(a, c) = IF a <= c THEN c - a ELSE c - a + SeqMod
  BY <1>3, DistanceIs DEF c
<1>5. Distance(a, c) = Distance(a, b) + k
  BY <1>1, <1>3, <1>4 DEF c, Seqno
<1> QED
  BY <1>3, <1>5 DEF c

LEMMA DistanceSelf ==
    ASSUME SeqMod \in Nat \ {0}, NEW a \in Seqno
    PROVE  Distance(a, a) = 0
BY DistanceIs DEF Seqno

LEMMA DistanceNat ==
    ASSUME SeqMod \in Nat \ {0}, NEW a \in Seqno, NEW b \in Seqno
    PROVE  Distance(a, b) \in Nat /\ Distance(a, b) < SeqMod
BY DistanceIs DEF Seqno

LEMMA PlusDistance ==
    ASSUME SeqMod \in Nat \ {0}, NEW a \in Seqno, NEW k \in Seqno
    PROVE  Plus(a, k) \in Seqno /\ Distance(a, Plus(a, k)) = k
BY DistancePlus, DistanceSelf DEF Seqno

\* The distance between two numbers, from their distances from a third.
LEMMA DistanceFrom ==
    ASSUME SeqMod \in Nat \ {0}, NEW a \in Seqno, NEW b \in Seqno, NEW c \in Seqno
    PROVE  Distance(b, c) = IF Distance(a, b) <= Distance(a, c) THEN Distance(a, c) - Distance(a, b)
                            ELSE SeqMod - (Distance(a, b) - Distance(a, c))
<1>1. Distance(a, b) = (IF a <= b THEN b - a ELSE b - a + SeqMod)
  BY DistanceIs
<1>2. Distance(a, c) = (IF a <= c THEN c - a ELSE c - a + SeqMod)
  BY DistanceIs
<1>3. Distance(b, c) = (IF b <= c THEN c - b ELSE c - b + SeqMod)
  BY DistanceIs
<1> QED
  BY <1>1, <1>2, <1>3 DEF Seqno

LEMMA DistanceSame ==
    ASSUME SeqMod \in Nat \ {0}, NEW a \in Seqno, NEW b \in Seqno, NEW c \in Seqno,
           Distance(a, b) = Distance(a, c)
    PROVE  b = c
<1>1. Distance(a, b) = (IF a <= b THEN b - a ELSE b - a + SeqMod)
  BY DistanceIs
<1>2. Distance(a, c) = (IF a <= c THEN c - a ELSE c - a + SeqMod)
  BY DistanceIs
<1>3. a \in Int /\ b \in Int /\ c \in Int /\ 0 <= a /\ 0 <= b /\ 0 <= c
      /\ a < SeqMod /\ b < SeqMod /\ c < SeqMod
  BY DEF Seqno
<1>4. (IF a <= b THEN b - a ELSE b - a + SeqMod) = (IF a <= c THEN c - a ELSE c - a + SeqMod)
  BY <1>1, <1>2
<1> QED
  BY <1>3, <1>4

\* The comparisons of the code are those of the distances, as long as these are less than
\* half of the space apart.
LEMMA Compared ==
    ASSUME SeqMod \in Nat \ {0}, NEW K \in Nat, SeqMod > 2 * K,
           NEW a \in Seqno, NEW x \in Seqno, NEW y \in Seqno,
           Distance(a, x) < K, Distance(a, y) < K
    PROVE  /\ seq_ge(x, y) <=> Distance(a, x) >= Distance(a, y)
           /\ seq_le(x, y) <=> Distance(a, x) <= Distance(a, y)
<1>1. Distance(y, x) = IF Distance(a, y) <= Distance(a, x) THEN Distance(a, x) - Distance(a, y)
                       ELSE SeqMod - (Distance(a, y) - Distance(a, x))
  BY DistanceFrom
<1>2. SeqMod \div 2 \in Nat /\ SeqMod \div 2 >= K /\ 2 * (SeqMod \div 2) <= SeqMod
  OBVIOUS
<1>3. Distance(a, x) \in Nat /\ Distance(a, y) \in Nat
  BY DistanceIs DEF Seqno
<1> DEFINE d == Distance(a, x)
           e == Distance(a, y)
           h == SeqMod \div 2
           g == Distance(y, x)
<1>4. g = (IF e <= d THEN d - e ELSE SeqMod - (e - d)) /\ d \in Nat /\ e \in Nat /\ h \in Nat /\ h >= K
      /\ 2 * h <= SeqMod /\ d < K /\ e < K
  BY <1>1, <1>2, <1>3
<1> HIDE DEF d, e, h, g
<1>5. (g < h <=> d >= e) /\ ((g = 0 \/ g >= h) <=> d <= e)
  BY <1>4
<1>6. (seq_ge(x, y) <=> g < h) /\ (seq_le(x, y) <=> (g = 0 \/ g >= h))
  BY DEF seq_ge, seq_le, g, h
<1> QED
  BY <1>5, <1>6 DEF d, e

-----------------------------------------------------------------------------
(* Types                                                                   *)

State == {"CLOSED", "LISTEN", "SYN_SENT", "SYN_RECEIVED", "ESTABLISHED", "FIN_WAIT1",
          "FIN_WAIT2", "CLOSE_WAIT", "LAST_ACK"}
Flags == SUBSET {"SYN", "ACK", "PSH", "FIN", "RST"}
Control == [active : BOOLEAN, peer_fin : BOOLEAN, reset_seen : BOOLEAN, state : State,
            local_port : Port \cup {0}, snd_iss : Seqno, snd_una : Seqno, snd_nxt : Seqno,
            rcv_nxt : Seqno, stale_ack_seen : BOOLEAN]
CallBlock == [op : {"idle", "connect", "accept", "send", "recv", "close"}, phase : {"tx", "poll"},
              try : Nat, src : Port \cup {0}, want : Nat, sent : Nat, first : Seqno, last : Seqno]
SessionBlock == [port : Port \cup {0}, taken : Nat, read : Seq(Nat), reset : BOOLEAN,
                 finished : BOOLEAN, overtaken : BOOLEAN]
PeerBlock == [state : {"fresh", "syn_sent", "syn_rcvd", "open", "dead"}, irs : Seqno, nxt : Nat,
              una : Nat, edge : Nat, rcvd : Seq(Nat), fin : BOOLEAN, eof : BOOLEAN,
              probed : BOOLEAN]
Segments == [port : Port, flags : Flags, seq : Seqno, ack : Seqno, data : Seq(Nat)]

TypeOK ==
    /\ scene \in Scenes
    /\ tcp \in Control /\ recv_buf \in Seq(Nat) /\ Len(recv_buf) <= RecvCap
    /\ ephemeral_port \in scene.ports
    /\ drawn \in Nat
    /\ call \in CallBlock
    /\ \A m \in wire_out : m.segment \in Segments /\ m.window \in Nat
    /\ wire_in \subseteq Segments
    /\ peer \in [Port -> PeerBlock]
    /\ session \in SessionBlock

\* A control block, a call and a session by their fields.
Block(active, fin, reset, state, port, iss, una, nxt, rcv, stale) ==
    [active |-> active, peer_fin |-> fin, reset_seen |-> reset, state |-> state,
     local_port |-> port, snd_iss |-> iss, snd_una |-> una, snd_nxt |-> nxt, rcv_nxt |-> rcv,
     stale_ack_seen |-> stale]
InCall(op, phase, try, src, want, sent, first, last) ==
    [op |-> op, phase |-> phase, try |-> try, src |-> src, want |-> want, sent |-> sent,
     first |-> first, last |-> last]
Told(port, taken, read, reset, finished, overtaken) ==
    [port |-> port, taken |-> taken, read |-> read, reset |-> reset, finished |-> finished,
     overtaken |-> overtaken]

LEMMA SceneFacts ==
    ASSUME scene \in Scenes
    PROVE  /\ SeqMod \in Nat \ {0} /\ SpaceMax \in Nat /\ 1 <= SpaceMax /\ RecvCap \in Nat \ {0}
           /\ Window \in Nat \ {0} /\ MaxSegment \in Nat \ {0} /\ LenMod \in Nat \ {0}
           /\ 0 \notin Port /\ Reads \subseteq Nat \ {0} /\ IoMax \in Nat
           /\ scene.ports \subseteq Port /\ scene.iss \in Seq(1..(SeqMod - 1))
           /\ scene.retries \in Nat \ {0} /\ scene.peerMax \in Nat /\ scene.appMax \in Nat
           /\ SeqMod > 2 * (SpaceMax + scene.peerMax + 2)
           /\ PeerIss \in [Port -> Seqno]
BY TcpAssumption DEF Seqno

LEMMA SmallNumbers ==
    ASSUME scene \in Scenes
    PROVE  0 \in Seqno /\ 1 \in Seqno /\ 1 \in 0..SeqMod
BY SceneFacts, SMTT(30) DEF Seqno

LEMMA ClosedIs ==
    ASSUME scene \in Scenes
    PROVE  /\ Closed \in Control
           /\ Closed = Block(FALSE, FALSE, FALSE, "CLOSED", 0, 0, 0, 0, 0, FALSE)
BY SmallNumbers DEF Closed, Control, Block, State

\* The next initial sequence number.
LEMMA IssDrawn ==
    ASSUME scene \in Scenes, drawn \in Nat, drawn < Len(scene.iss)
    PROVE  /\ scene.iss[drawn + 1] \in Seqno /\ scene.iss[drawn + 1] # 0
           /\ Plus(scene.iss[drawn + 1], 1) \in Seqno
           /\ Distance(scene.iss[drawn + 1], Plus(scene.iss[drawn + 1], 1)) = 1
<1>1. scene.iss[drawn + 1] \in 1..(SeqMod - 1)
  <2>1. scene.iss \in Seq(1..(SeqMod - 1))
    BY SceneFacts
  <2>2. drawn + 1 \in 1..Len(scene.iss)
    BY <2>1
  <2> QED
    BY <2>1, <2>2, ElementOfSeq
<1>2. scene.iss[drawn + 1] \in Seqno /\ scene.iss[drawn + 1] # 0
  BY <1>1 DEF Seqno
<1>3. SeqMod \in Nat \ {0} /\ 1 \in Seqno
  BY SceneFacts, SmallNumbers
<1> QED
  BY <1>2, <1>3, PlusDistance

Me == tcp.local_port
Drawn == {scene.iss[k] : k \in 1..drawn}

\* How the control block, the session and the call in progress go together.
BlockOK ==
    /\ tcp.active = (tcp.state # "CLOSED")
    /\ Me \in {0, session.port} /\ session.port \in scene.ports \cup {0}
    /\ tcp.state # "CLOSED" => Me # 0
    /\ tcp.snd_iss # 0 => Me # 0 /\ tcp.snd_iss \in Drawn
    /\ tcp.state = "LISTEN" => tcp.snd_iss = 0
    /\ tcp.state \notin {"LISTEN", "CLOSED", "SYN_SENT"} => tcp.snd_iss # 0
    /\ tcp.state \in {"LISTEN", "SYN_SENT", "SYN_RECEIVED"} => ~session.overtaken
    /\ session.overtaken => scene.retries > 1
TryOK ==
    /\ drawn <= Len(scene.iss)
    /\ tcp.state = "SYN_SENT" =>
          call.op = "connect" /\ (tcp.snd_iss = 0 => call.phase = "tx" /\ call.try = 0)
    /\ call.op = "connect" =>
          /\ tcp.state \in {"CLOSED", "SYN_SENT", "ESTABLISHED", "CLOSE_WAIT"} /\ Me # 0
          /\ call.try <= scene.retries
          /\ call.phase = "tx" => drawn + scene.retries <= Len(scene.iss) + call.try
          /\ call.phase = "poll" => /\ drawn + scene.retries <= Len(scene.iss) + call.try + 1
                                    /\ call.try < scene.retries
          /\ (call.try = 0 /\ call.phase = "tx") => tcp.state = "SYN_SENT"
    /\ call.op = "send" =>
          /\ tcp.state \in {"CLOSED", "ESTABLISHED", "CLOSE_WAIT"} /\ tcp.snd_iss # 0
          /\ tcp.state = "CLOSED" => tcp.reset_seen /\ call.phase = "poll"
    /\ call.op = "close" =>
          /\ tcp.state \in {"CLOSED", "FIN_WAIT1", "FIN_WAIT2", "LAST_ACK"} /\ tcp.snd_iss # 0
          /\ tcp.state = "CLOSED" => call.phase = "poll"
    /\ tcp.state \in {"FIN_WAIT1", "FIN_WAIT2", "LAST_ACK"} => call.op = "close"

ControlInv == TypeOK /\ BlockOK /\ TryOK

-----------------------------------------------------------------------------
(* The invariant                                                           *)

\* Ports whose remote end took a connection, and what it received of it.
Bound(p) == peer[p].state \in {"syn_rcvd", "open", "dead"}
Count(r) == Len(r.rcvd) + (IF r.eof THEN 1 ELSE 0)
Got(p) == Count(peer[p])
Pristine(p) ==
    /\ peer[p].nxt = 0 /\ peer[p].una = 0 /\ peer[p].edge = 0 /\ peer[p].rcvd = <<>>
    /\ ~peer[p].fin /\ ~peer[p].eof /\ ~peer[p].probed

\* The remote end of this port has the connection the control block stands for.
Linked == tcp.snd_iss # 0 /\ Bound(Me) /\ peer[Me].irs = tcp.snd_iss

\* Numbers of the connection, counted from where its two spaces begin.
U == Distance(tcp.snd_iss, tcp.snd_una)
N == Distance(tcp.snd_iss, tcp.snd_nxt)
F == Distance(tcp.snd_iss, call.first)
D == Distance(PeerIss[Me], tcp.rcv_nxt)
Off(m) == Distance(tcp.snd_iss, m.segment.seq)
Mine(m) == m.segment.port = Me /\ Off(m) <= SpaceMax + 1

\* An acknowledgement of no connection: a connect that overtook its own answer sends it.
Plain(m) == "ACK" \in m.segment.flags /\ "SYN" \notin m.segment.flags
Void(m) == m.segment.ack = 0 /\ scene.retries > 1
Size(s) == Len(s.data) + (IF "FIN" \in s.flags THEN 1 ELSE 0)

PeerFine(p) ==
    /\ Bound(p) => peer[p].irs \in Drawn /\ Got(p) <= SpaceMax
    /\ peer[p].nxt <= scene.peerMax /\ peer[p].una <= peer[p].nxt + 1
    /\ ~peer[p].probed => peer[p].nxt <= peer[p].edge
    /\ peer[p].state \in {"fresh", "syn_sent", "syn_rcvd"} => Pristine(p)
PeerOK == \A p \in Port : PeerFine(p)

\* Every segment with bytes or a FIN lies in the space of one number that was drawn.
Owned(s) == \E b \in Drawn : 1 <= Distance(b, s.seq) /\ Distance(b, s.seq) + Size(s) <= SpaceMax + 1
OutFine(m) ==
    /\ m.segment.port \in scene.ports /\ m.window <= RecvCap
    /\ "PSH" \notin m.segment.flags => m.segment.data = <<>>
    /\ "SYN" \in m.segment.flags => m.segment.seq \in Drawn
    /\ ("PSH" \in m.segment.flags \/ "FIN" \in m.segment.flags) =>
          /\ Plain(m) /\ ~("PSH" \in m.segment.flags /\ "FIN" \in m.segment.flags)
          /\ Owned(m.segment)
    /\ (Plain(m) /\ ~Bound(m.segment.port)) => Void(m)
OutOK == \A m \in wire_out : OutFine(m)

InFine(s) ==
    /\ s.port \in scene.ports
    /\ "SYN" \in s.flags => s.seq = PeerIss[s.port] /\ s.data = <<>> /\ "FIN" \notin s.flags
    /\ "ACK" \in s.flags => /\ Bound(s.port)
                            /\ Distance(peer[s.port].irs, s.ack) \in 1..(1 + Got(s.port))
    /\ (s.data # <<>> \/ "FIN" \in s.flags) =>
          LET i == Distance(PeerIss[s.port], s.seq) IN
          /\ 1 <= i /\ i + Len(s.data) <= peer[s.port].nxt + 1
          /\ \A k \in 1..Len(s.data) : s.data[k] = ByteSeq(s.port, i + k - 1)
          /\ "FIN" \in s.flags => peer[s.port].fin /\ i + Len(s.data) = peer[s.port].nxt + 1
InOK == \A s \in wire_in : InFine(s)

WireInv == PeerOK /\ OutOK /\ InOK

\* The sending half: what is acknowledged was received, what was received was sent.
NumbersOK == tcp.snd_iss # 0 =>
    /\ U <= N /\ 1 <= N /\ N <= SpaceMax + 1
    /\ U = 0 \/ (Linked /\ U <= 1 + Got(Me))
    /\ Linked => 1 + Got(Me) <= N
SentOK == tcp.snd_iss # 0 => \A m \in wire_out : Mine(m) =>
    /\ "PSH" \in m.segment.flags =>
          /\ Off(m) + Len(m.segment.data) <= N
          /\ call.op = "close" => Off(m) + Len(m.segment.data) < N
    /\ "FIN" \in m.segment.flags => call.op = "close" /\ Off(m) + 1 = N
OpeningOK == (tcp.state = "SYN_SENT" /\ tcp.snd_iss # 0) => \A m \in wire_out :
    (m.segment.port = Me /\ "SYN" \in m.segment.flags /\ m.segment.seq = tcp.snd_iss) =>
        "ACK" \notin m.segment.flags
ClosingOK == Linked =>
    /\ peer[Me].eof => call.op = "close" /\ Len(peer[Me].rcvd) + 2 = N
    /\ call.op = "close" => Len(peer[Me].rcvd) + 2 <= N
SendInv == NumbersOK /\ SentOK /\ OpeningOK /\ ClosingOK

\* The call in progress: its chunk ends the bytes sent, and what it counted has arrived.
ChunkOK == call.op = "send" =>
    /\ 1 <= F /\ F + Len(ChunkData) = N /\ call.last = tcp.snd_nxt
    /\ call.sent + Len(ChunkData) <= call.want
    /\ N + (call.want - call.sent - Len(ChunkData)) <= SpaceMax
    /\ \A m \in wire_out : (Mine(m) /\ "PSH" \in m.segment.flags) =>
          \/ Off(m) + Len(m.segment.data) <= F
          \/ Off(m) = F /\ m.segment.data = ChunkData
    /\ Linked => \/ 1 + Len(peer[Me].rcvd) <= F
                 \/ /\ 1 + Len(peer[Me].rcvd) = N
                    /\ \A k \in 1..Len(ChunkData) : peer[Me].rcvd[F + k - 1] = ChunkData[k]
CountOK == call.op = "send" => \A k \in 1..call.sent :
    \E i \in 1..Len(peer[Me].rcvd) : peer[Me].rcvd[i] = session.taken + k
EndOK == call.op = "close" =>
    /\ F + 1 = N /\ 1 <= F
    /\ (tcp.state = "FIN_WAIT2" \/ (tcp.state = "CLOSED" /\ ~session.reset)) => peer[Me].eof
NewOK == call.op = "connect" => session.taken = 0 /\ ~session.finished
CallInv == ChunkOK /\ CountOK /\ EndOK /\ NewOK

\* The receiving half: what the remote end was told it may send finds room.
Live == tcp.state = "SYN_RECEIVED" \/ Open
Heard(m) ==
    LET a == Distance(PeerIss[Me], m.segment.ack) IN
    Void(m) \/ (1 <= a /\ a <= D /\ a + m.window + Len(recv_buf) <= D + RecvCap)
FreshOK ==
    /\ Me = 0 => recv_buf = <<>>
    /\ (Me # 0 /\ (session.overtaken \/ tcp.state = "SYN_SENT")) => tcp.rcv_nxt = 0
    /\ (tcp.state = "SYN_SENT" /\ Linked) =>
          /\ Pristine(Me) /\ peer[Me].state # "open"
          /\ \A m \in wire_out : (m.segment.port = Me /\ Plain(m)) => Void(m)
NextOK == (Live /\ ~session.overtaken) =>
    /\ 1 <= D
    /\ tcp.state = "SYN_RECEIVED" => D = 1
    /\ Open => Linked
RoomOK == (Live /\ ~session.overtaken /\ Linked) =>
    /\ D <= peer[Me].nxt + (IF peer[Me].fin THEN 2 ELSE 1)
    /\ peer[Me].una + 1 <= D
    /\ peer[Me].edge + 1 + Len(recv_buf) <= D + RecvCap
    /\ \A m \in wire_out : (m.segment.port = Me /\ Plain(m)) => Heard(m)
RecvInv == FreshOK /\ NextOK /\ RoomOK

\* What the program read and what waits for it.
Stream == session.read \o (IF tcp.local_port = session.port THEN recv_buf ELSE <<>>)
Nth(k) == Distance(PeerIss[session.port], Stream[k])
StreamInv == (session.port # 0 /\ ~session.overtaken) =>
    /\ \A i, j \in 1..Len(Stream) : i < j => Nth(i) < Nth(j)
    /\ ~peer[session.port].probed => \A k \in 1..Len(Stream) : Nth(k) = k
    /\ Live => /\ \A k \in 1..Len(Stream) : Nth(k) < D
               /\ ~peer[Me].probed =>
                     Len(Stream) = IF D <= peer[Me].nxt + 1 THEN D - 1 ELSE peer[Me].nxt
    /\ tcp.state \in {"SYN_SENT", "LISTEN", "SYN_RECEIVED"} => Stream = <<>>

TakenInv ==
    /\ session.finished => session.port # 0
    /\ session.port # 0 =>
          \A k \in 1..session.taken :
              \E i \in 1..Len(peer[session.port].rcvd) : peer[session.port].rcvd[i] = k
    /\ (session.finished /\ ~session.reset) => peer[session.port].eof

IInv == ControlInv /\ WireInv /\ SendInv /\ CallInv /\ RecvInv /\ StreamInv /\ TakenInv

LEMMA TryEffect ==
    ASSUME TypeOK, connect_try, drawn < Len(scene.iss), tcp.local_port \in scene.ports
    PROVE  \E port \in scene.ports :
              LET n == scene.iss[drawn + 1] IN
              /\ port = tcp.local_port \/ call.src = 0
              /\ tcp' = Block(tcp.active, tcp.peer_fin, tcp.reset_seen, tcp.state, port, n, n,
                              Plus(n, 1), 0, FALSE)
              /\ session' = Told(port, session.taken, session.read, session.reset,
                                 session.finished, session.overtaken \/ tcp.state # "SYN_SENT")
<1> DEFINE n == scene.iss[drawn + 1]
           n1 == Plus(n, 1)
           port == IF call.src = 0 THEN ephemeral_port' ELSE tcp.local_port
           over == session.overtaken \/ tcp.state # "SYN_SENT"
<1>1. port \in scene.ports /\ (port = tcp.local_port \/ call.src = 0)
  BY DEF connect_try, next_ephemeral_port, TypeOK
<1>2. tcp' = [tcp EXCEPT !.local_port = port, !.snd_iss = n, !.snd_una = n, !.snd_nxt = n1,
                         !.rcv_nxt = 0, !.stale_ack_seen = FALSE]
  BY DEF connect_try
<1>3. session' = [session EXCEPT !.port = port, !.overtaken = over]
  BY DEF connect_try
<1>4. tcp \in Control /\ session \in SessionBlock
  BY DEF TypeOK
<1> HIDE DEF n, n1, port, over
<1>5. tcp' = Block(tcp.active, tcp.peer_fin, tcp.reset_seen, tcp.state, port, n, n, n1, 0, FALSE)
  BY <1>2, <1>4 DEF Control, Block
<1>6. session' = Told(port, session.taken, session.read, session.reset, session.finished, over)
  BY <1>3, <1>4 DEF SessionBlock, Told
<1> QED
  BY <1>1, <1>5, <1>6 DEF n, n1, over

-----------------------------------------------------------------------------
(* What the actions do to the blocks                                       *)

LEMMA BlockIs ==
    ASSUME tcp \in Control
    PROVE  tcp = Block(tcp.active, tcp.peer_fin, tcp.reset_seen, tcp.state, tcp.local_port,
                       tcp.snd_iss, tcp.snd_una, tcp.snd_nxt, tcp.rcv_nxt, tcp.stale_ack_seen)
BY DEF Control, Block

LEMMA NextTryEffect ==
    ASSUME TypeOK, NextTry
    PROVE  call' = InCall(call.op, "tx", call.try + 1, call.src, call.want, call.sent, call.first,
                          call.last)
<1> DEFINE k == call.try + 1
<1>1. call' = [call EXCEPT !.try = k, !.phase = "tx"] /\ call \in CallBlock
  BY DEF NextTry, TypeOK
<1> HIDE DEF k
<1>2. call' = InCall(call.op, "tx", k, call.src, call.want, call.sent, call.first, call.last)
  BY <1>1 DEF CallBlock, InCall
<1> QED
  BY <1>2 DEF k

\* The try is on the wire.
LEMMA PollEffect ==
    ASSUME TypeOK, call' = [call EXCEPT !.phase = "poll"]
    PROVE  call' = InCall(call.op, "poll", call.try, call.src, call.want, call.sent, call.first,
                          call.last)
BY DEF TypeOK, CallBlock, InCall

LEMMA IdleIs ==
    ASSUME scene \in Scenes
    PROVE  Idle = InCall("idle", "poll", 0, 0, 0, 0, 0, 0) /\ Idle \in CallBlock
BY SmallNumbers DEF Idle, InCall, CallBlock

LEMMA NewSessionIs ==
    ASSUME NEW port
    PROVE  NewSession(port) = Told(port, 0, <<>>, FALSE, FALSE, FALSE)
BY DEF NewSession, Told

LEMMA SynEffect ==
    ASSUME TypeOK, NEW s \in wire_in, syn_arrives(s)
    PROVE  LET n == scene.iss[drawn + 1] IN
           /\ tcp' = Block(tcp.active, tcp.peer_fin, tcp.reset_seen, "SYN_RECEIVED", tcp.local_port,
                           n, n, Plus(n, 1), Plus(s.seq, 1), tcp.stale_ack_seen)
           /\ wire_out' = wire_out \cup
                  {[segment |-> Segment(tcp.local_port, {"SYN", "ACK"}, n, Plus(s.seq, 1), <<>>),
                    window |-> window(recv_buf)]}
<1> DEFINE n == scene.iss[drawn + 1]
           n1 == Plus(n, 1)
           r == Plus(s.seq, 1)
           t == [tcp EXCEPT !.snd_iss = n, !.snd_una = n, !.snd_nxt = n1, !.rcv_nxt = r,
                            !.state = "SYN_RECEIVED"]
<1>1. tcp' = t /\ wire_out' = wire_out \cup {tcp_segment(t, recv_buf, {"SYN", "ACK"}, n, <<>>)}
  BY DEF syn_arrives, Transmits
<1>2. tcp \in Control
  BY DEF TypeOK
<1> HIDE DEF n, n1, r
<1>3. tcp' = Block(tcp.active, tcp.peer_fin, tcp.reset_seen, "SYN_RECEIVED", tcp.local_port,
                n, n, n1, r, tcp.stale_ack_seen)
  BY <1>1, <1>2 DEF Control, Block, t
<1> HIDE DEF t
<1>4. t.local_port = tcp.local_port /\ t.rcv_nxt = r
  BY <1>1, <1>3 DEF Block
<1>5. tcp_segment(t, recv_buf, {"SYN", "ACK"}, n, <<>>) =
         [segment |-> Segment(tcp.local_port, {"SYN", "ACK"}, n, r, <<>>), window |-> window(recv_buf)]
  BY <1>4 DEF tcp_segment
<1> QED
  BY <1>1, <1>3, <1>5 DEF n, n1, r

LEMMA RstEffect ==
    ASSUME TypeOK, NEW s \in wire_in, rst_arrives(s)
    PROVE  /\ tcp' = Block(FALSE, tcp.peer_fin, TRUE, "CLOSED", tcp.local_port, tcp.snd_iss,
                           tcp.snd_una, tcp.snd_nxt, tcp.rcv_nxt, tcp.stale_ack_seen)
           /\ session' = Told(session.port, session.taken, session.read, TRUE, session.finished,
                              session.overtaken)
<1>1. tcp' = [tcp EXCEPT !.reset_seen = TRUE, !.active = FALSE, !.state = "CLOSED"]
      /\ session' = [session EXCEPT !.reset = TRUE]
  BY DEF rst_arrives
<1> QED
  BY <1>1 DEF TypeOK, Control, SessionBlock, Block, Told

LEMMA SynAckEffect ==
    ASSUME TypeOK, NEW s \in wire_in, syn_ack_arrives(s)
    PROVE  /\ tcp' = Block(tcp.active, tcp.peer_fin, tcp.reset_seen, "ESTABLISHED", tcp.local_port,
                           tcp.snd_iss, s.ack, tcp.snd_nxt, Plus(s.seq, 1), tcp.stale_ack_seen)
           /\ wire_out' = wire_out \cup
                  {[segment |-> Segment(tcp.local_port, {"ACK"}, 0, Plus(s.seq, 1), <<>>),
                    window |-> window(recv_buf)]}
<1> DEFINE r == Plus(s.seq, 1)
           a == s.ack
           t == [tcp EXCEPT !.snd_una = a, !.rcv_nxt = r, !.state = "ESTABLISHED"]
<1>1. tcp' = t /\ wire_out' = wire_out \cup {tcp_ack(t, recv_buf)}
  BY DEF syn_ack_arrives, Transmits
<1>2. tcp \in Control
  BY DEF TypeOK
<1> HIDE DEF a, r
<1>3. tcp' = Block(tcp.active, tcp.peer_fin, tcp.reset_seen, "ESTABLISHED", tcp.local_port,
                tcp.snd_iss, a, tcp.snd_nxt, r, tcp.stale_ack_seen)
  BY <1>1, <1>2 DEF Control, Block, t
<1> HIDE DEF t
<1>4. t.local_port = tcp.local_port /\ t.rcv_nxt = r
  BY <1>1, <1>3 DEF Block
<1>5. tcp_ack(t, recv_buf) =
         [segment |-> Segment(tcp.local_port, {"ACK"}, 0, r, <<>>), window |-> window(recv_buf)]
  BY <1>4 DEF tcp_segment, tcp_ack
<1> QED
  BY <1>1, <1>3, <1>5 DEF r, a

LEMMA StaleEffect ==
    ASSUME TypeOK, NEW s \in wire_in, stale_ack_arrives(s)
    PROVE  tcp' = Block(tcp.active, tcp.peer_fin, tcp.reset_seen, tcp.state, tcp.local_port,
                        tcp.snd_iss, tcp.snd_una, tcp.snd_nxt, tcp.rcv_nxt, TRUE)
<1>1. tcp' = [tcp EXCEPT !.stale_ack_seen = TRUE]
  BY DEF stale_ack_arrives
<1> QED
  BY <1>1 DEF TypeOK, Control, Block

\* What a segment does to an open connection, piece by piece.
AckTaken(s) == "ACK" \in s.flags /\ seq_ge(s.ack, tcp.snd_una) /\ seq_le(s.ack, tcp.snd_nxt)
DataTaken(s) == s.data # <<>> /\ s.seq = tcp.rcv_nxt
NewUna(s) == IF AckTaken(s) THEN s.ack ELSE tcp.snd_una
DataNxt(s) == IF DataTaken(s) THEN Plus(tcp.rcv_nxt, Len(s.data)) ELSE tcp.rcv_nxt
FinTaken(s) == "FIN" \in s.flags /\ Plus(s.seq, Len(s.data)) = DataNxt(s)
NewNxt(s) == IF FinTaken(s) THEN Plus(DataNxt(s), 1) ELSE DataNxt(s)
NewBuf(s) == IF DataTaken(s) THEN recv_push(recv_buf, s.data) ELSE recv_buf
Acked(s) == seq_ge(NewUna(s), tcp.snd_nxt)
\* The states a segment leads to.
Turns(s, st) ==
    /\ st \in State
    /\ tcp.state \in {"SYN_RECEIVED", "ESTABLISHED"} => st \in {"ESTABLISHED", "CLOSE_WAIT"}
    /\ tcp.state = "CLOSE_WAIT" => st = "CLOSE_WAIT"
    /\ tcp.state = "FIN_WAIT1" => /\ st \in {"FIN_WAIT1", "FIN_WAIT2", "CLOSED"}
                                  /\ st # "FIN_WAIT1" => Acked(s)
    /\ tcp.state = "FIN_WAIT2" => st \in {"FIN_WAIT2", "CLOSED"}
    /\ tcp.state = "LAST_ACK" => /\ st \in {"LAST_ACK", "CLOSED"}
                                 /\ st = "CLOSED" => Acked(s)

LEMMA AckEffect ==
    ASSUME NEW t \in Control, NEW s, t.snd_una = tcp.snd_una, t.snd_nxt = tcp.snd_nxt
    PROVE  OnAck(t, s) = Block(t.active, t.peer_fin, t.reset_seen, t.state, t.local_port, t.snd_iss,
                               NewUna(s), t.snd_nxt, t.rcv_nxt, t.stale_ack_seen)
<1> DEFINE a == s.ack
           u == [t EXCEPT !.snd_una = a]
<1>1. u = Block(t.active, t.peer_fin, t.reset_seen, t.state, t.local_port, t.snd_iss,
                a, t.snd_nxt, t.rcv_nxt, t.stale_ack_seen)
  BY DEF Control, Block
<1>2. t = Block(t.active, t.peer_fin, t.reset_seen, t.state, t.local_port, t.snd_iss,
                t.snd_una, t.snd_nxt, t.rcv_nxt, t.stale_ack_seen)
  BY DEF Control, Block
<1>3. OnAck(t, s) = IF AckTaken(s) THEN u ELSE t
  BY DEF OnAck, AckTaken
<1> HIDE DEF u
<1>4. CASE AckTaken(s)
  BY <1>1, <1>3, <1>4 DEF NewUna, a
<1>5. CASE ~AckTaken(s)
  BY <1>2, <1>3, <1>5 DEF NewUna
<1> QED
  BY <1>4, <1>5

\* The fields of a block.
LEMMA BlockFields ==
    ASSUME NEW active, NEW fin, NEW reset, NEW state, NEW port, NEW iss, NEW una, NEW nxt, NEW rcv,
           NEW stale, NEW t, t = Block(active, fin, reset, state, port, iss, una, nxt, rcv, stale)
    PROVE  /\ t.active = active /\ t.peer_fin = fin /\ t.reset_seen = reset /\ t.state = state
           /\ t.local_port = port /\ t.snd_iss = iss /\ t.snd_una = una /\ t.snd_nxt = nxt
           /\ t.rcv_nxt = rcv /\ t.stale_ack_seen = stale
BY DEF Block

LEMMA PayloadEffect ==
    ASSUME NEW active, NEW fin, NEW state, NEW una, NEW s, NEW t,
           t = Block(active, fin, tcp.reset_seen, state, tcp.local_port, tcp.snd_iss, una, tcp.snd_nxt,
                     tcp.rcv_nxt, tcp.stale_ack_seen)
    PROVE  /\ OnPayload(t, s).t = Block(active, fin, tcp.reset_seen, state, tcp.local_port,
                                        tcp.snd_iss, una, tcp.snd_nxt, DataNxt(s), tcp.stale_ack_seen)
           /\ OnPayload(t, s).b = NewBuf(s)
           /\ OnPayload(t, s) = [t |-> OnPayload(t, s).t, b |-> OnPayload(t, s).b,
                                 answer |-> OnPayload(t, s).answer]
<1> DEFINE r == Plus(t.rcv_nxt, Len(s.data))
           u == [t EXCEPT !.rcv_nxt = r]
<1>1. /\ t.active = active /\ t.peer_fin = fin /\ t.reset_seen = tcp.reset_seen /\ t.state = state
      /\ t.local_port = tcp.local_port /\ t.snd_iss = tcp.snd_iss /\ t.snd_una = una
      /\ t.snd_nxt = tcp.snd_nxt /\ t.rcv_nxt = tcp.rcv_nxt /\ t.stale_ack_seen = tcp.stale_ack_seen
  BY BlockFields
<1>2. u = Block(active, fin, tcp.reset_seen, state, tcp.local_port, tcp.snd_iss, una, tcp.snd_nxt,
                r, tcp.stale_ack_seen)
  <2> HIDE DEF r
  <2> QED
    BY DEF Block
<1>3. OnPayload(t, s) =
         IF DataTaken(s) THEN [t |-> u, b |-> recv_push(recv_buf, s.data), answer |-> TRUE]
         ELSE [t |-> t, b |-> recv_buf, answer |-> s.data # <<>>]
  BY <1>1 DEF OnPayload, DataTaken
<1>4. r = Plus(tcp.rcv_nxt, Len(s.data))
  BY <1>1
<1> HIDE DEF u, r
<1>5. CASE DataTaken(s)
  <2>1. OnPayload(t, s) = [t |-> u, b |-> recv_push(recv_buf, s.data), answer |-> TRUE]
    BY <1>3, <1>5
  <2>2. s.data # <<>>
    BY <1>5 DEF DataTaken
  <2>3. DataNxt(s) = r /\ NewBuf(s) = recv_push(recv_buf, s.data)
    BY <1>4, <1>5 DEF DataNxt, NewBuf
  <2> QED
    BY <2>1, <2>2, <2>3, <1>2
<1>6. CASE ~DataTaken(s)
  <2>1. OnPayload(t, s) = [t |-> t, b |-> recv_buf, answer |-> s.data # <<>>]
    BY <1>3, <1>6
  <2>2. DataNxt(s) = tcp.rcv_nxt /\ NewBuf(s) = recv_buf
    BY <1>6 DEF DataNxt, NewBuf
  <2> QED
    BY <2>1, <2>2
<1> QED
  BY <1>5, <1>6

\* The state, and whether the connection is still active, after the FIN flag was looked at.
FinState(s, state) ==
    IF "FIN" \notin s.flags THEN state
    ELSE CASE state = "ESTABLISHED" -> "CLOSE_WAIT"
           [] state = "FIN_WAIT2" -> "CLOSED" [] OTHER -> state
FinActive(s, active, state) ==
    IF "FIN" \notin s.flags THEN active ELSE active /\ state # "FIN_WAIT2"
FinSeen(s, fin) == IF "FIN" \in s.flags THEN TRUE ELSE fin

LEMMA FinEffect ==
    ASSUME NEW active, NEW fin, NEW state, NEW una, NEW s, NEW r,
           r = [t |-> r.t, b |-> r.b, answer |-> r.answer],
           r.t = Block(active, fin, tcp.reset_seen, state, tcp.local_port, tcp.snd_iss, una,
                       tcp.snd_nxt, DataNxt(s), tcp.stale_ack_seen)
    PROVE  /\ OnFin(r, s).b = r.b
           /\ OnFin(r, s).t = Block(FinActive(s, active, state), FinSeen(s, fin), tcp.reset_seen,
                                    FinState(s, state), tcp.local_port, tcp.snd_iss, una,
                                    tcp.snd_nxt, NewNxt(s), tcp.stale_ack_seen)
<1> DEFINE t == r.t
           next == IF Plus(s.seq, Len(s.data)) = DataNxt(s) THEN Plus(DataNxt(s), 1) ELSE DataNxt(s)
           st == CASE state = "ESTABLISHED" -> "CLOSE_WAIT"
                   [] state = "FIN_WAIT2" -> "CLOSED" [] OTHER -> state
           on == active /\ state # "FIN_WAIT2"
           u == fin_received(t, s)
           d == DataNxt(s)
<1>1. /\ t.active = active /\ t.peer_fin = fin /\ t.reset_seen = tcp.reset_seen /\ t.state = state
      /\ t.local_port = tcp.local_port /\ t.snd_iss = tcp.snd_iss /\ t.snd_una = una
      /\ t.snd_nxt = tcp.snd_nxt /\ t.rcv_nxt = d /\ t.stale_ack_seen = tcp.stale_ack_seen
  <2> HIDE DEF t, d
  <2> QED
    BY BlockFields DEF t, d
<1>2. u = [t EXCEPT !.rcv_nxt = next, !.peer_fin = TRUE, !.state = st, !.active = on]
  BY <1>1 DEF fin_received
<1>3. t = Block(active, fin, tcp.reset_seen, state, tcp.local_port, tcp.snd_iss, una,
                tcp.snd_nxt, d, tcp.stale_ack_seen)
  OBVIOUS
<1>4. OnFin(r, s) = IF "FIN" \in s.flags THEN [r EXCEPT !.t = u, !.answer = TRUE] ELSE r
  BY DEF OnFin
<1>5. "FIN" \in s.flags => NewNxt(s) = next
  BY DEF NewNxt, FinTaken
<1>6. "FIN" \notin s.flags => NewNxt(s) = d
  BY DEF NewNxt, FinTaken
<1> HIDE DEF u, next, st, on, d, t
<1>7. u = Block(on, TRUE, tcp.reset_seen, st, tcp.local_port, tcp.snd_iss, una, tcp.snd_nxt,
                next, tcp.stale_ack_seen)
  BY <1>2, <1>3 DEF Block
<1>8. CASE "FIN" \in s.flags
  <2>1. OnFin(r, s) = [r EXCEPT !.t = u, !.answer = TRUE]
    BY <1>4, <1>8
  <2>2. OnFin(r, s).t = u /\ OnFin(r, s).b = r.b
    BY <2>1
  <2> QED
    BY <2>2, <1>5, <1>7, <1>8 DEF st, on, FinState, FinActive, FinSeen
<1>9. CASE "FIN" \notin s.flags
  <2>1. OnFin(r, s) = r
    BY <1>4, <1>9
  <2> QED
    BY <2>1, <1>3, <1>6, <1>9 DEF d, t, FinState, FinActive, FinSeen
<1> QED
  BY <1>8, <1>9

\* What AfterFin makes of a state.
FinEnds(st, on, state, active, una) ==
    \/ st = state /\ on = active
    \/ st = "FIN_WAIT2" /\ on = active /\ state = "FIN_WAIT1" /\ seq_ge(una, tcp.snd_nxt)
    \/ /\ st = "CLOSED" /\ on = FALSE /\ state \in {"FIN_WAIT1", "LAST_ACK"}
       /\ seq_ge(una, tcp.snd_nxt)

LEMMA AfterFinEffect ==
    ASSUME NEW active, NEW fin, NEW state, NEW una, NEW rcv, NEW t,
           t = Block(active, fin, tcp.reset_seen, state, tcp.local_port, tcp.snd_iss, una,
                     tcp.snd_nxt, rcv, tcp.stale_ack_seen)
    PROVE  \E st, on :
              /\ AfterFin(t) = Block(on, fin, tcp.reset_seen, st, tcp.local_port, tcp.snd_iss, una,
                                     tcp.snd_nxt, rcv, tcp.stale_ack_seen)
              /\ FinEnds(st, on, state, active, una)
<1>1. /\ t.active = active /\ t.peer_fin = fin /\ t.state = state
      /\ t.snd_una = una /\ t.snd_nxt = tcp.snd_nxt
  BY BlockFields
<1> DEFINE u == [t EXCEPT !.state = "FIN_WAIT2"]
           v == [t EXCEPT !.state = "CLOSED", !.active = FALSE]
<1>2. u = Block(active, fin, tcp.reset_seen, "FIN_WAIT2", tcp.local_port, tcp.snd_iss, una,
                tcp.snd_nxt, rcv, tcp.stale_ack_seen)
  BY DEF Block
<1>3. v = Block(FALSE, fin, tcp.reset_seen, "CLOSED", tcp.local_port, tcp.snd_iss, una,
                tcp.snd_nxt, rcv, tcp.stale_ack_seen)
  <2>1. v = [t EXCEPT !.state = "CLOSED", !.active = FALSE]
    OBVIOUS
  <2> HIDE DEF v
  <2> QED
    BY <2>1 DEF Block
<1>4. \/ AfterFin(t) = u /\ state = "FIN_WAIT1" /\ seq_ge(una, tcp.snd_nxt)
      \/ AfterFin(t) = v /\ state \in {"FIN_WAIT1", "LAST_ACK"} /\ seq_ge(una, tcp.snd_nxt)
      \/ AfterFin(t) = t
  <2> HIDE DEF u, v
  <2>1. \/ AfterFin(t) = u /\ t.state = "FIN_WAIT1" /\ fin_acked(t)
        \/ AfterFin(t) = v /\ t.state \in {"FIN_WAIT1", "LAST_ACK"} /\ fin_acked(t)
        \/ AfterFin(t) = t
    BY DEF AfterFin, u, v
  <2> QED
    BY <2>1, <1>1 DEF fin_acked
<1> HIDE DEF u, v
<1> QED
  BY <1>2, <1>3, <1>4 DEF FinEnds

LEMMA SegmentEffect ==
    ASSUME TypeOK, BlockOK, NEW s \in wire_in, segment_arrives(s)
    PROVE  \E st \in State, fin \in BOOLEAN :
              /\ Turns(s, st)
              /\ tcp' = Block(st # "CLOSED", fin, tcp.reset_seen, st, tcp.local_port, tcp.snd_iss,
                              NewUna(s), tcp.snd_nxt, NewNxt(s), tcp.stale_ack_seen)
              /\ recv_buf' = NewBuf(s)
              /\ \/ wire_out' = wire_out
                 \/ wire_out' = wire_out \cup
                       {[segment |-> Segment(tcp.local_port, {"ACK"}, 0, NewNxt(s), <<>>),
                         window |-> window(NewBuf(s))]}
<1> DEFINE st0 == IF tcp.state = "SYN_RECEIVED" THEN "ESTABLISHED" ELSE tcp.state
           open == IF tcp.state = "SYN_RECEIVED" THEN [tcp EXCEPT !.state = "ESTABLISHED"] ELSE tcp
           a == OnAck(open, s)
           p == OnPayload(a, s)
           r == OnFin(p, s)
           t == AfterFin(r.t)
           st1 == FinState(s, st0)
           on1 == FinActive(s, tcp.active, st0)
           got == FinSeen(s, tcp.peer_fin)
<1>1. tcp \in Control /\ tcp.active = TRUE /\ tcp.state \in State \ {"CLOSED", "LISTEN", "SYN_SENT"}
      /\ tcp.peer_fin \in BOOLEAN
  BY DEF TypeOK, Control, BlockOK, segment_arrives, Arrives
<1>2. open = Block(tcp.active, tcp.peer_fin, tcp.reset_seen, st0, tcp.local_port, tcp.snd_iss,
                   tcp.snd_una, tcp.snd_nxt, tcp.rcv_nxt, tcp.stale_ack_seen)
  <2>1. CASE tcp.state = "SYN_RECEIVED"
    BY <1>1, <2>1 DEF Control, Block
  <2>2. CASE tcp.state # "SYN_RECEIVED"
    BY <1>1, <2>2 DEF Control, Block
  <2> QED
    BY <2>1, <2>2
<1>3. st0 \in State \ {"CLOSED", "LISTEN", "SYN_SENT", "SYN_RECEIVED"}
  BY <1>1 DEF State
<1>4. /\ tcp' = t /\ recv_buf' = r.b
      /\ \/ wire_out' = wire_out \cup {tcp_ack(t, r.b)}
         \/ wire_out' = wire_out
  BY DEF segment_arrives, Transmits
<1> HIDE DEF open, a, p, r, t, st1
<1>5. open \in Control /\ open.snd_una = tcp.snd_una /\ open.snd_nxt = tcp.snd_nxt
      /\ open.active = tcp.active /\ open.peer_fin = tcp.peer_fin /\ open.reset_seen = tcp.reset_seen
      /\ open.state = st0 /\ open.local_port = tcp.local_port /\ open.snd_iss = tcp.snd_iss
      /\ open.rcv_nxt = tcp.rcv_nxt /\ open.stale_ack_seen = tcp.stale_ack_seen
  <2> HIDE DEF st0
  <2>1. /\ open.snd_una = tcp.snd_una /\ open.snd_nxt = tcp.snd_nxt
        /\ open.active = tcp.active /\ open.peer_fin = tcp.peer_fin /\ open.reset_seen = tcp.reset_seen
        /\ open.state = st0 /\ open.local_port = tcp.local_port /\ open.snd_iss = tcp.snd_iss
        /\ open.rcv_nxt = tcp.rcv_nxt /\ open.stale_ack_seen = tcp.stale_ack_seen
    BY <1>2, BlockFields
  <2>2. open \in Control
    BY <1>1, <1>2, <1>3 DEF Control, Block
  <2> QED
    BY <2>1, <2>2
<1>6. a = Block(tcp.active, tcp.peer_fin, tcp.reset_seen, st0, tcp.local_port, tcp.snd_iss,
                NewUna(s), tcp.snd_nxt, tcp.rcv_nxt, tcp.stale_ack_seen)
  <2> HIDE DEF st0
  <2>1. a = Block(open.active, open.peer_fin, open.reset_seen, open.state, open.local_port,
                  open.snd_iss, NewUna(s), open.snd_nxt, open.rcv_nxt, open.stale_ack_seen)
    BY <1>5, AckEffect DEF a
  <2> QED
    BY <2>1, <1>5
<1>7. /\ p.t = Block(tcp.active, tcp.peer_fin, tcp.reset_seen, st0, tcp.local_port, tcp.snd_iss,
                     NewUna(s), tcp.snd_nxt, DataNxt(s), tcp.stale_ack_seen)
      /\ p.b = NewBuf(s)
      /\ p = [t |-> p.t, b |-> p.b, answer |-> p.answer]
  <2> HIDE DEF st0
  <2> QED
    BY <1>6, PayloadEffect DEF p
<1>8. /\ r.b = NewBuf(s)
      /\ r.t = Block(on1, got, tcp.reset_seen, st1, tcp.local_port, tcp.snd_iss, NewUna(s),
                     tcp.snd_nxt, NewNxt(s), tcp.stale_ack_seen)
  <2> HIDE DEF st0
  <2>1. /\ OnFin(p, s).b = p.b
        /\ OnFin(p, s).t = Block(FinActive(s, tcp.active, st0), FinSeen(s, tcp.peer_fin),
                                 tcp.reset_seen, FinState(s, st0), tcp.local_port, tcp.snd_iss,
                                 NewUna(s), tcp.snd_nxt, NewNxt(s), tcp.stale_ack_seen)
    BY <1>7, FinEffect
  <2> QED
    BY <2>1, <1>7 DEF r, st1
<1>9. PICK st, on :
         /\ t = Block(on, got, tcp.reset_seen, st, tcp.local_port, tcp.snd_iss, NewUna(s),
                      tcp.snd_nxt, NewNxt(s), tcp.stale_ack_seen)
         /\ FinEnds(st, on, st1, on1, NewUna(s))
  <2> HIDE DEF st0, st1, on1, got
  <2> QED
    BY <1>8, AfterFinEffect DEF t
<1>10. on = (st # "CLOSED")
  BY <1>1, <1>3, <1>9 DEF st1, FinState, FinActive, FinEnds
<1>11. Turns(s, st)
  BY <1>1, <1>3, <1>9 DEF st1, Turns, State, FinState, FinEnds, Acked
<1>12. got \in BOOLEAN
  BY <1>1 DEF FinSeen
<1>13. t.local_port = tcp.local_port /\ t.rcv_nxt = NewNxt(s)
  <2> HIDE DEF got
  <2> QED
    BY <1>9, BlockFields
<1>14. tcp_ack(t, r.b) = [segment |-> Segment(tcp.local_port, {"ACK"}, 0, NewNxt(s), <<>>),
                          window |-> window(NewBuf(s))]
  BY <1>8, <1>13 DEF tcp_ack, tcp_segment
<1> HIDE DEF got
<1> QED
  BY <1>4, <1>8, <1>9, <1>10, <1>11, <1>12, <1>14 DEF Turns

-----------------------------------------------------------------------------
(* Types and control                                                       *)

LEMMA PlusType ==
    ASSUME scene \in Scenes, NEW a \in Seqno, NEW n \in Nat
    PROVE  Plus(a, n) \in Seqno
<1>1. a + n \in Nat /\ SeqMod \in Nat \ {0}
  <2>1. SeqMod \in Nat \ {0}
    BY SceneFacts
  <2>2. a \in 0..(SeqMod - 1)
    BY DEF Seqno
  <2>3. a \in Nat
    BY ONLY <2>1, <2>2
  <2> QED
    BY ONLY <2>1, <2>3, n \in Nat
<1> DEFINE x == a + n
<1>2. x \in Nat
  BY <1>1
<1>3. x % SeqMod \in 0..(SeqMod - 1)
  <2> HIDE DEF x
  <2> QED
    BY <1>1, <1>2
<1> QED
  BY <1>3 DEF Plus, Seqno

\* A message that goes out.
LEMMA OutTyped ==
    ASSUME scene \in Scenes, NEW port \in Port, NEW flags \in Flags, NEW seq \in Seqno,
           NEW ack \in Seqno, NEW data \in Seq(Nat), NEW b \in Seq(Nat), Len(b) <= RecvCap,
           NEW m, m = [segment |-> Segment(port, flags, seq, ack, data), window |-> window(b)]
    PROVE  /\ m.segment \in Segments /\ m.window \in Nat /\ m.window <= RecvCap - Len(b)
           /\ m.segment.port = port /\ m.segment.flags = flags /\ m.segment.seq = seq
           /\ m.segment.ack = ack /\ m.segment.data = data
<1>1. Window \in Nat \ {0} /\ RecvCap \in Nat \ {0} /\ Len(b) \in Nat
  BY SceneFacts
<1>2. window(b) \in Nat /\ window(b) <= RecvCap - Len(b)
  BY <1>1 DEF window, free_bytes
<1>3. Segment(port, flags, seq, ack, data) \in Segments
  BY DEF Segment, Segments
<1> QED
  BY <1>2, <1>3 DEF Segment

LEMMA AckTyped ==
    ASSUME scene \in Scenes, NEW port \in Port, NEW ack \in Seqno, NEW b \in Seq(Nat),
           Len(b) <= RecvCap,
           NEW m, m = [segment |-> Segment(port, {"ACK"}, 0, ack, <<>>), window |-> window(b)]
    PROVE  /\ m.segment \in Segments /\ m.window \in Nat /\ m.window <= RecvCap - Len(b)
           /\ m.segment.port = port /\ m.segment.flags = {"ACK"} /\ m.segment.ack = ack
           /\ m.segment.data = <<>>
<1> DEFINE f == {"ACK"}
           e == <<>>
<1>1. f \in Flags /\ e \in Seq(Nat) /\ 0 \in Seqno
  BY SmallNumbers, EmptySeq DEF Flags
<1>2. m = [segment |-> Segment(port, f, 0, ack, e), window |-> window(b)]
  OBVIOUS
<1> HIDE DEF f, e
<1>3. /\ m.segment \in Segments /\ m.window \in Nat /\ m.window <= RecvCap - Len(b)
      /\ m.segment.port = port /\ m.segment.flags = f /\ m.segment.ack = ack
      /\ m.segment.data = e
  BY <1>1, <1>2, OutTyped
<1> QED
  BY <1>3 DEF f, e

\* The answer to a SYN.
LEMMA SynAckTyped ==
    ASSUME scene \in Scenes, NEW port \in Port, NEW seq \in Seqno, NEW ack \in Seqno,
           NEW b \in Seq(Nat), Len(b) <= RecvCap,
           NEW m, m = [segment |-> Segment(port, {"SYN", "ACK"}, seq, ack, <<>>),
                       window |-> window(b)]
    PROVE  /\ m.segment \in Segments /\ m.window \in Nat /\ m.window <= RecvCap - Len(b)
           /\ m.segment.port = port /\ m.segment.flags = {"SYN", "ACK"} /\ m.segment.ack = ack
           /\ m.segment.seq = seq /\ m.segment.data = <<>>
<1> DEFINE f == {"SYN", "ACK"}
           e == <<>>
<1>1. f \in Flags /\ e \in Seq(Nat)
  BY EmptySeq DEF Flags
<1>2. m = [segment |-> Segment(port, f, seq, ack, e), window |-> window(b)]
  OBVIOUS
<1> HIDE DEF f, e
<1>3. /\ m.segment \in Segments /\ m.window \in Nat /\ m.window <= RecvCap - Len(b)
      /\ m.segment.port = port /\ m.segment.flags = f /\ m.segment.ack = ack
      /\ m.segment.seq = seq /\ m.segment.data = e
  BY <1>1, <1>2, OutTyped
<1> QED
  BY <1>3 DEF f, e

LEMMA FlagSets ==
    /\ {"SYN"} \in Flags /\ {"SYN", "ACK"} \in Flags /\ {"ACK"} \in Flags
    /\ {"ACK", "PSH"} \in Flags /\ {"FIN", "ACK"} \in Flags /\ {"RST"} \in Flags
BY DEF Flags

\* Bytes taken into the ring: the oldest give way.
LEMMA Pushed ==
    ASSUME scene \in Scenes, NEW b \in Seq(Nat), NEW data \in Seq(Nat), Len(b) <= RecvCap
    PROVE  LET all == Len(b) + Len(data)
               drop == IF all > RecvCap THEN all - RecvCap ELSE 0
           IN  /\ recv_push(b, data) \in Seq(Nat) /\ Len(recv_push(b, data)) = all - drop
               /\ Len(recv_push(b, data)) <= RecvCap
               /\ \A k \in 1..(all - drop) : recv_push(b, data)[k] =
                     IF k + drop <= Len(b) THEN b[k + drop] ELSE data[k + drop - Len(b)]
<1> DEFINE c == b \o data
           n == Len(c)
           d == IF n > RecvCap THEN n - RecvCap ELSE 0
           q == SubSeq(c, d + 1, n)
<1>1. /\ c \in Seq(Nat) /\ n = Len(b) + Len(data)
      /\ \A i \in 1..n : c[i] = IF i <= Len(b) THEN b[i] ELSE data[i - Len(b)]
  BY ConcatProperties
<1>2. RecvCap \in Nat \ {0} /\ n \in Nat /\ Len(b) \in Nat /\ Len(data) \in Nat
  BY <1>1, SceneFacts, SMTT(30)
<1>3. recv_push(b, data) = q
  BY DEF recv_push
<1> HIDE DEF c
<1>4. d \in 0..n /\ n - d <= RecvCap
  BY <1>2
<1> HIDE DEF n
<1>5. \A i \in (d + 1)..n : c[i] \in Nat
  BY <1>1, <1>4, <1>2, SMTT(30) DEF n
<1> HIDE DEF d
<1>6. d + 1 \in Int /\ n \in Int
  BY <1>2, <1>4
<1>7. /\ q \in Seq(Nat) /\ Len(q) = (IF d + 1 <= n THEN n - (d + 1) + 1 ELSE 0)
      /\ \A i \in 1..(n - (d + 1) + 1) : q[i] = c[(d + 1) + i - 1]
  BY <1>5, <1>6, SubSeqProperties
<1> HIDE DEF q
<1>8. Len(q) = n - d
  BY <1>2, <1>4, <1>7
<1>9. ASSUME NEW k \in 1..(n - d)
      PROVE  q[k] = IF k + d <= Len(b) THEN b[k + d] ELSE data[k + d - Len(b)]
  <2>1. k \in 1..(n - (d + 1) + 1) /\ (d + 1) + k - 1 = k + d /\ k + d \in 1..n
    BY <1>2, <1>4
  <2>2. q[k] = c[k + d]
    BY <2>1, <1>7
  <2>3. \A i \in 1..n : c[i] = IF i <= Len(b) THEN b[i] ELSE data[i - Len(b)]
    BY <1>1
  <2> HIDE DEF n
  <2> DEFINE j == k + d
  <2>4. j \in 1..n
    BY <2>1
  <2>5. c[j] = IF j <= Len(b) THEN b[j] ELSE data[j - Len(b)]
    <3> HIDE DEF j
    <3> QED
      BY <2>3, <2>4
  <2> QED
    BY <2>1, <2>2, <2>5, <1>2, <1>4
<1> QED
  BY <1>1, <1>3, <1>4, <1>7, <1>8, <1>9 DEF d, n

\* What a segment that arrives tells of the control block.
LEMMA ArrivesFacts ==
    ASSUME ControlInv, NEW s \in wire_in, Arrives(s)
    PROVE  /\ s \in Segments /\ tcp.local_port \in Port /\ s.port = tcp.local_port
           /\ tcp.active = TRUE /\ tcp.state # "CLOSED" /\ call.phase = "poll" /\ scene \in Scenes
           /\ s.seq \in Seqno /\ s.ack \in Seqno /\ s.data \in Seq(Nat)
BY DEF ControlInv, TypeOK, BlockOK, Arrives, Control, Me, Segments

LEMMA MoreDrawn ==
    ASSUME TypeOK, drawn' = drawn + 1, scene' = scene
    PROVE  /\ Drawn \subseteq Drawn' /\ scene.iss[drawn + 1] \in Drawn'
           /\ Drawn' = Drawn \cup {scene.iss[drawn + 1]}
BY DEF TypeOK, Drawn

LEMMA SynControl ==
    ASSUME ControlInv, NEW s \in wire_in, syn_arrives(s), scene' = scene
    PROVE  ControlInv'
<1> USE DEF ControlInv
<1> DEFINE n == scene.iss[drawn + 1]
           r == Plus(s.seq, 1)
           m == [segment |-> Segment(tcp.local_port, {"SYN", "ACK"}, n, r, <<>>),
                 window |-> window(recv_buf)]
<1>1. /\ s \in Segments /\ tcp.local_port \in Port /\ tcp.active = TRUE /\ tcp.state = "LISTEN"
      /\ scene \in Scenes /\ s.seq \in Seqno /\ call.phase = "poll"
  BY ArrivesFacts DEF syn_arrives
<1>2. /\ tcp' = Block(tcp.active, tcp.peer_fin, tcp.reset_seen, "SYN_RECEIVED", tcp.local_port,
                      n, n, Plus(n, 1), r, tcp.stale_ack_seen)
      /\ wire_out' = wire_out \cup {m}
  BY SynEffect
<1>3. drawn < Len(scene.iss) /\ drawn' = drawn + 1
      /\ UNCHANGED <<recv_buf, last_err, ephemeral_port, call, wire_in, peer, session>>
  BY DEF syn_arrives
<1>4. n \in Seqno /\ n # 0 /\ Plus(n, 1) \in Seqno /\ r \in Seqno
  BY <1>1, <1>3, IssDrawn, PlusType DEF TypeOK
<1>5. n \in Drawn'
  BY <1>3, MoreDrawn
<1> HIDE DEF n, r
<1>m. m = [segment |-> Segment(tcp.local_port, {"SYN", "ACK"}, n, r, <<>>),
           window |-> window(recv_buf)]
  OBVIOUS
<1>b. recv_buf \in Seq(Nat) /\ Len(recv_buf) <= RecvCap
  BY DEF TypeOK
<1> HIDE DEF m
<1>6. m.segment \in Segments /\ m.window \in Nat
  BY <1>1, <1>4, <1>m, <1>b, SynAckTyped
<1>7. tcp' \in Control /\ tcp'.active = TRUE /\ tcp'.state = "SYN_RECEIVED" /\ Me' = Me
      /\ tcp'.snd_iss = n
  BY <1>1, <1>2, <1>4 DEF TypeOK, Control, Block, Me, State
<1>8. TypeOK'
  BY <1>2, <1>3, <1>6, <1>7 DEF TypeOK
<1>9. BlockOK'
  BY <1>1, <1>3, <1>4, <1>5, <1>7 DEF BlockOK
<1>10. TryOK'
  <2>1. call.op # "connect" /\ call.op # "send" /\ call.op # "close"
    BY <1>1 DEF TryOK
  <2> QED
    BY <1>3, <1>7, <2>1 DEF TryOK, TypeOK
<1> QED
  BY <1>8, <1>9, <1>10

LEMMA RstControl ==
    ASSUME ControlInv, NEW s \in wire_in, rst_arrives(s), scene' = scene
    PROVE  ControlInv'
<1> USE DEF ControlInv
<1>1. /\ s \in Segments /\ tcp.local_port \in Port /\ tcp.active = TRUE /\ tcp.state # "CLOSED"
      /\ call.phase = "poll"
  BY ArrivesFacts DEF rst_arrives
<1>2. /\ tcp' = Block(FALSE, tcp.peer_fin, TRUE, "CLOSED", tcp.local_port, tcp.snd_iss,
                      tcp.snd_una, tcp.snd_nxt, tcp.rcv_nxt, tcp.stale_ack_seen)
      /\ session' = Told(session.port, session.taken, session.read, TRUE, session.finished,
                         session.overtaken)
  BY RstEffect
<1>3. UNCHANGED <<recv_buf, last_err, ephemeral_port, drawn, call, wire_out, wire_in, peer>>
  BY DEF rst_arrives
<1>4. tcp' \in Control /\ tcp'.active = FALSE /\ tcp'.state = "CLOSED" /\ Me' = Me
      /\ tcp'.snd_iss = tcp.snd_iss /\ tcp'.reset_seen = TRUE
  BY <1>1, <1>2 DEF TypeOK, Control, Block, Me, State
<1>5. session' \in SessionBlock /\ session'.port = session.port
      /\ session'.overtaken = session.overtaken
  BY <1>2 DEF TypeOK, SessionBlock, Told
<1>6. TypeOK'
  BY <1>3, <1>4, <1>5 DEF TypeOK
<1>7. BlockOK'
  BY <1>1, <1>3, <1>4, <1>5 DEF BlockOK, Drawn
<1>8. TryOK'
  BY <1>1, <1>3, <1>4 DEF TryOK, TypeOK
<1> QED
  BY <1>6, <1>7, <1>8

LEMMA SynAckControl ==
    ASSUME ControlInv, NEW s \in wire_in, syn_ack_arrives(s), scene' = scene
    PROVE  ControlInv'
<1> USE DEF ControlInv
<1> DEFINE r == Plus(s.seq, 1)
           m == [segment |-> Segment(tcp.local_port, {"ACK"}, 0, r, <<>>),
                 window |-> window(recv_buf)]
<1>1. /\ s \in Segments /\ tcp.local_port \in Port /\ tcp.active = TRUE /\ tcp.state = "SYN_SENT"
      /\ call.phase = "poll" /\ scene \in Scenes /\ s.seq \in Seqno /\ s.ack \in Seqno
  BY ArrivesFacts DEF syn_ack_arrives
<1>2. /\ tcp' = Block(tcp.active, tcp.peer_fin, tcp.reset_seen, "ESTABLISHED", tcp.local_port,
                      tcp.snd_iss, s.ack, tcp.snd_nxt, r, tcp.stale_ack_seen)
      /\ wire_out' = wire_out \cup {m}
  BY SynAckEffect
<1>3. UNCHANGED <<recv_buf, last_err, ephemeral_port, drawn, call, wire_in, peer, session>>
  BY DEF syn_ack_arrives
<1>4. r \in Seqno /\ 0 \in Seqno
  BY <1>1, PlusType, SmallNumbers
<1> HIDE DEF r
<1>m. m = [segment |-> Segment(tcp.local_port, {"ACK"}, 0, r, <<>>), window |-> window(recv_buf)]
  OBVIOUS
<1>b. recv_buf \in Seq(Nat) /\ Len(recv_buf) <= RecvCap
  BY DEF TypeOK
<1> HIDE DEF m
<1>5. m.segment \in Segments /\ m.window \in Nat
  BY <1>1, <1>4, <1>m, <1>b, AckTyped
<1>6. tcp' \in Control /\ tcp'.active = TRUE /\ tcp'.state = "ESTABLISHED" /\ Me' = Me
      /\ tcp'.snd_iss = tcp.snd_iss
  BY <1>1, <1>2, <1>4 DEF TypeOK, Control, Block, Me, State
<1>7. tcp.snd_iss # 0 /\ call.op = "connect"
  BY <1>1 DEF TryOK
<1>8. TypeOK'
  BY <1>2, <1>3, <1>5, <1>6 DEF TypeOK
<1>9. BlockOK'
  BY <1>1, <1>3, <1>6, <1>7 DEF BlockOK, Drawn
<1>10. TryOK'
  BY <1>1, <1>3, <1>6, <1>7 DEF TryOK, TypeOK
<1> QED
  BY <1>8, <1>9, <1>10

LEMMA StaleControl ==
    ASSUME ControlInv, NEW s \in wire_in, stale_ack_arrives(s), scene' = scene
    PROVE  ControlInv'
<1> USE DEF ControlInv
<1>1. tcp' = Block(tcp.active, tcp.peer_fin, tcp.reset_seen, tcp.state, tcp.local_port,
                   tcp.snd_iss, tcp.snd_una, tcp.snd_nxt, tcp.rcv_nxt, TRUE)
  BY StaleEffect
<1>2. UNCHANGED <<recv_buf, last_err, ephemeral_port, drawn, call, wire_out, wire_in, peer, session>>
  BY DEF stale_ack_arrives
<1>3. tcp' \in Control /\ tcp'.active = tcp.active /\ tcp'.state = tcp.state /\ Me' = Me
      /\ tcp'.snd_iss = tcp.snd_iss /\ tcp'.reset_seen = tcp.reset_seen
  BY <1>1 DEF TypeOK, Control, Block, Me
<1>4. TypeOK'
  BY <1>2, <1>3 DEF TypeOK
<1>5. BlockOK'
  BY <1>2, <1>3 DEF BlockOK, Drawn
<1>6. TryOK'
  BY <1>2, <1>3 DEF TryOK, TypeOK
<1> QED
  BY <1>4, <1>5, <1>6

\* The numbers and the ring a segment leaves.
LEMMA SegmentNumbers ==
    ASSUME ControlInv, NEW s \in wire_in, s \in Segments
    PROVE  /\ NewUna(s) \in Seqno /\ DataNxt(s) \in Seqno /\ NewNxt(s) \in Seqno
           /\ NewBuf(s) \in Seq(Nat) /\ Len(NewBuf(s)) <= RecvCap
<1>1. scene \in Scenes /\ s.ack \in Seqno /\ s.data \in Seq(Nat) /\ Len(s.data) \in Nat
      /\ tcp.rcv_nxt \in Seqno /\ tcp.snd_una \in Seqno /\ recv_buf \in Seq(Nat)
      /\ Len(recv_buf) <= RecvCap
  BY DEF ControlInv, TypeOK, Control, Segments
<1>2. Plus(tcp.rcv_nxt, Len(s.data)) \in Seqno
  BY <1>1, PlusType
<1>3. DataNxt(s) \in Seqno
  BY <1>1, <1>2 DEF DataNxt
<1>4. Plus(DataNxt(s), 1) \in Seqno
  BY <1>1, <1>3, PlusType
<1>5. recv_push(recv_buf, s.data) \in Seq(Nat) /\ Len(recv_push(recv_buf, s.data)) <= RecvCap
  BY <1>1, Pushed
<1> QED
  BY <1>1, <1>3, <1>4, <1>5 DEF NewUna, NewNxt, NewBuf

LEMMA SegmentControl ==
    ASSUME ControlInv, NEW s \in wire_in, segment_arrives(s), scene' = scene
    PROVE  ControlInv'
<1> USE DEF ControlInv
<1> DEFINE m == [segment |-> Segment(tcp.local_port, {"ACK"}, 0, NewNxt(s), <<>>),
                 window |-> window(NewBuf(s))]
<1>1. /\ s \in Segments /\ tcp.local_port \in Port /\ call.phase = "poll" /\ scene \in Scenes
      /\ tcp.state \notin {"CLOSED", "LISTEN", "SYN_SENT"}
  BY ArrivesFacts DEF segment_arrives
<1>2. PICK st \in State, fin \in BOOLEAN :
         /\ Turns(s, st)
         /\ tcp' = Block(st # "CLOSED", fin, tcp.reset_seen, st, tcp.local_port, tcp.snd_iss,
                         NewUna(s), tcp.snd_nxt, NewNxt(s), tcp.stale_ack_seen)
         /\ recv_buf' = NewBuf(s)
         /\ wire_out' = wire_out \/ wire_out' = wire_out \cup {m}
  BY SegmentEffect
<1>3. UNCHANGED <<last_err, ephemeral_port, drawn, call, wire_in, peer, session>>
  BY DEF segment_arrives
<1>4. /\ NewUna(s) \in Seqno /\ NewNxt(s) \in Seqno /\ 0 \in Seqno
      /\ NewBuf(s) \in Seq(Nat) /\ Len(NewBuf(s)) <= RecvCap
  BY <1>1, SegmentNumbers, SmallNumbers
<1>m. m = [segment |-> Segment(tcp.local_port, {"ACK"}, 0, NewNxt(s), <<>>),
           window |-> window(NewBuf(s))]
  OBVIOUS
<1> HIDE DEF m
<1>5. m.segment \in Segments /\ m.window \in Nat
  BY <1>1, <1>4, <1>m, AckTyped
<1>6. tcp' \in Control /\ tcp'.active = (tcp'.state # "CLOSED") /\ tcp'.state = st /\ Me' = Me
      /\ tcp'.snd_iss = tcp.snd_iss
  BY <1>1, <1>2, <1>4 DEF TypeOK, Control, Block, Me
<1>t. tcp.state \in State \ {"CLOSED", "LISTEN", "SYN_SENT"}
  BY <1>1 DEF TypeOK, Control
<1>u. /\ tcp.state \in {"SYN_RECEIVED", "ESTABLISHED"} => st \in {"ESTABLISHED", "CLOSE_WAIT"}
      /\ tcp.state = "CLOSE_WAIT" => st = "CLOSE_WAIT"
      /\ tcp.state = "FIN_WAIT1" => st \in {"FIN_WAIT1", "FIN_WAIT2", "CLOSED"}
      /\ tcp.state = "FIN_WAIT2" => st \in {"FIN_WAIT2", "CLOSED"}
      /\ tcp.state = "LAST_ACK" => st \in {"LAST_ACK", "CLOSED"}
  BY <1>2 DEF Turns
<1>7. st \notin {"LISTEN", "SYN_SENT", "SYN_RECEIVED"}
  BY <1>t, <1>u DEF State
<1>s. tcp.snd_iss # 0
  BY <1>t DEF BlockOK
<1>8. TypeOK'
  BY <1>2, <1>3, <1>4, <1>5, <1>6 DEF TypeOK
<1>9. BlockOK'
  BY <1>1, <1>3, <1>6, <1>7, <1>s DEF BlockOK, Drawn
<1>10. TryOK'
  <2>1. drawn' = drawn /\ call' = call /\ scene' = scene /\ tcp'.state = st
        /\ tcp'.snd_iss = tcp.snd_iss /\ Me' = Me
    BY <1>3, <1>6
  <2>2. call.op = "connect" => tcp.state \in {"ESTABLISHED", "CLOSE_WAIT"}
    BY <1>t DEF TryOK
  <2>3. call.op = "send" => tcp.state \in {"ESTABLISHED", "CLOSE_WAIT"}
    BY <1>t DEF TryOK
  <2>4. call.op = "close" => tcp.state \in {"FIN_WAIT1", "FIN_WAIT2", "LAST_ACK"}
    BY <1>t DEF TryOK
  <2>5. call.op # "close" => tcp.state \in {"SYN_RECEIVED", "ESTABLISHED", "CLOSE_WAIT"}
    BY <1>t DEF TryOK, State
  <2>6. call.op = "connect" => st \in {"ESTABLISHED", "CLOSE_WAIT"}
    BY <2>2, <1>u
  <2>7. call.op = "send" => st \in {"ESTABLISHED", "CLOSE_WAIT"}
    BY <2>3, <1>u
  <2>8. call.op = "close" => st \in {"FIN_WAIT1", "FIN_WAIT2", "LAST_ACK", "CLOSED"}
    BY <2>4, <1>u
  <2>9. call.op # "close" => st \in {"ESTABLISHED", "CLOSE_WAIT"}
    BY <2>5, <1>u
  <2> HIDE DEF ControlInv
  <2>10. TryOK
    BY DEF ControlInv
  <2> QED
    BY <1>1, <2>1, <2>6, <2>7, <2>8, <2>9, <2>10 DEF TryOK
<1> QED
  BY <1>8, <1>9, <1>10

\* Steps that leave the control block alone.
LEMMA QuietControl ==
    ASSUME ControlInv, scene' = scene, UNCHANGED <<tcp, ephemeral_port, drawn, wire_in, peer>>,
           recv_buf' \in Seq(Nat), Len(recv_buf') <= RecvCap, call' \in CallBlock,
           session' \in SessionBlock, session'.port = session.port,
           session'.overtaken = session.overtaken,
           \A m \in wire_out' : m \in wire_out \/ (m.segment \in Segments /\ m.window \in Nat),
           TryOK'
    PROVE  ControlInv'
<1>1. TypeOK'
  BY DEF ControlInv, TypeOK
<1>2. BlockOK'
  BY DEF ControlInv, BlockOK, Me, Drawn
<1> QED
  BY <1>1, <1>2 DEF ControlInv

\* A call that returns, and one that goes on with another try.
LEMMA ReturnControl ==
    ASSUME ControlInv, scene' = scene, UNCHANGED <<tcp, drawn>>, call' = Idle,
           tcp.state \notin {"SYN_SENT", "FIN_WAIT1", "FIN_WAIT2", "LAST_ACK"}
    PROVE  TryOK' /\ call' \in CallBlock /\ call'.op = "idle"
<1>1. call'.op = "idle" /\ call' \in CallBlock
  BY IdleIs DEF Idle, ControlInv, TypeOK
<1> QED
  BY <1>1 DEF ControlInv, TryOK

LEMMA NextTryControl ==
    ASSUME ControlInv, scene' = scene, UNCHANGED <<tcp, drawn>>, NextTry,
           \/ call.op = "connect" /\ call.phase = "poll"
           \/ call.op \in {"send", "close"} /\ tcp.state # "CLOSED"
    PROVE  /\ TryOK' /\ call' \in CallBlock /\ call'.op = call.op /\ call'.first = call.first
           /\ call'.last = call.last /\ call'.want = call.want /\ call'.sent = call.sent
<1>1. call' = InCall(call.op, "tx", call.try + 1, call.src, call.want, call.sent, call.first,
                     call.last)
  BY NextTryEffect DEF ControlInv
<1>2. call \in CallBlock /\ call.try \in Nat
  BY DEF ControlInv, TypeOK, CallBlock
<1> DEFINE k == call.try + 1
<1>3. k \in Nat
  BY <1>2
<1>4. call' = InCall(call.op, "tx", k, call.src, call.want, call.sent, call.first, call.last)
  BY <1>1
<1> HIDE DEF k
<1>5. /\ call' \in CallBlock /\ call'.op = call.op /\ call'.phase = "tx" /\ call'.try = k
      /\ call'.first = call.first /\ call'.last = call.last /\ call'.want = call.want
      /\ call'.sent = call.sent
  BY <1>2, <1>3, <1>4 DEF InCall, CallBlock
<1>6. scene.retries \in Nat /\ Len(scene.iss) \in Nat /\ drawn \in Nat
  <2>1. scene \in Scenes /\ drawn \in Nat
    BY DEF ControlInv, TypeOK
  <2>2. scene.retries \in Nat \ {0} /\ scene.iss \in Seq(1..(SeqMod - 1))
    BY <2>1, SceneFacts
  <2> QED
    BY <2>1, <2>2, LenProperties
<1>7. TryOK'
  <2>1. call.op = "connect" => /\ call.phase = "poll" /\ k <= scene.retries
                               /\ drawn + scene.retries <= Len(scene.iss) + k
    BY <1>2, <1>6 DEF ControlInv, TryOK, k
  <2>2. k # 0
    BY <1>2 DEF k
  <2> QED
    BY <1>5, <2>1, <2>2 DEF ControlInv, TryOK, Me
<1> QED
  BY <1>5, <1>7

\* The connection is given up.
LEMMA ClosedControl ==
    ASSUME ControlInv, scene' = scene, tcp' = Closed, recv_buf' = <<>>, call' = Idle,
           UNCHANGED <<ephemeral_port, drawn, wire_out, wire_in, peer>>,
           session' \in SessionBlock, session'.port = session.port,
           session'.overtaken = session.overtaken
    PROVE  /\ ControlInv'
           /\ tcp'.state = "CLOSED" /\ Me' = 0 /\ tcp'.snd_iss = 0 /\ call'.op = "idle"
<1>1. scene \in Scenes
  BY DEF ControlInv, TypeOK
<1>2. /\ tcp' \in Control /\ tcp'.active = FALSE /\ tcp'.state = "CLOSED" /\ Me' = 0
      /\ tcp'.snd_iss = 0
  BY <1>1, ClosedIs DEF Closed, Me
<1>3. call'.op = "idle" /\ call' \in CallBlock
  BY <1>1, IdleIs DEF Idle
<1>4. recv_buf' \in Seq(Nat) /\ Len(recv_buf') <= RecvCap
  <2>1. Len(<<>>) = 0 /\ <<>> \in Seq(Nat)
    BY EmptySeq
  <2>2. RecvCap \in Nat
    BY <1>1, SceneFacts
  <2> QED
    BY <2>1, <2>2
<1>5. TypeOK'
  BY <1>2, <1>3, <1>4 DEF ControlInv, TypeOK
<1>6. BlockOK'
  BY <1>2 DEF ControlInv, BlockOK
<1>7. TryOK'
  BY <1>2, <1>3 DEF ControlInv, TryOK
<1> QED
  BY <1>2, <1>3, <1>5, <1>6, <1>7 DEF ControlInv

\* What the calls that begin a connection set.
LEMMA ConnectControl ==
    ASSUME ControlInv, scene' = scene, NEW src \in scene.ports \cup {0}, connect(src)
    PROVE  /\ ControlInv'
           /\ tcp'.state = "SYN_SENT" /\ tcp'.snd_iss = 0 /\ tcp'.rcv_nxt = 0 /\ recv_buf' = <<>>
           /\ session'.taken = 0 /\ session'.finished = FALSE /\ session'.read = <<>>
           /\ call'.op = "connect" /\ Me' # 0
           /\ UNCHANGED <<drawn, wire_out, wire_in, peer>>
<1> DEFINE port == IF src = 0 THEN ephemeral_port' ELSE src
           c == [Idle EXCEPT !.op = "connect", !.phase = "tx", !.src = src]
<1>1. scene \in Scenes
  BY DEF ControlInv, TypeOK
<1>2. scene.ports \subseteq Port /\ 0 \notin Port /\ RecvCap \in Nat /\ scene.retries \in Nat \ {0}
      /\ scene.iss \in Seq(1..(SeqMod - 1))
  BY <1>1, SceneFacts
<1>3. port \in scene.ports /\ ephemeral_port' \in scene.ports
  BY DEF connect, next_ephemeral_port, ControlInv, TypeOK
<1>4. /\ tcp' = [Closed EXCEPT !.active = TRUE, !.state = "SYN_SENT", !.local_port = port]
      /\ session' = NewSession(port) /\ recv_buf' = <<>> /\ call' = c
      /\ drawn + scene.retries <= Len(scene.iss)
      /\ UNCHANGED <<drawn, wire_out, wire_in, peer>>
  BY DEF connect, NoAnswer, port
<1> HIDE DEF port
<1>5. /\ tcp' \in Control /\ tcp'.active = TRUE /\ tcp'.state = "SYN_SENT" /\ Me' = port
      /\ tcp'.snd_iss = 0 /\ tcp'.rcv_nxt = 0
  BY <1>1, <1>2, <1>3, <1>4, SmallNumbers DEF Closed, Control, State, Me
<1>6. /\ session' \in SessionBlock /\ session'.port = port /\ session'.overtaken = FALSE
      /\ session'.taken = 0 /\ session'.finished = FALSE /\ session'.read = <<>>
  <2>1. <<>> \in Seq(Nat)
    BY EmptySeq
  <2> QED
    BY <2>1, <1>2, <1>3, <1>4 DEF NewSession, SessionBlock
<1>7. call' \in CallBlock /\ call'.op = "connect" /\ call'.phase = "tx" /\ call'.try = 0
  BY <1>1, <1>2, <1>4, SmallNumbers DEF Idle, CallBlock
<1>8. recv_buf' \in Seq(Nat) /\ Len(recv_buf') <= RecvCap
  <2>1. Len(<<>>) = 0 /\ <<>> \in Seq(Nat)
    BY EmptySeq
  <2> QED
    BY <2>1, <1>2, <1>4
<1>9. TypeOK'
  BY <1>3, <1>4, <1>5, <1>6, <1>7, <1>8 DEF ControlInv, TypeOK
<1>10. port # 0
  BY <1>2, <1>3
<1>11. BlockOK'
  BY <1>3, <1>5, <1>6, <1>10 DEF BlockOK
<1>12. TryOK'
  <2>1. drawn \in Nat /\ Len(scene.iss) \in Nat /\ drawn <= Len(scene.iss)
    BY <1>2, LenProperties DEF ControlInv, TypeOK, TryOK
  <2> QED
    BY <2>1, <1>2, <1>4, <1>5, <1>7, <1>10 DEF TryOK
<1> QED
  BY <1>4, <1>5, <1>6, <1>7, <1>9, <1>10, <1>11, <1>12 DEF ControlInv

LEMMA ListenControl ==
    ASSUME ControlInv, scene' = scene, NEW port \in scene.ports, listen(port)
    PROVE  /\ ControlInv'
           /\ tcp'.state = "LISTEN" /\ tcp'.snd_iss = 0 /\ recv_buf' = <<>>
           /\ session'.taken = 0 /\ session'.finished = FALSE /\ session'.read = <<>>
           /\ session'.overtaken = FALSE
           /\ call'.op = "idle" /\ Me' # 0
           /\ UNCHANGED <<drawn, wire_out, wire_in, peer>>
<1>1. scene \in Scenes
  BY DEF ControlInv, TypeOK
<1>2. scene.ports \subseteq Port /\ 0 \notin Port /\ RecvCap \in Nat
  BY <1>1, SceneFacts
<1>3. /\ tcp' = [Closed EXCEPT !.active = TRUE, !.state = "LISTEN", !.local_port = port]
      /\ session' = NewSession(port) /\ recv_buf' = <<>> /\ call' = call /\ call.op = "idle"
      /\ UNCHANGED <<ephemeral_port, drawn, wire_out, wire_in, peer>>
  BY DEF listen, Begins, Idle, NoAnswer
<1>4. /\ tcp' \in Control /\ tcp'.active = TRUE /\ tcp'.state = "LISTEN" /\ Me' = port
      /\ tcp'.snd_iss = 0
  BY <1>1, <1>2, <1>3, SmallNumbers DEF Closed, Control, State, Me
<1>5. /\ session' \in SessionBlock /\ session'.port = port /\ session'.overtaken = FALSE
      /\ session'.taken = 0 /\ session'.finished = FALSE /\ session'.read = <<>>
  <2>1. <<>> \in Seq(Nat)
    BY EmptySeq
  <2> QED
    BY <2>1, <1>2, <1>3 DEF NewSession, SessionBlock
<1>6. recv_buf' \in Seq(Nat) /\ Len(recv_buf') <= RecvCap
  <2>1. Len(<<>>) = 0 /\ <<>> \in Seq(Nat)
    BY EmptySeq
  <2> QED
    BY <2>1, <1>2, <1>3
<1>7. TypeOK'
  BY <1>3, <1>4, <1>5, <1>6 DEF ControlInv, TypeOK
<1>8. port # 0
  BY <1>2
<1>9. BlockOK'
  BY <1>4, <1>5, <1>8 DEF BlockOK
<1>10. TryOK'
  BY <1>3, <1>4 DEF TryOK, ControlInv
<1> QED
  BY <1>3, <1>4, <1>5, <1>7, <1>8, <1>9, <1>10 DEF ControlInv

LEMMA TryControl ==
    ASSUME ControlInv, scene' = scene, connect_try
    PROVE  /\ ControlInv'
           /\ drawn < Len(scene.iss) /\ drawn' = drawn + 1 /\ Me' # 0
           /\ tcp'.state = tcp.state /\ tcp'.rcv_nxt = 0
           /\ tcp'.snd_iss = scene.iss[drawn + 1] /\ tcp'.snd_una = scene.iss[drawn + 1]
           /\ tcp'.snd_nxt = Plus(scene.iss[drawn + 1], 1)
           /\ session'.taken = session.taken /\ session'.finished = session.finished
           /\ session'.read = session.read /\ call'.op = "connect"
           /\ session'.overtaken = FALSE =>
                 tcp.state = "SYN_SENT" /\ session.overtaken = FALSE
           /\ UNCHANGED <<recv_buf, wire_in, peer>>
           /\ \A m \in wire_out' :
                 \/ m \in wire_out
                 \/ /\ m.segment \in Segments /\ m.window \in Nat /\ m.window <= RecvCap
                    /\ m.segment.port = Me' /\ m.segment.flags = {"SYN"}
                    /\ m.segment.seq = scene.iss[drawn + 1] /\ m.segment.data = <<>>
<1> DEFINE n == scene.iss[drawn + 1]
           n1 == Plus(n, 1)
<1>1. scene \in Scenes /\ drawn \in Nat /\ tcp \in Control /\ session \in SessionBlock
      /\ recv_buf \in Seq(Nat) /\ Len(recv_buf) <= RecvCap /\ call \in CallBlock /\ TypeOK
  BY DEF ControlInv, TypeOK
<1>2. scene.retries \in Nat \ {0} /\ scene.iss \in Seq(1..(SeqMod - 1)) /\ 0 \notin Port
      /\ scene.ports \subseteq Port
  BY <1>1, SceneFacts
<1>3. Len(scene.iss) \in Nat
  BY <1>2, LenProperties
<1>4. /\ call.op = "connect" /\ call.phase = "tx" /\ call.try < scene.retries /\ call.try \in Nat
      /\ drawn' = drawn + 1 /\ UNCHANGED <<recv_buf, wire_in, peer>>
  BY <1>1 DEF connect_try, NoAnswer, CallBlock
<1>5. /\ tcp.state \in {"CLOSED", "SYN_SENT", "ESTABLISHED", "CLOSE_WAIT"} /\ Me # 0
      /\ drawn + scene.retries <= Len(scene.iss) + call.try
      /\ call.try = 0 => tcp.state = "SYN_SENT"
  BY <1>4 DEF ControlInv, TryOK
<1>6. drawn < Len(scene.iss) /\ drawn + 1 + scene.retries <= Len(scene.iss) + call.try + 1
  BY <1>1, <1>2, <1>3, <1>4, <1>5
<1>7. tcp.local_port \in scene.ports
  BY <1>5 DEF ControlInv, BlockOK, Me
<1>8. PICK port \in scene.ports :
         /\ tcp' = Block(tcp.active, tcp.peer_fin, tcp.reset_seen, tcp.state, port, n, n, n1, 0,
                         FALSE)
         /\ session' = Told(port, session.taken, session.read, session.reset,
                            session.finished, session.overtaken \/ tcp.state # "SYN_SENT")
  BY <1>1, <1>6, <1>7, TryEffect
<1>9. n \in Seqno /\ n # 0 /\ n1 \in Seqno /\ 0 \in Seqno
  BY <1>1, <1>6, IssDrawn, SmallNumbers
<1>10. n \in Drawn' /\ Drawn \subseteq Drawn'
  BY <1>1, <1>4, MoreDrawn
<1>11. connect_try
  OBVIOUS
<1> HIDE DEF n, n1
<1>12. /\ tcp' \in Control /\ tcp'.active = tcp.active /\ tcp'.state = tcp.state /\ Me' = port
       /\ tcp'.snd_iss = n /\ tcp'.snd_una = n /\ tcp'.snd_nxt = n1 /\ tcp'.rcv_nxt = 0
       /\ tcp'.reset_seen = tcp.reset_seen
  BY <1>1, <1>2, <1>8, <1>9 DEF Control, Block, Me
<1> DEFINE over == session.overtaken \/ tcp.state # "SYN_SENT"
<1>13. /\ session' \in SessionBlock /\ session'.port = port /\ session'.overtaken = over
       /\ session'.taken = session.taken /\ session'.finished = session.finished
       /\ session'.read = session.read
  <2>1. over \in BOOLEAN
    BY <1>1 DEF SessionBlock
  <2>2. session' = Told(port, session.taken, session.read, session.reset, session.finished, over)
    BY <1>8
  <2> HIDE DEF over
  <2> QED
    BY <2>1, <2>2, <1>1, <1>2 DEF Told, SessionBlock
<1>14. port # 0 /\ port \in Port
  BY <1>2
<1>15. /\ call' \in CallBlock /\ call'.op = "connect"
       /\ \/ call'.phase = "poll" /\ call'.try = call.try
          \/ call'.phase = "tx" /\ call'.try = call.try + 1
  <2>1. CASE NextTry
    <3> DEFINE k == call.try + 1
    <3>1. k \in Nat /\ call' = InCall(call.op, "tx", k, call.src, call.want, call.sent, call.first,
                                      call.last)
      BY <2>1, <1>1, <1>4, NextTryEffect
    <3> HIDE DEF k
    <3>2. call' \in CallBlock /\ call'.op = "connect" /\ call'.phase = "tx" /\ call'.try = k
      BY <3>1, <1>1, <1>4 DEF InCall, CallBlock
    <3> QED
      BY <3>2 DEF k
  <2>2. CASE call' = [call EXCEPT !.phase = "poll"]
    BY <2>2, <1>1, <1>4 DEF CallBlock
  <2> QED
    BY <2>1, <2>2, <1>11 DEF connect_try
<1>16. ASSUME NEW m \in wire_out', m \notin wire_out
       PROVE  /\ m.segment \in Segments /\ m.window \in Nat /\ m.window <= RecvCap
              /\ m.segment.port = port /\ m.segment.flags = {"SYN"} /\ m.segment.seq = n
              /\ m.segment.data = <<>>
  <2> DEFINE f == {"SYN"}
             e == <<>>
  <2>1. f \in Flags /\ e \in Seq(Nat) /\ Len(recv_buf) \in Nat /\ "ACK" \notin f
    BY <1>1, EmptySeq DEF Flags
  <2>2. PICK t : t.local_port = port /\ m = tcp_segment(t, recv_buf, f, n, e)
    <3>1. PICK t : t = tcp' /\ wire_out' = wire_out \cup {tcp_segment(t, recv_buf, f, n, e)}
      BY <1>11, <1>16 DEF connect_try, Transmits, n
    <3> QED
      BY <3>1, <1>12, <1>16 DEF Me
  <2> HIDE DEF e, f
  <2>3. m = [segment |-> Segment(port, f, n, 0, e), window |-> window(recv_buf)]
    BY <2>1, <2>2 DEF tcp_segment
  <2>4. /\ m.segment \in Segments /\ m.window \in Nat /\ m.window <= RecvCap - Len(recv_buf)
        /\ m.segment.port = port /\ m.segment.flags = f /\ m.segment.seq = n
        /\ m.segment.data = e
    BY <2>1, <2>3, <1>1, <1>9, <1>14, OutTyped
  <2>5. RecvCap \in Nat
    BY <1>1, SceneFacts
  <2> QED
    BY <2>1, <2>4, <2>5 DEF f, e
<1>17. ephemeral_port' \in scene.ports
  BY <1>11, <1>1 DEF connect_try, next_ephemeral_port, TypeOK
<1>18. TypeOK'
  BY <1>1, <1>4, <1>12, <1>13, <1>15, <1>16, <1>17 DEF TypeOK
<1>19. BlockOK'
  <2>1. over => scene.retries > 1
    BY <1>2, <1>4, <1>5 DEF ControlInv, BlockOK
  <2>2. tcp.state \in {"LISTEN", "SYN_SENT", "SYN_RECEIVED"} => ~over
    BY <1>5 DEF ControlInv, BlockOK
  <2>3. BlockOK
    BY DEF ControlInv
  <2> HIDE DEF over
  <2> QED
    BY <2>1, <2>2, <2>3, <1>5, <1>9, <1>10, <1>12, <1>13, <1>14 DEF BlockOK
<1>20. TryOK'
  <2>1. drawn' <= Len(scene.iss)
    BY <1>1, <1>3, <1>4, <1>6
  <2>2. call'.phase = "tx" => /\ drawn' + scene.retries <= Len(scene.iss) + call'.try
                              /\ call'.try # 0 /\ call'.try <= scene.retries
    BY <1>1, <1>2, <1>3, <1>4, <1>6, <1>15
  <2>3. call'.phase = "poll" => /\ drawn' + scene.retries <= Len(scene.iss) + call'.try + 1
                                /\ call'.try < scene.retries /\ call'.try <= scene.retries
    BY <1>1, <1>2, <1>3, <1>4, <1>6, <1>15
  <2>4. call'.phase \in {"tx", "poll"}
    BY <1>15
  <2> QED
    BY <2>1, <2>2, <2>3, <2>4, <1>5, <1>9, <1>12, <1>14, <1>15 DEF TryOK
<1>21. over = FALSE => tcp.state = "SYN_SENT" /\ session.overtaken = FALSE
  BY <1>1 DEF SessionBlock
<1> HIDE DEF over
<1> QED
  BY <1>4, <1>6, <1>12, <1>13, <1>14, <1>15, <1>16, <1>18, <1>19, <1>20, <1>21
     DEF ControlInv, n, n1

LEMMA ChunkLen ==
    ASSUME scene \in Scenes, NEW left \in Nat
    PROVE  chunk_len(left) \in Nat /\ chunk_len(left) <= left
<1>1. LenMod \in Nat \ {0} /\ MaxSegment \in Nat \ {0}
  BY SceneFacts
<1>2. left % LenMod \in Nat /\ left % LenMod <= left
  <2>1. left % LenMod \in 0..(LenMod - 1)
    BY <1>1
  <2>2. left < LenMod => left % LenMod = left
    BY <1>1
  <2> QED
    BY <1>1, <2>1, <2>2
<1> DEFINE len == left % LenMod
<1>3. chunk_len(left) = IF len > MaxSegment THEN MaxSegment ELSE len
  BY DEF chunk_len
<1> HIDE DEF len
<1>4. len \in Nat /\ len <= left
  BY <1>2 DEF len
<1> QED
  BY <1>1, <1>3, <1>4

\* The chunk in progress as data.
LEMMA ChunkTyped ==
    ASSUME TypeOK, call.sent <= call.want
    PROVE  /\ ChunkData \in Seq(Nat) /\ Len(ChunkData) = chunk_len(call.want - call.sent)
           /\ Len(ChunkData) <= call.want - call.sent
           /\ \A k \in 1..Len(ChunkData) : ChunkData[k] = session.taken + call.sent + k
<1> DEFINE n == chunk_len(call.want - call.sent)
           a == session.taken + call.sent
<1>1. a \in Nat /\ call.want \in Nat /\ call.sent \in Nat
  BY DEF TypeOK, SessionBlock, CallBlock
<1>2. ChunkData = [k \in 1..n |-> a + k]
  BY DEF ChunkData
<1>3. /\ ChunkData \in Seq(Nat) /\ Len(ChunkData) = n /\ n = chunk_len(call.want - call.sent)
      /\ n <= call.want - call.sent /\ n \in Nat
  <2>1. call.want - call.sent \in Nat
    BY <1>1
  <2> DEFINE left == call.want - call.sent
  <2>2. left \in Nat
    BY <2>1
  <2>3. n \in Nat /\ n <= left
    <3>1. n = chunk_len(left)
      OBVIOUS
    <3> HIDE DEF left, n
    <3> QED
      BY <2>2, <3>1, ChunkLen DEF TypeOK
  <2>4. \A k \in 1..n : a + k \in Nat
    <3> HIDE DEF n, a
    <3> QED
      BY <1>1, <2>3
  <2> HIDE DEF n, a
  <2>5. ChunkData \in Seq(Nat) /\ Len(ChunkData) = n
    BY <1>2, <2>3, <2>4
  <2> QED
    BY <2>3, <2>5 DEF n, left
<1> HIDE DEF n
<1>4. ASSUME NEW k \in 1..Len(ChunkData) PROVE ChunkData[k] = a + k
  BY <1>2, <1>3
<1> QED
  BY <1>3, <1>4

LEMMA NextChunkControl ==
    ASSUME ControlInv, scene' = scene, NEW c \in CallBlock, c.op = "send", c.sent < c.want,
           NextChunk(c, tcp), tcp.state \in {"ESTABLISHED", "CLOSE_WAIT"},
           UNCHANGED <<recv_buf, ephemeral_port, drawn, wire_out, wire_in, peer, session>>
    PROVE  /\ ControlInv'
           /\ tcp'.state = tcp.state /\ Me' = Me /\ tcp'.snd_iss = tcp.snd_iss
           /\ tcp'.snd_una = tcp.snd_una /\ tcp'.rcv_nxt = tcp.rcv_nxt
           /\ tcp'.snd_nxt = Plus(tcp.snd_nxt, chunk_len(c.want - c.sent))
           /\ call'.op = "send" /\ call'.first = tcp.snd_nxt /\ call'.last = tcp'.snd_nxt
           /\ call'.want = c.want /\ call'.sent = c.sent
<1> DEFINE n == chunk_len(c.want - c.sent)
           x == Plus(tcp.snd_nxt, n)
<1>1. scene \in Scenes /\ tcp \in Control /\ c.want - c.sent \in Nat /\ tcp.snd_nxt \in Seqno
  BY DEF ControlInv, TypeOK, Control, CallBlock
<1>2. x \in Seqno
  <2> DEFINE left == c.want - c.sent
  <2>1. left \in Nat /\ n = chunk_len(left)
    BY <1>1
  <2> HIDE DEF left, n
  <2>2. n \in Nat
    BY <1>1, <2>1, ChunkLen
  <2> QED
    BY <1>1, <2>2, PlusType
<1>3. /\ tcp' = [tcp EXCEPT !.snd_nxt = x]
      /\ call' = [c EXCEPT !.phase = "tx", !.try = 0, !.first = tcp.snd_nxt, !.last = x]
  BY DEF NextChunk
<1> HIDE DEF x
<1>4. /\ tcp' \in Control /\ tcp'.active = tcp.active /\ tcp'.state = tcp.state /\ Me' = Me
      /\ tcp'.snd_iss = tcp.snd_iss /\ tcp'.snd_una = tcp.snd_una /\ tcp'.rcv_nxt = tcp.rcv_nxt
      /\ tcp'.snd_nxt = x /\ tcp'.reset_seen = tcp.reset_seen
  BY <1>1, <1>2, <1>3 DEF Control, Me
<1>5. /\ call' \in CallBlock /\ call'.op = "send" /\ call'.phase = "tx" /\ call'.first = tcp.snd_nxt
      /\ call'.last = x /\ call'.want = c.want /\ call'.sent = c.sent
  BY <1>1, <1>2, <1>3 DEF CallBlock
<1>6. TypeOK'
  BY <1>4, <1>5 DEF ControlInv, TypeOK
<1>7. BlockOK'
  BY <1>4 DEF ControlInv, BlockOK, Drawn
<1>8. tcp.snd_iss # 0
  BY DEF ControlInv, BlockOK
<1>9. TryOK'
  BY <1>4, <1>5, <1>8 DEF ControlInv, TryOK
<1> QED
  BY <1>4, <1>5, <1>6, <1>7, <1>9 DEF ControlInv, x

\* A chunk and a FIN on the wire.
LEMMA SentTyped ==
    ASSUME ControlInv, NEW flags \in Flags, "ACK" \in flags, NEW data \in Seq(Nat), NEW m,
           m = tcp_segment(tcp, recv_buf, flags, call.first, data), Me # 0
    PROVE  /\ m.segment \in Segments /\ m.window \in Nat /\ m.window <= RecvCap - Len(recv_buf)
           /\ m.segment.port = Me /\ m.segment.flags = flags /\ m.segment.seq = call.first
           /\ m.segment.ack = tcp.rcv_nxt /\ m.segment.data = data
<1>1. /\ scene \in Scenes /\ call.first \in Seqno /\ tcp.rcv_nxt \in Seqno /\ tcp.local_port \in Port
      /\ recv_buf \in Seq(Nat) /\ Len(recv_buf) <= RecvCap
  BY DEF ControlInv, TypeOK, CallBlock, Control, Me
<1>2. m = [segment |-> Segment(tcp.local_port, flags, call.first, tcp.rcv_nxt, data),
           window |-> window(recv_buf)]
  BY DEF tcp_segment
<1> QED
  BY <1>1, <1>2, OutTyped DEF Me

LEMMA SendTryControl ==
    ASSUME ControlInv, scene' = scene, send_try, call.sent <= call.want
    PROVE  /\ ControlInv' /\ UNCHANGED <<tcp, recv_buf, drawn, wire_in, peer, session>>
           /\ tcp.state \in {"ESTABLISHED", "CLOSE_WAIT"}
           /\ call'.op = "send" /\ call.op = "send" /\ call'.first = call.first
           /\ call'.last = call.last /\ call'.want = call.want /\ call'.sent = call.sent
           /\ \A m \in wire_out' :
                 \/ m \in wire_out
                 \/ /\ m.segment \in Segments /\ m.window \in Nat
                    /\ m.window <= RecvCap - Len(recv_buf)
                    /\ m.segment.port = Me /\ m.segment.flags = {"ACK", "PSH"}
                    /\ m.segment.seq = call.first /\ m.segment.ack = tcp.rcv_nxt
                    /\ m.segment.data = ChunkData
<1>1. /\ call.op = "send" /\ call.phase = "tx"
      /\ UNCHANGED <<tcp, recv_buf, ephemeral_port, drawn, session, wire_in, peer>>
      /\ \/ /\ wire_out' = wire_out \cup
                   {tcp_segment(tcp, recv_buf, {"ACK", "PSH"}, call.first, ChunkData)}
            /\ call' = [call EXCEPT !.phase = "poll"]
         \/ NextTry /\ wire_out' = wire_out
  BY DEF send_try, NoAnswer, Transmits
<1>2. tcp.state \in {"ESTABLISHED", "CLOSE_WAIT"} /\ tcp.snd_iss # 0
  BY <1>1 DEF ControlInv, TryOK
<1>3. Me # 0 /\ TypeOK
  BY <1>2 DEF ControlInv, BlockOK
<1>4. /\ TryOK' /\ call' \in CallBlock /\ call'.op = "send" /\ call'.first = call.first
      /\ call'.last = call.last /\ call'.want = call.want /\ call'.sent = call.sent
  <2>1. CASE NextTry
    BY <1>1, <1>2, <2>1, NextTryControl
  <2>2. CASE call' = [call EXCEPT !.phase = "poll"]
    <3>1. /\ call' \in CallBlock /\ call'.op = call.op /\ call'.phase = "poll"
          /\ call'.first = call.first /\ call'.last = call.last /\ call'.want = call.want
          /\ call'.sent = call.sent
      BY <2>2, <1>3 DEF TypeOK, CallBlock
    <3>2. TryOK'
      BY <1>1, <1>2, <3>1 DEF ControlInv, TryOK
    <3> QED
      BY <1>1, <3>1, <3>2
  <2> QED
    BY <2>1, <2>2, <1>1
<1>5. ASSUME NEW m \in wire_out', m \notin wire_out
      PROVE  /\ m.segment \in Segments /\ m.window \in Nat /\ m.window <= RecvCap - Len(recv_buf)
             /\ m.segment.port = Me /\ m.segment.flags = {"ACK", "PSH"}
             /\ m.segment.seq = call.first /\ m.segment.ack = tcp.rcv_nxt
             /\ m.segment.data = ChunkData
  <2> DEFINE f == {"ACK", "PSH"}
  <2>1. f \in Flags /\ "ACK" \in f /\ ChunkData \in Seq(Nat)
    BY <1>3, ChunkTyped DEF Flags
  <2>2. m = tcp_segment(tcp, recv_buf, f, call.first, ChunkData)
    BY <1>1, <1>5
  <2> HIDE DEF f
  <2>3. /\ m.segment \in Segments /\ m.window \in Nat /\ m.window <= RecvCap - Len(recv_buf)
        /\ m.segment.port = Me /\ m.segment.flags = f /\ m.segment.seq = call.first
        /\ m.segment.ack = tcp.rcv_nxt /\ m.segment.data = ChunkData
    BY <1>3, <2>1, <2>2, SentTyped
  <2> QED
    BY <2>3 DEF f
<1>6. ControlInv'
  <2>1. /\ recv_buf' \in Seq(Nat) /\ Len(recv_buf') <= RecvCap /\ session' \in SessionBlock
        /\ session'.port = session.port /\ session'.overtaken = session.overtaken
    BY <1>1, <1>3 DEF TypeOK
  <2> QED
    BY <1>1, <1>4, <1>5, <2>1, QuietControl
<1> QED
  BY <1>1, <1>2, <1>4, <1>5, <1>6

LEMMA CloseControl ==
    ASSUME ControlInv, scene' = scene, close
    PROVE  \/ /\ tcp' = Closed /\ recv_buf' = <<>> /\ call' = Idle
              /\ UNCHANGED <<ephemeral_port, drawn, wire_out, wire_in, peer, session>>
           \/ /\ ControlInv' /\ Room(1) /\ call.op = "idle"
              /\ tcp.state \in {"ESTABLISHED", "CLOSE_WAIT"}
              /\ tcp'.state \in {"FIN_WAIT1", "LAST_ACK"} /\ Me' = Me /\ tcp'.snd_iss = tcp.snd_iss
              /\ tcp'.snd_una = tcp.snd_una /\ tcp'.rcv_nxt = tcp.rcv_nxt
              /\ tcp'.snd_nxt = Plus(tcp.snd_nxt, 1) /\ tcp.snd_iss # 0
              /\ call'.op = "close" /\ call'.first = tcp.snd_nxt
              /\ UNCHANGED <<recv_buf, drawn, wire_out, wire_in, peer, session>>
<1>1. UNCHANGED <<ephemeral_port, drawn, wire_out, session, wire_in, peer>> /\ call = Idle
  BY DEF close, Begins, NoAnswer
<1>2. CASE tcp.active /\ tcp.state \notin {"ESTABLISHED", "CLOSE_WAIT"} /\ tcp' = Closed
           /\ recv_buf' = <<>> /\ UNCHANGED call
  BY <1>1, <1>2
<1> DEFINE x == Plus(tcp.snd_nxt, 1)
           st == IF tcp.state = "CLOSE_WAIT" THEN "LAST_ACK" ELSE "FIN_WAIT1"
<1>3. CASE /\ tcp.active /\ tcp.state \in {"ESTABLISHED", "CLOSE_WAIT"} /\ Room(1)
           /\ tcp' = [tcp EXCEPT !.snd_nxt = x, !.state = st]
           /\ call' = [Idle EXCEPT !.op = "close", !.phase = "tx", !.first = tcp.snd_nxt]
           /\ UNCHANGED recv_buf
  <2>1. scene \in Scenes /\ tcp \in Control /\ tcp.snd_nxt \in Seqno
    BY DEF ControlInv, TypeOK, Control
  <2>2. x \in Seqno
    BY <2>1, PlusType
  <2>3. st \in {"FIN_WAIT1", "LAST_ACK"} /\ st \in State
    BY DEF State
  <2> HIDE DEF x, st
  <2>4. /\ tcp' \in Control /\ tcp'.active = tcp.active /\ tcp'.state = st /\ Me' = Me
        /\ tcp'.snd_iss = tcp.snd_iss /\ tcp'.snd_una = tcp.snd_una /\ tcp'.rcv_nxt = tcp.rcv_nxt
        /\ tcp'.snd_nxt = x
    BY <1>3, <2>1, <2>2, <2>3 DEF Control, Me
  <2>5. Idle = InCall("idle", "poll", 0, 0, 0, 0, 0, 0) /\ Idle \in CallBlock
    BY <2>1, IdleIs
  <2>6. /\ call' \in CallBlock /\ call'.op = "close" /\ call'.phase = "tx"
        /\ call'.first = tcp.snd_nxt
    BY <1>3, <2>1, <2>5 DEF CallBlock
  <2>7. tcp.snd_iss # 0 /\ tcp.active = TRUE
    BY <1>3 DEF ControlInv, BlockOK
  <2>8. TypeOK'
    BY <1>1, <1>3, <2>4, <2>6 DEF ControlInv, TypeOK
  <2>9. BlockOK'
    BY <1>1, <1>3, <2>3, <2>4, <2>7 DEF ControlInv, BlockOK, Drawn
  <2>10. TryOK'
    BY <1>1, <2>3, <2>4, <2>6, <2>7 DEF ControlInv, TryOK
  <2>11. call.op = "idle"
    BY <1>1 DEF Idle
  <2> QED
    BY <1>1, <1>3, <2>3, <2>4, <2>6, <2>7, <2>8, <2>9, <2>10, <2>11 DEF ControlInv, x
<1>4. \/ /\ tcp.active /\ tcp.state \in {"ESTABLISHED", "CLOSE_WAIT"} /\ Room(1)
         /\ tcp' = [tcp EXCEPT !.snd_nxt = x, !.state = st]
         /\ call' = [Idle EXCEPT !.op = "close", !.phase = "tx", !.first = tcp.snd_nxt]
         /\ UNCHANGED recv_buf
      \/ /\ tcp.active /\ tcp.state \notin {"ESTABLISHED", "CLOSE_WAIT"} /\ tcp' = Closed
         /\ recv_buf' = <<>> /\ UNCHANGED call
  BY DEF close
<1> QED
  BY <1>2, <1>3, <1>4

LEMMA CloseTryControl ==
    ASSUME ControlInv, scene' = scene, close_try
    PROVE  /\ ControlInv' /\ UNCHANGED <<tcp, recv_buf, drawn, wire_in, peer, session>>
           /\ tcp.state \in {"FIN_WAIT1", "FIN_WAIT2", "LAST_ACK"}
           /\ call.op = "close" /\ call'.op = "close" /\ call'.first = call.first
           /\ \A m \in wire_out' :
                 \/ m \in wire_out
                 \/ /\ m.segment \in Segments /\ m.window \in Nat
                    /\ m.window <= RecvCap - Len(recv_buf)
                    /\ m.segment.port = Me /\ m.segment.flags = {"FIN", "ACK"}
                    /\ m.segment.seq = call.first /\ m.segment.ack = tcp.rcv_nxt
                    /\ m.segment.data = <<>>
<1>1. /\ call.op = "close" /\ call.phase = "tx"
      /\ UNCHANGED <<tcp, recv_buf, ephemeral_port, drawn, session, wire_in, peer>>
      /\ wire_out' = wire_out \cup
             {tcp_segment(tcp, recv_buf, {"FIN", "ACK"}, call.first, <<>>)}
      /\ call' = [call EXCEPT !.phase = "poll"]
  BY DEF close_try, NoAnswer, Transmits
<1>2. tcp.state \in {"FIN_WAIT1", "FIN_WAIT2", "LAST_ACK"} /\ tcp.snd_iss # 0
  BY <1>1 DEF ControlInv, TryOK
<1>3. Me # 0 /\ TypeOK
  BY <1>2 DEF ControlInv, BlockOK
<1>4. TryOK' /\ call' \in CallBlock /\ call'.op = "close" /\ call'.first = call.first
  <2>1. /\ call' \in CallBlock /\ call'.op = call.op /\ call'.phase = "poll"
        /\ call'.first = call.first
    BY <1>1, <1>3 DEF TypeOK, CallBlock
  <2>2. TryOK'
    BY <1>1, <1>2, <2>1 DEF ControlInv, TryOK
  <2> QED
    BY <1>1, <2>1, <2>2
<1>5. ASSUME NEW m \in wire_out', m \notin wire_out
      PROVE  /\ m.segment \in Segments /\ m.window \in Nat /\ m.window <= RecvCap - Len(recv_buf)
             /\ m.segment.port = Me /\ m.segment.flags = {"FIN", "ACK"}
             /\ m.segment.seq = call.first /\ m.segment.ack = tcp.rcv_nxt
             /\ m.segment.data = <<>>
  <2> DEFINE f == {"FIN", "ACK"}
             e == <<>>
  <2>1. f \in Flags /\ "ACK" \in f /\ e \in Seq(Nat)
    BY EmptySeq DEF Flags
  <2>2. m = tcp_segment(tcp, recv_buf, f, call.first, e)
    BY <1>1, <1>5
  <2> HIDE DEF f, e
  <2>3. /\ m.segment \in Segments /\ m.window \in Nat /\ m.window <= RecvCap - Len(recv_buf)
        /\ m.segment.port = Me /\ m.segment.flags = f /\ m.segment.seq = call.first
        /\ m.segment.ack = tcp.rcv_nxt /\ m.segment.data = e
    BY <1>3, <2>1, <2>2, SentTyped
  <2> QED
    BY <2>3 DEF f, e
<1>6. ControlInv'
  <2>1. /\ recv_buf' \in Seq(Nat) /\ Len(recv_buf') <= RecvCap /\ session' \in SessionBlock
        /\ session'.port = session.port /\ session'.overtaken = session.overtaken
    BY <1>1, <1>3 DEF TypeOK
  <2> QED
    BY <1>1, <1>4, <1>5, <2>1, QuietControl
<1> QED
  BY <1>1, <1>2, <1>4, <1>5, <1>6

-----------------------------------------------------------------------------
(* Sequence spaces                                                         *)

LEMMA DrawnFacts ==
    ASSUME TypeOK, drawn <= Len(scene.iss)
    PROVE  \A b \in Drawn : b \in Seqno /\ \E i \in 1..Len(scene.iss) : i <= drawn /\ b = scene.iss[i]
<1>1. scene.iss \in Seq(1..(SeqMod - 1)) /\ drawn \in Nat
  BY SceneFacts DEF TypeOK
<1>2. Len(scene.iss) \in Nat
  BY <1>1, LenProperties
<1> SUFFICES ASSUME NEW b \in Drawn
             PROVE  b \in Seqno /\ \E i \in 1..Len(scene.iss) : i <= drawn /\ b = scene.iss[i]
  OBVIOUS
<1>3. PICK i \in 1..drawn : b = scene.iss[i]
  BY DEF Drawn
<1>4. i \in 1..Len(scene.iss) /\ i <= drawn
  BY <1>1, <1>2, <1>3
<1>5. b \in 1..(SeqMod - 1)
  BY <1>1, <1>3, <1>4, ElementOfSeq
<1> QED
  BY <1>3, <1>4, <1>5 DEF Seqno

\* Numbers drawn at different times open spaces that do not overlap.
LEMMA Spaces ==
    ASSUME scene \in Scenes, NEW i \in 1..Len(scene.iss), NEW j \in 1..Len(scene.iss), i # j,
           NEW x \in Seqno, Distance(scene.iss[i], x) <= SpaceMax + 1,
           Distance(scene.iss[j], x) <= SpaceMax + 1
    PROVE  FALSE
<1>1. scene.iss \in Seq(1..(SeqMod - 1)) /\ SeqMod \in Nat \ {0} /\ SpaceMax \in Nat
  BY SceneFacts
<1> DEFINE a == scene.iss[i]
           b == scene.iss[j]
<1>2. a \in Seqno /\ b \in Seqno
  BY <1>1, ElementOfSeq DEF Seqno
<1>3. Distance(a, b) > SpaceMax + 1 /\ Distance(b, a) > SpaceMax + 1
  BY IssApart DEF Distance
<1>4. Distance(a, x) <= SpaceMax + 1 /\ Distance(b, x) <= SpaceMax + 1
  OBVIOUS
<1> HIDE DEF a, b
<1>5. Distance(b, x) = IF Distance(a, b) <= Distance(a, x) THEN Distance(a, x) - Distance(a, b)
                       ELSE SeqMod - (Distance(a, b) - Distance(a, x))
  BY <1>1, <1>2, DistanceFrom
<1>6. Distance(b, a) = IF Distance(a, b) <= Distance(a, a) THEN Distance(a, a) - Distance(a, b)
                       ELSE SeqMod - (Distance(a, b) - Distance(a, a))
  BY <1>1, <1>2, DistanceFrom
<1>7. Distance(a, a) = 0
  BY <1>1, <1>2, DistanceSelf
<1>8. Distance(a, b) \in Nat /\ Distance(a, x) \in Nat /\ Distance(b, x) \in Nat
      /\ Distance(b, a) \in Nat
  BY <1>1, <1>2, DistanceNat
<1> QED
  BY <1>1, <1>3, <1>4, <1>5, <1>6, <1>7, <1>8

LEMMA SameSpace ==
    ASSUME TypeOK, drawn <= Len(scene.iss), NEW a \in Drawn, NEW b \in Drawn, NEW x \in Seqno,
           Distance(a, x) <= SpaceMax + 1, Distance(b, x) <= SpaceMax + 1
    PROVE  a = b
<1>1. PICK i \in 1..Len(scene.iss) : a = scene.iss[i]
  BY DrawnFacts
<1>2. PICK j \in 1..Len(scene.iss) : b = scene.iss[j]
  BY DrawnFacts
<1>3. scene \in Scenes
  BY DEF TypeOK
<1> SUFFICES ASSUME i # j PROVE FALSE
  BY <1>1, <1>2
<1> QED
  BY <1>1, <1>2, <1>3, Spaces

\* The next number to be drawn opens a space of its own.
LEMMA NewSpace ==
    ASSUME TypeOK, drawn < Len(scene.iss), NEW b \in Drawn, NEW x \in Seqno,
           Distance(b, x) <= SpaceMax + 1
    PROVE  ~(Distance(scene.iss[drawn + 1], x) <= SpaceMax + 1)
<1>1. scene.iss \in Seq(1..(SeqMod - 1)) /\ drawn \in Nat /\ scene \in Scenes
  BY SceneFacts DEF TypeOK
<1>2. Len(scene.iss) \in Nat
  BY <1>1, LenProperties
<1>3. PICK i \in 1..Len(scene.iss) : i <= drawn /\ b = scene.iss[i]
  BY <1>1, <1>2, DrawnFacts
<1> DEFINE j == drawn + 1
<1>4. j \in 1..Len(scene.iss) /\ i # j
  BY <1>1, <1>2, <1>3
<1> HIDE DEF j
<1> SUFFICES ASSUME Distance(scene.iss[j], x) <= SpaceMax + 1 PROVE FALSE
  BY DEF j
<1> QED
  BY <1>1, <1>3, <1>4, Spaces

LEMMA NewNumber ==
    ASSUME TypeOK, drawn < Len(scene.iss)
    PROVE  scene.iss[drawn + 1] \notin Drawn
<1> DEFINE n == scene.iss[drawn + 1]
<1>1. SeqMod \in Nat \ {0} /\ SpaceMax \in Nat /\ scene \in Scenes
  BY SceneFacts DEF TypeOK
<1>2. n \in Seqno
  BY <1>1, IssDrawn DEF TypeOK
<1>3. Distance(n, n) = 0
  <2> HIDE DEF n
  <2> QED
    BY <1>1, <1>2, DistanceSelf
<1>4. Distance(n, n) <= SpaceMax + 1
  BY <1>1, <1>3
<1> QED
  BY <1>2, <1>4, NewSpace

\* 0, which overtaken connects acknowledge, is far from what the remote end sends.
LEMMA VoidFar ==
    ASSUME scene \in Scenes, scene.retries > 1, NEW p \in scene.ports
    PROVE  Distance(PeerIss[p], 0) > scene.peerMax + 2
BY ZeroApart DEF Distance

-----------------------------------------------------------------------------
(* The remote endpoint's steps                                             *)

KernelStays == scene' = scene /\ UNCHANGED <<tcp, recv_buf, drawn, call, wire_out, session>>

LEMMA PeerControl ==
    ASSUME ControlInv, scene' = scene, UNCHANGED <<kernel, wire_out, session>>,
           peer' \in [Port -> PeerBlock], wire_in' \subseteq Segments
    PROVE  ControlInv' /\ KernelStays
<1>1. UNCHANGED <<tcp, recv_buf, last_err, ephemeral_port, drawn, call, wire_out, session>>
  BY DEF kernel
<1>2. TypeOK'
  BY <1>1 DEF ControlInv, TypeOK
<1>3. BlockOK' /\ TryOK'
  BY <1>1 DEF ControlInv, BlockOK, TryOK, Me, Drawn
<1> QED
  BY <1>1, <1>2, <1>3 DEF ControlInv, KernelStays

\* What no step takes back at the remote end.
Grows(p) ==
    /\ Bound(p) => Bound(p)' /\ peer'[p].irs = peer[p].irs
    /\ peer[p].nxt <= peer'[p].nxt
    /\ peer[p].fin => peer'[p].fin /\ peer'[p].nxt = peer[p].nxt
    /\ Len(peer[p].rcvd) <= Len(peer'[p].rcvd)
    /\ \A i \in 1..Len(peer[p].rcvd) : peer'[p].rcvd[i] = peer[p].rcvd[i]
    /\ peer[p].eof => peer'[p].eof /\ peer'[p].rcvd = peer[p].rcvd
    /\ peer[p].probed => peer'[p].probed

LEMMA CountIs ==
    ASSUME NEW r \in PeerBlock
    PROVE  /\ Len(r.rcvd) \in Nat /\ Count(r) \in Nat
           /\ r.eof => Count(r) = Len(r.rcvd) + 1
           /\ ~r.eof => Count(r) = Len(r.rcvd)
<1> DEFINE n == Len(r.rcvd)
           b == r.eof
           e == IF b THEN 1 ELSE 0
<1>1. n \in Nat /\ b \in BOOLEAN
  BY LenProperties DEF PeerBlock
<1>2. Count(r) = n + e
  BY DEF Count
<1>3. (b => e = 1) /\ (~b => e = 0)
  OBVIOUS
<1> HIDE DEF n, b, e
<1>4. Count(r) \in Nat /\ (b => Count(r) = n + 1) /\ (~b => Count(r) = n)
  BY <1>1, <1>2, <1>3
<1> QED
  BY <1>1, <1>4 DEF n, b

LEMMA InGrows ==
    ASSUME TypeOK, peer' \in [Port -> PeerBlock], scene' = scene, NEW s \in Segments, InFine(s),
           Grows(s.port)
    PROVE  InFine(s)'
<1> DEFINE p == s.port
           x == peer[p]
           y == peer'[p]
<1>1. p \in Port
  BY DEF Segments
<1>2. x \in PeerBlock /\ y \in PeerBlock
  BY <1>1 DEF TypeOK
<1>3. /\ x.nxt \in Nat /\ y.nxt \in Nat /\ Len(x.rcvd) \in Nat /\ Len(y.rcvd) \in Nat
      /\ x.eof \in BOOLEAN /\ y.eof \in BOOLEAN /\ Len(s.data) \in Nat
  BY <1>2, LenProperties DEF PeerBlock, Segments
<1>4. Got(p) <= Got(p)' /\ Got(p) \in Nat /\ Got(p)' \in Nat
  <2>1. Len(x.rcvd) <= Len(y.rcvd) /\ (x.eof => y.eof)
    BY DEF Grows
  <2>2. Got(p) = Count(x) /\ Got(p)' = Count(y)
    BY DEF Got
  <2> DEFINE g == Got(p)
             h == Got(p)'
  <2>3. g = Count(x) /\ h = Count(y)
    BY <2>2
  <2> HIDE DEF x, y, p, g, h
  <2>4. g <= h /\ g \in Nat /\ h \in Nat
    BY <1>2, <2>1, <2>3, CountIs
  <2> QED
    BY <2>4 DEF g, h
<1>5. "ACK" \in s.flags => Bound(p)' /\ Distance(y.irs, s.ack) \in 1..(1 + Got(p)')
  <2> HAVE "ACK" \in s.flags
  <2>1. Bound(p) /\ Distance(x.irs, s.ack) \in 1..(1 + Got(p))
    BY DEF InFine
  <2>2. Bound(p)' /\ y.irs = x.irs
    BY <2>1 DEF Grows
  <2> QED
    BY <1>4, <2>1, <2>2
<1>6. (s.data # <<>> \/ "FIN" \in s.flags) =>
          LET i == Distance(PeerIss[p], s.seq) IN
          /\ 1 <= i /\ i + Len(s.data) <= y.nxt + 1
          /\ \A k \in 1..Len(s.data) : s.data[k] = ByteSeq(p, i + k - 1)
          /\ "FIN" \in s.flags => y.fin /\ i + Len(s.data) = y.nxt + 1
  <2> DEFINE i == Distance(PeerIss[p], s.seq)
  <2> HAVE s.data # <<>> \/ "FIN" \in s.flags
  <2>1. /\ 1 <= i /\ i + Len(s.data) <= x.nxt + 1
        /\ \A k \in 1..Len(s.data) : s.data[k] = ByteSeq(p, i + k - 1)
        /\ "FIN" \in s.flags => x.fin /\ i + Len(s.data) = x.nxt + 1
    BY DEF InFine
  <2>2. x.nxt <= y.nxt /\ (x.fin => y.fin /\ y.nxt = x.nxt)
    BY DEF Grows
  <2>3. i \in Nat
    <3>1. PeerIss \in [Port -> Seqno] /\ SeqMod \in Nat \ {0}
      BY SceneFacts DEF TypeOK
    <3>2. PeerIss[p] \in Seqno /\ s.seq \in Seqno
      BY <1>1, <3>1 DEF Segments
    <3> QED
      BY <3>1, <3>2, DistanceIs DEF Seqno
  <2> HIDE DEF i, x, y, p
  <2>4. i + Len(s.data) <= y.nxt + 1
    BY <1>3, <2>1, <2>2, <2>3
  <2> QED
    BY <2>1, <2>2, <2>4 DEF i
<1>7. InFine(s)' <=> /\ s.port \in scene.ports
                     /\ "SYN" \in s.flags => s.seq = PeerIss[s.port] /\ s.data = <<>> /\ "FIN" \notin s.flags
                     /\ "ACK" \in s.flags => Bound(p)' /\ Distance(y.irs, s.ack) \in 1..(1 + Got(p)')
                     /\ (s.data # <<>> \/ "FIN" \in s.flags) =>
                          LET i == Distance(PeerIss[p], s.seq) IN
                          /\ 1 <= i /\ i + Len(s.data) <= y.nxt + 1
                          /\ \A k \in 1..Len(s.data) : s.data[k] = ByteSeq(p, i + k - 1)
                          /\ "FIN" \in s.flags => y.fin /\ i + Len(s.data) = y.nxt + 1
  BY DEF InFine
<1> QED
  BY <1>5, <1>6, <1>7 DEF InFine

LEMMA OutGrows ==
    ASSUME scene' = scene, Drawn \subseteq Drawn', NEW m, OutFine(m),
           Bound(m.segment.port) => Bound(m.segment.port)'
    PROVE  OutFine(m)'
<1>1. Owned(m.segment) => Owned(m.segment)'
  BY DEF Owned, Size
<1> QED
  BY <1>1 DEF OutFine, Plain, Void

LEMMA TakenGrows ==
    ASSUME TakenInv, TypeOK, peer' \in [Port -> PeerBlock], UNCHANGED session,
           session.port # 0 => Grows(session.port)
    PROVE  TakenInv'
<1> SUFFICES ASSUME session.port # 0 PROVE TakenInv'
  BY DEF TakenInv
<1> DEFINE p == session.port
<1>1. p \in Port
  BY DEF TypeOK, SessionBlock
<1>2. Len(peer[p].rcvd) \in Nat /\ Len(peer'[p].rcvd) \in Nat
  BY <1>1, LenProperties DEF TypeOK, PeerBlock
<1>3. ASSUME NEW k \in 1..session.taken
      PROVE  \E i \in 1..Len(peer'[p].rcvd) : peer'[p].rcvd[i] = k
  <2>1. PICK i \in 1..Len(peer[p].rcvd) : peer[p].rcvd[i] = k
    BY DEF TakenInv
  <2>2. i \in 1..Len(peer'[p].rcvd) /\ peer'[p].rcvd[i] = k
    BY <1>2, <2>1 DEF Grows
  <2> QED
    BY <2>2
<1>4. (session.finished /\ ~session.reset) => peer'[p].eof
  BY DEF TakenInv, Grows
<1> QED
  BY <1>3, <1>4 DEF TakenInv

\* What the remote endpoint sends.
LEMMA SegmentIs ==
    ASSUME NEW port \in Port, NEW flags \in Flags, NEW seq \in Seqno, NEW ack \in Seqno,
           NEW data \in Seq(Nat), NEW s, s = Segment(port, flags, seq, ack, data)
    PROVE  /\ s \in Segments /\ s.port = port /\ s.flags = flags /\ s.seq = seq /\ s.ack = ack
           /\ s.data = data
BY DEF Segment, Segments

AckOf(c) == Plus(c.irs, 1 + Count(c))
Carries(s, p, i, j) ==
    /\ Len(s.data) = j - i + 1
    /\ \A k \in 1..(j - i + 1) : s.data[k] = ByteSeq(p, i + k - 1)

LEMMA FromPeerIs ==
    ASSUME scene \in Scenes, NEW p \in Port, NEW c \in PeerBlock, NEW flags \in Flags,
           NEW i, NEW j, i \in Nat, j \in Int, j - i + 1 \in Nat, NEW s, s = FromPeer(p, c, flags, i, j)
    PROVE  /\ s \in Segments /\ s.port = p /\ s.flags = flags /\ s.seq = ByteSeq(p, i)
           /\ s.ack = AckOf(c) /\ Carries(s, p, i, j)
<1> DEFINE n == j - i + 1
           data == [k \in 1..n |-> ByteSeq(p, i + k - 1)]
           seq == ByteSeq(p, i)
           ack == Plus(c.irs, 1 + Len(c.rcvd) + (IF c.eof THEN 1 ELSE 0))
<1>1. PeerIss \in [Port -> Seqno]
  BY SceneFacts
<1>2. ASSUME NEW k \in Nat PROVE ByteSeq(p, k) \in Seqno
  BY <1>1, PlusType DEF ByteSeq
<1>3. seq \in Seqno /\ n \in Nat
  BY <1>2
<1>4. ack = Plus(c.irs, 1 + Count(c)) /\ ack \in Seqno
  <2> DEFINE g == Count(c)
  <2>1. g \in Nat /\ Len(c.rcvd) \in Nat
    BY CountIs
  <2>2. Len(c.rcvd) + (IF c.eof THEN 1 ELSE 0) = g
    BY DEF Count
  <2> DEFINE e == IF c.eof THEN 1 ELSE 0
             l == Len(c.rcvd)
  <2>3. e \in Nat /\ l \in Nat /\ l + e = g
    BY <2>1, <2>2
  <2>4. ack = Plus(c.irs, 1 + l + e)
    OBVIOUS
  <2> HIDE DEF e, l, g
  <2>5. 1 + l + e = 1 + g /\ 1 + g \in Nat
    BY <2>1, <2>3
  <2> HIDE DEF ack
  <2>6. ack = Plus(c.irs, 1 + g)
    BY <2>4, <2>5
  <2>7. c.irs \in Seqno
    BY DEF PeerBlock
  <2>8. ack \in Seqno
    BY <2>5, <2>6, <2>7, PlusType
  <2> QED
    BY <2>6, <2>8 DEF g
<1>5. \A k \in 1..n : ByteSeq(p, i + k - 1) \in Nat
  <2> HIDE DEF n
  <2> SUFFICES ASSUME NEW k \in 1..n PROVE ByteSeq(p, i + k - 1) \in Nat
    OBVIOUS
  <2> DEFINE q == i + k - 1
  <2>1. q \in Nat
    BY <1>3
  <2> HIDE DEF q
  <2>2. ByteSeq(p, q) \in Seqno
    BY <2>1, <1>2
  <2> QED
    BY <2>2 DEF q, Seqno
<1>6. s = Segment(p, flags, seq, ack, data)
  BY DEF FromPeer
<1> HIDE DEF n, seq, ack
<1>7. data \in Seq(Nat) /\ Len(data) = n /\ \A k \in 1..n : data[k] = ByteSeq(p, i + k - 1)
  <2>1. data \in Seq(Nat)
    BY <1>3, <1>5
  <2> QED
    BY <2>1, <1>3, LenProperties
<1> HIDE DEF data
<1>8. /\ s \in Segments /\ s.port = p /\ s.flags = flags /\ s.seq = seq /\ s.ack = ack
      /\ s.data = data
  BY <1>3, <1>4, <1>6, <1>7, SegmentIs
<1> QED
  BY <1>4, <1>7, <1>8 DEF n, seq, AckOf, Carries

LEMMA PureAckIs ==
    ASSUME scene \in Scenes, NEW p \in Port, NEW c \in PeerBlock, NEW s, s = PureAck(p, c)
    PROVE  /\ s \in Segments /\ s.port = p /\ s.flags = {"ACK"}
           /\ s.ack = AckOf(c) /\ s.data = <<>>
<1> DEFINE f == {"ACK"}
           t == FromPeer(p, c, f, 1, 0)
<1>1. f \in Flags
  BY DEF Flags
<1>2. s = [t EXCEPT !.seq = 0]
  BY DEF PureAck
<1> HIDE DEF f
<1>3. /\ t \in Segments /\ t.port = p /\ t.flags = f
      /\ t.ack = AckOf(c) /\ Len(t.data) = 0
  <2> HIDE DEF t
  <2>1. t = FromPeer(p, c, f, 1, 0)
    BY DEF t
  <2> DEFINE i == 1
             j == 0
  <2>2. t = FromPeer(p, c, f, i, j)
    BY <2>1
  <2>3. j - i + 1 = 0 /\ j - i + 1 \in Nat /\ i \in Nat /\ j \in Int
    OBVIOUS
  <2> HIDE DEF i, j
  <2>4. /\ t \in Segments /\ t.port = p /\ t.flags = f
        /\ t.ack = AckOf(c) /\ Len(t.data) = j - i + 1
    BY <1>1, <2>2, <2>3, FromPeerIs DEF Carries
  <2> QED
    BY <2>3, <2>4
<1> HIDE DEF t
<1>4. t.data = <<>>
  BY <1>3, EmptySeq DEF Segments
<1>5. 0 \in Seqno
  BY SmallNumbers
<1> QED
  BY <1>2, <1>3, <1>4, <1>5 DEF Segments, f

\* Numbers in the two spaces of a connection.
LEMMA AckDistance ==
    ASSUME scene \in Scenes, NEW c \in PeerBlock, Count(c) <= SpaceMax
    PROVE  Distance(c.irs, AckOf(c)) = 1 + Count(c)
<1>1. SeqMod \in Nat \ {0} /\ SeqMod > 2 * (SpaceMax + scene.peerMax + 2) /\ SpaceMax \in Nat
      /\ scene.peerMax \in Nat
  BY SceneFacts
<1> DEFINE k == 1 + Count(c)
<1>2. k \in Seqno
  BY <1>1, CountIs DEF Seqno
<1>3. c.irs \in Seqno
  BY DEF PeerBlock
<1> HIDE DEF k
<1>4. Distance(c.irs, Plus(c.irs, k)) = k
  BY <1>1, <1>2, <1>3, PlusDistance
<1> QED
  BY <1>4 DEF k, AckOf

LEMMA ByteDistance ==
    ASSUME scene \in Scenes, NEW p \in Port, NEW k \in 0..(scene.peerMax + 2)
    PROVE  ByteSeq(p, k) \in Seqno /\ Distance(PeerIss[p], ByteSeq(p, k)) = k
<1>1. SeqMod \in Nat \ {0} /\ SeqMod > 2 * (SpaceMax + scene.peerMax + 2) /\ SpaceMax \in Nat
      /\ scene.peerMax \in Nat
  BY SceneFacts
<1>2. PeerIss[p] \in Seqno
  <2>1. PeerIss \in [Port -> Seqno]
    BY SceneFacts
  <2> QED
    BY <2>1
<1>3. k \in Seqno
  BY <1>1 DEF Seqno
<1> QED
  BY <1>1, <1>2, <1>3, PlusDistance DEF ByteSeq

LEMMA FromPeerFine ==
    ASSUME scene \in Scenes, scene' = scene, peer' \in [Port -> PeerBlock], NEW p \in scene.ports,
           NEW c \in PeerBlock, NEW flags \in Flags, "ACK" \in flags, "SYN" \notin flags,
           NEW i \in 1..(scene.peerMax + 1), NEW j \in Nat, i <= j + 1,
           c.irs = peer'[p].irs, Count(c) = Got(p)', Count(c) <= SpaceMax, Bound(p)',
           j <= peer'[p].nxt, "FIN" \in flags => peer'[p].fin /\ j = peer'[p].nxt,
           NEW s, s = FromPeer(p, c, flags, i, j)
    PROVE  s \in Segments /\ InFine(s)'
<1>1. p \in Port /\ scene.peerMax \in Nat
  BY SceneFacts
<1>2. j - i + 1 \in Nat /\ i \in Nat /\ j \in Int /\ i \in 0..(scene.peerMax + 2)
  BY <1>1
<1>3. /\ s \in Segments /\ s.port = p /\ s.flags = flags /\ s.seq = ByteSeq(p, i)
      /\ s.ack = AckOf(c) /\ Len(s.data) = j - i + 1
      /\ \A k \in 1..(j - i + 1) : s.data[k] = ByteSeq(p, i + k - 1)
  <2> HIDE DEF Seqno
  <2>1. s = FromPeer(p, c, flags, i, j)
    OBVIOUS
  <2>2. scene \in Scenes /\ c \in PeerBlock /\ flags \in Flags /\ j \in Int /\ i \in Nat /\ p \in Port
    BY <1>1, <1>2
  <2>3. j - i + 1 \in Nat
    BY <1>2
  <2>4. s \in Segments /\ s.port = p /\ s.flags = flags /\ s.seq = ByteSeq(p, i)
    BY ONLY <2>1, <2>2, <2>3, FromPeerIs
  <2>6. s.ack = AckOf(c)
    BY ONLY <2>1, <2>2, <2>3, FromPeerIs
  <2>5. Carries(s, p, i, j)
    BY ONLY <2>1, <2>2, <2>3, FromPeerIs
  <2> QED
    BY <2>4, <2>5, <2>6 DEF Carries
<1>4. Distance(PeerIss[p], s.seq) = i
  BY <1>1, <1>2, <1>3, ByteDistance
<1>5. Distance(peer'[p].irs, s.ack) = 1 + Count(c) /\ Count(c) \in Nat
  BY <1>3, AckDistance, CountIs
<1>6. peer'[p].nxt \in Nat
  BY <1>1 DEF PeerBlock
<1> DEFINE y == peer'[p]
<1>7. InFine(s)' <=> /\ s.port \in scene.ports
                     /\ "SYN" \in s.flags => s.seq = PeerIss[s.port] /\ s.data = <<>> /\ "FIN" \notin s.flags
                     /\ "ACK" \in s.flags => Bound(p)' /\ Distance(y.irs, s.ack) \in 1..(1 + Got(p)')
                     /\ (s.data # <<>> \/ "FIN" \in s.flags) =>
                          LET d == Distance(PeerIss[p], s.seq) IN
                          /\ 1 <= d /\ d + Len(s.data) <= y.nxt + 1
                          /\ \A k \in 1..Len(s.data) : s.data[k] = ByteSeq(p, d + k - 1)
                          /\ "FIN" \in s.flags => y.fin /\ d + Len(s.data) = y.nxt + 1
  BY <1>3 DEF InFine
<1>8. Distance(y.irs, s.ack) \in 1..(1 + Got(p)')
  BY <1>5
<1> DEFINE n == y.nxt
           l == Len(s.data)
<1>9. i + l <= n + 1 /\ ("FIN" \in flags => i + l = n + 1)
  <2>1. l = j - i + 1 /\ j <= n /\ ("FIN" \in flags => j = n) /\ n \in Nat
    BY <1>3, <1>6
  <2> HIDE DEF l, n
  <2> QED
    BY <2>1, <1>2
<1>10. \A k \in 1..Len(s.data) : s.data[k] = ByteSeq(p, i + k - 1)
  BY <1>3
<1>11. InFine(s)'
  BY <1>3, <1>4, <1>7, <1>8, <1>9, <1>10
<1> QED
  BY <1>3, <1>11

LEMMA PureAckFine ==
    ASSUME scene \in Scenes, scene' = scene, peer' \in [Port -> PeerBlock], NEW p \in scene.ports,
           NEW c \in PeerBlock, c.irs = peer'[p].irs, Count(c) = Got(p)', Count(c) <= SpaceMax,
           Bound(p)', NEW s, s = PureAck(p, c)
    PROVE  s \in Segments /\ InFine(s)'
<1>1. p \in Port
  BY SceneFacts
<1>2. /\ s \in Segments /\ s.port = p /\ s.flags = {"ACK"}
      /\ s.ack = AckOf(c) /\ s.data = <<>>
  BY <1>1, PureAckIs
<1>3. Distance(peer'[p].irs, s.ack) = 1 + Count(c) /\ Count(c) \in Nat
  BY <1>2, AckDistance, CountIs
<1>4. Distance(peer'[p].irs, s.ack) \in 1..(1 + Got(p)')
  BY <1>3
<1>5. InFine(s)'
  BY <1>2, <1>4 DEF InFine
<1> QED
  BY <1>2, <1>5

\* A segment without bytes that acknowledges nothing.
LEMMA BareFine ==
    ASSUME scene' = scene, NEW s, s.port \in scene.ports, s.data = <<>>, "ACK" \notin s.flags,
           "FIN" \notin s.flags, "SYN" \in s.flags => s.seq = PeerIss[s.port]
    PROVE  InFine(s)'
BY DEF InFine

\* The halves that a step of the remote endpoint leaves as they are.
LEMMA SendKept ==
    ASSUME BlockOK, TryOK, SendInv, CallInv, KernelStays,
           Me # 0 => /\ Bound(Me)' <=> Bound(Me)
                     /\ peer'[Me].irs = peer[Me].irs /\ peer'[Me].rcvd = peer[Me].rcvd
                     /\ peer'[Me].eof = peer[Me].eof
    PROVE  SendInv' /\ CallInv'
<1>1. /\ tcp' = tcp /\ call' = call /\ session' = session /\ wire_out' = wire_out /\ scene' = scene
      /\ Me' = Me
  BY DEF KernelStays, Me
<1>2. tcp.snd_iss # 0 => Me # 0
  BY DEF BlockOK
<1>3. tcp.snd_iss # 0 => (Linked' <=> Linked) /\ Got(Me)' = Got(Me)
  BY <1>1, <1>2 DEF Linked, Got, Count, Bound
<1>4. U' = U /\ N' = N /\ F' = F /\ ChunkData' = ChunkData
  BY <1>1 DEF U, N, F, ChunkData
<1>5. \A m \in wire_out : Off(m)' = Off(m) /\ (Mine(m)' <=> Mine(m))
  BY <1>1 DEF Off, Mine
<1>6. NumbersOK'
  BY <1>1, <1>3, <1>4 DEF SendInv, NumbersOK
<1>7. SentOK'
  BY <1>1, <1>4, <1>5 DEF SendInv, SentOK
<1>8. OpeningOK'
  BY <1>1 DEF SendInv, OpeningOK
<1>9. ClosingOK'
  <2>1. Linked => Me # 0
    BY <1>2 DEF Linked
  <2>2. Linked' => Linked
    BY <1>1, <1>3 DEF Linked
  <2> QED
    BY <1>1, <1>2, <1>4, <2>1, <2>2 DEF SendInv, ClosingOK
<1>10. call.op \in {"send", "close"} => tcp.snd_iss # 0 /\ Me # 0
  BY <1>2 DEF TryOK
<1>11. ChunkOK'
  <2>1. Linked' => Linked
    BY <1>1, <1>3 DEF Linked
  <2> QED
    BY <1>1, <1>4, <1>5, <1>10, <2>1 DEF CallInv, ChunkOK
<1>12. CountOK' /\ NewOK'
  BY <1>1, <1>10 DEF CallInv, CountOK, NewOK
<1>13. EndOK'
  BY <1>1, <1>4, <1>10 DEF CallInv, EndOK
<1> QED
  BY <1>6, <1>7, <1>8, <1>9, <1>11, <1>12, <1>13 DEF SendInv, CallInv

LEMMA RecvKept ==
    ASSUME BlockOK, RecvInv, KernelStays,
           Me # 0 => /\ Bound(Me)' <=> Bound(Me)
                     /\ peer'[Me].state = "open" => peer[Me].state = "open"
                     /\ peer'[Me].irs = peer[Me].irs /\ peer'[Me].rcvd = peer[Me].rcvd
                     /\ peer'[Me].eof = peer[Me].eof /\ peer'[Me].fin = peer[Me].fin
                     /\ peer'[Me].nxt = peer[Me].nxt /\ peer'[Me].una = peer[Me].una
                     /\ peer'[Me].edge = peer[Me].edge /\ peer'[Me].probed = peer[Me].probed
    PROVE  RecvInv'
<1>1. /\ tcp' = tcp /\ recv_buf' = recv_buf /\ session' = session /\ wire_out' = wire_out
      /\ scene' = scene /\ Me' = Me /\ D' = D
  BY DEF KernelStays, Me, D
<1>2. tcp.snd_iss # 0 => Me # 0
  BY DEF BlockOK
<1>3. tcp.snd_iss # 0 => (Linked' <=> Linked)
  BY <1>1, <1>2 DEF Linked, Bound
<1>4. (Linked' => Linked) /\ (Linked => Linked' /\ Me # 0)
  BY <1>1, <1>2, <1>3 DEF Linked
<1>5. (Live' <=> Live) /\ (Open' <=> Open)
  BY <1>1 DEF Live, Open
<1>6. \A m \in wire_out : (Heard(m)' <=> Heard(m)) /\ (Plain(m)' <=> Plain(m)) /\ (Void(m)' <=> Void(m))
  BY <1>1 DEF Heard, Plain, Void
<1>7. Linked => (Pristine(Me) => Pristine(Me)')
  BY <1>1, <1>4 DEF Pristine
<1>8. FreshOK'
  BY <1>1, <1>4, <1>6, <1>7 DEF RecvInv, FreshOK
<1>9. NextOK'
  BY <1>1, <1>4, <1>5 DEF RecvInv, NextOK
<1>10. RoomOK'
  BY <1>1, <1>4, <1>5, <1>6 DEF RecvInv, RoomOK
<1> QED
  BY <1>8, <1>9, <1>10 DEF RecvInv

LEMMA StreamKept ==
    ASSUME TypeOK, BlockOK, StreamInv, KernelStays, peer' \in [Port -> PeerBlock],
           session.port # 0 => (peer[session.port].probed => peer'[session.port].probed),
           (Live /\ ~session.overtaken /\ ~peer'[Me].probed) =>
               \/ peer'[Me].nxt = peer[Me].nxt
               \/ D <= peer[Me].nxt + 1 /\ peer[Me].nxt <= peer'[Me].nxt
    PROVE  StreamInv'
<1>1. /\ tcp' = tcp /\ recv_buf' = recv_buf /\ session' = session /\ Me' = Me /\ D' = D
      /\ Stream' = Stream
  BY DEF KernelStays, Me, D, Stream
<1>2. (Live' <=> Live)
  BY <1>1 DEF Live, Open
<1>3. ASSUME NEW k \in Int PROVE Nth(k)' = Nth(k)
  BY <1>1 DEF Nth
<1> SUFFICES ASSUME session.port # 0, ~session.overtaken PROVE StreamInv'
  BY <1>1 DEF StreamInv
<1>4. ASSUME Live, ~peer'[Me].probed
      PROVE  Len(Stream) = IF D <= peer'[Me].nxt + 1 THEN D - 1 ELSE peer'[Me].nxt
  <2>1. Me = session.port /\ Me \in Port
    BY <1>4 DEF BlockOK, Live, Open, TypeOK, SessionBlock
  <2>2. Len(Stream) = IF D <= peer[Me].nxt + 1 THEN D - 1 ELSE peer[Me].nxt
    BY <1>4, <2>1 DEF StreamInv
  <2> DEFINE d == D
             x == peer[Me].nxt
             y == peer'[Me].nxt
             l == Len(Stream)
  <2>3. x \in Nat /\ y \in Nat
    BY <2>1 DEF TypeOK, PeerBlock
  <2>4. d \in Nat
    <3>1. PeerIss \in [Port -> Seqno] /\ SeqMod \in Nat \ {0} /\ tcp.rcv_nxt \in Seqno
      BY SceneFacts DEF TypeOK, Control
    <3>2. PeerIss[Me] \in Seqno
      BY <2>1, <3>1
    <3> QED
      BY <3>1, <3>2, DistanceNat DEF D
  <2>5. y = x \/ (d <= x + 1 /\ x <= y)
    BY <1>4
  <2>6. l = IF d <= x + 1 THEN d - 1 ELSE x
    BY <2>2
  <2> HIDE DEF d, x, y, l
  <2>7. l = IF d <= y + 1 THEN d - 1 ELSE y
    BY <2>3, <2>4, <2>5, <2>6
  <2> QED
    BY <2>7 DEF d, y, l
<1>5. Len(Stream)' = Len(Stream)
  BY <1>1
<1>6. \A i, j \in 1..Len(Stream) : i < j => Nth(i)' < Nth(j)'
  <2> SUFFICES ASSUME NEW i \in 1..Len(Stream), NEW j \in 1..Len(Stream), i < j
               PROVE  Nth(i)' < Nth(j)'
    OBVIOUS
  <2>1. Nth(i) < Nth(j)
    BY DEF StreamInv
  <2>2. Nth(i)' = Nth(i) /\ Nth(j)' = Nth(j)
    BY <1>1 DEF Nth
  <2> QED
    BY <2>1, <2>2
<1>7. ~peer'[session.port].probed => \A k \in 1..Len(Stream) : Nth(k)' = k
  BY <1>3 DEF StreamInv
<1>8. Live => \A k \in 1..Len(Stream) : Nth(k)' < D
  BY <1>3 DEF StreamInv
<1>9. tcp.state \in {"SYN_SENT", "LISTEN", "SYN_RECEIVED"} => Stream = <<>>
  BY DEF StreamInv
<1> HIDE DEF Stream
<1> QED
  BY <1>1, <1>2, <1>4, <1>6, <1>7, <1>8, <1>9 DEF StreamInv

LEMMA GrowsSame ==
    ASSUME TypeOK, NEW q \in Port, peer'[q] = peer[q]
    PROVE  Grows(q)
<1>1. peer[q].nxt \in Nat /\ Len(peer[q].rcvd) \in Nat
  BY LenProperties DEF TypeOK, PeerBlock
<1> QED
  BY <1>1 DEF Grows, Bound

\* A step of the remote endpoint, from what it does to each port and to the wire.
LEMMA PeerStepInv ==
    ASSUME IInv, KernelStays, ControlInv', PeerOK', peer' \in [Port -> PeerBlock],
           \A q \in Port : Grows(q), \A s \in wire_in' : s \in wire_in \/ InFine(s)',
           SendInv', CallInv', RecvInv', StreamInv'
    PROVE  IInv'
<1>1. TypeOK /\ TypeOK' /\ scene' = scene /\ wire_out' = wire_out /\ session' = session
      /\ scene \in Scenes
  BY DEF IInv, ControlInv, KernelStays, TypeOK
<1>2. Drawn \subseteq Drawn'
  BY <1>1 DEF KernelStays, Drawn
<1>3. OutOK'
  <2> SUFFICES ASSUME NEW m \in wire_out PROVE OutFine(m)'
    BY <1>1 DEF OutOK
  <2>1. OutFine(m)
    BY DEF IInv, WireInv, OutOK
  <2>2. m.segment.port \in Port
    BY <1>1, <2>1, SceneFacts DEF OutFine
  <2>3. Bound(m.segment.port) => Bound(m.segment.port)'
    BY <2>2 DEF Grows
  <2> QED
    BY <1>1, <1>2, <2>1, <2>3, OutGrows
<1>4. InOK'
  <2> SUFFICES ASSUME NEW s \in wire_in', s \in wire_in PROVE InFine(s)'
    BY DEF InOK
  <2>1. InFine(s) /\ s \in Segments
    BY <1>1 DEF IInv, WireInv, InOK, TypeOK
  <2>2. Grows(s.port)
    BY <2>1 DEF Segments
  <2> QED
    BY <1>1, <2>1, <2>2, InGrows
<1>5. TakenInv'
  <2>1. session.port # 0 => Grows(session.port)
    BY <1>1 DEF TypeOK, SessionBlock
  <2> QED
    BY <1>1, <2>1, TakenGrows DEF IInv
<1> QED
  BY <1>3, <1>4, <1>5 DEF IInv, WireInv

\* Steps that change no more than the state of one port.
LEMMA StateStep ==
    ASSUME IInv, scene' = scene, UNCHANGED <<kernel, wire_out, session>>, NEW p \in scene.ports,
           NEW st \in {"fresh", "syn_sent", "syn_rcvd", "open", "dead"},
           peer' = [peer EXCEPT ![p].state = st],
           st = "open" => peer[p].state = "open",
           st \in {"fresh", "syn_sent", "syn_rcvd"} => peer[p].state \in {"fresh", "syn_sent", "syn_rcvd"},
           Bound(p) <=> st \in {"syn_rcvd", "open", "dead"},
           wire_in' \subseteq Segments, \A s \in wire_in' : s \in wire_in \/ InFine(s)'
    PROVE  IInv'
<1>1. ControlInv /\ TypeOK /\ BlockOK /\ TryOK /\ p \in Port /\ scene \in Scenes
  BY SceneFacts DEF IInv, ControlInv, TypeOK
<1>2. peer \in [Port -> PeerBlock]
  BY <1>1 DEF TypeOK
<1>3. /\ peer' \in [Port -> PeerBlock] /\ peer'[p].state = st
      /\ \A q \in Port :
            /\ q # p => peer'[q] = peer[q]
            /\ peer'[q].irs = peer[q].irs /\ peer'[q].rcvd = peer[q].rcvd
            /\ peer'[q].eof = peer[q].eof /\ peer'[q].fin = peer[q].fin
            /\ peer'[q].nxt = peer[q].nxt /\ peer'[q].una = peer[q].una
            /\ peer'[q].edge = peer[q].edge /\ peer'[q].probed = peer[q].probed
  BY <1>1, <1>2 DEF PeerBlock
<1>4. \A q \in Port : Bound(q)' <=> Bound(q)
  BY <1>1, <1>3 DEF Bound
<1>5. \A q \in Port : peer'[q].state = "open" => peer[q].state = "open"
  BY <1>3
<1>6. \A q \in Port : Grows(q)
  <2> SUFFICES ASSUME NEW q \in Port PROVE Grows(q)
    OBVIOUS
  <2>1. peer[q].nxt \in Nat /\ Len(peer[q].rcvd) \in Nat
    BY <1>2, LenProperties DEF PeerBlock
  <2> QED
    BY <1>3, <1>4, <2>1 DEF Grows
<1>7. ControlInv' /\ KernelStays
  BY <1>1, <1>3, PeerControl
<1>8. PeerOK'
  <2> SUFFICES ASSUME NEW q \in Port PROVE PeerFine(q)'
    BY DEF PeerOK
  <2>1. PeerFine(q)
    BY DEF IInv, WireInv, PeerOK
  <2>2. Got(q)' = Got(q)
    BY <1>3 DEF Got, Count
  <2>5. Drawn' = Drawn /\ scene' = scene
    BY <1>7 DEF KernelStays, Drawn
  <2>3. Pristine(q) => Pristine(q)'
    BY <1>3 DEF Pristine
  <2>4. peer'[q].state \in {"fresh", "syn_sent", "syn_rcvd"} =>
            peer[q].state \in {"fresh", "syn_sent", "syn_rcvd"}
    BY <1>3
  <2> QED
    BY <1>3, <1>4, <2>1, <2>2, <2>3, <2>4, <2>5 DEF PeerFine
<1>9. Me # 0 => Me \in Port
  BY <1>1 DEF TypeOK, Control, Me
<1>10. SendInv' /\ CallInv'
  <2>1. Me # 0 => /\ Bound(Me)' <=> Bound(Me)
                  /\ peer'[Me].irs = peer[Me].irs /\ peer'[Me].rcvd = peer[Me].rcvd
                  /\ peer'[Me].eof = peer[Me].eof
    <3>1. Me' = Me
      BY <1>7 DEF KernelStays, Me
    <3> QED
      BY <3>1, <1>3, <1>4, <1>9 DEF Bound
  <2> QED
    BY <1>1, <1>7, <2>1, SendKept DEF IInv
<1>11. RecvInv'
  <2>1. Me # 0 => /\ Bound(Me)' <=> Bound(Me)
                  /\ peer'[Me].state = "open" => peer[Me].state = "open"
                  /\ peer'[Me].irs = peer[Me].irs /\ peer'[Me].rcvd = peer[Me].rcvd
                  /\ peer'[Me].eof = peer[Me].eof /\ peer'[Me].fin = peer[Me].fin
                  /\ peer'[Me].nxt = peer[Me].nxt /\ peer'[Me].una = peer[Me].una
                  /\ peer'[Me].edge = peer[Me].edge /\ peer'[Me].probed = peer[Me].probed
    <3>1. Me' = Me
      BY <1>7 DEF KernelStays, Me
    <3> QED
      BY <3>1, <1>3, <1>4, <1>5, <1>9 DEF Bound
  <2> QED
    BY <1>1, <1>7, <2>1, RecvKept DEF IInv
<1>12. StreamInv'
  <2>1. session.port # 0 => session.port \in Port
    BY <1>1 DEF TypeOK, SessionBlock
  <2>2. Live => Me \in Port
    BY <1>1, <1>9 DEF BlockOK, Live, Open
  <2>3. session.port # 0 => (peer[session.port].probed => peer'[session.port].probed)
    BY <1>3, <2>1
  <2>4. Live => peer'[Me].nxt = peer[Me].nxt
    BY <1>3, <2>2
  <2> QED
    BY <1>1, <1>3, <1>7, <2>3, <2>4, StreamKept DEF IInv
<1> QED
  BY <1>3, <1>6, <1>7, <1>8, <1>10, <1>11, <1>12, PeerStepInv

\* Steps that only put a segment on the wire.
LEMMA AnswerStep ==
    ASSUME IInv, scene' = scene, UNCHANGED <<kernel, wire_out, peer, session>>,
           wire_in' \subseteq Segments, \A s \in wire_in' : s \in wire_in \/ InFine(s)'
    PROVE  IInv'
<1>1. ControlInv /\ TypeOK /\ BlockOK /\ TryOK /\ peer' = peer /\ peer' \in [Port -> PeerBlock]
  BY DEF IInv, ControlInv, TypeOK
<1>2. ControlInv' /\ KernelStays
  BY <1>1, PeerControl
<1>3. Me' = Me /\ Drawn' = Drawn /\ scene' = scene
  BY <1>2 DEF KernelStays, Me, Drawn
<1>4. PeerOK'
  <2> SUFFICES ASSUME NEW q \in Port PROVE PeerFine(q)'
    BY DEF PeerOK
  <2>1. PeerFine(q)
    BY DEF IInv, WireInv, PeerOK
  <2> QED
    BY <1>1, <1>3, <2>1 DEF PeerFine, Bound, Got, Pristine
<1>5. \A q \in Port : Grows(q)
  BY <1>1, GrowsSame
<1>6. SendInv' /\ CallInv'
  <2>1. Bound(Me)' <=> Bound(Me)
    BY <1>1, <1>3 DEF Bound
  <2> QED
    BY <1>1, <1>2, <1>3, <2>1, SendKept DEF IInv
<1>7. RecvInv'
  <2>1. Bound(Me)' <=> Bound(Me)
    BY <1>1, <1>3 DEF Bound
  <2> QED
    BY <1>1, <1>2, <1>3, <2>1, RecvKept DEF IInv
<1>8. StreamInv'
  BY <1>1, <1>2, StreamKept DEF IInv
<1> QED
  BY <1>1, <1>2, <1>4, <1>5, <1>6, <1>7, <1>8, PeerStepInv

LEMMA ConnectsStep ==
    ASSUME IInv, scene' = scene, NEW p \in scene.ports, peer_connects(p)
    PROVE  IInv'
<1> DEFINE f == {"SYN"}
           e == <<>>
           s == Segment(p, f, PeerIss[p], 0, e)
<1>1. scene \in Scenes /\ wire_in \subseteq Segments
  BY DEF IInv, ControlInv, TypeOK
<1>2. p \in Port /\ PeerIss[p] \in Seqno /\ 0 \in Seqno
  <2>1. PeerIss \in [Port -> Seqno] /\ p \in Port
    BY <1>1, SceneFacts
  <2> QED
    BY <1>1, <2>1, SmallNumbers
<1>3. f \in Flags /\ e \in Seq(Nat)
  BY EmptySeq DEF Flags
<1>4. /\ peer' = [peer EXCEPT ![p].state = "syn_sent"] /\ wire_in' = wire_in \cup {s}
      /\ UNCHANGED <<kernel, wire_out, session>> /\ peer[p].state = "fresh"
  BY DEF peer_connects, Answers
<1>5. s \in Segments /\ InFine(s)'
  <2>1. /\ s \in Segments /\ s.port = p /\ s.flags = f /\ s.seq = PeerIss[p] /\ s.data = e
    <3> HIDE DEF f, e
    <3>1. s = Segment(p, f, PeerIss[p], 0, e)
      OBVIOUS
    <3> HIDE DEF s
    <3> QED
      BY <1>2, <1>3, <3>1, SegmentIs
  <2> HIDE DEF s
  <2> QED
    BY <2>1, BareFine
<1> HIDE DEF s
<1>6. Bound(p) <=> "syn_sent" \in {"syn_rcvd", "open", "dead"}
  BY <1>4 DEF Bound
<1> QED
  BY <1>1, <1>4, <1>5, <1>6, StateStep

LEMMA RstIs ==
    ASSUME scene \in Scenes, scene' = scene, NEW p \in scene.ports, NEW x \in Seqno,
           NEW s, s = Segment(p, {"RST"}, x, 0, <<>>)
    PROVE  s \in Segments /\ InFine(s)'
<1> DEFINE f == {"RST"}
           e == <<>>
<1>1. p \in Port /\ 0 \in Seqno
  BY SceneFacts, SmallNumbers
<1>2. f \in Flags /\ e \in Seq(Nat)
  BY EmptySeq DEF Flags
<1>3. s = Segment(p, f, x, 0, e)
  OBVIOUS
<1> HIDE DEF f, e
<1>4. /\ s \in Segments /\ s.port = p /\ s.flags = f /\ s.data = e
  BY <1>1, <1>2, <1>3, SegmentIs
<1> QED
  BY <1>4, BareFine DEF f, e

LEMMA AbortsStep ==
    ASSUME IInv, scene' = scene, NEW p \in scene.ports, peer_aborts(p)
    PROVE  IInv'
<1>1. scene \in Scenes /\ wire_in \subseteq Segments /\ peer \in [Port -> PeerBlock] /\ p \in Port
  BY SceneFacts DEF IInv, ControlInv, TypeOK
<1> DEFINE x == ByteSeq(p, peer[p].nxt + 1)
<1>2. x \in Seqno
  <2>1. PeerIss \in [Port -> Seqno] /\ peer[p].nxt \in Nat
    BY <1>1, SceneFacts DEF PeerBlock
  <2> DEFINE k == peer[p].nxt + 1
  <2>2. k \in Nat /\ PeerIss[p] \in Seqno
    BY <1>1, <2>1
  <2> HIDE DEF k
  <2>3. Plus(PeerIss[p], k) \in Seqno
    BY <1>1, <2>2, PlusType
  <2> QED
    BY <2>3 DEF ByteSeq, k
<1>3. PICK s : /\ s = Segment(p, {"RST"}, x, 0, <<>>) /\ wire_in' = wire_in \cup {s}
  BY DEF peer_aborts, Answers
<1>6. /\ peer' = [peer EXCEPT ![p].state = "dead"]
      /\ UNCHANGED <<kernel, wire_out, session>> /\ peer[p].state \in {"syn_rcvd", "open"}
  BY DEF peer_aborts
<1>7. PICK y \in Seqno : y = x
  BY <1>2
<1> HIDE DEF x
<1>4. s \in Segments /\ InFine(s)'
  BY <1>1, <1>3, <1>7, RstIs
<1>5. Bound(p) <=> "dead" \in {"syn_rcvd", "open", "dead"}
  BY <1>6 DEF Bound
<1> QED
  BY <1>1, <1>3, <1>4, <1>5, <1>6, StateStep

LEMMA RefusesStep ==
    ASSUME IInv, scene' = scene, NEW m \in wire_out, peer_refuses(m)
    PROVE  IInv'
<1>1. scene \in Scenes /\ wire_in \subseteq Segments /\ m.segment \in Segments
  BY DEF IInv, ControlInv, TypeOK
<1>2. m.segment.port \in scene.ports /\ m.segment.ack \in Seqno
  BY <1>1 DEF IInv, WireInv, OutOK, OutFine, Segments
<1>6. PICK p \in scene.ports, x \in Seqno :
         wire_in' = wire_in \cup {Segment(p, {"RST"}, x, 0, <<>>)}
  BY <1>2 DEF peer_refuses, Answers
<1>3. PICK s : s = Segment(p, {"RST"}, x, 0, <<>>) /\ wire_in' = wire_in \cup {s}
  BY <1>6
<1>4. UNCHANGED <<kernel, wire_out, peer, session>>
  BY DEF peer_refuses
<1>5. s \in Segments /\ InFine(s)'
  BY <1>1, <1>3, RstIs
<1> QED
  BY <1>1, <1>3, <1>4, <1>5, AnswerStep

\* A SYN that does not belong to the connection there is.
LEMMA StaleSynStep ==
    ASSUME IInv, scene' = scene, NEW p \in scene.ports, peer[p].state \in {"syn_rcvd", "open"},
           wire_in' = wire_in \cup {PureAck(p, peer[p])}, UNCHANGED <<kernel, wire_out, peer, session>>
    PROVE  IInv'
<1>1. /\ scene \in Scenes /\ wire_in \subseteq Segments /\ peer \in [Port -> PeerBlock] /\ p \in Port
  BY SceneFacts DEF IInv, ControlInv, TypeOK
<1>2. Bound(p) /\ Got(p) <= SpaceMax
  BY <1>1 DEF IInv, WireInv, PeerOK, PeerFine, Bound
<1>6. PICK c, s : c = peer[p] /\ s = PureAck(p, c) /\ wire_in' = wire_in \cup {s}
  OBVIOUS
<1>3. c \in PeerBlock /\ Count(c) = Got(p)' /\ c.irs = peer'[p].irs /\ Bound(p)' /\ Count(c) <= SpaceMax
      /\ peer' \in [Port -> PeerBlock]
  BY <1>1, <1>2, <1>6 DEF Got, Bound
<1>4. s \in Segments /\ InFine(s)'
  BY <1>1, <1>3, <1>6, PureAckFine
<1> QED
  BY <1>1, <1>4, <1>6, AnswerStep

\* A step of one port, from what it does to the halves of the connection on that port.
LEMMA PortStep ==
    ASSUME IInv, scene' = scene, UNCHANGED <<kernel, wire_out, session>>, NEW p \in scene.ports,
           NEW c \in PeerBlock, peer' = [peer EXCEPT ![p] = c], Grows(p), PeerFine(p)',
           wire_in' \subseteq Segments, \A s \in wire_in' : s \in wire_in \/ InFine(s)',
           p = Me => SendInv' /\ CallInv' /\ RecvInv',
           (Live /\ ~session.overtaken /\ p = Me /\ ~c.probed) =>
               \/ c.nxt = peer[p].nxt
               \/ D <= peer[p].nxt + 1 /\ peer[p].nxt <= c.nxt
    PROVE  IInv'
<1>1. ControlInv /\ TypeOK /\ BlockOK /\ TryOK /\ p \in Port /\ scene \in Scenes
  BY SceneFacts DEF IInv, ControlInv, TypeOK
<1>2. peer \in [Port -> PeerBlock]
  BY <1>1 DEF TypeOK
<1>3. /\ peer' \in [Port -> PeerBlock] /\ peer'[p] = c
      /\ \A q \in Port : q # p => peer'[q] = peer[q]
  BY <1>1, <1>2
<1>4. ControlInv' /\ KernelStays
  BY <1>1, <1>3, PeerControl
<1>5. \A q \in Port : Grows(q)
  BY <1>1, <1>3, GrowsSame
<1>6. PeerOK'
  <2> SUFFICES ASSUME NEW q \in Port PROVE PeerFine(q)'
    BY DEF PeerOK
  <2>1. CASE q = p
    BY <2>1
  <2>2. CASE q # p
    <3>1. PeerFine(q)
      BY DEF IInv, WireInv, PeerOK
    <3>2. peer'[q] = peer[q] /\ Drawn' = Drawn /\ scene' = scene
      BY <1>3, <1>4, <2>2 DEF KernelStays, Drawn
    <3> QED
      BY <3>1, <3>2 DEF PeerFine, Bound, Got, Pristine
  <2> QED
    BY <2>1, <2>2
<1>7. Me' = Me /\ (Me # 0 => Me \in Port)
  BY <1>1, <1>4 DEF KernelStays, Me, TypeOK, Control
<1>8. p # Me => (Me # 0 => peer'[Me] = peer[Me] /\ (Bound(Me)' <=> Bound(Me)))
  BY <1>3, <1>7 DEF Bound
<1>9. SendInv' /\ CallInv'
  <2>1. CASE p = Me
    BY <2>1
  <2>2. CASE p # Me
    BY <1>1, <1>4, <1>7, <1>8, <2>2, SendKept DEF IInv
  <2> QED
    BY <2>1, <2>2
<1>10. RecvInv'
  <2>1. CASE p = Me
    BY <2>1
  <2>2. CASE p # Me
    BY <1>1, <1>4, <1>7, <1>8, <2>2, RecvKept DEF IInv
  <2> QED
    BY <2>1, <2>2
<1>11. StreamInv'
  <2>1. session.port # 0 => (peer[session.port].probed => peer'[session.port].probed)
    <3>1. session.port # 0 => session.port \in Port
      BY <1>1 DEF TypeOK, SessionBlock
    <3> QED
      BY <1>5, <3>1 DEF Grows
  <2>2. Live => Me # 0
    BY <1>1 DEF BlockOK, Live, Open
  <2>3. (Live /\ ~session.overtaken /\ ~peer'[Me].probed) =>
               \/ peer'[Me].nxt = peer[Me].nxt
               \/ D <= peer[Me].nxt + 1 /\ peer[Me].nxt <= peer'[Me].nxt
    BY <1>3, <1>7, <1>8, <2>2
  <2> QED
    BY <1>1, <1>3, <1>4, <2>1, <2>3, StreamKept DEF IInv
<1> QED
  BY <1>3, <1>4, <1>5, <1>6, <1>9, <1>10, <1>11, PeerStepInv

LEMMA KernelSame ==
    ASSUME KernelStays
    PROVE  /\ tcp' = tcp /\ recv_buf' = recv_buf /\ call' = call /\ session' = session
           /\ wire_out' = wire_out /\ scene' = scene /\ Me' = Me /\ U' = U /\ N' = N /\ F' = F
           /\ D' = D /\ ChunkData' = ChunkData /\ Stream' = Stream
           /\ (Live' <=> Live) /\ (Open' <=> Open) /\ Drawn' = Drawn
           /\ \A m : /\ Off(m)' = Off(m) /\ (Mine(m)' <=> Mine(m)) /\ (Heard(m)' <=> Heard(m))
                     /\ (Plain(m)' <=> Plain(m)) /\ (Void(m)' <=> Void(m))
BY DEF KernelStays, Me, U, N, F, D, ChunkData, Stream, Live, Open, Off, Mine, Heard, Plain, Void,
       Drawn

\* A remote end that takes a connection has received none of its bytes.
LEMMA LinkSend ==
    ASSUME IInv, KernelStays, ~Bound(Me), peer'[Me].rcvd = <<>>, peer[Me].rcvd = <<>>,
           ~peer'[Me].eof, ~peer[Me].eof, Got(Me)' = 0
    PROVE  SendInv' /\ CallInv' /\ NextOK' /\ ((Live /\ ~session.overtaken) => 1 <= D /\ ~Open)
<1>1. /\ ControlInv /\ TypeOK /\ BlockOK /\ TryOK /\ scene \in Scenes
  BY DEF IInv, ControlInv, TypeOK
<1>14. SendInv /\ CallInv /\ RecvInv
  BY DEF IInv
<1>10. KernelStays
  OBVIOUS
<1>2. ~Linked
  BY DEF Linked
<1>3. Me' = Me
  BY KernelSame
<1>23. \A k : Off(k)' = Off(k) /\ (Mine(k)' <=> Mine(k))
  BY <1>10, KernelSame
<1>24. /\ tcp' = tcp /\ call' = call /\ session' = session /\ wire_out' = wire_out
      /\ U' = U /\ N' = N /\ F' = F /\ ChunkData' = ChunkData /\ recv_buf' = recv_buf
  BY <1>10, KernelSame
<1>30. call.op = "close" => F + 1 = N /\ 1 <= F /\ tcp.snd_iss # 0
  BY <1>1, <1>14 DEF CallInv, EndOK, TryOK
<1>25. NumbersOK'
  <2> SUFFICES ASSUME tcp.snd_iss # 0 PROVE NumbersOK'
    BY <1>24 DEF NumbersOK
  <2>1. U <= N /\ 1 <= N /\ N <= SpaceMax + 1 /\ U = 0
    BY <1>14, <1>2 DEF SendInv, NumbersOK
  <2>2. Got(Me)' = 0 /\ U' = U /\ N' = N
    BY <1>24
  <2> DEFINE g == Got(Me)'
  <2>3. 1 + g <= N
    BY <2>1, <2>2
  <2> HIDE DEF g
  <2>4. U' <= N' /\ 1 <= N' /\ N' <= SpaceMax + 1 /\ U' = 0 /\ 1 + g <= N'
    BY <2>1, <2>2, <2>3
  <2> QED
    BY <2>4 DEF NumbersOK, g
<1>26. SentOK' /\ OpeningOK'
  BY <1>3, <1>14, <1>23, <1>24 DEF SendInv, SentOK, OpeningOK
<1>27. ClosingOK'
  <2>1. ~peer'[Me].eof /\ Len(peer'[Me].rcvd) = 0 /\ peer'[Me'] = peer'[Me]
    BY <1>3, EmptySeq
  <2>2. call.op = "close" => N \in Int /\ 2 <= N
    <3> HAVE call.op = "close"
    <3>1. SeqMod \in Nat \ {0} /\ tcp \in Control /\ call \in CallBlock
      BY <1>1, SceneFacts DEF TypeOK
    <3>2. N \in Nat /\ F \in Nat
      BY <3>1, DistanceNat DEF N, F, Control, CallBlock
    <3> DEFINE n == N
               ff == F
    <3>3. ff + 1 = n /\ 1 <= ff /\ n \in Nat /\ ff \in Nat
      BY <1>30, <3>2
    <3> HIDE DEF n, ff
    <3>4. n \in Int /\ 2 <= n
      BY <3>3
    <3> QED
      BY <3>4 DEF n
  <2>3. call.op = "close" => Len(peer'[Me].rcvd) + 2 <= N
    BY <2>1, <2>2
  <2> QED
    BY <1>24, <2>1, <2>3 DEF ClosingOK
<1>28. ChunkOK'
  <2> SUFFICES ASSUME call.op = "send" PROVE ChunkOK'
    BY <1>24 DEF ChunkOK
  <2>1. /\ 1 <= F /\ F + Len(ChunkData) = N /\ call.last = tcp.snd_nxt
        /\ call.sent + Len(ChunkData) <= call.want
        /\ N + (call.want - call.sent - Len(ChunkData)) <= SpaceMax
        /\ \A k \in wire_out : (Mine(k) /\ "PSH" \in k.segment.flags) =>
              \/ Off(k) + Len(k.segment.data) <= F
              \/ Off(k) = F /\ k.segment.data = ChunkData
    BY <1>14 DEF CallInv, ChunkOK
  <2>2. 1 + Len(peer'[Me'].rcvd) <= F'
    <3>1. Len(peer'[Me'].rcvd) = 0
      BY <1>3, EmptySeq
    <3> QED
      BY <1>24, <2>1, <3>1
  <2> QED
    BY <1>23, <1>24, <2>1, <2>2 DEF ChunkOK
<1>29. CountOK' /\ EndOK' /\ NewOK'
  <2>1. peer'[Me'].rcvd = peer[Me].rcvd /\ ~peer'[Me'].eof /\ ~peer[Me].eof
    BY <1>3
  <2> QED
    BY <1>14, <1>24, <2>1 DEF CallInv, CountOK, EndOK, NewOK
<1>31. NextOK' /\ ((Live /\ ~session.overtaken) => 1 <= D /\ ~Open)
  <2>1. D' = D /\ (Live' <=> Live) /\ (Open' <=> Open)
    BY <1>10, KernelSame
  <2> QED
    BY <1>14, <1>2, <1>24, <2>1 DEF RecvInv, NextOK
<1> QED
  BY <1>25, <1>26, <1>27, <1>28, <1>29, <1>31 DEF SendInv, CallInv

\* A SYN opens the connection at the remote end.
LEMMA OpensStep ==
    ASSUME IInv, scene' = scene, UNCHANGED <<kernel, wire_out, session>>, NEW m \in wire_out,
           NEW p \in scene.ports, p = m.segment.port, "SYN" \in m.segment.flags,
           peer[p].state = "fresh", NEW c,
           c = [peer[p] EXCEPT !.state = "syn_rcvd", !.irs = m.segment.seq],
           peer' = [peer EXCEPT ![p] = c],
           NEW s, s = Segment(p, {"SYN", "ACK"}, PeerIss[p], Plus(c.irs, 1), <<>>),
           wire_in' = wire_in \cup {s}
    PROVE  IInv'
<1>1. /\ ControlInv /\ TypeOK /\ BlockOK /\ TryOK /\ p \in Port /\ scene \in Scenes
      /\ peer \in [Port -> PeerBlock] /\ wire_in \subseteq Segments /\ m.segment \in Segments
  BY SceneFacts DEF IInv, ControlInv, TypeOK
<1>2. peer[p] \in PeerBlock /\ m.segment.seq \in Seqno
  BY <1>1 DEF Segments
<1>3. /\ c \in PeerBlock /\ c.state = "syn_rcvd" /\ c.irs = m.segment.seq
      /\ c.rcvd = peer[p].rcvd /\ c.eof = peer[p].eof /\ c.fin = peer[p].fin
      /\ c.nxt = peer[p].nxt /\ c.una = peer[p].una /\ c.edge = peer[p].edge
      /\ c.probed = peer[p].probed
  BY <1>2 DEF PeerBlock
<1>4. Pristine(p) /\ ~Bound(p)
  BY <1>1 DEF IInv, WireInv, PeerOK, PeerFine, Bound
<1>5. /\ c.nxt = 0 /\ c.una = 0 /\ c.edge = 0 /\ c.rcvd = <<>> /\ ~c.fin /\ ~c.eof /\ ~c.probed
  BY <1>3, <1>4 DEF Pristine
<1>6. peer'[p] = c /\ peer' \in [Port -> PeerBlock]
  BY <1>1, <1>3
<1>7. Count(c) = 0 /\ Got(p)' = 0
  <2>1. Len(c.rcvd) = 0
    BY <1>5, EmptySeq
  <2>2. Count(c) = Len(c.rcvd)
    BY <1>3, <1>5, CountIs
  <2> QED
    BY <1>6, <2>1, <2>2 DEF Got
<1>8. Bound(p)' /\ Pristine(p)'
  BY <1>3, <1>5, <1>6 DEF Bound, Pristine
<1>9. m.segment.seq \in Drawn
  BY DEF IInv, WireInv, OutOK, OutFine
<1>10. KernelStays
  BY <1>1 DEF KernelStays, kernel
<1>11. s \in Segments /\ InFine(s)'
  <2> DEFINE f == {"SYN", "ACK"}
             e == <<>>
             a == Plus(c.irs, 1)
  <2>1. f \in Flags /\ e \in Seq(Nat) /\ PeerIss[p] \in Seqno /\ SeqMod \in Nat \ {0}
    <3>1. PeerIss \in [Port -> Seqno] /\ SeqMod \in Nat \ {0}
      BY <1>1, SceneFacts
    <3> QED
      BY <1>1, <3>1, EmptySeq DEF Flags
  <2>2. a \in Seqno /\ Distance(c.irs, a) = 1
    BY <1>1, <1>2, <1>3, <2>1, SmallNumbers, PlusDistance
  <2>3. s = Segment(p, f, PeerIss[p], a, e)
    OBVIOUS
  <2> HIDE DEF f, e, a
  <2>4. /\ s \in Segments /\ s.port = p /\ s.flags = f /\ s.seq = PeerIss[p] /\ s.ack = a
        /\ s.data = e
    BY <1>1, <2>1, <2>2, <2>3, SegmentIs
  <2>5. Distance(peer'[p].irs, s.ack) \in 1..(1 + Got(p)')
    BY <1>6, <1>7, <2>2, <2>4
  <2>6. "FIN" \notin s.flags /\ s.data = <<>>
    BY <2>4 DEF f, e
  <2> QED
    BY <1>8, <2>4, <2>5, <2>6 DEF InFine
<1>12. Grows(p)
  <2>1. peer[p].nxt \in Nat /\ Len(peer[p].rcvd) \in Nat
    BY <1>2, LenProperties DEF PeerBlock
  <2> QED
    BY <1>3, <1>4, <1>6, <2>1 DEF Grows
<1>13. PeerFine(p)'
  <2>1. scene' = scene /\ Drawn' = Drawn /\ scene.peerMax \in Nat /\ SpaceMax \in Nat
    BY <1>1, <1>10, KernelSame, SceneFacts
  <2>2. peer'[p].irs \in Drawn' /\ Got(p)' <= SpaceMax
    BY <1>3, <1>6, <1>7, <1>9, <2>1
  <2>3. peer'[p].nxt <= scene'.peerMax /\ peer'[p].una <= peer'[p].nxt + 1
        /\ (~peer'[p].probed => peer'[p].nxt <= peer'[p].edge)
    BY <1>5, <1>6, <2>1
  <2> QED
    BY <1>8, <2>1, <2>2, <2>3 DEF PeerFine
<1>14. SendInv /\ CallInv /\ RecvInv
  BY DEF IInv
<1>15. ASSUME p = Me PROVE SendInv' /\ CallInv' /\ RecvInv'
  <2>1. ~Linked
    BY <1>4, <1>15 DEF Linked
  <2>2. peer'[Me] = c /\ Got(Me)' = 0 /\ Me' = Me
    BY <1>6, <1>7, <1>10, <1>15, KernelSame
  <2>4. /\ tcp' = tcp /\ call' = call /\ session' = session /\ wire_out' = wire_out
        /\ recv_buf' = recv_buf
    BY <1>10, KernelSame
  <2>12. SendInv' /\ CallInv' /\ NextOK' /\ ((Live /\ ~session.overtaken) => 1 <= D /\ ~Open)
    <3>1. ~Bound(Me) /\ peer[Me].rcvd = <<>> /\ ~peer[Me].eof
      BY <1>4, <1>15 DEF Pristine
    <3>2. peer'[Me].rcvd = <<>> /\ ~peer'[Me].eof /\ Got(Me)' = 0
      BY <1>5, <2>2
    <3> QED
      BY <1>10, <3>1, <3>2, LinkSend
  <2>11. FreshOK'
    <3>1. \A k \in wire_out : (k.segment.port = Me /\ Plain(k)) => Void(k)
      BY <1>4, <1>15 DEF IInv, WireInv, OutOK, OutFine
    <3>2. Pristine(Me)' /\ peer'[Me'].state # "open"
      BY <1>3, <1>8, <1>15, <2>2 DEF Pristine
    <3>3. \A k : (Plain(k)' <=> Plain(k)) /\ (Void(k)' <=> Void(k))
      BY <1>10, KernelSame
    <3> QED
      BY <1>14, <2>2, <2>4, <3>1, <3>2, <3>3 DEF RecvInv, FreshOK
  <2>13. RoomOK'
    <3>1. D' = D /\ (Live' <=> Live)
      BY <1>10, KernelSame
    <3> SUFFICES ASSUME Live, ~session.overtaken PROVE RoomOK'
      BY <2>4, <3>1 DEF RoomOK
    <3>2. tcp.state = "SYN_RECEIVED" /\ D = 1
      BY <1>14, <2>12 DEF Live, RecvInv, NextOK
    <3>3. \A k \in wire_out : (k.segment.port = Me /\ Plain(k)) => Void(k)
      BY <1>4, <1>15 DEF IInv, WireInv, OutOK, OutFine
    <3>4. Len(recv_buf) \in Nat /\ Len(recv_buf) <= RecvCap /\ RecvCap \in Nat
      BY <1>1, SceneFacts, LenProperties DEF TypeOK
    <3>5. /\ peer'[Me'].nxt = 0 /\ ~peer'[Me'].fin /\ peer'[Me'].una = 0 /\ peer'[Me'].edge = 0
      BY <1>5, <2>2
    <3>6. /\ D' <= peer'[Me'].nxt + (IF peer'[Me'].fin THEN 2 ELSE 1)
          /\ peer'[Me'].una + 1 <= D'
          /\ peer'[Me'].edge + 1 + Len(recv_buf') <= D' + RecvCap
      BY <2>4, <3>1, <3>2, <3>4, <3>5
    <3>7. \A k \in wire_out' : (k.segment.port = Me' /\ Plain(k)') => Heard(k)'
      <4>1. \A k : (Plain(k)' <=> Plain(k)) /\ (Heard(k)' <=> Heard(k))
        BY <1>10, KernelSame
      <4> QED
        BY <2>2, <2>4, <3>3, <4>1 DEF Heard
    <3> QED
      BY <3>6, <3>7 DEF RoomOK
  <2> QED
    BY <2>11, <2>12, <2>13 DEF RecvInv
<1> QED
  BY <1>1, <1>3, <1>11, <1>12, <1>13, <1>15, PortStep

\* The answer to its own SYN opens the connection at the remote end.
LEMMA AcceptedStep ==
    ASSUME IInv, scene' = scene, UNCHANGED <<kernel, wire_out, session>>, NEW m \in wire_out,
           NEW p \in scene.ports, p = m.segment.port, m.segment.flags = {"SYN", "ACK"},
           peer[p].state = "syn_sent", NEW c,
           c = [peer[p] EXCEPT !.state = "open", !.irs = m.segment.seq, !.edge = m.window],
           peer' = [peer EXCEPT ![p] = c],
           NEW s, s = PureAck(p, c), wire_in' = wire_in \cup {s}
    PROVE  IInv'
<1>1. /\ ControlInv /\ TypeOK /\ BlockOK /\ TryOK /\ p \in Port /\ scene \in Scenes
      /\ peer \in [Port -> PeerBlock] /\ wire_in \subseteq Segments /\ m.segment \in Segments
      /\ m.window \in Nat
  BY SceneFacts DEF IInv, ControlInv, TypeOK
<1>2. peer[p] \in PeerBlock /\ m.segment.seq \in Seqno
  BY <1>1 DEF Segments
<1>3. /\ c \in PeerBlock /\ c.state = "open" /\ c.irs = m.segment.seq
      /\ c.rcvd = peer[p].rcvd /\ c.eof = peer[p].eof /\ c.fin = peer[p].fin
      /\ c.nxt = peer[p].nxt /\ c.una = peer[p].una /\ c.edge = m.window
      /\ c.probed = peer[p].probed
  BY <1>1, <1>2 DEF PeerBlock
<1>4. Pristine(p) /\ ~Bound(p)
  BY <1>1 DEF IInv, WireInv, PeerOK, PeerFine, Bound
<1>5. /\ c.nxt = 0 /\ c.una = 0 /\ c.rcvd = <<>> /\ ~c.fin /\ ~c.eof /\ ~c.probed
  BY <1>3, <1>4 DEF Pristine
<1>6. peer'[p] = c /\ peer' \in [Port -> PeerBlock]
  BY <1>1, <1>3
<1>7. Count(c) = 0 /\ Got(p)' = 0
  <2>1. Len(c.rcvd) = 0
    BY <1>5, EmptySeq
  <2>2. Count(c) = Len(c.rcvd)
    BY <1>3, <1>5, CountIs
  <2> QED
    BY <1>6, <2>1, <2>2 DEF Got
<1>8. Bound(p)'
  BY <1>3, <1>6 DEF Bound
<1>9. m.segment.seq \in Drawn /\ m.window <= RecvCap /\ "SYN" \in m.segment.flags
  BY DEF IInv, WireInv, OutOK, OutFine
<1>10. KernelStays
  BY <1>1 DEF KernelStays, kernel
<1>11. s \in Segments /\ InFine(s)'
  <2>1. SpaceMax \in Nat
    BY <1>1, SceneFacts
  <2>2. c.irs = peer'[p].irs /\ Count(c) = Got(p)' /\ Count(c) <= SpaceMax
    BY <1>6, <1>7, <2>1
  <2> QED
    BY <1>1, <1>3, <1>6, <1>8, <2>2, PureAckFine
<1>12. Grows(p)
  <2>1. peer[p].nxt \in Nat /\ Len(peer[p].rcvd) \in Nat
    BY <1>2, LenProperties DEF PeerBlock
  <2> QED
    BY <1>3, <1>4, <1>6, <2>1 DEF Grows
<1>13. PeerFine(p)'
  <2>1. scene' = scene /\ Drawn' = Drawn /\ scene.peerMax \in Nat /\ SpaceMax \in Nat
    BY <1>1, <1>10, KernelSame, SceneFacts
  <2>2. peer'[p].irs \in Drawn' /\ Got(p)' <= SpaceMax
    BY <1>3, <1>6, <1>7, <1>9, <2>1
  <2>3. peer'[p].nxt <= scene'.peerMax /\ peer'[p].una <= peer'[p].nxt + 1
        /\ (~peer'[p].probed => peer'[p].nxt <= peer'[p].edge)
    BY <1>1, <1>3, <1>5, <1>6, <2>1
  <2>4. peer'[p].state = "open"
    BY <1>3, <1>6
  <2> QED
    BY <2>1, <2>2, <2>3, <2>4 DEF PeerFine
<1>14. SendInv /\ CallInv /\ RecvInv
  BY DEF IInv
<1>15. ASSUME p = Me PROVE SendInv' /\ CallInv' /\ RecvInv'
  <2>2. peer'[Me] = c /\ Got(Me)' = 0 /\ Me' = Me
    BY <1>6, <1>7, <1>10, <1>15, KernelSame
  <2>5. peer'[Me'] = c
    BY <2>2
  <2>3. \A k : (Plain(k)' <=> Plain(k)) /\ (Void(k)' <=> Void(k)) /\ (Heard(k)' <=> Heard(k))
    BY <1>10, KernelSame
  <2>4. /\ tcp' = tcp /\ call' = call /\ session' = session /\ wire_out' = wire_out
        /\ recv_buf' = recv_buf
    BY <1>10, KernelSame
  <2>12. SendInv' /\ CallInv' /\ NextOK' /\ ((Live /\ ~session.overtaken) => 1 <= D /\ ~Open)
    <3>1. ~Bound(Me) /\ peer[Me].rcvd = <<>> /\ ~peer[Me].eof
      BY <1>4, <1>15 DEF Pristine
    <3>2. peer'[Me].rcvd = <<>> /\ ~peer'[Me].eof /\ Got(Me)' = 0
      BY <1>5, <2>2
    <3> QED
      BY <1>10, <3>1, <3>2, LinkSend
  <2>10. \A k \in wire_out : (k.segment.port = Me /\ Plain(k)) => Void(k)
    BY <1>4, <1>15 DEF IInv, WireInv, OutOK, OutFine
  <2>11. FreshOK'
    <3>1. ~(tcp.state = "SYN_SENT" /\ Linked')
      <4> SUFFICES ASSUME tcp.state = "SYN_SENT", Linked' PROVE FALSE
        OBVIOUS
      <4>1. tcp.snd_iss # 0 /\ m.segment.seq = tcp.snd_iss
        <5>1. tcp'.snd_iss # 0 /\ peer'[Me'].irs = tcp'.snd_iss
          BY DEF Linked
        <5>2. peer'[Me'].irs = m.segment.seq
          BY <1>3, <2>5
        <5> QED
          BY <2>4, <5>1, <5>2
      <4>2. "ACK" \notin m.segment.flags
        BY <1>9, <1>14, <1>15, <4>1 DEF SendInv, OpeningOK
      <4> QED
        BY <4>2
    <3> QED
      BY <1>14, <2>2, <2>4, <3>1 DEF RecvInv, FreshOK
  <2>13. RoomOK'
    <3>1. D' = D /\ (Live' <=> Live)
      BY <1>10, KernelSame
    <3> SUFFICES ASSUME Live, ~session.overtaken PROVE RoomOK'
      BY <2>4, <3>1 DEF RoomOK
    <3>2. tcp.state = "SYN_RECEIVED" /\ D = 1
      BY <1>14, <2>12 DEF Live, RecvInv, NextOK
    <3>3. recv_buf = <<>> /\ Len(recv_buf) = 0
      <4>1. Me = session.port /\ session.port # 0
        BY <1>1, <3>2 DEF BlockOK
      <4>2. Stream = <<>>
        BY <3>2, <4>1 DEF IInv, StreamInv
      <4>3. Stream = session.read \o recv_buf
        BY <4>1 DEF Stream, Me
      <4>4. session.read \in Seq(Nat) /\ recv_buf \in Seq(Nat)
        BY <1>1 DEF TypeOK, SessionBlock
      <4>5. Len(recv_buf) = 0
        <5>1. Len(session.read \o recv_buf) = Len(session.read) + Len(recv_buf)
          BY <4>4, ConcatProperties
        <5>2. Len(session.read) \in Nat /\ Len(recv_buf) \in Nat
          BY <4>4, LenProperties
        <5>3. Len(session.read \o recv_buf) = 0
          BY <4>2, <4>3, EmptySeq
        <5> QED
          BY <5>1, <5>2, <5>3
      <4> QED
        BY <4>4, <4>5, EmptySeq
    <3>4. RecvCap \in Nat
      BY <1>1, SceneFacts
    <3>5. /\ peer'[Me'].nxt = 0 /\ ~peer'[Me'].fin /\ peer'[Me'].una = 0 /\ peer'[Me'].edge = m.window
      BY <1>3, <1>5, <2>5
    <3>6. /\ D' <= peer'[Me'].nxt + (IF peer'[Me'].fin THEN 2 ELSE 1)
          /\ peer'[Me'].una + 1 <= D'
          /\ peer'[Me'].edge + 1 + Len(recv_buf') <= D' + RecvCap
      BY <1>1, <1>9, <2>4, <3>1, <3>2, <3>3, <3>4, <3>5
    <3>7. \A k \in wire_out' : (k.segment.port = Me' /\ Plain(k)') => Heard(k)'
      BY <2>2, <2>3, <2>4, <2>10 DEF Heard
    <3> QED
      BY <3>6, <3>7 DEF RoomOK
  <2> QED
    BY <2>11, <2>12, <2>13 DEF RecvInv
<1> QED
  BY <1>1, <1>3, <1>11, <1>12, <1>13, <1>15, PortStep

\* What an acknowledgement a with the window w moves.
AckMoves(x, y, a, w) ==
    \/ y.una = x.una /\ y.edge = x.edge
    \/ /\ 1 <= a /\ a <= x.nxt + 2
       /\ y.una \in {x.una, a - 1} /\ y.edge \in {x.edge, a - 1 + w} /\ x.edge <= y.edge
SameBut(x, y) ==
    /\ y.state = x.state /\ y.irs = x.irs /\ y.nxt = x.nxt /\ y.fin = x.fin /\ y.probed = x.probed

LEMMA TakesAckIs ==
    ASSUME scene \in Scenes, NEW p \in Port, NEW x \in PeerBlock, NEW m, m.segment \in Segments,
           m.window \in Nat, x.nxt <= scene.peerMax, NEW y, y = TakesAck(p, x, m)
    PROVE  /\ y \in PeerBlock /\ SameBut(x, y) /\ y.rcvd = x.rcvd /\ y.eof = x.eof
           /\ AckMoves(x, y, Distance(PeerIss[p], m.segment.ack), m.window)
<1> DEFINE acked == Distance(Plus(PeerIss[p], 1), m.segment.ack)
           una == IF acked > x.una THEN acked ELSE x.una
           edge == IF acked + m.window > x.edge THEN acked + m.window ELSE x.edge
           a == Distance(PeerIss[p], m.segment.ack)
<1>1. /\ PeerIss[p] \in Seqno /\ m.segment.ack \in Seqno /\ SeqMod \in Nat \ {0}
      /\ SeqMod > 2 * (SpaceMax + scene.peerMax + 2) /\ SpaceMax \in Nat /\ scene.peerMax \in Nat
  <2>1. /\ PeerIss \in [Port -> Seqno] /\ SeqMod \in Nat \ {0}
        /\ SeqMod > 2 * (SpaceMax + scene.peerMax + 2) /\ SpaceMax \in Nat /\ scene.peerMax \in Nat
    BY SceneFacts
  <2>2. m.segment.ack \in Seqno
    BY DEF Segments
  <2> QED
    BY <2>1, <2>2
<1>2. x.nxt \in Nat /\ x.una \in Nat /\ x.edge \in Nat
  BY DEF PeerBlock
<1>3. acked \in Nat /\ a \in Nat /\ (a = 0 => acked > x.nxt + 1) /\ (1 <= a => acked = a - 1)
  <2>1. Plus(PeerIss[p], 1) \in Seqno /\ Distance(PeerIss[p], Plus(PeerIss[p], 1)) = 1
    <3>1. 1 \in Seqno
      BY SmallNumbers
    <3> QED
      BY <1>1, <3>1, PlusDistance
  <2> DEFINE q == Plus(PeerIss[p], 1)
  <2> HIDE DEF q
  <2>2. Distance(q, m.segment.ack) = IF Distance(PeerIss[p], q) <= a THEN a - Distance(PeerIss[p], q)
                                     ELSE SeqMod - (Distance(PeerIss[p], q) - a)
    BY <1>1, <2>1, DistanceFrom DEF q
  <2>3. Distance(PeerIss[p], q) = 1 /\ a \in Nat
    BY <1>1, <2>1, DistanceNat DEF q
  <2>4. acked = IF 1 <= a THEN a - 1 ELSE SeqMod - (1 - a)
    BY <2>2, <2>3 DEF q
  <2> HIDE DEF acked, a
  <2>5. x.nxt <= scene.peerMax
    OBVIOUS
  <2> DEFINE n == x.nxt
  <2>6. n \in Nat /\ n <= scene.peerMax
    BY <1>2, <2>5
  <2> HIDE DEF n
  <2>7. acked \in Nat /\ (a = 0 => acked > n + 1) /\ (1 <= a => acked = a - 1)
    BY <1>1, <2>3, <2>4, <2>6
  <2> QED
    BY <2>3, <2>7 DEF n
<1>4. una \in Nat /\ edge \in Nat /\ x.edge <= edge
  <2> HIDE DEF acked
  <2> QED
    BY <1>2, <1>3
<1>5. CASE acked > x.nxt + 1
  <2>1. y = x
    BY <1>5 DEF TakesAck
  <2> QED
    BY <2>1 DEF SameBut, AckMoves
<1>6. CASE ~(acked > x.nxt + 1)
  <2>1. y = [x EXCEPT !.una = una, !.edge = edge]
    BY <1>6 DEF TakesAck
  <2>2. una \in {x.una, acked} /\ edge \in {x.edge, acked + m.window}
    OBVIOUS
  <2> HIDE DEF una, edge
  <2>3. /\ y \in PeerBlock /\ SameBut(x, y) /\ y.rcvd = x.rcvd /\ y.eof = x.eof /\ y.una = una
        /\ y.edge = edge
    BY <1>4, <2>1 DEF PeerBlock, SameBut
  <2> HIDE DEF acked, a
  <2>4. 1 <= a /\ acked = a - 1
    BY <1>2, <1>3, <1>6
  <2>5. a <= x.nxt + 2
    BY <1>2, <1>3, <1>6, <2>4
  <2>6. AckMoves(x, y, a, m.window)
    BY <1>4, <2>2, <2>3, <2>4, <2>5 DEF AckMoves
  <2> QED
    BY <2>3, <2>6 DEF a
<1> QED
  BY <1>5, <1>6

LEMMA RcvNxtIs ==
    ASSUME NEW p, peer[p] \in PeerBlock
    PROVE  PeerRcvNxt(p) = AckOf(peer[p])
<1> DEFINE l == Len(peer[p].rcvd)
           e == IF peer[p].eof THEN 1 ELSE 0
<1>1. l \in Nat /\ e \in Nat
  BY LenProperties DEF PeerBlock
<1>2. PeerRcvNxt(p) = Plus(peer[p].irs, 1 + l + e) /\ AckOf(peer[p]) = Plus(peer[p].irs, 1 + (l + e))
  BY DEF PeerRcvNxt, AckOf, Count
<1> HIDE DEF l, e
<1>3. 1 + l + e = 1 + (l + e)
  BY <1>1
<1> QED
  BY <1>2, <1>3

\* Data and FIN that the remote end takes or leaves.
DataMoves(p, x, y, s) ==
    \/ y.rcvd = x.rcvd /\ y.eof = x.eof
    \/ /\ s.seq = PeerRcvNxt(p) /\ ~x.eof /\ y.rcvd = x.rcvd \o s.data
       /\ y.eof = ("FIN" \in s.flags)

LEMMA TakesDataIs ==
    ASSUME NEW p, NEW x \in PeerBlock, NEW m, m.segment \in Segments,
           NEW y, y = TakesData(p, x, m)
    PROVE  /\ y \in PeerBlock /\ SameBut(x, y) /\ y.una = x.una /\ y.edge = x.edge
           /\ DataMoves(p, x, y, m.segment)
<1>1. CASE m.segment.seq = PeerRcvNxt(p) /\ ~x.eof
  <2> DEFINE r == x.rcvd \o m.segment.data
             e == "FIN" \in m.segment.flags
  <2>1. y = [x EXCEPT !.rcvd = r, !.eof = e]
    BY <1>1 DEF TakesData
  <2>2. r \in Seq(Nat) /\ e \in BOOLEAN
    BY ConcatProperties DEF PeerBlock, Segments
  <2> HIDE DEF r, e
  <2>3. /\ y \in PeerBlock /\ SameBut(x, y) /\ y.una = x.una /\ y.edge = x.edge /\ y.rcvd = r
        /\ y.eof = e
    BY <2>1, <2>2 DEF PeerBlock, SameBut
  <2> QED
    BY <1>1, <2>3 DEF r, e, DataMoves
<1>2. CASE ~(m.segment.seq = PeerRcvNxt(p) /\ ~x.eof)
  BY <1>2 DEF TakesData, SameBut, DataMoves
<1> QED
  BY <1>1, <1>2

\* What a segment that the remote end takes brings.
GotData(x, c, s) ==
    /\ ~x.eof /\ ~c.eof /\ Distance(x.irs, s.seq) = 1 + Len(x.rcvd) /\ "PSH" \in s.flags
    /\ c.rcvd = x.rcvd \o s.data /\ Len(x.rcvd) + Len(s.data) <= SpaceMax
GotFin(x, c, s) ==
    /\ ~x.eof /\ c.eof /\ Distance(x.irs, s.seq) = 1 + Len(x.rcvd) /\ "FIN" \in s.flags
    /\ c.rcvd = x.rcvd /\ Len(x.rcvd) + 1 <= SpaceMax

\* The remote end takes only what the connection it stands for was sent.
LEMMA GotIs ==
    ASSUME IInv, NEW m \in wire_out, NEW p, p = m.segment.port, p \in Port, Bound(p), NEW x \in PeerBlock,
           x.irs = peer[p].irs, x.rcvd = peer[p].rcvd, x.eof = peer[p].eof,
           NEW c \in PeerBlock, DataMoves(p, x, c, m.segment)
    PROVE  \/ c.rcvd = x.rcvd /\ c.eof = x.eof
           \/ GotData(x, c, m.segment)
           \/ GotFin(x, c, m.segment)
<1>1. /\ TypeOK /\ scene \in Scenes /\ m.segment \in Segments /\ peer[p] \in PeerBlock
      /\ drawn <= Len(scene.iss) /\ OutFine(m) /\ PeerFine(p)
  BY DEF IInv, ControlInv, TypeOK, TryOK, WireInv, OutOK, PeerOK
<1> DEFINE s == m.segment
           n == Len(x.rcvd)
           l == Len(s.data)
<1> SUFFICES ASSUME s.seq = PeerRcvNxt(p), ~x.eof, c.rcvd = x.rcvd \o s.data,
                    c.eof = ("FIN" \in s.flags), ~(c.rcvd = x.rcvd /\ c.eof = x.eof)
             PROVE  GotData(x, c, s) \/ GotFin(x, c, s)
  BY DEF DataMoves
<1>2. s.data \in Seq(Nat) /\ l \in Nat /\ n \in Nat /\ s.seq \in Seqno /\ x.rcvd \in Seq(Nat)
  BY <1>1, LenProperties DEF Segments, PeerBlock
<1>3. peer[p].irs \in Drawn /\ Count(peer[p]) = n /\ n <= SpaceMax /\ SpaceMax \in Nat
  <2>1. Count(peer[p]) = n
    BY <1>1, CountIs
  <2>2. peer[p].irs \in Drawn /\ Count(peer[p]) <= SpaceMax
    BY <1>1 DEF PeerFine, Got
  <2> QED
    BY <1>1, <2>1, <2>2, SceneFacts
<1>4. Distance(x.irs, s.seq) = 1 + n
  <2>1. s.seq = AckOf(peer[p])
    BY <1>1, RcvNxtIs
  <2>2. Distance(peer[p].irs, AckOf(peer[p])) = 1 + Count(peer[p])
    BY <1>1, <1>3, AckDistance
  <2> QED
    BY <1>3, <2>1, <2>2
<1>5. ASSUME NEW k \in Nat, Size(s) = k, "PSH" \in s.flags \/ "FIN" \in s.flags
      PROVE  n + k <= SpaceMax
  <2>1. PICK b \in Drawn : 1 <= Distance(b, s.seq) /\ Distance(b, s.seq) + Size(s) <= SpaceMax + 1
    BY <1>1, <1>5 DEF OutFine, Owned
  <2>2. b \in Seqno /\ SeqMod \in Nat \ {0}
    BY <1>1, <2>1, DrawnFacts, SceneFacts
  <2>3. Distance(b, s.seq) \in Nat
    BY <1>2, <2>2, DistanceNat
  <2> DEFINE d == Distance(b, s.seq)
             g == Distance(peer[p].irs, s.seq)
             z == Size(s)
  <2>4. d \in Nat /\ d + z <= SpaceMax + 1 /\ z = k /\ g = 1 + n /\ n \in Nat /\ n <= SpaceMax
        /\ SpaceMax \in Nat
    BY <1>2, <1>3, <1>4, <1>5, <2>1, <2>3
  <2>5. d <= SpaceMax + 1 /\ g <= SpaceMax + 1
    <3> HIDE DEF d, z, n, g
    <3> QED
      BY ONLY <2>4
  <2>6. b = peer[p].irs
    BY <1>1, <1>2, <1>3, <2>1, <2>5, SameSpace
  <2>7. d = g
    BY <2>6
  <2> HIDE DEF d, z, n, g
  <2>8. n + k <= SpaceMax
    BY ONLY <2>4, <2>7
  <2> QED
    BY <2>8 DEF n
<1>6. CASE "FIN" \in s.flags
  <2>1. s.data = <<>>
    BY <1>1, <1>6 DEF OutFine
  <2>2. Size(s) = 1
    <3> DEFINE e == IF "FIN" \in s.flags THEN 1 ELSE 0
    <3>1. l = 0 /\ e = 1 /\ Size(s) = l + e
      BY <1>6, <2>1, EmptySeq DEF Size
    <3> HIDE DEF e, l
    <3> QED
      BY ONLY <3>1
  <2>3. n + 1 <= SpaceMax
    BY <1>5, <1>6, <2>2
  <2>4. c.rcvd = x.rcvd
    BY <1>2, <2>1, ConcatEmptySeq
  <2> QED
    BY <1>4, <1>6, <2>3, <2>4 DEF GotFin
<1>7. CASE "FIN" \notin s.flags
  <2>1. ~c.eof
    BY <1>7
  <2>2. s.data # <<>>
    <3> SUFFICES ASSUME s.data = <<>> PROVE FALSE
      OBVIOUS
    <3>1. c.rcvd = x.rcvd
      BY <1>2, ConcatEmptySeq
    <3>2. c.eof = x.eof
      BY <2>1 DEF PeerBlock
    <3> QED
      BY <3>1, <3>2
  <2>3. "PSH" \in s.flags
    BY <1>1, <2>2 DEF OutFine
  <2>4. Size(s) = l
    <3> DEFINE e == IF "FIN" \in s.flags THEN 1 ELSE 0
    <3>1. e = 0 /\ Size(s) = l + e
      BY <1>7 DEF Size
    <3> HIDE DEF e, l
    <3> QED
      BY ONLY <1>2, <3>1
  <2>5. n + l <= SpaceMax
    BY <1>2, <1>5, <2>3, <2>4
  <2> QED
    BY <1>4, <2>1, <2>3, <2>5 DEF GotData
<1> QED
  BY <1>6, <1>7

LEMMA Joined ==
    ASSUME NEW a \in Seq(Nat), NEW b \in Seq(Nat), NEW c, c = a \o b
    PROVE  /\ c \in Seq(Nat) /\ Len(a) \in Nat /\ Len(b) \in Nat /\ Len(c) = Len(a) + Len(b)
           /\ \A i \in 1..Len(a) : c[i] = a[i]
           /\ \A k \in 1..Len(b) : c[Len(a) + k] = b[k]
<1> DEFINE n == Len(a)
           l == Len(b)
<1>1. n \in Nat /\ l \in Nat
  BY LenProperties
<1>2. /\ a \o b \in Seq(Nat) /\ Len(a \o b) = Len(a) + Len(b)
      /\ \A i \in 1..(Len(a) + Len(b)) : (a \o b)[i] = IF i <= Len(a) THEN a[i] ELSE b[i - Len(a)]
  BY ConcatProperties
<1>3. /\ c \in Seq(Nat) /\ Len(c) = n + l
      /\ \A i \in 1..(n + l) : c[i] = IF i <= n THEN a[i] ELSE b[i - n]
  BY <1>2
<1> HIDE DEF n, l
<1>4. \A i \in 1..n : c[i] = a[i]
  BY ONLY <1>1, <1>3
<1>5. ASSUME NEW k \in 1..l PROVE c[n + k] = b[k]
  <2> DEFINE i == n + k
  <2>1. i \in 1..(n + l) /\ ~(i <= n) /\ i - n = k
    BY ONLY <1>1, <1>5
  <2> HIDE DEF i
  <2>2. c[i] = b[i - n]
    BY ONLY <1>3, <2>1
  <2> QED
    BY ONLY <2>1, <2>2 DEF i
<1> QED
  BY <1>1, <1>3, <1>4, <1>5 DEF n, l

Brings(x, c, s) ==
    /\ Count(c) <= SpaceMax /\ Count(x) <= Count(c) /\ Len(x.rcvd) <= Len(c.rcvd)
    /\ \A i \in 1..Len(x.rcvd) : c.rcvd[i] = x.rcvd[i]
    /\ x.eof => c.eof /\ c.rcvd = x.rcvd
    /\ GotData(x, c, s) =>
          /\ Len(c.rcvd) = Len(x.rcvd) + Len(s.data) /\ Count(c) = Len(c.rcvd)
          /\ \A k \in 1..Len(s.data) : c.rcvd[Len(x.rcvd) + k] = s.data[k]
    /\ GotFin(x, c, s) => Count(c) = Len(x.rcvd) + 1

LEMMA GotCounts ==
    ASSUME scene \in Scenes, NEW x \in PeerBlock, NEW c \in PeerBlock, NEW s \in Segments,
           Count(x) <= SpaceMax,
           (c.rcvd = x.rcvd /\ c.eof = x.eof) \/ GotData(x, c, s) \/ GotFin(x, c, s)
    PROVE  Brings(x, c, s)
<1>1. /\ x.rcvd \in Seq(Nat) /\ c.rcvd \in Seq(Nat) /\ s.data \in Seq(Nat)
      /\ Len(x.rcvd) \in Nat /\ Len(c.rcvd) \in Nat /\ Len(s.data) \in Nat /\ SpaceMax \in Nat
  BY SceneFacts, LenProperties DEF PeerBlock, Segments
<1>2. /\ Count(x) \in Nat /\ Count(c) \in Nat
      /\ x.eof => Count(x) = Len(x.rcvd) + 1
      /\ ~x.eof => Count(x) = Len(x.rcvd)
      /\ c.eof => Count(c) = Len(c.rcvd) + 1
      /\ ~c.eof => Count(c) = Len(c.rcvd)
  BY CountIs
<1>3. CASE c.rcvd = x.rcvd /\ c.eof = x.eof /\ ~GotData(x, c, s) /\ ~GotFin(x, c, s)
  <2>1. Count(c) = Count(x)
    BY <1>3 DEF Count
  <2> QED
    <3>1. Count(c) <= SpaceMax /\ Count(x) <= Count(c)
      BY <1>2, <2>1
    <3>2. Len(x.rcvd) <= Len(c.rcvd) /\ \A i \in 1..Len(x.rcvd) : c.rcvd[i] = x.rcvd[i]
      BY <1>1, <1>3
    <3> QED
      BY <1>3, <3>1, <3>2 DEF Brings
<1>4. CASE GotData(x, c, s)
  <2>1. c.rcvd = x.rcvd \o s.data
    BY <1>4 DEF GotData
  <2>2. Len(c.rcvd) = Len(x.rcvd) + Len(s.data)
    BY ONLY <1>1, <2>1, Joined
  <2> DEFINE xr == x.rcvd
             sd == s.data
             cr == c.rcvd
  <2>9. xr \in Seq(Nat) /\ sd \in Seq(Nat) /\ cr = xr \o sd
    BY ONLY <1>1, <2>1
  <2> HIDE DEF xr, sd, cr
  <2>10. \A i \in 1..Len(xr) : cr[i] = xr[i]
    BY ONLY <2>9, Joined
  <2>11. \A k \in 1..Len(sd) : cr[Len(xr) + k] = sd[k]
    BY ONLY <2>9, Joined
  <2>3. \A i \in 1..Len(x.rcvd) : c.rcvd[i] = x.rcvd[i]
    BY ONLY <2>10 DEF xr, cr
  <2>4. \A k \in 1..Len(s.data) : c.rcvd[Len(x.rcvd) + k] = s.data[k]
    BY ONLY <2>11 DEF xr, cr, sd
  <2>5. ~x.eof /\ ~c.eof /\ Len(x.rcvd) + Len(s.data) <= SpaceMax
    BY <1>4 DEF GotData
  <2>6. ~GotFin(x, c, s)
    BY <2>5 DEF GotFin
  <2>7. Count(c) = Len(c.rcvd) /\ Count(x) = Len(x.rcvd)
    BY <1>2, <2>5
  <2>8. Count(c) <= SpaceMax /\ Count(x) <= Count(c) /\ Len(x.rcvd) <= Len(c.rcvd)
    <3> DEFINE n == Len(x.rcvd)
               l == Len(s.data)
               r == Len(c.rcvd)
               g == Count(c)
               h == Count(x)
    <3>1. n \in Nat /\ l \in Nat /\ r = n + l /\ g = r /\ h = n /\ n + l <= SpaceMax /\ SpaceMax \in Nat
      BY ONLY <1>1, <2>2, <2>5, <2>7
    <3> HIDE DEF n, l, r, g, h
    <3>2. g <= SpaceMax /\ h <= g /\ n <= r
      BY ONLY <3>1
    <3> QED
      BY ONLY <3>2 DEF n, r, g, h
  <2> QED
    BY ONLY <2>2, <2>3, <2>4, <2>5, <2>6, <2>7, <2>8 DEF Brings
<1>5. CASE GotFin(x, c, s)
  <2>1. ~x.eof /\ c.eof /\ c.rcvd = x.rcvd /\ Len(x.rcvd) + 1 <= SpaceMax
    BY <1>5 DEF GotFin
  <2>2. ~GotData(x, c, s)
    BY <2>1 DEF GotData
  <2>3. Count(c) = Len(x.rcvd) + 1 /\ Count(x) = Len(x.rcvd)
    BY <1>2, <2>1
  <2>4. Count(c) <= SpaceMax /\ Count(x) <= Count(c) /\ Len(x.rcvd) <= Len(c.rcvd)
    BY <1>1, <2>1, <2>3
  <2> QED
    BY <2>1, <2>2, <2>3, <2>4 DEF Brings
<1> QED
  BY <1>3, <1>4, <1>5

LEMMA GetsSend ==
    ASSUME IInv, KernelStays, NEW m \in wire_out, m.segment.port = Me, Bound(Me),
           NEW x \in PeerBlock, x = peer[Me], NEW c \in PeerBlock, peer'[Me] = c, c.state = "open",
           c.irs = x.irs,
           \/ c.rcvd = x.rcvd /\ c.eof = x.eof
           \/ GotData(x, c, m.segment)
           \/ GotFin(x, c, m.segment),
           Count(x) <= SpaceMax
    PROVE  SendInv' /\ CallInv'
<1>1. /\ TypeOK /\ TryOK /\ scene \in Scenes /\ m.segment \in Segments /\ SendInv /\ CallInv
      /\ SpaceMax \in Nat /\ SeqMod \in Nat \ {0} /\ tcp \in Control /\ call \in CallBlock
  BY SceneFacts DEF IInv, ControlInv, TypeOK
<1> DEFINE s == m.segment
           n == Len(x.rcvd)
           l == Len(s.data)
           r == Len(c.rcvd)
           g == Count(x)
           h == Count(c)
<1>2. /\ h <= SpaceMax /\ g <= h /\ n <= r
      /\ \A i \in 1..n : c.rcvd[i] = x.rcvd[i]
      /\ x.eof => c.eof /\ c.rcvd = x.rcvd
      /\ GotData(x, c, s) =>
            /\ r = n + l /\ h = r
            /\ \A k \in 1..l : c.rcvd[n + k] = s.data[k]
      /\ GotFin(x, c, s) => h = n + 1
  <2>1. Brings(x, c, s)
    BY <1>1, GotCounts
  <2> QED
    BY <2>1 DEF Brings
<1>3. n \in Nat /\ l \in Nat /\ r \in Nat /\ g \in Nat /\ h \in Nat /\ (~x.eof => g = n)
  BY <1>1, LenProperties, CountIs DEF Segments
<1>4. /\ Got(Me) = g /\ Got(Me)' = h /\ peer'[Me'] = c /\ Me' = Me
  <2>1. Me' = Me
    BY KernelSame
  <2> QED
    BY <2>1 DEF Got
<1>5. (Linked' <=> Linked) /\ (Linked => x.irs = tcp.snd_iss)
  <2>1. Bound(Me)'
    BY <1>4 DEF Bound
  <2>2. tcp' = tcp
    BY KernelSame
  <2> QED
    BY <1>4, <2>1, <2>2 DEF Linked
<1>6. /\ tcp' = tcp /\ call' = call /\ session' = session /\ wire_out' = wire_out
      /\ U' = U /\ N' = N /\ F' = F /\ ChunkData' = ChunkData
  BY KernelSame
<1>7. \A k : Off(k)' = Off(k) /\ (Mine(k)' <=> Mine(k))
  BY KernelSame
<1>8. U \in Nat /\ N \in Nat /\ F \in Nat
  BY <1>1, DistanceNat DEF U, N, F, Control, CallBlock
<1>9. ASSUME Linked, GotData(x, c, s)
      PROVE  Mine(m) /\ Off(m) = 1 + n /\ "PSH" \in s.flags /\ tcp.snd_iss # 0 /\ ~x.eof /\ ~c.eof
  <2>1. Distance(x.irs, s.seq) = 1 + n /\ "PSH" \in s.flags /\ ~x.eof /\ ~c.eof
    BY <1>9 DEF GotData
  <2>2. Off(m) = 1 + n
    BY <1>5, <1>9, <2>1 DEF Off
  <2>3. Off(m) <= SpaceMax + 1
    <3> HIDE DEF n
    <3> QED
      BY <1>1, <1>2, <1>3, <2>1, <2>2
  <2> QED
    BY <1>9, <2>1, <2>2, <2>3 DEF Mine, Linked
<1>10. ASSUME Linked, GotFin(x, c, s)
       PROVE  Mine(m) /\ Off(m) = 1 + n /\ "FIN" \in s.flags /\ tcp.snd_iss # 0 /\ ~x.eof /\ c.eof
              /\ c.rcvd = x.rcvd
  <2>1. Distance(x.irs, s.seq) = 1 + n /\ "FIN" \in s.flags /\ ~x.eof /\ c.eof /\ c.rcvd = x.rcvd
    BY <1>10 DEF GotFin
  <2>2. Off(m) = 1 + n
    BY <1>5, <1>10, <2>1 DEF Off
  <2>3. Off(m) <= SpaceMax + 1
    <3> HIDE DEF n
    <3> QED
      BY <1>1, <1>2, <1>3, <2>1, <2>2
  <2> QED
    BY <1>10, <2>1, <2>2, <2>3 DEF Mine, Linked
<1>11. ASSUME Linked, GotData(x, c, s)
       PROVE  1 + n + l <= N /\ (call.op = "close" => 1 + n + l < N)
  <2>1. /\ Off(m) + Len(m.segment.data) <= N
        /\ call.op = "close" => Off(m) + Len(m.segment.data) < N
    BY <1>1, <1>9, <1>11 DEF SendInv, SentOK
  <2> QED
    BY <1>9, <1>11, <2>1
<1>12. ASSUME Linked, GotFin(x, c, s)
       PROVE  2 + n = N /\ call.op = "close"
  <2>1. call.op = "close" /\ Off(m) + 1 = N
    BY <1>1, <1>10, <1>12 DEF SendInv, SentOK
  <2>2. Off(m) = 1 + n
    BY <1>10, <1>12
  <2> HIDE DEF n
  <2> QED
    BY <1>3, <2>1, <2>2
<1>13. NumbersOK'
  <2> SUFFICES ASSUME tcp.snd_iss # 0 PROVE NumbersOK'
    BY <1>6 DEF NumbersOK
  <2>1. /\ U <= N /\ 1 <= N /\ N <= SpaceMax + 1
        /\ U = 0 \/ (Linked /\ U <= 1 + g)
        /\ Linked => 1 + g <= N
    BY <1>1, <1>4 DEF SendInv, NumbersOK
  <2>2. Linked => 1 + h <= N
    <3> SUFFICES ASSUME Linked PROVE 1 + h <= N
      OBVIOUS
    <3>1. CASE GotData(x, c, s)
      <4>1. h = n + l /\ 1 + n + l <= N
        BY <1>2, <1>11, <3>1
      <4> HIDE DEF h, n, l
      <4> QED
        BY ONLY <1>3, <1>8, <4>1
    <3>2. CASE GotFin(x, c, s)
      <4>1. h = n + 1 /\ 2 + n = N
        BY <1>2, <1>12, <3>2
      <4> HIDE DEF h, n, l
      <4> QED
        BY ONLY <1>3, <1>8, <4>1
    <3>3. CASE c.rcvd = x.rcvd /\ c.eof = x.eof
      <4>1. h = g
        BY <3>3 DEF Count
      <4> QED
        BY <2>1, <4>1
    <3> QED
      BY <3>1, <3>2, <3>3
  <2> HIDE DEF g, h
  <2>3. U = 0 \/ (Linked /\ U <= 1 + h)
    BY <1>2, <1>3, <1>8, <2>1
  <2> QED
    BY <1>4, <1>5, <1>6, <2>1, <2>2, <2>3 DEF NumbersOK
<1>14. SentOK' /\ OpeningOK'
  BY <1>1, <1>4, <1>6, <1>7 DEF SendInv, SentOK, OpeningOK
<1>15. ClosingOK'
  <2> SUFFICES ASSUME Linked
               PROVE  /\ c.eof => call.op = "close" /\ r + 2 = N
                      /\ call.op = "close" => r + 2 <= N
    BY <1>4, <1>5, <1>6 DEF ClosingOK
  <2>1. /\ x.eof => call.op = "close" /\ n + 2 = N
        /\ call.op = "close" => n + 2 <= N
    BY <1>1 DEF SendInv, ClosingOK
  <2>2. CASE GotData(x, c, s)
    <3>1. ~c.eof /\ r = n + l /\ (call.op = "close" => 1 + n + l < N)
      BY <1>2, <1>9, <1>11, <2>2
    <3> HIDE DEF r, n, l
    <3> QED
      BY <1>3, <1>8, <3>1
  <2>3. CASE GotFin(x, c, s)
    <3>1. call.op = "close" /\ 2 + n = N /\ r = n
      BY <1>10, <1>12, <2>3
    <3> HIDE DEF r, n
    <3> QED
      BY <1>3, <1>8, <3>1
  <2>4. CASE c.rcvd = x.rcvd /\ c.eof = x.eof
    BY <2>1, <2>4
  <2> QED
    BY <2>2, <2>3, <2>4
<1>16. ChunkOK'
  <2> SUFFICES ASSUME call.op = "send" PROVE ChunkOK'
    BY <1>6 DEF ChunkOK
  <2>1. /\ 1 <= F /\ F + Len(ChunkData) = N /\ call.last = tcp.snd_nxt
        /\ call.sent + Len(ChunkData) <= call.want
        /\ N + (call.want - call.sent - Len(ChunkData)) <= SpaceMax
        /\ \A k \in wire_out : (Mine(k) /\ "PSH" \in k.segment.flags) =>
              \/ Off(k) + Len(k.segment.data) <= F
              \/ Off(k) = F /\ k.segment.data = ChunkData
        /\ Linked => \/ 1 + n <= F
                     \/ /\ 1 + n = N
                        /\ \A k \in 1..Len(ChunkData) : x.rcvd[F + k - 1] = ChunkData[k]
    BY <1>1 DEF CallInv, ChunkOK
  <2>2. Linked => \/ 1 + r <= F
                  \/ /\ 1 + r = N
                     /\ \A k \in 1..Len(ChunkData) : c.rcvd[F + k - 1] = ChunkData[k]
    <3> SUFFICES ASSUME Linked
                 PROVE  \/ 1 + r <= F
                        \/ /\ 1 + r = N
                           /\ \A k \in 1..Len(ChunkData) : c.rcvd[F + k - 1] = ChunkData[k]
      OBVIOUS
    <3>1. CASE GotData(x, c, s)
      <4>1. \/ 1 + n + l <= F
            \/ 1 + n = F /\ s.data = ChunkData
        BY <1>9, <2>1, <3>1
      <4>2. r = n + l /\ \A k \in 1..l : c.rcvd[n + k] = s.data[k]
        BY <1>2, <3>1
      <4>3. CASE 1 + n + l <= F
        <5> HIDE DEF r, n, l
        <5>1. 1 + r <= F
          BY ONLY <1>3, <1>8, <4>2, <4>3
        <5> QED
          BY <5>1
      <4>4. CASE 1 + n = F /\ s.data = ChunkData
        <5>1. F + l = N
          BY <2>1, <4>4
        <5>2. 1 + r = N
          <6> HIDE DEF r, n, l
          <6> QED
            BY ONLY <1>3, <1>8, <4>2, <4>4, <5>1
        <5>3. ASSUME NEW k \in 1..Len(ChunkData) PROVE c.rcvd[F + k - 1] = ChunkData[k]
          <6>1. k \in 1..l /\ s.data[k] = ChunkData[k]
            BY <4>4
          <6>2. F + k - 1 = n + k
            <7> HIDE DEF n, l
            <7> QED
              BY <1>3, <1>8, <4>4, <6>1
          <6> QED
            BY <4>2, <6>1, <6>2
        <5> QED
          BY <5>2, <5>3
      <4> QED
        BY <4>1, <4>3, <4>4
    <3>2. CASE GotFin(x, c, s)
      BY <1>12, <3>2
    <3>3. CASE c.rcvd = x.rcvd /\ c.eof = x.eof
      BY <2>1, <3>3
    <3> QED
      BY <3>1, <3>2, <3>3
  <2> QED
    BY <1>4, <1>5, <1>6, <1>7, <2>1, <2>2 DEF ChunkOK
<1>17. CountOK'
  <2> SUFFICES ASSUME call.op = "send", NEW k \in 1..call.sent
               PROVE  \E i \in 1..r : c.rcvd[i] = session.taken + k
    BY <1>4, <1>6 DEF CountOK
  <2>1. PICK i \in 1..n : x.rcvd[i] = session.taken + k
    BY <1>1 DEF CallInv, CountOK
  <2>2. i \in 1..r
    <3> HIDE DEF n, r
    <3> QED
      BY <1>2, <1>3
  <2> QED
    BY <1>2, <2>1, <2>2
<1>18. EndOK' /\ NewOK'
  BY <1>1, <1>2, <1>4, <1>6 DEF CallInv, EndOK, NewOK
<1> QED
  BY <1>13, <1>14, <1>15, <1>16, <1>17, <1>18 DEF SendInv, CallInv

LEMMA GetsRecv ==
    ASSUME IInv, KernelStays, NEW m \in wire_out, m.segment.port = Me, Plain(m), Bound(Me),
           NEW x \in PeerBlock, x = peer[Me],
           x.state = "open" \/ m.segment.ack = Plus(PeerIss[Me], 1),
           NEW c \in PeerBlock, peer'[Me] = c, c.state = "open", c.irs = x.irs, c.nxt = x.nxt,
           c.fin = x.fin, AckMoves(x, c, Distance(PeerIss[Me], m.segment.ack), m.window)
    PROVE  RecvInv'
<1>1. /\ TypeOK /\ scene \in Scenes /\ m.segment \in Segments /\ RecvInv /\ SeqMod \in Nat \ {0}
      /\ tcp \in Control /\ m.window \in Nat /\ RecvCap \in Nat /\ scene.peerMax \in Nat
      /\ x.nxt <= scene.peerMax
  <2>1. Me \in Port
    <3>1. m.segment \in Segments
      BY DEF IInv, ControlInv, TypeOK
    <3> QED
      BY <3>1 DEF Segments
  <2> QED
    BY <2>1, SceneFacts DEF IInv, ControlInv, TypeOK, WireInv, PeerOK, PeerFine
<1> DEFINE A == Distance(PeerIss[Me], m.segment.ack)
           d == D
           l == Len(recv_buf)
           w == m.window
<1>2. Me \in Port /\ Me \in scene.ports /\ PeerIss[Me] \in Seqno /\ m.segment.ack \in Seqno
  <2>1. Me \in scene.ports
    BY DEF IInv, WireInv, OutOK, OutFine
  <2>2. Me \in Port /\ PeerIss \in [Port -> Seqno]
    BY <1>1, <2>1, SceneFacts
  <2> QED
    BY <1>1, <2>1, <2>2 DEF Segments
<1>3. A \in Nat /\ d \in Nat /\ l \in Nat
  <2>1. tcp.rcv_nxt \in Seqno
    BY <1>1 DEF Control
  <2> QED
    BY <1>1, <1>2, <2>1, DistanceNat, LenProperties DEF D, TypeOK
<1>4. Void(m) => A > scene.peerMax + 2
  BY <1>1, <1>2, VoidFar DEF Void
<1>5. /\ peer'[Me'] = c /\ Me' = Me /\ tcp' = tcp /\ recv_buf' = recv_buf /\ session' = session
      /\ wire_out' = wire_out /\ D' = D /\ (Live' <=> Live) /\ (Open' <=> Open)
  BY KernelSame
<1>6. \A k : (Plain(k)' <=> Plain(k)) /\ (Void(k)' <=> Void(k)) /\ (Heard(k)' <=> Heard(k))
  BY KernelSame
<1>7. Linked' <=> Linked
  <2>1. Bound(Me)'
    BY <1>5 DEF Bound
  <2> QED
    BY <1>5, <2>1 DEF Linked
<1>8. FreshOK'
  <2>1. ~(tcp.state = "SYN_SENT" /\ Linked)
    <3> SUFFICES ASSUME tcp.state = "SYN_SENT", Linked PROVE FALSE
      OBVIOUS
    <3>1. x.state # "open" /\ Void(m)
      BY <1>1 DEF RecvInv, FreshOK
    <3>2. A = 1
      <4>1. 1 \in Seqno
        BY <1>1, SmallNumbers
      <4> QED
        BY <1>1, <1>2, <3>1, <4>1, PlusDistance
    <3> HIDE DEF A
    <3> QED
      BY <1>1, <1>4, <3>1, <3>2
  <2> QED
    BY <1>1, <1>5, <1>7, <2>1 DEF RecvInv, FreshOK
<1>9. NextOK'
  BY <1>1, <1>5, <1>7 DEF RecvInv, NextOK
<1>10. RoomOK'
  <2> SUFFICES ASSUME Live, ~session.overtaken, Linked PROVE RoomOK'
    BY <1>5, <1>7 DEF RoomOK
  <2>1. /\ d <= x.nxt + (IF x.fin THEN 2 ELSE 1)
        /\ x.una + 1 <= d
        /\ x.edge + 1 + l <= d + RecvCap
        /\ \A k \in wire_out : (k.segment.port = Me /\ Plain(k)) => Heard(k)
    BY <1>1 DEF RecvInv, RoomOK
  <2>2. Heard(m)
    BY <2>1
  <2>3. Void(m) \/ (1 <= A /\ A <= d /\ A + w + l <= d + RecvCap)
    BY <2>2 DEF Heard
  <2>4. c.una + 1 <= d /\ c.edge + 1 + l <= d + RecvCap
    <3> DEFINE u == c.una
               e == c.edge
               u0 == x.una
               e0 == x.edge
               n == x.nxt
    <3>1. u \in Nat /\ e \in Nat /\ u0 \in Nat /\ e0 \in Nat /\ n \in Nat /\ n <= scene.peerMax
      BY <1>1 DEF PeerBlock
    <3>2. \/ u = u0 /\ e = e0
          \/ 1 <= A /\ A <= n + 2 /\ u \in {u0, A - 1} /\ e \in {e0, A - 1 + w}
      BY DEF AckMoves
    <3>3. u0 + 1 <= d /\ e0 + 1 + l <= d + RecvCap
      BY <2>1
    <3>4. w \in Nat
      BY <1>1
    <3> HIDE DEF u, e, u0, e0, n, A, d, l, w
    <3>5. CASE u = u0 /\ e = e0
      BY <3>3, <3>5 DEF u, e
    <3>6. CASE 1 <= A /\ A <= n + 2 /\ u \in {u0, A - 1} /\ e \in {e0, A - 1 + w}
      <4>1. ~Void(m)
        BY <1>1, <1>3, <1>4, <3>1, <3>6
      <4>2. A <= d /\ A + w + l <= d + RecvCap
        BY <2>3, <4>1
      <4>3. u + 1 <= d /\ e + 1 + l <= d + RecvCap
        BY ONLY <1>1, <1>3, <3>1, <3>3, <3>4, <3>6, <4>2
      <4> QED
        BY <4>3 DEF u, e
    <3> QED
      BY <3>2, <3>5, <3>6
  <2>5. c.nxt + (IF c.fin THEN 2 ELSE 1) = x.nxt + (IF x.fin THEN 2 ELSE 1)
    OBVIOUS
  <2> QED
    BY <1>5, <1>6, <2>1, <2>4, <2>5 DEF RoomOK
<1> QED
  BY <1>8, <1>9, <1>10 DEF RecvInv

\* A segment of the open connection at the remote end.
LEMMA GetsStep ==
    ASSUME IInv, scene' = scene, UNCHANGED <<kernel, wire_out, session>>, NEW m \in wire_out,
           Plain(m), NEW p \in scene.ports, p = m.segment.port,
           \/ peer[p].state = "open"
           \/ peer[p].state = "syn_rcvd" /\ m.segment.ack = Plus(PeerIss[p], 1),
           NEW c, c = TakesData(p, TakesAck(p, [peer[p] EXCEPT !.state = "open"], m), m),
           peer' = [peer EXCEPT ![p] = c],
           wire_in' = wire_in \/ wire_in' = wire_in \cup {PureAck(p, c)}
    PROVE  IInv'
<1>1. /\ ControlInv /\ TypeOK /\ BlockOK /\ TryOK /\ p \in Port /\ scene \in Scenes
      /\ peer \in [Port -> PeerBlock] /\ wire_in \subseteq Segments /\ m.segment \in Segments
      /\ m.window \in Nat /\ SpaceMax \in Nat
  BY SceneFacts DEF IInv, ControlInv, TypeOK
<1>2. PICK x \in PeerBlock : x = peer[p]
  BY <1>1
<1>3. PICK y : y = [x EXCEPT !.state = "open"]
  OBVIOUS
<1>4. /\ y \in PeerBlock /\ y.state = "open" /\ y.irs = x.irs /\ y.nxt = x.nxt /\ y.una = x.una
      /\ y.edge = x.edge /\ y.rcvd = x.rcvd /\ y.fin = x.fin /\ y.eof = x.eof
      /\ y.probed = x.probed
  BY <1>2, <1>3 DEF PeerBlock
<1>5. PICK z : z = TakesAck(p, y, m)
  OBVIOUS
<1>6. PeerFine(p) /\ Bound(p) /\ x.nxt <= scene.peerMax /\ Count(x) <= SpaceMax
  BY <1>1, <1>2 DEF IInv, WireInv, PeerOK, PeerFine, Bound, Got
<1>7. /\ z \in PeerBlock /\ SameBut(y, z) /\ z.rcvd = y.rcvd /\ z.eof = y.eof
      /\ AckMoves(y, z, Distance(PeerIss[p], m.segment.ack), m.window)
  BY <1>1, <1>4, <1>5, <1>6, TakesAckIs
<1>8. c = TakesData(p, z, m)
  BY <1>2, <1>3, <1>5
<1>9. /\ c \in PeerBlock /\ SameBut(z, c) /\ c.una = z.una /\ c.edge = z.edge
      /\ DataMoves(p, z, c, m.segment)
  BY <1>1, <1>7, <1>8, TakesDataIs
<1>10. /\ c.state = "open" /\ c.irs = x.irs /\ c.nxt = x.nxt /\ c.fin = x.fin /\ c.probed = x.probed
  BY <1>4, <1>7, <1>9 DEF SameBut
<1>11. AckMoves(x, c, Distance(PeerIss[p], m.segment.ack), m.window)
  <2>1. y.una = x.una /\ y.edge = x.edge /\ y.nxt = x.nxt /\ c.una = z.una /\ c.edge = z.edge
    BY <1>4, <1>9
  <2> QED
    BY <1>7, <2>1 DEF AckMoves
<1>12. \/ c.rcvd = x.rcvd /\ c.eof = x.eof
       \/ GotData(x, c, m.segment)
       \/ GotFin(x, c, m.segment)
  <2>1. z.irs = x.irs /\ z.rcvd = x.rcvd /\ z.eof = x.eof
    BY <1>4, <1>7 DEF SameBut
  <2>2. \/ c.rcvd = z.rcvd /\ c.eof = z.eof
        \/ GotData(z, c, m.segment)
        \/ GotFin(z, c, m.segment)
    BY <1>1, <1>2, <1>6, <1>7, <1>9, <2>1, GotIs
  <2> QED
    BY <2>1, <2>2 DEF GotData, GotFin
<1>13. Brings(x, c, m.segment)
  BY <1>1, <1>2, <1>6, <1>9, <1>12, GotCounts
<1>14. peer'[p] = c /\ peer' \in [Port -> PeerBlock] /\ Bound(p)'
  BY <1>1, <1>9, <1>10 DEF Bound
<1>15. KernelStays
  BY <1>1 DEF KernelStays, kernel
<1>16. Grows(p)
  <2>1. x.nxt \in Nat
    BY <1>2 DEF PeerBlock
  <2> QED
    <3>1. /\ Len(x.rcvd) <= Len(c.rcvd) /\ \A i \in 1..Len(x.rcvd) : c.rcvd[i] = x.rcvd[i]
          /\ x.eof => c.eof /\ c.rcvd = x.rcvd
      BY <1>13 DEF Brings
    <3>2. /\ Len(peer[p].rcvd) <= Len(peer'[p].rcvd)
          /\ \A i \in 1..Len(peer[p].rcvd) : peer'[p].rcvd[i] = peer[p].rcvd[i]
          /\ peer[p].eof => peer'[p].eof /\ peer'[p].rcvd = peer[p].rcvd
      BY <1>2, <1>14, <3>1
    <3>3. /\ peer'[p].irs = peer[p].irs /\ peer'[p].fin = peer[p].fin
          /\ peer'[p].nxt = peer[p].nxt /\ peer[p].nxt <= peer'[p].nxt
          /\ peer'[p].probed = peer[p].probed
      BY <1>2, <1>10, <1>14, <2>1
    <3> QED
      BY <1>14, <3>2, <3>3 DEF Grows
<1>17. PeerFine(p)'
  <2>1. scene' = scene /\ Drawn' = Drawn /\ scene.peerMax \in Nat
    BY <1>1, <1>15, KernelSame, SceneFacts
  <2>2. peer'[p].irs \in Drawn' /\ Got(p)' <= SpaceMax
    <3>1. x.irs \in Drawn
      BY <1>2, <1>6 DEF PeerFine
    <3>2. Got(p)' = Count(c)
      BY <1>14 DEF Got
    <3> QED
      BY <1>10, <1>13, <1>14, <2>1, <3>1, <3>2, SMTT(30) DEF Brings
  <2>3. /\ c.nxt <= scene.peerMax /\ c.una <= c.nxt + 1 /\ (~c.probed => c.nxt <= c.edge)
    <3>1. x.una <= x.nxt + 1 /\ (~x.probed => x.nxt <= x.edge)
      BY <1>2, <1>6 DEF PeerFine
    <3>2. x.nxt \in Nat /\ x.una \in Nat /\ x.edge \in Nat /\ c.una \in Nat /\ c.edge \in Nat
      BY <1>9 DEF PeerBlock
    <3>3. c.una <= x.nxt + 1 /\ x.edge <= c.edge
      <4> DEFINE a == Distance(PeerIss[p], m.segment.ack)
      <4>1. a \in Nat
        <5>1. PeerIss \in [Port -> Seqno] /\ SeqMod \in Nat \ {0} /\ m.segment.ack \in Seqno
          BY <1>1, SceneFacts DEF Segments
        <5> QED
          BY <1>1, <5>1, DistanceNat
      <4> HIDE DEF a
      <4>2. AckMoves(x, c, a, m.window)
        BY <1>11 DEF a
      <4> QED
        BY <3>1, <3>2, <4>1, <4>2 DEF AckMoves
    <3> QED
      BY <1>6, <1>10, <3>1, <3>2, <3>3
  <2>4. peer'[p].state = "open"
    BY <1>10, <1>14
  <2> QED
    BY <1>14, <2>1, <2>2, <2>3, <2>4 DEF PeerFine
<1>18. wire_in' \subseteq Segments /\ \A s \in wire_in' : s \in wire_in \/ InFine(s)'
  <2>1. PICK s : s = PureAck(p, c)
    OBVIOUS
  <2>2. c.irs = peer'[p].irs /\ Count(c) = Got(p)' /\ Count(c) <= SpaceMax
    BY <1>13, <1>14 DEF Got, Brings
  <2>3. s \in Segments /\ InFine(s)'
    BY <1>1, <1>9, <1>14, <2>1, <2>2, PureAckFine
  <2> QED
    BY <1>1, <2>1, <2>3
<1>19. p = Me => SendInv' /\ CallInv'
  BY <1>2, <1>6, <1>9, <1>10, <1>12, <1>14, <1>15, GetsSend, ZenonT(30)
<1>20. ASSUME p = Me PROVE RecvInv'
  <2>1. x.state = "open" \/ m.segment.ack = Plus(PeerIss[Me], 1)
    BY <1>2, <1>20
  <2>2. /\ m.segment.port = Me /\ Bound(Me) /\ x = peer[Me] /\ peer'[Me] = c
        /\ AckMoves(x, c, Distance(PeerIss[Me], m.segment.ack), m.window)
    BY <1>2, <1>6, <1>11, <1>14, <1>20
  <2> QED
    BY <1>9, <1>10, <1>15, <2>1, <2>2, GetsRecv
<1>21. c.nxt = peer[p].nxt
  BY <1>2, <1>10
<1> QED
  BY <1>9, <1>16, <1>17, <1>18, <1>19, <1>20, <1>21, PortStep

\* The remote end sends: it has sent more, and nothing else of it changes.
LEMMA SendsStep ==
    ASSUME IInv, scene' = scene, UNCHANGED <<kernel, wire_out, session>>, NEW p \in scene.ports,
           NEW x, x = peer[p], x.state = "open", NEW c \in PeerBlock, peer' = [peer EXCEPT ![p] = c],
           c.state = x.state, c.irs = x.irs, c.rcvd = x.rcvd, c.eof = x.eof, c.una = x.una,
           c.edge = x.edge, x.nxt <= c.nxt, x.fin => c.fin /\ c.nxt = x.nxt, x.probed => c.probed,
           c.nxt <= scene.peerMax, ~c.probed => c.nxt <= c.edge,
           NEW flags \in Flags, "ACK" \in flags, "SYN" \notin flags,
           NEW i \in 1..(scene.peerMax + 1), NEW j \in Nat, i <= j + 1, j <= c.nxt,
           "FIN" \in flags => c.fin /\ j = c.nxt,
           NEW s, s = FromPeer(p, x, flags, i, j), wire_in' = wire_in \cup {s}
    PROVE  IInv'
<1>1. /\ ControlInv /\ TypeOK /\ BlockOK /\ TryOK /\ p \in Port /\ scene \in Scenes
      /\ peer \in [Port -> PeerBlock] /\ wire_in \subseteq Segments /\ x \in PeerBlock
  BY SceneFacts DEF IInv, ControlInv, TypeOK
<1>2. PeerFine(p) /\ Bound(p) /\ Count(x) <= SpaceMax
  BY <1>1 DEF IInv, WireInv, PeerOK, PeerFine, Bound, Got
<1>3. peer'[p] = c /\ peer' \in [Port -> PeerBlock] /\ Bound(p)'
  BY <1>1 DEF Bound
<1>4. KernelStays
  BY <1>1 DEF KernelStays, kernel
<1>5. Count(c) = Count(x) /\ Got(p)' = Count(c)
  BY <1>3 DEF Got, Count
<1>6. Grows(p)
  <2>1. Len(peer[p].rcvd) \in Nat
    BY <1>1, LenProperties DEF PeerBlock
  <2> QED
    BY <1>3, <2>1 DEF Grows
<1>7. PeerFine(p)'
  <2>1. scene' = scene /\ Drawn' = Drawn
    BY <1>4, KernelSame
  <2>2. peer'[p].irs \in Drawn' /\ Got(p)' <= SpaceMax
    BY <1>2, <1>3, <1>5, <2>1 DEF PeerFine
  <2>3. c.una <= c.nxt + 1
    <3>1. x.una <= x.nxt + 1
      BY <1>2 DEF PeerFine
    <3>2. x.nxt \in Nat /\ x.una \in Nat /\ c.nxt \in Nat
      BY <1>1 DEF PeerBlock
    <3> QED
      BY <3>1, <3>2
  <2> QED
    BY <1>3, <2>1, <2>2, <2>3 DEF PeerFine
<1>8. wire_in' \subseteq Segments /\ \A k \in wire_in' : k \in wire_in \/ InFine(k)'
  <2>1. /\ x.irs = peer'[p].irs /\ Count(x) = Got(p)' /\ j <= peer'[p].nxt
        /\ "FIN" \in flags => peer'[p].fin /\ j = peer'[p].nxt
    BY <1>3, <1>5
  <2>2. s \in Segments /\ InFine(s)'
    BY <1>1, <1>2, <1>3, <2>1, FromPeerFine
  <2> QED
    BY <1>1, <2>2
<1>9. p = Me => SendInv' /\ CallInv'
  <2> SUFFICES ASSUME p = Me PROVE SendInv' /\ CallInv'
    OBVIOUS
  <2>1. Me' = Me
    BY <1>4, KernelSame
  <2>2. /\ Bound(Me)' <=> Bound(Me)
        /\ peer'[Me].irs = peer[Me].irs /\ peer'[Me].rcvd = peer[Me].rcvd
        /\ peer'[Me].eof = peer[Me].eof
    BY <1>2, <1>3, <2>1 DEF Bound
  <2> QED
    BY <1>1, <1>4, <2>2, SendKept DEF IInv
<1>10. ASSUME p = Me, Live, ~session.overtaken
       PROVE  /\ D \in Nat
              /\ Linked => D <= x.nxt + (IF x.fin THEN 2 ELSE 1)
              /\ ~x.fin => D <= x.nxt + 1
  <2>1. D \in Nat
    <3>1. PeerIss \in [Port -> Seqno] /\ SeqMod \in Nat \ {0} /\ tcp.rcv_nxt \in Seqno
      BY <1>1, SceneFacts DEF TypeOK, Control
    <3>2. PeerIss[Me] \in Seqno
      BY <1>1, <1>10, <3>1
    <3> QED
      BY <3>1, <3>2, DistanceNat DEF D
  <2>2. Linked => D <= x.nxt + (IF x.fin THEN 2 ELSE 1)
    BY <1>10 DEF IInv, RecvInv, RoomOK
  <2>3. ~x.fin => D <= x.nxt + 1
    <3>1. CASE Linked
      BY <2>2, <3>1
    <3>2. CASE ~Linked
      <4>1. tcp.state = "SYN_RECEIVED" /\ D = 1
        BY <1>10, <3>2 DEF IInv, RecvInv, NextOK, Live
      <4>2. x.nxt \in Nat
        BY <1>1 DEF PeerBlock
      <4> QED
        BY <4>1, <4>2
    <3> QED
      BY <3>1, <3>2
  <2> QED
    BY <2>1, <2>2, <2>3
<1>11. ASSUME p = Me PROVE RecvInv'
  <2>1. /\ peer'[Me'] = c /\ Me' = Me /\ tcp' = tcp /\ recv_buf' = recv_buf /\ session' = session
        /\ wire_out' = wire_out /\ D' = D /\ (Live' <=> Live) /\ (Open' <=> Open)
    BY <1>3, <1>4, <1>11, KernelSame
  <2>2. \A k : (Plain(k)' <=> Plain(k)) /\ (Void(k)' <=> Void(k)) /\ (Heard(k)' <=> Heard(k))
    BY <1>4, KernelSame
  <2>3. Linked' <=> Linked
    <3>1. Bound(Me)' /\ Bound(Me)
      BY <1>2, <1>3, <1>11, <2>1 DEF Bound
    <3> QED
      BY <1>11, <2>1, <3>1 DEF Linked
  <2>4. FreshOK' /\ NextOK'
    <3>1. ~(tcp.state = "SYN_SENT" /\ Linked)
      BY <1>11 DEF IInv, RecvInv, FreshOK
    <3> QED
      BY <2>1, <2>3, <3>1 DEF IInv, RecvInv, FreshOK, NextOK
  <2>5. RoomOK'
    <3> SUFFICES ASSUME Live, ~session.overtaken, Linked PROVE RoomOK'
      BY <2>1, <2>3 DEF RoomOK
    <3>1. /\ x.una + 1 <= D
          /\ x.edge + 1 + Len(recv_buf) <= D + RecvCap
          /\ \A k \in wire_out : (k.segment.port = Me /\ Plain(k)) => Heard(k)
      BY <1>11 DEF IInv, RecvInv, RoomOK
    <3>2. D <= c.nxt + (IF c.fin THEN 2 ELSE 1)
      <4> DEFINE d == D
                 n == x.nxt
                 n2 == c.nxt
      <4>1. d \in Nat /\ n \in Nat /\ n2 \in Nat /\ n <= n2
        BY <1>1, <1>10, <1>11 DEF PeerBlock
      <4>2. (x.fin => c.fin /\ n2 = n /\ d <= n + 2) /\ (~x.fin => d <= n + 1)
        BY <1>10, <1>11
      <4> HIDE DEF d, n, n2
      <4>3. d <= n2 + (IF c.fin THEN 2 ELSE 1)
        <5>1. CASE x.fin
          BY <4>1, <4>2, <5>1
        <5>2. CASE ~x.fin /\ c.fin
          BY <4>1, <4>2, <5>2
        <5>3. CASE ~x.fin /\ ~c.fin
          BY <4>1, <4>2, <5>3
        <5> QED
          BY <5>1, <5>2, <5>3
      <4> QED
        BY <4>3 DEF d, n2
    <3> QED
      BY <2>1, <2>2, <3>1, <3>2 DEF RoomOK
  <2> QED
    BY <2>4, <2>5 DEF RecvInv
<1>12. (Live /\ ~session.overtaken /\ p = Me /\ ~c.probed) =>
           \/ c.nxt = peer[p].nxt
           \/ D <= peer[p].nxt + 1 /\ peer[p].nxt <= c.nxt
  BY <1>10
<1> QED
  BY <1>6, <1>7, <1>8, <1>9, <1>11, <1>12, PortStep

LEMMA PeerSendsStep ==
    ASSUME IInv, scene' = scene, NEW p \in scene.ports, NEW a \in 1..scene.peerMax,
           NEW b \in 1..scene.peerMax, peer_sends(p, a, b)
    PROVE  IInv'
<1>1. scene \in Scenes /\ peer \in [Port -> PeerBlock] /\ p \in Port /\ scene.peerMax \in Nat
  BY SceneFacts DEF IInv, ControlInv, TypeOK
<1>2. PICK x \in PeerBlock : x = peer[p]
  BY <1>1
<1>9. PICK i \in 1..(scene.peerMax + 1) : i = a
  BY <1>1
<1>10. PICK j \in Nat : j = b
  BY <1>1
<1>3. PICK c : c = [x EXCEPT !.nxt = j]
  OBVIOUS
<1>4. /\ c \in PeerBlock /\ c.state = x.state /\ c.irs = x.irs /\ c.rcvd = x.rcvd /\ c.eof = x.eof
      /\ c.una = x.una /\ c.edge = x.edge /\ c.nxt = j /\ c.fin = x.fin /\ c.probed = x.probed
  BY ONLY <1>2, <1>3, <1>10 DEF PeerBlock
<1>5. PICK f : f = {"ACK"}
  OBVIOUS
<1>6. PICK s : s = FromPeer(p, x, f, i, j)
  OBVIOUS
<1>7. /\ x.state = "open" /\ ~x.fin /\ a <= b /\ x.nxt <= b /\ b <= scene.peerMax /\ b <= x.edge
      /\ peer' = [peer EXCEPT ![p] = c] /\ wire_in' = wire_in \cup {s}
      /\ UNCHANGED <<kernel, wire_out, session>>
  BY <1>2, <1>3, <1>5, <1>6, <1>9, <1>10 DEF peer_sends, Answers
<1>8. f \in Flags /\ "ACK" \in f /\ "SYN" \notin f /\ "FIN" \notin f
  BY <1>5 DEF Flags
<1>11. i <= j + 1 /\ j <= c.nxt /\ x.nxt <= c.nxt /\ c.nxt <= scene.peerMax /\ c.nxt <= c.edge
  BY <1>1, <1>4, <1>7, <1>9, <1>10
<1> QED
  BY <1>2, <1>4, <1>6, <1>7, <1>8, <1>11, SendsStep

LEMMA PeerProbesStep ==
    ASSUME IInv, scene' = scene, NEW p \in scene.ports, peer_probes(p)
    PROVE  IInv'
<1>1. scene \in Scenes /\ peer \in [Port -> PeerBlock] /\ p \in Port /\ scene.peerMax \in Nat
  BY SceneFacts DEF IInv, ControlInv, TypeOK
<1>2. PICK x \in PeerBlock : x = peer[p]
  BY <1>1
<1>3. x.nxt \in Nat
  BY DEF PeerBlock
<1>10. PICK j \in Nat : j = x.nxt + 1
  BY <1>3
<1>4. PICK c : c = [x EXCEPT !.nxt = j, !.probed = TRUE]
  OBVIOUS
<1>5. /\ c \in PeerBlock /\ c.state = x.state /\ c.irs = x.irs /\ c.rcvd = x.rcvd /\ c.eof = x.eof
      /\ c.una = x.una /\ c.edge = x.edge /\ c.nxt = j /\ c.fin = x.fin /\ c.probed
  <2>1. x \in PeerBlock /\ j \in Nat
    BY <1>2, <1>10
  <2> QED
    BY ONLY <2>1, <1>4 DEF PeerBlock
<1>6. PICK f : f = {"ACK"}
  OBVIOUS
<1>7. PICK s : s = FromPeer(p, x, f, j, j)
  OBVIOUS
<1>8. /\ x.state = "open" /\ ~x.fin /\ x.nxt < scene.peerMax
      /\ wire_in' = wire_in \cup {s}
      /\ UNCHANGED <<kernel, wire_out, session>>
  BY <1>2, <1>6, <1>7, <1>10 DEF peer_probes, Answers
<1>11. peer' = [peer EXCEPT ![p] = c]
  <2>1. peer' = [peer EXCEPT ![p].nxt = @ + 1, ![p].probed = TRUE]
    BY DEF peer_probes
  <2> DEFINE y == [peer[p] EXCEPT !.nxt = @ + 1, !.probed = TRUE]
  <2>2. peer' = [peer EXCEPT ![p] = y]
    BY <1>1, <1>2, <2>1 DEF PeerBlock
  <2>3. y = c
    BY <1>2, <1>4, <1>10 DEF PeerBlock
  <2> QED
    BY <2>2, <2>3
<1>12. f \in Flags /\ "ACK" \in f /\ "SYN" \notin f /\ "FIN" \notin f
  BY <1>6 DEF Flags
<1>13. j \in 1..(scene.peerMax + 1) /\ j <= j + 1 /\ j \in Nat /\ x.nxt <= j /\ j <= scene.peerMax
  BY <1>1, <1>3, <1>8, <1>10
<1> QED
  <2>1. PICK i \in 1..(scene.peerMax + 1) : i = j
    BY <1>13
  <2>2. s = FromPeer(p, x, f, i, j) /\ i <= j + 1
    BY <1>7, <1>13, <2>1
  <2>3. j <= c.nxt /\ x.nxt <= c.nxt /\ c.nxt <= scene.peerMax
    BY <1>5, <1>13
  <2> QED
    BY <1>2, <1>5, <1>8, <1>11, <1>12, <2>2, <2>3, SendsStep

LEMMA PeerFinishesStep ==
    ASSUME IInv, scene' = scene, NEW p \in scene.ports, NEW i \in 1..(scene.peerMax + 1),
           peer_finishes(p, i)
    PROVE  IInv'
<1>1. scene \in Scenes /\ peer \in [Port -> PeerBlock] /\ p \in Port /\ scene.peerMax \in Nat
  BY SceneFacts DEF IInv, ControlInv, TypeOK
<1>2. PICK x \in PeerBlock : x = peer[p]
  BY <1>1
<1>3. x.nxt \in Nat /\ x.una \in Nat
  BY DEF PeerBlock
<1>4. PICK c : c = [x EXCEPT !.fin = TRUE]
  OBVIOUS
<1>5. /\ c \in PeerBlock /\ c.state = x.state /\ c.irs = x.irs /\ c.rcvd = x.rcvd /\ c.eof = x.eof
      /\ c.una = x.una /\ c.edge = x.edge /\ c.nxt = x.nxt /\ c.fin /\ c.probed = x.probed
  BY <1>2, <1>4 DEF PeerBlock
<1>6. PICK f : f = {"FIN", "ACK"}
  OBVIOUS
<1>10. PICK j : j = x.nxt
  OBVIOUS
<1>7. PICK s : s = FromPeer(p, x, f, i, j)
  OBVIOUS
<1>8. /\ x.state = "open" /\ x.una <= x.nxt /\ i \in {x.una + 1, x.nxt + 1}
      /\ peer' = [peer EXCEPT ![p] = c] /\ wire_in' = wire_in \cup {s}
      /\ UNCHANGED <<kernel, wire_out, session>>
  BY <1>2, <1>4, <1>6, <1>7, <1>10 DEF peer_finishes, Answers
<1>9. x.nxt <= scene.peerMax /\ (~x.probed => x.nxt <= x.edge)
  BY <1>1, <1>2 DEF IInv, WireInv, PeerOK, PeerFine
<1>12. f \in Flags /\ "ACK" \in f /\ "SYN" \notin f
  BY <1>6 DEF Flags
<1>13. i <= j + 1 /\ j \in Nat /\ j <= c.nxt /\ j = c.nxt /\ x.nxt <= c.nxt /\ c.nxt <= scene.peerMax
       /\ (~c.probed => c.nxt <= c.edge)
  BY <1>3, <1>5, <1>8, <1>9, <1>10
<1> QED
  BY <1>2, <1>5, <1>7, <1>8, <1>12, <1>13, SendsStep

LEMMA PeerStep ==
    ASSUME IInv, scene' = scene, Peer
    PROVE  IInv'
<1>1. ASSUME NEW p \in scene.ports, peer_connects(p) PROVE IInv'
  BY <1>1, ConnectsStep
<1>2. ASSUME NEW p \in scene.ports, peer_probes(p) PROVE IInv'
  BY <1>2, PeerProbesStep
<1>3. ASSUME NEW p \in scene.ports, peer_aborts(p) PROVE IInv'
  BY <1>3, AbortsStep
<1>4. ASSUME NEW p \in scene.ports, NEW i \in 1..scene.peerMax, NEW j \in 1..scene.peerMax,
             peer_sends(p, i, j)
      PROVE  IInv'
  BY <1>4, PeerSendsStep
<1>5. ASSUME NEW p \in scene.ports, NEW i \in 1..(scene.peerMax + 1), peer_finishes(p, i) PROVE IInv'
  BY <1>5, PeerFinishesStep
<1>6. ASSUME NEW m \in wire_out PROVE m.segment.port \in scene.ports
  BY DEF IInv, WireInv, OutOK, OutFine
<1>7. ASSUME NEW m \in wire_out, peer_gets_syn(m) PROVE IInv'
  <2>1. PICK p \in scene.ports : p = m.segment.port
    BY <1>6
  <2>2. CASE peer[p].state = "fresh"
    <3>1. PICK c : c = [peer[p] EXCEPT !.state = "syn_rcvd", !.irs = m.segment.seq]
      OBVIOUS
    <3>2. PICK s : s = Segment(p, {"SYN", "ACK"}, PeerIss[p], Plus(c.irs, 1), <<>>)
      OBVIOUS
    <3>3. /\ "SYN" \in m.segment.flags /\ peer' = [peer EXCEPT ![p] = c]
          /\ wire_in' = wire_in \cup {s} /\ UNCHANGED <<kernel, wire_out, session>>
      BY <1>7, <2>1, <2>2, <3>1, <3>2 DEF peer_gets_syn, Answers
    <3> QED
      BY <2>1, <2>2, <3>1, <3>2, <3>3, OpensStep
  <2>3. CASE peer[p].state # "fresh"
    <3>1. /\ peer[p].state \in {"syn_rcvd", "open"} /\ wire_in' = wire_in \cup {PureAck(p, peer[p])}
          /\ UNCHANGED <<kernel, wire_out, peer, session>>
      BY <1>7, <2>1, <2>3 DEF peer_gets_syn, Answers
    <3> QED
      BY <3>1, StaleSynStep
  <2> QED
    BY <2>2, <2>3
<1>8. ASSUME NEW m \in wire_out, peer_gets_syn_ack(m) PROVE IInv'
  <2>1. PICK p \in scene.ports : p = m.segment.port
    BY <1>6
  <2>2. PICK c : c = [peer[p] EXCEPT !.state = "open", !.irs = m.segment.seq, !.edge = m.window]
    OBVIOUS
  <2>3. PICK s : s = PureAck(p, c)
    OBVIOUS
  <2>4. /\ m.segment.flags = {"SYN", "ACK"} /\ peer[p].state = "syn_sent"
        /\ peer' = [peer EXCEPT ![p] = c]
        /\ wire_in' = wire_in \cup {s} /\ UNCHANGED <<kernel, wire_out, session>>
    BY <1>8, <2>1, <2>2, <2>3 DEF peer_gets_syn_ack, Answers
  <2> QED
    BY <2>1, <2>2, <2>3, <2>4, AcceptedStep
<1>9. ASSUME NEW m \in wire_out, peer_refuses(m) PROVE IInv'
  BY <1>9, RefusesStep
<1>10. ASSUME NEW m \in wire_out, peer_gets_segment(m) PROVE IInv'
  <2>1. PICK p \in scene.ports : p = m.segment.port
    BY <1>6
  <2>2. PICK c : c = TakesData(p, TakesAck(p, [peer[p] EXCEPT !.state = "open"], m), m)
    OBVIOUS
  <2>3. /\ Plain(m)
        /\ \/ peer[p].state = "open"
           \/ peer[p].state = "syn_rcvd" /\ m.segment.ack = Plus(PeerIss[p], 1)
        /\ peer' = [peer EXCEPT ![p] = c]
        /\ UNCHANGED <<kernel, wire_out, session>>
    BY <1>10, <2>1, <2>2 DEF peer_gets_segment, Plain
  <2>4. wire_in' = wire_in \/ wire_in' = wire_in \cup {PureAck(p, c)}
    BY <1>10, <2>1, <2>2 DEF peer_gets_segment, Answers
  <2> QED
    BY <2>1, <2>2, <2>3, <2>4, GetsStep
<1> QED
  BY <1>1, <1>2, <1>3, <1>4, <1>5, <1>7, <1>8, <1>9, <1>10 DEF Peer

-----------------------------------------------------------------------------
(* The calls' steps                                                        *)

LEMMA KernelWire ==
    ASSUME IInv, scene' = scene, UNCHANGED <<wire_in, peer>>, Drawn \subseteq Drawn',
           \A m \in wire_out' : m \in wire_out \/ OutFine(m)'
    PROVE  WireInv'
<1>1. TypeOK /\ WireInv
  BY DEF IInv, ControlInv
<1>2. PeerOK'
  <2> SUFFICES ASSUME NEW q \in Port PROVE PeerFine(q)'
    BY DEF PeerOK
  <2>1. PeerFine(q)
    BY <1>1 DEF WireInv, PeerOK
  <2> QED
    BY <2>1 DEF PeerFine, Bound, Got, Pristine
<1>3. InOK'
  <2> SUFFICES ASSUME NEW s \in wire_in PROVE InFine(s)'
    BY DEF InOK
  <2>1. InFine(s)
    BY <1>1 DEF WireInv, InOK
  <2> QED
    BY <2>1 DEF InFine, Bound, Got
<1>4. OutOK'
  <2> SUFFICES ASSUME NEW m \in wire_out', m \in wire_out PROVE OutFine(m)'
    BY DEF OutOK
  <2>1. OutFine(m)
    BY <1>1 DEF WireInv, OutOK
  <2>2. Bound(m.segment.port) => Bound(m.segment.port)'
    BY DEF Bound
  <2> QED
    BY <2>1, <2>2, OutGrows
<1> QED
  BY <1>2, <1>3, <1>4 DEF WireInv

\* What a step that leaves the control block and the wire alone keeps.
LEMMA QuietStep ==
    ASSUME IInv, scene' = scene, UNCHANGED <<tcp, recv_buf, drawn, wire_out, wire_in, peer>>,
           ControlInv', session'.port = session.port, session'.read = session.read,
           session'.overtaken = session.overtaken, (call'.op = "close") <=> (call.op = "close"),
           CallInv', TakenInv'
    PROVE  IInv'
<1>1. Me' = Me /\ Drawn' = Drawn /\ U' = U /\ N' = N /\ D' = D /\ Stream' = Stream
  BY DEF Me, Drawn, U, N, D, Stream
<1>2. WireInv'
  BY <1>1, KernelWire
<1>3. /\ Linked' <=> Linked
      /\ Live' <=> Live
      /\ Open' <=> Open
      /\ Got(Me)' = Got(Me)
  BY <1>1 DEF Linked, Live, Open, Got, Bound
<1>4. \A m : /\ Off(m)' = Off(m) /\ (Mine(m)' <=> Mine(m)) /\ (Heard(m)' <=> Heard(m))
             /\ (Plain(m)' <=> Plain(m)) /\ (Void(m)' <=> Void(m))
  BY DEF Off, Mine, Heard, Plain, Void, Me, D
<1>5. NumbersOK'
  BY <1>1, <1>3 DEF IInv, SendInv, NumbersOK
<1>6. SentOK'
  BY <1>1, <1>4 DEF IInv, SendInv, SentOK
<1>7. OpeningOK'
  BY <1>1 DEF IInv, SendInv, OpeningOK
<1>8. ClosingOK'
  BY <1>1, <1>3 DEF IInv, SendInv, ClosingOK
<1>9. FreshOK'
  BY <1>1, <1>3, <1>4 DEF IInv, RecvInv, FreshOK, Pristine
<1>10. NextOK'
  BY <1>1, <1>3 DEF IInv, RecvInv, NextOK
<1>11. RoomOK'
  BY <1>1, <1>3, <1>4 DEF IInv, RecvInv, RoomOK
<1>12. \A k : Nth(k)' = Nth(k)
  BY <1>1 DEF Nth
<1>13. StreamInv'
  <2> SUFFICES ASSUME session.port # 0, ~session.overtaken PROVE StreamInv'
    BY DEF StreamInv
  <2>1. /\ \A i, j \in 1..Len(Stream) : i < j => Nth(i) < Nth(j)
        /\ ~peer[session.port].probed => \A k \in 1..Len(Stream) : Nth(k) = k
        /\ Live => /\ \A k \in 1..Len(Stream) : Nth(k) < D
                   /\ ~peer[Me].probed =>
                        Len(Stream) = IF D <= peer[Me].nxt + 1 THEN D - 1 ELSE peer[Me].nxt
        /\ tcp.state \in {"SYN_SENT", "LISTEN", "SYN_RECEIVED"} => Stream = <<>>
    BY DEF IInv, StreamInv
  <2> HIDE DEF Stream
  <2> QED
    BY <1>1, <1>3, <1>12, <2>1 DEF StreamInv
<1> QED
  BY <1>2, <1>5, <1>6, <1>7, <1>8, <1>9, <1>10, <1>11, <1>13 DEF IInv, SendInv, RecvInv

\* A call that goes on as it is, and one that is none of those CallInv speaks of.
LEMMA CallGoesOn ==
    ASSUME IInv, scene' = scene, UNCHANGED <<tcp, wire_out, peer, session>>, call'.op = call.op,
           call'.first = call.first, call'.last = call.last, call'.want = call.want,
           call'.sent = call.sent
    PROVE  CallInv'
<1>1. /\ Me' = Me /\ N' = N /\ F' = F /\ ChunkData' = ChunkData
      /\ (Linked' <=> Linked)
  BY DEF Me, N, F, ChunkData, Linked, Bound
<1>2. \A m : Off(m)' = Off(m) /\ (Mine(m)' <=> Mine(m))
  BY DEF Off, Mine, Me
<1>3. ChunkOK'
  BY <1>1, <1>2 DEF IInv, CallInv, ChunkOK
<1>4. CountOK' /\ NewOK'
  BY <1>1 DEF IInv, CallInv, CountOK, NewOK
<1>5. EndOK'
  BY <1>1 DEF IInv, CallInv, EndOK
<1> QED
  BY <1>3, <1>4, <1>5 DEF CallInv

LEMMA CallEnds ==
    ASSUME call'.op \notin {"send", "close", "connect"}
    PROVE  CallInv'
BY DEF CallInv, ChunkOK, CountOK, EndOK, NewOK

LEMMA TakenSame ==
    ASSUME IInv, UNCHANGED peer, session'.port = session.port, session'.taken = session.taken,
           session'.finished = session.finished, session.reset => session'.reset
    PROVE  TakenInv'
BY DEF IInv, TakenInv

\* The connection is given up.
LEMMA ClosingStep ==
    ASSUME IInv, scene' = scene, tcp' = Closed, recv_buf' = <<>>, call' = Idle,
           UNCHANGED <<ephemeral_port, drawn, wire_out, wire_in, peer>>,
           session' \in SessionBlock, session'.port = session.port,
           session'.read = session.read, session'.overtaken = session.overtaken, TakenInv'
    PROVE  IInv'
<1>1. /\ ControlInv'
      /\ tcp'.state = "CLOSED" /\ Me' = 0 /\ tcp'.snd_iss = 0 /\ call'.op = "idle"
  BY ClosedControl DEF IInv
<1>2. WireInv'
  <2>1. Drawn' = Drawn
    BY DEF Drawn
  <2> QED
    BY <2>1, KernelWire
<1>3. ~Linked' /\ ~Live' /\ ~Open'
  BY <1>1 DEF Linked, Live, Open
<1>4. SendInv'
  BY <1>1, <1>3 DEF SendInv, NumbersOK, SentOK, OpeningOK, ClosingOK
<1>5. CallInv'
  BY <1>1, CallEnds
<1>6. RecvInv'
  BY <1>1, <1>3 DEF RecvInv, FreshOK, NextOK, RoomOK
<1>7. StreamInv'
  <2> SUFFICES ASSUME session.port # 0, ~session.overtaken PROVE StreamInv'
    BY DEF StreamInv
  <2>1. session.read \in Seq(Nat) /\ recv_buf \in Seq(Nat) /\ TypeOK
    BY DEF IInv, ControlInv, TypeOK, SessionBlock
  <2> DEFINE r == session.read
             b == IF tcp.local_port = session.port THEN recv_buf ELSE <<>>
             e == <<>>
  <2>2. b \in Seq(Nat) /\ Stream = r \o b /\ r \in Seq(Nat)
    BY <2>1, EmptySeq DEF Stream
  <2>3. Stream' = r
    <3>1. Stream' = r \o e
      BY <1>1 DEF Stream, Me
    <3> QED
      BY <2>1, <3>1, ConcatEmptySeq
  <2> HIDE DEF r, b, e
  <2>4. Len(r) \in Nat /\ Len(r) <= Len(Stream) /\ Len(Stream) \in Nat /\ \A i \in 1..Len(r) : Stream[i] = r[i]
    <3> DEFINE c == Stream
    <3>1. c = r \o b
      BY <2>2
    <3> HIDE DEF c
    <3>2. Len(r) \in Nat /\ Len(b) \in Nat /\ Len(c) = Len(r) + Len(b) /\ \A i \in 1..Len(r) : c[i] = r[i]
      BY ONLY <2>2, <3>1, Joined
    <3> DEFINE lr == Len(r)
               lb == Len(b)
               lc == Len(c)
    <3>3. lr \in Nat /\ lb \in Nat /\ lc = lr + lb
      BY <3>2
    <3> HIDE DEF lr, lb, lc
    <3>4. lr <= lc /\ lc \in Nat
      BY ONLY <3>3
    <3> QED
      BY <3>2, <3>4 DEF lr, lc, c
  <2>5. /\ \A i, j \in 1..Len(Stream) : i < j => Nth(i) < Nth(j)
        /\ ~peer[session.port].probed => \A k \in 1..Len(Stream) : Nth(k) = k
    BY DEF IInv, StreamInv
  <2>6. \A k \in 1..Len(r) : Nth(k)' = Nth(k)
    <3> SUFFICES ASSUME NEW k \in 1..Len(r) PROVE Nth(k)' = Nth(k)
      OBVIOUS
    <3>1. Nth(k)' = Distance(PeerIss[session.port], r[k])
      BY <2>3 DEF Nth
    <3> QED
      BY <2>4, <3>1 DEF Nth
  <2>7. \A i, j \in 1..Len(r) : i < j => Nth(i)' < Nth(j)'
    <3> SUFFICES ASSUME NEW i \in 1..Len(r), NEW j \in 1..Len(r), i < j
                 PROVE  Nth(i)' < Nth(j)'
      OBVIOUS
    <3>1. i \in 1..Len(Stream) /\ j \in 1..Len(Stream)
      BY <2>4
    <3>2. Nth(i) < Nth(j)
      BY <2>5, <3>1
    <3> QED
      BY <2>6, <3>2
  <2>8. ~peer[session.port].probed => \A k \in 1..Len(r) : Nth(k)' = k
    BY <2>4, <2>5, <2>6
  <2>9. /\ \A i, j \in 1..Len(Stream') : i < j => Nth(i)' < Nth(j)'
        /\ ~peer[session.port].probed => \A k \in 1..Len(Stream') : Nth(k)' = k
    BY <2>3, <2>7, <2>8
  <2> QED
    BY <1>1, <1>3, <2>9 DEF StreamInv
<1> QED
  BY <1>1, <1>2, <1>4, <1>5, <1>6, <1>7 DEF IInv

LEMMA ControlFacts ==
    ASSUME IInv
    PROVE  /\ ControlInv /\ TypeOK /\ BlockOK /\ TryOK /\ scene \in Scenes /\ recv_buf \in Seq(Nat)
           /\ Len(recv_buf) <= RecvCap /\ call \in CallBlock /\ session \in SessionBlock
           /\ tcp \in Control /\ peer \in [Port -> PeerBlock] /\ SeqMod \in Nat \ {0}
BY SceneFacts DEF IInv, ControlInv, TypeOK

\* Another try of a call, or no call any more, with the session as it was.
LEMMA RetryStep ==
    ASSUME IInv, scene' = scene, NextTry,
           UNCHANGED <<tcp, recv_buf, ephemeral_port, drawn, wire_out, wire_in, peer, session>>,
           \/ call.op = "connect" /\ call.phase = "poll"
           \/ call.op \in {"send", "close"} /\ tcp.state # "CLOSED"
    PROVE  IInv'
<1>1. /\ TryOK' /\ call' \in CallBlock /\ call'.op = call.op /\ call'.first = call.first
      /\ call'.last = call.last /\ call'.want = call.want /\ call'.sent = call.sent
  BY ControlFacts, NextTryControl
<1>2. ControlInv'
  BY <1>1, ControlFacts, QuietControl
<1>3. CallInv'
  BY <1>1, CallGoesOn
<1>4. TakenInv'
  BY TakenSame
<1> QED
  BY <1>1, <1>2, <1>3, <1>4, QuietStep

LEMMA ReturnStep ==
    ASSUME IInv, scene' = scene, call' = Idle,
           UNCHANGED <<tcp, recv_buf, ephemeral_port, drawn, wire_out, wire_in, peer>>,
           tcp.state \notin {"SYN_SENT", "FIN_WAIT1", "FIN_WAIT2", "LAST_ACK"}, call.op # "close",
           session' \in SessionBlock, session'.port = session.port, session'.read = session.read,
           session'.overtaken = session.overtaken, TakenInv'
    PROVE  IInv'
<1>1. TryOK' /\ call' \in CallBlock /\ call'.op = "idle"
  BY ControlFacts, ReturnControl
<1>2. ControlInv'
  BY <1>1, ControlFacts, QuietControl
<1>3. CallInv'
  BY <1>1, CallEnds
<1> QED
  BY <1>1, <1>2, <1>3, QuietStep

LEMMA UnresolvedStep ==
    ASSUME IInv, scene' = scene, connect_unresolved
    PROVE  IInv'
<1>1. UNCHANGED <<tcp, recv_buf, ephemeral_port, drawn, call, wire_out, session, wire_in, peer>>
  BY DEF connect_unresolved, NoAnswer
<1>2. ControlInv'
  <2>1. TryOK'
    BY <1>1, ControlFacts DEF TryOK, Me
  <2> QED
    BY <1>1, <2>1, ControlFacts, QuietControl
<1>3. CallInv'
  BY <1>1, CallGoesOn
<1>4. TakenInv'
  BY <1>1, TakenSame
<1> QED
  BY <1>1, <1>2, <1>3, <1>4, QuietStep

LEMMA ConnectPolledStep ==
    ASSUME IInv, scene' = scene, connect_polled
    PROVE  IInv'
<1>1. /\ UNCHANGED <<ephemeral_port, drawn, wire_out, session, wire_in, peer>>
      /\ call.op = "connect" /\ call.phase = "poll"
  BY DEF connect_polled, NoAnswer
<1>2. session' \in SessionBlock /\ TakenInv'
  BY <1>1, ControlFacts, TakenSame
<1>3. CASE tcp.reset_seen
  <2>1. tcp' = Closed /\ recv_buf' = <<>> /\ call' = Idle
    BY <1>3 DEF connect_polled, Returns
  <2> QED
    BY <1>1, <1>2, <2>1, ClosingStep
<1>4. CASE ~tcp.reset_seen /\ ~tcp.stale_ack_seen /\ tcp.state = "ESTABLISHED"
  <2>1. UNCHANGED <<tcp, recv_buf>> /\ call' = Idle
    BY <1>4 DEF connect_polled, Returns
  <2> QED
    BY <1>1, <1>2, <1>4, <2>1, ReturnStep
<1>5. CASE ~tcp.reset_seen /\ (tcp.stale_ack_seen \/ tcp.state # "ESTABLISHED")
  <2>1. UNCHANGED <<tcp, recv_buf>> /\ NextTry
    BY <1>5 DEF connect_polled
  <2> QED
    BY <1>1, <2>1, RetryStep
<1> QED
  BY <1>3, <1>4, <1>5

LEMMA ConnectFailsStep ==
    ASSUME IInv, scene' = scene, connect_fails
    PROVE  IInv'
<1>1. /\ UNCHANGED <<ephemeral_port, drawn, wire_out, session, wire_in, peer>>
      /\ tcp' = Closed /\ recv_buf' = <<>> /\ call' = Idle
  BY DEF connect_fails, NoAnswer, Returns
<1> QED
  BY <1>1, ControlFacts, TakenSame, ClosingStep

LEMMA AcceptStep ==
    ASSUME IInv, scene' = scene, accept
    PROVE  IInv'
<1>1. /\ UNCHANGED <<tcp, recv_buf, ephemeral_port, drawn, wire_out, session, wire_in, peer>>
      /\ call = Idle
  BY DEF accept, NoAnswer, Begins
<1>2. call.op = "idle"
  BY <1>1 DEF Idle
<1>3. CASE UNCHANGED call
  <2>1. ControlInv'
    <3>1. TryOK'
      BY <1>1, <1>3, ControlFacts DEF TryOK, Me
    <3> QED
      BY <1>1, <1>3, <3>1, ControlFacts, QuietControl
  <2> QED
    BY <1>1, <1>3, <2>1, CallGoesOn, TakenSame, QuietStep
<1>4. CASE tcp.active /\ tcp.state = "LISTEN" /\ call' = [Idle EXCEPT !.op = "accept"]
  <2>1. call' \in CallBlock /\ call'.op = "accept"
    BY <1>4, ControlFacts, IdleIs DEF CallBlock
  <2>2. TryOK'
    BY <1>1, <1>4, <2>1, ControlFacts DEF TryOK, Me
  <2>3. ControlInv'
    BY <1>1, <2>1, <2>2, ControlFacts, QuietControl
  <2>4. CallInv'
    BY <2>1, CallEnds
  <2> QED
    BY <1>1, <1>2, <2>1, <2>3, <2>4, TakenSame, QuietStep
<1> QED
  BY <1>3, <1>4 DEF accept

LEMMA AcceptPolledStep ==
    ASSUME IInv, scene' = scene, accept_polled
    PROVE  IInv'
<1>1. /\ UNCHANGED <<ephemeral_port, drawn, wire_out, session, wire_in, peer>>
      /\ call.op = "accept" /\ call' = Idle
  BY DEF accept_polled, NoAnswer, Returns
<1>2. session' \in SessionBlock /\ TakenInv'
  BY <1>1, ControlFacts, TakenSame
<1>3. CASE tcp.reset_seen
  <2>1. tcp' = Closed /\ recv_buf' = <<>>
    BY <1>3 DEF accept_polled
  <2> QED
    BY <1>1, <1>2, <2>1, ClosingStep
<1>4. CASE ~tcp.reset_seen
  <2>1. UNCHANGED <<tcp, recv_buf>>
    BY <1>4 DEF accept_polled
  <2>2. tcp.state \notin {"SYN_SENT", "FIN_WAIT1", "FIN_WAIT2", "LAST_ACK"}
    BY <1>1, ControlFacts DEF TryOK
  <2> QED
    BY <1>1, <1>2, <2>1, <2>2, ReturnStep
<1> QED
  BY <1>3, <1>4

\* What a message of the open connection acknowledges.
LEMMA OutAck ==
    ASSUME IInv, Open, NEW m, m.segment.port = Me, m.segment.ack = tcp.rcv_nxt, m.window \in Nat,
           m.window <= RecvCap - Len(recv_buf)
    PROVE  /\ ~Bound(Me) => Void(m)
           /\ ~session.overtaken => Heard(m)
<1>1. TypeOK /\ BlockOK /\ scene \in Scenes /\ Me # 0
  BY ControlFacts DEF BlockOK, Open
<1>2. CASE session.overtaken
  <2>1. tcp.rcv_nxt = 0 /\ scene.retries > 1
    BY <1>1, <1>2 DEF IInv, RecvInv, FreshOK, BlockOK
  <2> QED
    BY <1>2, <2>1 DEF Void
<1>3. CASE ~session.overtaken
  <2>1. Linked /\ 1 <= D
    BY <1>3 DEF IInv, RecvInv, NextOK, Live
  <2>2. Distance(PeerIss[Me], m.segment.ack) = D
    BY DEF D
  <2> DEFINE d == D
             w == m.window
             l == Len(recv_buf)
  <2>3. d \in Nat /\ w \in Nat /\ l \in Nat /\ RecvCap \in Nat /\ w <= RecvCap - l
    <3>1. PeerIss \in [Port -> Seqno] /\ SeqMod \in Nat \ {0} /\ tcp.rcv_nxt \in Seqno /\ Me \in Port
          /\ RecvCap \in Nat
      BY <1>1, SceneFacts DEF TypeOK, Control, Me
    <3> QED
      BY <1>1, <3>1, DistanceNat, LenProperties DEF D, TypeOK
  <2> HIDE DEF d, w, l
  <2>4. d <= d /\ d + w + l <= d + RecvCap
    BY <2>3
  <2>5. Heard(m)
    BY <2>1, <2>2, <2>4 DEF Heard, d, w, l
  <2> QED
    BY <2>1, <2>5 DEF Linked
<1> QED
  BY <1>2, <1>3

\* The receiving half of a step that leaves it alone.
LEMMA RecvFrame ==
    ASSUME IInv, scene' = scene, UNCHANGED <<recv_buf, peer>>, Me' = Me,
           tcp'.snd_iss = tcp.snd_iss, tcp'.rcv_nxt = tcp.rcv_nxt,
           \/ tcp'.state = tcp.state
           \/ /\ tcp.state \in {"ESTABLISHED", "CLOSE_WAIT"}
              /\ tcp'.state \in {"FIN_WAIT1", "LAST_ACK"},
           session'.port = session.port, session'.read = session.read,
           session'.overtaken = session.overtaken,
           \A m \in wire_out' :
               \/ m \in wire_out
               \/ tcp.state # "SYN_SENT" /\ (~session.overtaken => Heard(m))
    PROVE  RecvInv' /\ StreamInv'
<1>1. D' = D /\ Stream' = Stream
  <2>1. tcp'.local_port = tcp.local_port
    BY DEF Me
  <2> QED
    BY <2>1 DEF D, Stream
<1>2. /\ Linked' <=> Linked
      /\ Live' <=> Live
      /\ Open' <=> Open
      /\ (tcp'.state = "SYN_SENT" <=> tcp.state = "SYN_SENT")
      /\ (tcp'.state = "LISTEN" <=> tcp.state = "LISTEN")
      /\ (tcp'.state = "SYN_RECEIVED" <=> tcp.state = "SYN_RECEIVED")
  BY DEF Linked, Live, Open, Bound
<1>4. \A m : /\ (Heard(m)' <=> Heard(m)) /\ (Plain(m)' <=> Plain(m)) /\ (Void(m)' <=> Void(m))
  BY <1>1 DEF Heard, Plain, Void
<1>9. FreshOK'
  <2>1. (tcp'.state = "SYN_SENT" /\ Linked) =>
          /\ Pristine(Me)' /\ peer'[Me'].state # "open"
          /\ \A m \in wire_out' : (m.segment.port = Me /\ Plain(m)) => Void(m)
    BY <1>2 DEF IInv, RecvInv, FreshOK, Pristine
  <2>2. (Me # 0 /\ (session.overtaken \/ tcp.state = "SYN_SENT")) => tcp.rcv_nxt = 0
    BY DEF IInv, RecvInv, FreshOK
  <2>3. Me = 0 => recv_buf = <<>>
    BY DEF IInv, RecvInv, FreshOK
  <2> QED
    BY <1>2, <1>4, <2>1, <2>2, <2>3 DEF FreshOK
<1>10. NextOK'
  BY <1>1, <1>2 DEF IInv, RecvInv, NextOK
<1>11. RoomOK'
  <2> SUFFICES ASSUME Live, ~session.overtaken, Linked PROVE RoomOK'
    BY <1>2 DEF RoomOK
  <2>1. /\ D <= peer[Me].nxt + (IF peer[Me].fin THEN 2 ELSE 1)
        /\ peer[Me].una + 1 <= D
        /\ peer[Me].edge + 1 + Len(recv_buf) <= D + RecvCap
        /\ \A m \in wire_out : (m.segment.port = Me /\ Plain(m)) => Heard(m)
    BY DEF IInv, RecvInv, RoomOK
  <2>2. \A m \in wire_out' : (m.segment.port = Me /\ Plain(m)) => Heard(m)
    BY <2>1
  <2> QED
    BY <1>1, <1>4, <2>1, <2>2 DEF RoomOK
<1>12. \A k : Nth(k)' = Nth(k)
  BY <1>1 DEF Nth
<1>13. StreamInv'
  <2> SUFFICES ASSUME session.port # 0, ~session.overtaken PROVE StreamInv'
    BY DEF StreamInv
  <2>1. /\ \A i, j \in 1..Len(Stream) : i < j => Nth(i) < Nth(j)
        /\ ~peer[session.port].probed => \A k \in 1..Len(Stream) : Nth(k) = k
        /\ Live => /\ \A k \in 1..Len(Stream) : Nth(k) < D
                   /\ ~peer[Me].probed =>
                        Len(Stream) = IF D <= peer[Me].nxt + 1 THEN D - 1 ELSE peer[Me].nxt
        /\ tcp.state \in {"SYN_SENT", "LISTEN", "SYN_RECEIVED"} => Stream = <<>>
    BY DEF IInv, StreamInv
  <2> HIDE DEF Stream
  <2> QED
    BY <1>1, <1>2, <1>12, <2>1 DEF StreamInv
<1> QED
  BY <1>9, <1>10, <1>11, <1>13 DEF RecvInv

\* The numbers of the sending half.
LEMMA SendNumbers ==
    ASSUME IInv
    PROVE  /\ U \in Nat /\ N \in Nat /\ F \in Nat /\ SpaceMax \in Nat /\ N < SeqMod
           /\ \A p \in Port : Len(peer[p].rcvd) \in Nat /\ Got(p) \in Nat /\ Len(peer[p].rcvd) <= Got(p)
           /\ SpaceMax + 2 < SeqMod
<1>1. /\ tcp \in Control /\ call \in CallBlock /\ SeqMod \in Nat \ {0} /\ scene \in Scenes
      /\ peer \in [Port -> PeerBlock]
  BY ControlFacts
<1>2. U \in Nat /\ N \in Nat /\ F \in Nat /\ N < SeqMod
  BY <1>1, DistanceNat DEF U, N, F, Control, CallBlock
<1>3. SpaceMax \in Nat /\ SpaceMax + 2 < SeqMod
  <2>1. SpaceMax \in Nat /\ SeqMod > 2 * (SpaceMax + scene.peerMax + 2) /\ scene.peerMax \in Nat
        /\ SeqMod \in Nat
    BY <1>1, SceneFacts
  <2> QED
    BY ONLY <2>1
<1>4. ASSUME NEW p \in Port
      PROVE Len(peer[p].rcvd) \in Nat /\ Got(p) \in Nat /\ Len(peer[p].rcvd) <= Got(p)
  <2>1. PICK r \in PeerBlock : r = peer[p]
    BY <1>1
  <2>2. Len(r.rcvd) \in Nat /\ Count(r) \in Nat /\ (r.eof => Count(r) = Len(r.rcvd) + 1)
        /\ (~r.eof => Count(r) = Len(r.rcvd))
    BY CountIs
  <2>3. Len(r.rcvd) <= Count(r)
    BY <2>2
  <2> QED
    BY <2>1, <2>2, <2>3 DEF Got
<1> QED
  BY <1>2, <1>3, <1>4

LEMMA Counting ==
    ASSUME NEW n \in Nat, NEW a \in Nat, NEW s, s = [k \in 1..n |-> a + k]
    PROVE  s \in Seq(Nat) /\ Len(s) = n /\ \A k \in 1..n : s[k] = a + k
<1>1. \A k \in 1..n : a + k \in Nat
  OBVIOUS
<1> QED
  BY <1>1

\* The next chunk of a send.
LEMMA NextChunkStep ==
    ASSUME IInv, scene' = scene, NEW c \in CallBlock, c.op = "send", c.sent < c.want,
           NextChunk(c, tcp), tcp.state \in {"ESTABLISHED", "CLOSE_WAIT"}, call.op # "close",
           UNCHANGED <<recv_buf, ephemeral_port, drawn, wire_out, wire_in, peer, session>>,
           N + (c.want - c.sent) <= SpaceMax,
           \A k \in 1..c.sent : \E i \in 1..Len(peer[Me].rcvd) : peer[Me].rcvd[i] = session.taken + k
    PROVE  IInv'
<1>1. /\ ControlInv'
      /\ tcp'.state = tcp.state /\ Me' = Me /\ tcp'.snd_iss = tcp.snd_iss
      /\ tcp'.snd_una = tcp.snd_una /\ tcp'.rcv_nxt = tcp.rcv_nxt
      /\ tcp'.snd_nxt = Plus(tcp.snd_nxt, chunk_len(c.want - c.sent))
      /\ call'.op = "send" /\ call'.first = tcp.snd_nxt /\ call'.last = tcp'.snd_nxt
      /\ call'.want = c.want /\ call'.sent = c.sent
  BY ControlFacts, NextChunkControl
<1>2. /\ TypeOK' /\ TypeOK /\ scene \in Scenes /\ tcp \in Control /\ SeqMod \in Nat \ {0}
      /\ tcp.snd_iss # 0 /\ Me \in Port
  <2>1. TypeOK /\ BlockOK /\ scene \in Scenes /\ tcp \in Control /\ SeqMod \in Nat \ {0}
    BY ControlFacts
  <2>2. tcp.snd_iss # 0 /\ Me # 0
    BY <2>1 DEF BlockOK
  <2>3. Me \in Port
    BY <2>1, <2>2 DEF Control, Me
  <2> QED
    BY <1>1, <2>1, <2>2, <2>3 DEF ControlInv
<1> DEFINE len == chunk_len(c.want - c.sent)
           left == c.want - c.sent
<1>3. len \in Nat /\ len <= left /\ left \in Nat
  <2>1. c.want \in Nat /\ c.sent \in Nat /\ left \in Nat
    BY DEF CallBlock
  <2> QED
    BY <1>2, <2>1, ChunkLen
<1>4. U \in Nat /\ N \in Nat /\ SpaceMax \in Nat /\ N < SeqMod /\ SpaceMax + 2 < SeqMod
  BY SendNumbers
<1>5. N + left <= SpaceMax
  OBVIOUS
<1>6. N' = N + len
  <2>1. N + len < SeqMod
    <3> HIDE DEF len, left
    <3> QED
      BY <1>2, <1>3, <1>4, <1>5
  <2>2. tcp.snd_iss \in Seqno /\ tcp.snd_nxt \in Seqno /\ tcp'.snd_nxt = Plus(tcp.snd_nxt, len)
    BY <1>1, <1>2 DEF Control
  <2> HIDE DEF len, left
  <2>3. Distance(tcp.snd_iss, Plus(tcp.snd_nxt, len)) = Distance(tcp.snd_iss, tcp.snd_nxt) + len
    BY <1>2, <1>3, <2>1, <2>2, DistancePlus DEF N
  <2> QED
    BY <1>1, <2>2, <2>3 DEF N
<1>7. U' = U /\ F' = N /\ (Linked' <=> Linked) /\ Got(Me)' = Got(Me)
  BY <1>1 DEF U, F, N, Linked, Bound, Got
<1>8. \A m : Off(m)' = Off(m) /\ (Mine(m)' <=> Mine(m))
  BY <1>1 DEF Off, Mine
<1>9. ChunkData' \in Seq(Nat) /\ Len(ChunkData') = len
  <2>1. session.taken \in Nat /\ c.sent \in Nat
    BY <1>2 DEF TypeOK, SessionBlock, CallBlock
  <2> DEFINE a == session.taken + c.sent
             x == ChunkData'
  <2>2. a \in Nat
    BY <2>1
  <2>3. x = [k \in 1..len |-> a + k]
    BY <1>1 DEF ChunkData
  <2> HIDE DEF a, len, x
  <2>4. x \in Seq(Nat) /\ Len(x) = len
    BY <1>3, <2>2, <2>3, Counting
  <2> QED
    BY <2>4 DEF x
<1>10. /\ U <= N /\ 1 <= N /\ N <= SpaceMax + 1
       /\ U = 0 \/ (Linked /\ U <= 1 + Got(Me))
       /\ Linked => 1 + Got(Me) <= N
  BY <1>2 DEF IInv, SendInv, NumbersOK
<1>11. N <= N' /\ N' <= SpaceMax /\ N' + (left - len) <= SpaceMax /\ N' \in Nat /\ U <= N' /\ 1 <= N'
  <2> DEFINE n == N
             n2 == N'
             u == U
  <2>1. n2 = n + len /\ n \in Nat /\ u \in Nat /\ u <= n /\ 1 <= n /\ n + left <= SpaceMax
    BY <1>4, <1>6, <1>10, <1>5
  <2> HIDE DEF n, n2, u, len, left
  <2>2. n <= n2 /\ n2 <= SpaceMax /\ n2 + (left - len) <= SpaceMax /\ n2 \in Nat /\ u <= n2 /\ 1 <= n2
    BY <1>3, <1>4, <2>1
  <2> QED
    BY <2>2 DEF n, n2, u
<1>12. NumbersOK'
  <2>1. N' <= SpaceMax + 1
    BY <1>4, <1>11
  <2>2. Linked => 1 + Got(Me) <= N'
    <3> DEFINE g == Got(Me)
    <3>1. g \in Nat
      BY <1>2, SendNumbers
    <3> HIDE DEF g
    <3>2. Linked => 1 + g <= N'
      BY <1>4, <1>10, <1>11, <3>1 DEF g
    <3> QED
      BY <3>2 DEF g
  <2> QED
    BY <1>7, <1>10, <1>11, <2>1, <2>2 DEF NumbersOK
<1>13. \A m \in wire_out : Mine(m) => /\ "PSH" \in m.segment.flags => Off(m) + Len(m.segment.data) <= N
                                      /\ "FIN" \notin m.segment.flags
  BY <1>2 DEF IInv, SendInv, SentOK
<1>14. ASSUME NEW m \in wire_out PROVE Off(m) \in Nat /\ Len(m.segment.data) \in Nat
  <2>1. m.segment.seq \in Seqno /\ m.segment.data \in Seq(Nat) /\ tcp.snd_iss \in Seqno
    BY <1>2 DEF TypeOK, Segments, Control
  <2> QED
    BY <1>2, <2>1, DistanceNat, LenProperties DEF Off
<1>15. SentOK'
  <2> SUFFICES ASSUME NEW m \in wire_out, Mine(m)
               PROVE  /\ "PSH" \in m.segment.flags => Off(m) + Len(m.segment.data) <= N'
                      /\ "FIN" \notin m.segment.flags
    BY <1>1, <1>8 DEF SentOK
  <2> QED
    BY <1>4, <1>11, <1>13, <1>14
<1>16. OpeningOK' /\ ClosingOK'
  <2>1. Linked => ~peer[Me].eof
    BY DEF IInv, SendInv, ClosingOK
  <2> QED
    BY <1>1, <1>7, <2>1 DEF OpeningOK, ClosingOK
<1>17. ChunkOK'
  <2>1. 1 <= F' /\ F' + Len(ChunkData') = N' /\ call'.last = tcp'.snd_nxt
    BY <1>1, <1>6, <1>7, <1>9, <1>10
  <2>2. call'.sent + Len(ChunkData') <= call'.want
    <3>1. c.sent \in Nat /\ c.want \in Nat
      BY DEF CallBlock
    <3>2. c.sent + len <= c.want
      <4>1. len <= c.want - c.sent /\ len \in Nat
        BY <1>3
      <4> HIDE DEF len, left
      <4> QED
        BY <3>1, <4>1
    <3> QED
      BY <1>1, <1>9, <3>2
  <2>3. N' + (call'.want - call'.sent - Len(ChunkData')) <= SpaceMax
    <3>1. call'.want - call'.sent - Len(ChunkData') = left - len
      BY <1>1, <1>9
    <3> QED
      BY <1>11, <3>1
  <2>4. \A m \in wire_out : (Mine(m) /\ "PSH" \in m.segment.flags) => Off(m) + Len(m.segment.data) <= N
    BY <1>13
  <2>5. Linked => 1 + Len(peer[Me].rcvd) <= N
    <3>1. Len(peer[Me].rcvd) \in Nat /\ Got(Me) \in Nat /\ Len(peer[Me].rcvd) <= Got(Me)
      BY <1>2, SendNumbers
    <3> QED
      BY <1>4, <1>10, <3>1
  <2> QED
    BY <1>1, <1>7, <1>8, <2>1, <2>2, <2>3, <2>4, <2>5 DEF ChunkOK
<1>18. CountOK' /\ EndOK' /\ NewOK'
  BY <1>1 DEF CountOK, EndOK, NewOK
<1>19. RecvInv' /\ StreamInv'
  BY <1>1, RecvFrame
<1>20. WireInv' /\ TakenInv'
  <2>1. Drawn' = Drawn
    BY DEF Drawn
  <2> QED
    BY <2>1, KernelWire, TakenSame
<1> QED
  BY <1>1, <1>12, <1>15, <1>16, <1>17, <1>18, <1>19, <1>20 DEF IInv, SendInv, CallInv

\* The chunk in progress.
LEMMA ChunkFacts ==
    ASSUME IInv, call.op = "send"
    PROVE  /\ call.sent <= call.want /\ call.sent \in Nat /\ call.want \in Nat
           /\ ChunkData \in Seq(Nat) /\ Len(ChunkData) = chunk_len(call.want - call.sent)
           /\ Len(ChunkData) \in Nat
           /\ \A k \in 1..Len(ChunkData) : ChunkData[k] = session.taken + call.sent + k
<1>1. TypeOK /\ scene \in Scenes /\ call.sent \in Nat /\ call.want \in Nat /\ session.taken \in Nat
  BY ControlFacts DEF CallBlock, SessionBlock
<1>2. chunk_len(call.want - call.sent) \in Nat
  <2>1. LenMod \in Nat \ {0} /\ MaxSegment \in Nat \ {0}
    BY <1>1, SceneFacts
  <2>2. (call.want - call.sent) % LenMod \in Nat
    BY <1>1, <2>1
  <2> QED
    BY <2>1, <2>2 DEF chunk_len
<1> DEFINE a == session.taken + call.sent
           n == chunk_len(call.want - call.sent)
<1>3. ChunkData = [k \in 1..n |-> a + k] /\ a \in Nat
  BY <1>1 DEF ChunkData
<1> HIDE DEF a, n
<1>4. Len(ChunkData) = n
  BY <1>2, <1>3, Counting DEF n
<1>5. call.sent + n <= call.want
  BY <1>4 DEF IInv, CallInv, ChunkOK
<1>6. call.sent <= call.want
  BY <1>1, <1>2, <1>5 DEF n
<1>7. Len(ChunkData) \in Nat
  BY <1>2, <1>4 DEF n
<1> QED
  BY <1>1, <1>6, <1>7, ChunkTyped

\* A chunk that counts as acknowledged has been received.
LEMMA ChunkArrived ==
    ASSUME IInv, call.op = "send", seq_ge(tcp.snd_una, call.last)
    PROVE  \A k \in 1..Len(ChunkData) :
              \E i \in 1..Len(peer[Me].rcvd) : peer[Me].rcvd[i] = session.taken + call.sent + k
<1>1. /\ TypeOK /\ BlockOK /\ TryOK /\ tcp \in Control /\ SeqMod \in Nat \ {0} /\ scene \in Scenes
      /\ peer \in [Port -> PeerBlock]
  BY ControlFacts
<1>2. tcp.snd_iss # 0
  BY <1>1 DEF TryOK
<1>3. Me \in Port
  BY <1>1, <1>2 DEF BlockOK, Me, Control
<1>4. /\ U <= N /\ N <= SpaceMax + 1 /\ 1 <= N
      /\ U = 0 \/ (Linked /\ U <= 1 + Got(Me))
      /\ Linked => 1 + Got(Me) <= N
  BY <1>2 DEF IInv, SendInv, NumbersOK
<1>5. /\ 1 <= F /\ F + Len(ChunkData) = N /\ call.last = tcp.snd_nxt
      /\ Linked => \/ 1 + Len(peer[Me].rcvd) <= F
                   \/ /\ 1 + Len(peer[Me].rcvd) = N
                      /\ \A k \in 1..Len(ChunkData) : peer[Me].rcvd[F + k - 1] = ChunkData[k]
  BY DEF IInv, CallInv, ChunkOK
<1>6. U \in Nat /\ N \in Nat /\ F \in Nat /\ SpaceMax \in Nat /\ Len(peer[Me].rcvd) \in Nat /\ Got(Me) \in Nat
  BY <1>3, SendNumbers
<1>7. U >= N
  <2> DEFINE b == SpaceMax + 2
  <2>1. b \in Nat /\ SeqMod > 2 * b
    <3>1. SpaceMax \in Nat /\ SeqMod > 2 * (SpaceMax + scene.peerMax + 2) /\ scene.peerMax \in Nat
          /\ SeqMod \in Nat
      BY <1>1, SceneFacts
    <3> QED
      BY ONLY <3>1
  <2>2. U < b /\ N < b
    BY <1>4, <1>6
  <2>3. tcp.snd_iss \in Seqno /\ tcp.snd_una \in Seqno /\ tcp.snd_nxt \in Seqno
    BY <1>1 DEF Control
  <2>4. seq_ge(tcp.snd_una, tcp.snd_nxt)
    BY <1>5
  <2> HIDE DEF b
  <2> QED
    BY <1>1, <2>1, <2>2, <2>3, <2>4, Compared DEF U, N
<1>8. Linked /\ N <= 1 + Got(Me)
  BY <1>4, <1>6, <1>7
<1>9. 1 + Len(peer[Me].rcvd) = N
  <2>1. ~peer[Me].eof
    BY <1>8 DEF IInv, SendInv, ClosingOK
  <2>2. Got(Me) = Len(peer[Me].rcvd)
    <3>1. Got(Me) = Len(peer[Me].rcvd) + (IF peer[Me].eof THEN 1 ELSE 0)
      BY DEF Got, Count
    <3> QED
      BY <1>6, <2>1, <3>1
  <2> QED
    BY <1>4, <1>6, <1>8, <2>2
<1>10. /\ Len(ChunkData) \in Nat
       /\ \A k \in 1..Len(ChunkData) : ChunkData[k] = session.taken + call.sent + k
  BY ChunkFacts
<1> SUFFICES ASSUME NEW k \in 1..Len(ChunkData)
             PROVE  \E i \in 1..Len(peer[Me].rcvd) : peer[Me].rcvd[i] = session.taken + call.sent + k
  OBVIOUS
<1> DEFINE i == F + k - 1
           n == Len(ChunkData)
           r == peer[Me].rcvd
           lr == Len(r)
           v == session.taken + call.sent + k
<1>11. n \in Nat /\ k \in 1..n /\ lr \in Nat /\ F \in Nat /\ 1 <= F /\ F + n = N /\ 1 + lr = N
  BY <1>5, <1>6, <1>9, <1>10
<1>12. ChunkData[k] = v
  BY <1>10
<1> HIDE DEF n, lr, v
<1>13. i \in 1..lr
  BY <1>6, <1>11
<1>14. ~(1 + lr <= F)
  BY <1>6, <1>11
<1>15. r[i] = ChunkData[k]
  BY <1>5, <1>8, <1>11, <1>14 DEF n, lr
<1> HIDE DEF i, r
<1> QED
  BY <1>12, <1>13, <1>15 DEF lr, v, r

\* What a send that returns adds to the bytes taken.
LEMMA TakenMore ==
    ASSUME IInv, UNCHANGED peer, call.op = "send", NEW n \in Nat,
           session' = [session EXCEPT !.taken = @ + n],
           \A k \in 1..n : \E i \in 1..Len(peer[Me].rcvd) : peer[Me].rcvd[i] = session.taken + k
    PROVE  /\ session' \in SessionBlock /\ session'.port = session.port
           /\ session'.read = session.read /\ session'.overtaken = session.overtaken /\ TakenInv'
<1>1. session \in SessionBlock /\ BlockOK /\ TryOK
  BY ControlFacts
<1>2. session.taken \in Nat
  BY <1>1 DEF SessionBlock
<1> DEFINE t == session.taken + n
<1>3. t \in Nat /\ session' = [session EXCEPT !.taken = t]
  BY <1>2
<1> HIDE DEF t
<1>4. /\ session' \in SessionBlock /\ session'.port = session.port /\ session'.taken = t
      /\ session'.read = session.read /\ session'.overtaken = session.overtaken
      /\ session'.reset = session.reset /\ session'.finished = session.finished
  BY <1>1, <1>3 DEF SessionBlock
<1>5. Me = session.port
  <2>1. tcp.snd_iss # 0
    BY <1>1 DEF TryOK
  <2> QED
    BY <1>1, <2>1 DEF BlockOK
<1>6. session.port # 0 => \A k \in 1..t : \E i \in 1..Len(peer[session.port].rcvd) : peer[session.port].rcvd[i] = k
  <2> SUFFICES ASSUME session.port # 0, NEW k \in 1..t
               PROVE  \E i \in 1..Len(peer[session.port].rcvd) : peer[session.port].rcvd[i] = k
    OBVIOUS
  <2>1. CASE k <= session.taken
    <3>1. k \in 1..session.taken
      BY <1>2, <1>3, <2>1
    <3> QED
      BY <3>1 DEF IInv, TakenInv
  <2>2. CASE k > session.taken
    <3> DEFINE j == k - session.taken
    <3>1. j \in 1..n /\ session.taken + j = k
      BY <1>2, <2>2 DEF t
    <3> HIDE DEF j
    <3>2. \E i \in 1..Len(peer[Me].rcvd) : peer[Me].rcvd[i] = session.taken + j
      BY <3>1
    <3> QED
      BY <1>5, <3>1, <3>2
  <2> QED
    BY <1>2, <1>3, <2>1, <2>2
<1>7. /\ session.finished => session.port # 0
      /\ (session.finished /\ ~session.reset) => peer[session.port].eof
  BY DEF IInv, TakenInv
<1>8. TakenInv'
  BY <1>4, <1>6, <1>7 DEF TakenInv
<1> QED
  BY <1>4, <1>8

LEMMA SendPolledStep ==
    ASSUME IInv, scene' = scene, send_polled
    PROVE  IInv'
<1>1. /\ UNCHANGED <<ephemeral_port, drawn, wire_out, wire_in, peer>>
      /\ call.op = "send" /\ call.phase = "poll"
  BY DEF send_polled, NoAnswer
<1>2. /\ call \in CallBlock /\ TryOK /\ call.sent \in Nat /\ call.want \in Nat
      /\ \A k \in 1..call.sent :
            \E i \in 1..Len(peer[Me].rcvd) : peer[Me].rcvd[i] = session.taken + k
  BY <1>1, ControlFacts DEF IInv, CallInv, CountOK, CallBlock
<1>3. CASE tcp.reset_seen
  <2>1. /\ tcp' = Closed /\ recv_buf' = <<>> /\ call' = Idle
        /\ session' = [session EXCEPT !.taken = @ + call.sent]
    BY <1>3 DEF send_polled, Returns, SendReturns
  <2>2. /\ session' \in SessionBlock /\ session'.port = session.port
        /\ session'.read = session.read /\ session'.overtaken = session.overtaken /\ TakenInv'
    BY <1>1, <1>2, <2>1, TakenMore
  <2> QED
    BY <1>1, <2>1, <2>2, ClosingStep
<1>4. CASE ~tcp.reset_seen
  <2>1. tcp.state \in {"ESTABLISHED", "CLOSE_WAIT"}
    BY <1>1, <1>2, <1>4 DEF TryOK
  <2>2. CASE ~seq_ge(tcp.snd_una, call.last)
    <3>1. NextTry /\ UNCHANGED <<tcp, recv_buf, session>>
      BY <1>4, <2>2 DEF send_polled
    <3> QED
      BY <1>1, <2>1, <3>1, RetryStep
  <2>3. CASE seq_ge(tcp.snd_una, call.last)
    <3> DEFINE t == call.sent + chunk_len(call.want - call.sent)
               c == [call EXCEPT !.sent = t]
    <3>1. /\ \/ /\ c.sent < c.want
                /\ NextChunk(c, tcp)
                /\ UNCHANGED session
             \/ /\ c.sent >= c.want
                /\ SendReturns(c.sent)
                /\ UNCHANGED tcp
          /\ UNCHANGED recv_buf
      BY <1>4, <2>3 DEF send_polled
    <3>2. /\ Len(ChunkData) \in Nat /\ t = call.sent + Len(ChunkData)
          /\ \A k \in 1..Len(ChunkData) :
              \E i \in 1..Len(peer[Me].rcvd) : peer[Me].rcvd[i] = session.taken + call.sent + k
      BY <1>1, <2>3, ChunkFacts, ChunkArrived
    <3>3. N + (call.want - call.sent - Len(ChunkData)) <= SpaceMax
      BY <1>1 DEF IInv, CallInv, ChunkOK
    <3> HIDE DEF t
    <3>4. t \in Nat
      BY <1>2, <3>2
    <3>5. c \in CallBlock /\ c.op = "send" /\ c.want = call.want /\ c.sent = t
      BY <1>1, <1>2, <3>4 DEF CallBlock
    <3> HIDE DEF c
    <3>6. ASSUME NEW k \in 1..t
          PROVE  \E i \in 1..Len(peer[Me].rcvd) : peer[Me].rcvd[i] = session.taken + k
      <4>1. CASE k <= call.sent
        <5>1. k \in 1..call.sent
          BY <1>2, <3>4, <4>1
        <5> QED
          BY <1>2, <5>1
      <4>2. CASE k > call.sent
        <5> DEFINE j == k - call.sent
                   n == Len(ChunkData)
        <5>1. session.taken \in Nat
          BY ControlFacts DEF SessionBlock
        <5>2. n \in Nat /\ t = call.sent + n
          BY <3>2
        <5> HIDE DEF n
        <5>3. j \in 1..n /\ session.taken + call.sent + j = session.taken + k
          BY <1>2, <3>4, <4>2, <5>1, <5>2
        <5> HIDE DEF j
        <5>4. \E i \in 1..Len(peer[Me].rcvd) : peer[Me].rcvd[i] = session.taken + call.sent + j
          BY <3>2, <5>3 DEF n
        <5> QED
          BY <5>3, <5>4
      <4> QED
        BY <1>2, <3>4, <4>1, <4>2
    <3>7. CASE c.sent < c.want /\ NextChunk(c, tcp) /\ UNCHANGED session
      <4>1. N + (c.want - c.sent) <= SpaceMax
        <5> DEFINE n == Len(ChunkData)
                   x == N
        <5>1. n \in Nat /\ x \in Nat /\ SpaceMax \in Nat /\ t = call.sent + n
          BY <3>2, SendNumbers
        <5>2. x + (call.want - call.sent - n) <= SpaceMax
          BY <3>3
        <5> HIDE DEF n, x
        <5>3. x + (call.want - t) <= SpaceMax
          BY <1>2, <5>1, <5>2
        <5> QED
          BY <3>5, <5>3 DEF x
      <4>2. \A k \in 1..c.sent :
                \E i \in 1..Len(peer[Me].rcvd) : peer[Me].rcvd[i] = session.taken + k
        BY <3>5, <3>6
      <4>3. recv_buf' = recv_buf /\ session' = session /\ call.op # "close"
        BY <1>1, <3>1, <3>7
      <4> QED
        BY <1>1, <2>1, <3>5, <3>7, <4>1, <4>2, <4>3, NextChunkStep
    <3>8. CASE c.sent >= c.want /\ SendReturns(c.sent) /\ UNCHANGED tcp
      <4>1. session' = [session EXCEPT !.taken = @ + t] /\ call' = Idle /\ recv_buf' = recv_buf
        BY <3>1, <3>5, <3>8 DEF SendReturns, Returns
      <4>2. /\ session' \in SessionBlock /\ session'.port = session.port
            /\ session'.read = session.read /\ session'.overtaken = session.overtaken /\ TakenInv'
        BY <1>1, <3>4, <3>6, <4>1, TakenMore
      <4>3. tcp' = tcp /\ call.op # "close"
            /\ tcp.state \notin {"SYN_SENT", "FIN_WAIT1", "FIN_WAIT2", "LAST_ACK"}
        BY <1>1, <2>1, <3>8
      <4> QED
        BY <1>1, <4>1, <4>2, <4>3, ReturnStep
    <3> QED
      BY <3>1, <3>7, <3>8
  <2> QED
    BY <2>2, <2>3
<1> QED
  BY <1>3, <1>4

LEMMA SendFailsStep ==
    ASSUME IInv, scene' = scene, send_fails
    PROVE  IInv'
<1>1. /\ UNCHANGED <<tcp, recv_buf, ephemeral_port, drawn, wire_out, wire_in, peer>>
      /\ call.op = "send" /\ call.phase = "tx" /\ call' = Idle
      /\ session' = [session EXCEPT !.taken = @ + call.sent]
  BY DEF send_fails, NoAnswer, SendReturns, Returns
<1>2. /\ call \in CallBlock /\ TryOK /\ call.sent \in Nat
      /\ \A k \in 1..call.sent :
            \E i \in 1..Len(peer[Me].rcvd) : peer[Me].rcvd[i] = session.taken + k
  BY <1>1, ControlFacts DEF IInv, CallInv, CountOK, CallBlock
<1>3. tcp.state \notin {"SYN_SENT", "FIN_WAIT1", "FIN_WAIT2", "LAST_ACK"}
  BY <1>1, <1>2 DEF TryOK
<1>4. /\ session' \in SessionBlock /\ session'.port = session.port
      /\ session'.read = session.read /\ session'.overtaken = session.overtaken /\ TakenInv'
  BY <1>1, <1>2, TakenMore
<1> QED
  BY <1>1, <1>3, <1>4, ReturnStep

LEMMA SendStep ==
    ASSUME IInv, scene' = scene, NEW n \in 1..IoMax, send(n)
    PROVE  IInv'
<1>1. /\ UNCHANGED <<recv_buf, ephemeral_port, drawn, wire_out, wire_in, peer, session>>
      /\ call = Idle /\ Room(n) /\ tcp.state \in {"ESTABLISHED", "CLOSE_WAIT"}
      /\ NextChunk([Idle EXCEPT !.op = "send", !.want = n], tcp)
  BY DEF send, NoAnswer, Begins
<1> DEFINE c == [Idle EXCEPT !.op = "send", !.want = n]
<1>2. Idle = InCall("idle", "poll", 0, 0, 0, 0, 0, 0) /\ Idle \in CallBlock /\ n \in Nat /\ n > 0
  <2>1. scene \in Scenes
    BY ControlFacts
  <2>2. IoMax \in Nat
    BY <2>1, SceneFacts
  <2>3. n \in Nat /\ n > 0
    BY <2>2
  <2> QED
    BY <2>1, <2>3, IdleIs
<1>3. c \in CallBlock /\ c.op = "send" /\ c.want = n /\ c.sent = 0
  BY <1>2 DEF CallBlock, InCall
<1>4. NextChunk(c, tcp)
  BY <1>1
<1> HIDE DEF c
<1>5. c.sent < c.want
  BY <1>2, <1>3
<1>6. N + (c.want - c.sent) <= SpaceMax
  <2>1. N + n <= SpaceMax
    BY <1>1 DEF Room, N
  <2>2. c.want - c.sent = n
    BY <1>2, <1>3
  <2> QED
    BY <2>1, <2>2
<1>7. \A k \in 1..c.sent : \E i \in 1..Len(peer[Me].rcvd) : peer[Me].rcvd[i] = session.taken + k
  BY <1>3
<1>8. call.op # "close"
  BY <1>1 DEF Idle
<1> QED
  BY <1>1, <1>3, <1>4, <1>5, <1>6, <1>7, <1>8, NextChunkStep

\* A segment with bytes or a FIN that an open connection transmits.
Carrier(m) ==
    /\ m.segment \in Segments /\ m.window \in Nat /\ m.window <= RecvCap - Len(recv_buf)
    /\ m.segment.port = Me /\ m.segment.ack = tcp.rcv_nxt /\ Plain(m)
    /\ "PSH" \notin m.segment.flags => m.segment.data = <<>>
    /\ ~("PSH" \in m.segment.flags /\ "FIN" \in m.segment.flags)
    /\ Owned(m.segment)

LEMMA CarrierStep ==
    ASSUME IInv, scene' = scene, UNCHANGED <<tcp, recv_buf, drawn, wire_in, peer, session>>, Open,
           \A m \in wire_out' : m \in wire_out \/ Carrier(m)
    PROVE  WireInv' /\ RecvInv' /\ StreamInv' /\ TakenInv' /\ NumbersOK'
<1>1. /\ TypeOK /\ BlockOK /\ scene \in Scenes /\ recv_buf \in Seq(Nat)
      /\ tcp.state \notin {"SYN_SENT", "CLOSED"}
  BY ControlFacts DEF Open
<1>2. Me # 0 /\ Me \in scene.ports
  BY <1>1 DEF BlockOK
<1>3. RecvCap \in Nat /\ Len(recv_buf) \in Nat
  BY <1>1, SceneFacts, LenProperties
<1>4. ASSUME NEW m \in wire_out', m \notin wire_out
      PROVE  OutFine(m) /\ (~session.overtaken => Heard(m))
  <2>1. Carrier(m)
    BY <1>4
  <2>2. /\ ~Bound(Me) => Void(m)
        /\ ~session.overtaken => Heard(m)
    BY <2>1, OutAck DEF Carrier
  <2>3. m.window <= RecvCap
    BY <1>3, <2>1 DEF Carrier
  <2> QED
    BY <1>2, <2>1, <2>2, <2>3 DEF Carrier, OutFine, Plain
<1>5. WireInv'
  <2>1. Drawn' = Drawn
    BY DEF Drawn
  <2>2. \A m : OutFine(m)' <=> OutFine(m)
    BY <2>1 DEF OutFine, Owned, Plain, Void, Bound
  <2> QED
    BY <1>4, <2>1, <2>2, KernelWire
<1>6. RecvInv' /\ StreamInv'
  <2>1. Me' = Me
    BY DEF Me
  <2> QED
    BY <1>1, <1>4, <2>1, RecvFrame
<1>7. NumbersOK'
  <2>1. U' = U /\ N' = N /\ (Linked' <=> Linked) /\ Got(Me)' = Got(Me)
    BY DEF U, N, Linked, Got, Bound, Me
  <2> QED
    BY <2>1 DEF IInv, SendInv, NumbersOK
<1> QED
  BY <1>5, <1>6, <1>7, TakenSame

LEMMA SendTryStep ==
    ASSUME IInv, scene' = scene, send_try
    PROVE  IInv'
<1>1. call.op = "send"
  BY DEF send_try
<1>2. /\ call.sent <= call.want /\ Len(ChunkData) \in Nat
      /\ 1 <= F /\ F + Len(ChunkData) = N
  BY <1>1, ChunkFacts DEF IInv, CallInv, ChunkOK
<1>3. /\ ControlInv' /\ UNCHANGED <<tcp, recv_buf, drawn, wire_in, peer, session>>
      /\ tcp.state \in {"ESTABLISHED", "CLOSE_WAIT"}
      /\ call'.op = "send" /\ call'.first = call.first
      /\ call'.last = call.last /\ call'.want = call.want /\ call'.sent = call.sent
      /\ \A m \in wire_out' :
            \/ m \in wire_out
            \/ /\ m.segment \in Segments /\ m.window \in Nat
               /\ m.window <= RecvCap - Len(recv_buf)
               /\ m.segment.port = Me /\ m.segment.flags = {"ACK", "PSH"}
               /\ m.segment.seq = call.first /\ m.segment.ack = tcp.rcv_nxt
               /\ m.segment.data = ChunkData
  BY <1>2, ControlFacts, SendTryControl
<1>4. tcp.snd_iss \in Drawn /\ tcp.snd_iss # 0 /\ N <= SpaceMax + 1
  <2>1. tcp.snd_iss # 0
    BY <1>3, ControlFacts DEF BlockOK
  <2> QED
    BY <2>1, ControlFacts DEF BlockOK, IInv, SendInv, NumbersOK
<1>5. Open
  BY <1>3 DEF Open
<1>6. \A m \in wire_out' : m \in wire_out \/ Carrier(m)
  <2> SUFFICES ASSUME NEW m \in wire_out', m \notin wire_out PROVE Carrier(m)
    OBVIOUS
  <2>1. Size(m.segment) = Len(ChunkData)
    <3> DEFINE s == m.segment
    <3>1. s.data = ChunkData /\ "FIN" \notin s.flags
      BY <1>3
    <3> HIDE DEF s
    <3>2. Size(s) = Len(ChunkData) + 0
      BY <3>1 DEF Size
    <3>3. Size(s) = Len(ChunkData)
      BY <1>2, <3>2
    <3> QED
      BY <3>3 DEF s
  <2>2. Owned(m.segment)
    BY <1>2, <1>3, <1>4, <2>1 DEF Owned, F
  <2> QED
    BY <1>3, <2>2 DEF Carrier, Plain
<1>7. WireInv' /\ RecvInv' /\ StreamInv' /\ TakenInv' /\ NumbersOK'
  BY <1>3, <1>5, <1>6, CarrierStep
<1>8. /\ Me' = Me /\ N' = N /\ F' = F /\ ChunkData' = ChunkData
      /\ (Linked' <=> Linked) /\ (tcp'.state # "SYN_SENT")
      /\ \A m : Off(m)' = Off(m) /\ (Mine(m)' <=> Mine(m))
  BY <1>3 DEF Me, N, F, ChunkData, Linked, Bound, Off, Mine
<1>9. ASSUME NEW m \in wire_out', m \notin wire_out
      PROVE  Off(m) = F /\ m.segment.data = ChunkData /\ "FIN" \notin m.segment.flags
  BY <1>3, <1>9 DEF Off, F
<1>10. SentOK'
  <2> SUFFICES ASSUME NEW m \in wire_out', Mine(m)
               PROVE  /\ "PSH" \in m.segment.flags => Off(m) + Len(m.segment.data) <= N
                      /\ "FIN" \notin m.segment.flags
    BY <1>3, <1>8 DEF SentOK
  <2>1. CASE m \in wire_out
    BY <1>1, <1>4, <2>1 DEF IInv, SendInv, SentOK
  <2>2. CASE m \notin wire_out
    <3>1. N \in Nat
      BY SendNumbers
    <3> QED
      BY <1>2, <1>9, <2>2, <3>1
  <2> QED
    BY <2>1, <2>2
<1>11. OpeningOK' /\ ClosingOK'
  BY <1>1, <1>3, <1>8 DEF IInv, SendInv, OpeningOK, ClosingOK
<1>12. ChunkOK'
  <2>1. /\ 1 <= F /\ F + Len(ChunkData) = N /\ call.last = tcp.snd_nxt
        /\ call.sent + Len(ChunkData) <= call.want
        /\ N + (call.want - call.sent - Len(ChunkData)) <= SpaceMax
        /\ Linked => \/ 1 + Len(peer[Me].rcvd) <= F
                     \/ /\ 1 + Len(peer[Me].rcvd) = N
                        /\ \A k \in 1..Len(ChunkData) : peer[Me].rcvd[F + k - 1] = ChunkData[k]
    BY <1>1 DEF IInv, CallInv, ChunkOK
  <2>2. ASSUME NEW m \in wire_out', Mine(m), "PSH" \in m.segment.flags
        PROVE  \/ Off(m) + Len(m.segment.data) <= F
               \/ Off(m) = F /\ m.segment.data = ChunkData
    BY <1>1, <1>9, <2>2 DEF IInv, CallInv, ChunkOK
  <2> HIDE DEF ChunkData
  <2> QED
    BY <1>3, <1>8, <2>1, <2>2 DEF ChunkOK
<1>13. CountOK' /\ EndOK' /\ NewOK'
  BY <1>1, <1>3, <1>8 DEF IInv, CallInv, CountOK, EndOK, NewOK
<1> QED
  BY <1>3, <1>7, <1>10, <1>11, <1>12, <1>13 DEF IInv, SendInv, CallInv

LEMMA CloseTryStep ==
    ASSUME IInv, scene' = scene, close_try
    PROVE  IInv'
<1>1. /\ ControlInv' /\ UNCHANGED <<tcp, recv_buf, drawn, wire_in, peer, session>>
      /\ tcp.state \in {"FIN_WAIT1", "FIN_WAIT2", "LAST_ACK"}
      /\ call.op = "close" /\ call'.op = "close" /\ call'.first = call.first
      /\ \A m \in wire_out' :
            \/ m \in wire_out
            \/ /\ m.segment \in Segments /\ m.window \in Nat
               /\ m.window <= RecvCap - Len(recv_buf)
               /\ m.segment.port = Me /\ m.segment.flags = {"FIN", "ACK"}
               /\ m.segment.seq = call.first /\ m.segment.ack = tcp.rcv_nxt
               /\ m.segment.data = <<>>
  BY ControlFacts, CloseTryControl
<1>2. F + 1 = N /\ 1 <= F
  BY <1>1 DEF IInv, CallInv, EndOK
<1>3. F \in Nat /\ N \in Nat
  BY SendNumbers
<1>4. tcp.snd_iss \in Drawn /\ tcp.snd_iss # 0 /\ N <= SpaceMax + 1
  <2>1. tcp.snd_iss # 0
    BY <1>1, ControlFacts DEF TryOK
  <2> QED
    BY <2>1, ControlFacts DEF BlockOK, IInv, SendInv, NumbersOK
<1>5. Open
  BY <1>1 DEF Open
<1>6. \A m \in wire_out' : m \in wire_out \/ Carrier(m)
  <2> SUFFICES ASSUME NEW m \in wire_out', m \notin wire_out PROVE Carrier(m)
    OBVIOUS
  <2>1. Size(m.segment) = 1
    <3>1. Size(m.segment) = 0 + 1
      BY <1>1, EmptySeq DEF Size
    <3> QED
      BY <3>1
  <2>2. Owned(m.segment)
    BY <1>1, <1>2, <1>4, <2>1 DEF Owned, F
  <2> QED
    BY <1>1, <2>2 DEF Carrier, Plain
<1>7. WireInv' /\ RecvInv' /\ StreamInv' /\ TakenInv' /\ NumbersOK'
  BY <1>1, <1>5, <1>6, CarrierStep
<1>8. /\ Me' = Me /\ N' = N /\ F' = F
      /\ (Linked' <=> Linked) /\ (tcp'.state # "SYN_SENT")
      /\ \A m : Off(m)' = Off(m) /\ (Mine(m)' <=> Mine(m))
  BY <1>1 DEF Me, N, F, Linked, Bound, Off, Mine
<1>9. SentOK'
  <2> SUFFICES ASSUME NEW m \in wire_out', Mine(m)
               PROVE  /\ "PSH" \in m.segment.flags => Off(m) + Len(m.segment.data) <= N /\ Off(m) + Len(m.segment.data) < N
                      /\ "FIN" \in m.segment.flags => Off(m) + 1 = N
    BY <1>1, <1>8 DEF SentOK
  <2>1. CASE m \in wire_out
    BY <1>1, <1>4, <2>1 DEF IInv, SendInv, SentOK
  <2>2. CASE m \notin wire_out
    BY <1>1, <1>2, <2>2 DEF Off, F
  <2> QED
    BY <2>1, <2>2
<1>10. OpeningOK' /\ ClosingOK'
  BY <1>1, <1>8 DEF IInv, SendInv, OpeningOK, ClosingOK
<1>11. CallInv'
  <2>1. EndOK'
    BY <1>1, <1>8 DEF IInv, CallInv, EndOK
  <2> QED
    BY <1>1, <2>1 DEF CallInv, ChunkOK, CountOK, NewOK
<1> QED
  BY <1>1, <1>7, <1>9, <1>10, <1>11 DEF IInv, SendInv

LEMMA CloseStep ==
    ASSUME IInv, scene' = scene, close
    PROVE  IInv'
<1>1. CASE /\ tcp' = Closed /\ recv_buf' = <<>> /\ call' = Idle
           /\ UNCHANGED <<ephemeral_port, drawn, wire_out, wire_in, peer, session>>
  BY <1>1, ControlFacts, TakenSame, ClosingStep
<1>2. CASE /\ ControlInv' /\ Room(1) /\ call.op = "idle"
           /\ tcp.state \in {"ESTABLISHED", "CLOSE_WAIT"}
           /\ tcp'.state \in {"FIN_WAIT1", "LAST_ACK"} /\ Me' = Me /\ tcp'.snd_iss = tcp.snd_iss
           /\ tcp'.snd_una = tcp.snd_una /\ tcp'.rcv_nxt = tcp.rcv_nxt
           /\ tcp'.snd_nxt = Plus(tcp.snd_nxt, 1) /\ tcp.snd_iss # 0
           /\ call'.op = "close" /\ call'.first = tcp.snd_nxt
           /\ UNCHANGED <<recv_buf, drawn, wire_out, wire_in, peer, session>>
  <2>1. /\ tcp \in Control /\ SeqMod \in Nat \ {0} /\ Me \in Port /\ BlockOK
    BY <1>2, ControlFacts DEF BlockOK, Me, Control
  <2>2. U \in Nat /\ N \in Nat /\ SpaceMax \in Nat /\ SpaceMax + 2 < SeqMod
        /\ Len(peer[Me].rcvd) \in Nat /\ Got(Me) \in Nat /\ Len(peer[Me].rcvd) <= Got(Me)
    BY <2>1, SendNumbers
  <2>3. N + 1 <= SpaceMax
    BY <1>2 DEF Room, N
  <2>4. N' = N + 1
    <3> DEFINE one == 1
    <3>1. tcp.snd_iss \in Seqno /\ tcp.snd_nxt \in Seqno /\ one \in Nat
      BY <2>1 DEF Control
    <3>2. N + one < SeqMod
      BY <2>1, <2>2, <2>3
    <3>3. tcp'.snd_nxt = Plus(tcp.snd_nxt, one)
      BY <1>2
    <3> HIDE DEF one
    <3>4. Distance(tcp.snd_iss, Plus(tcp.snd_nxt, one)) = Distance(tcp.snd_iss, tcp.snd_nxt) + one
      BY <2>1, <3>1, <3>2, DistancePlus DEF N
    <3>5. N' = N + one
      BY <1>2, <3>3, <3>4 DEF N
    <3> QED
      BY <3>5 DEF one
  <2>5. U' = U /\ F' = N /\ (Linked' <=> Linked) /\ Got(Me)' = Got(Me)
        /\ \A m : Off(m)' = Off(m) /\ (Mine(m)' <=> Mine(m))
    BY <1>2 DEF U, F, N, Linked, Bound, Got, Off, Mine
  <2>6. /\ U <= N /\ 1 <= N
        /\ U = 0 \/ (Linked /\ U <= 1 + Got(Me))
        /\ Linked => 1 + Got(Me) <= N
    BY <1>2 DEF IInv, SendInv, NumbersOK
  <2>7. NumbersOK'
    <3>1. U <= N' /\ 1 <= N' /\ N' <= SpaceMax + 1 /\ (Linked => 1 + Got(Me) <= N')
      BY <2>2, <2>3, <2>4, <2>6
    <3> QED
      BY <2>5, <2>6, <3>1 DEF NumbersOK
  <2>8. SentOK'
    <3> SUFFICES ASSUME NEW m \in wire_out, Mine(m)
                 PROVE  /\ "PSH" \in m.segment.flags =>
                              /\ Off(m) + Len(m.segment.data) <= N'
                              /\ Off(m) + Len(m.segment.data) < N'
                        /\ "FIN" \notin m.segment.flags
      BY <1>2, <2>5 DEF SentOK
    <3>1. /\ "PSH" \in m.segment.flags => Off(m) + Len(m.segment.data) <= N
          /\ "FIN" \notin m.segment.flags
      BY <1>2 DEF IInv, SendInv, SentOK
    <3>2. Off(m) \in Nat /\ Len(m.segment.data) \in Nat
      <4>1. m.segment.seq \in Seqno /\ m.segment.data \in Seq(Nat) /\ tcp.snd_iss \in Seqno
        BY ControlFacts DEF TypeOK, Segments, Control
      <4> QED
        BY <2>1, <4>1, DistanceNat, LenProperties DEF Off
    <3> QED
      BY <2>2, <2>4, <3>1, <3>2
  <2>9. OpeningOK' /\ ClosingOK'
    <3>1. Linked => ~peer[Me].eof /\ Len(peer[Me].rcvd) + 2 <= N'
      <4>1. Linked => ~peer[Me].eof
        BY <1>2 DEF IInv, SendInv, ClosingOK
      <4> QED
        BY <2>2, <2>4, <2>6, <4>1
    <3> QED
      BY <1>2, <2>5, <3>1 DEF OpeningOK, ClosingOK
  <2>10. CallInv'
    <3>1. EndOK'
      BY <1>2, <2>4, <2>5, <2>6 DEF EndOK
    <3> QED
      BY <1>2, <3>1 DEF CallInv, ChunkOK, CountOK, NewOK
  <2>11. RecvInv' /\ StreamInv'
    BY <1>2, RecvFrame
  <2>12. WireInv' /\ TakenInv'
    <3>1. Drawn' = Drawn
      BY <1>2 DEF Drawn
    <3> QED
      BY <1>2, <3>1, KernelWire, TakenSame
  <2> QED
    BY <1>2, <2>7, <2>8, <2>9, <2>10, <2>11, <2>12 DEF IInv, SendInv
<1> QED
  BY <1>1, <1>2, ControlFacts, CloseControl

LEMMA ClosePolledStep ==
    ASSUME IInv, scene' = scene, close_polled
    PROVE  IInv'
<1>1. /\ UNCHANGED <<ephemeral_port, drawn, wire_out, wire_in, peer>>
      /\ call.op = "close" /\ call.phase = "poll"
  BY DEF close_polled, NoAnswer
<1>2. BlockOK /\ TryOK /\ session \in SessionBlock
  BY ControlFacts
<1>3. tcp.active = (tcp.state # "CLOSED")
  BY <1>2 DEF BlockOK
<1>4. CASE tcp.state = "CLOSED"
  <2>1. /\ tcp' = Closed /\ recv_buf' = <<>> /\ call' = Idle
        /\ session' = [session EXCEPT !.finished = TRUE]
    BY <1>3, <1>4 DEF close_polled, Returns
  <2>2. /\ session' \in SessionBlock /\ session'.port = session.port
        /\ session'.read = session.read /\ session'.overtaken = session.overtaken
        /\ session'.taken = session.taken /\ session'.reset = session.reset
    BY <1>2, <2>1 DEF SessionBlock
  <2>3. Me = session.port /\ Me # 0
    <3>1. tcp.snd_iss # 0
      BY <1>1, <1>2 DEF TryOK
    <3> QED
      BY <1>2, <3>1 DEF BlockOK
  <2>4. ~session.reset => peer[session.port].eof
    BY <1>1, <1>4, <2>3 DEF IInv, CallInv, EndOK
  <2>5. TakenInv'
    BY <1>1, <2>2, <2>3, <2>4 DEF IInv, TakenInv
  <2> QED
    BY <1>1, <2>1, <2>2, <2>5, ClosingStep
<1>5. CASE tcp.state # "CLOSED"
  <2>1. NextTry /\ UNCHANGED <<tcp, recv_buf, session>>
    BY <1>3, <1>5 DEF close_polled
  <2> QED
    BY <1>1, <1>5, <2>1, RetryStep
<1> QED
  BY <1>4, <1>5

LEMMA CloseFailsStep ==
    ASSUME IInv, scene' = scene, close_fails
    PROVE  IInv'
<1>1. /\ UNCHANGED <<ephemeral_port, drawn, wire_out, session, wire_in, peer>>
      /\ tcp' = Closed /\ recv_buf' = <<>> /\ call' = Idle
  BY DEF close_fails, NoAnswer, Returns
<1> QED
  BY <1>1, ControlFacts, TakenSame, ClosingStep

\* Bytes popped from the ring.
Front(b, g) == SubSeq(b, 1, g)
Rest(b, g) == SubSeq(b, g + 1, Len(b))
LEMMA Popped ==
    ASSUME NEW b \in Seq(Nat), NEW g \in 0..Len(b)
    PROVE  /\ Front(b, g) \in Seq(Nat) /\ Rest(b, g) \in Seq(Nat)
           /\ Len(Rest(b, g)) <= Len(b) /\ Len(Rest(b, g)) \in Nat
           /\ Front(b, g) \o Rest(b, g) = b
           /\ b = <<>> => Rest(b, g) = <<>> /\ Front(b, g) = <<>>
<1> DEFINE l == Len(b)
           x == Front(b, g)
           y == Rest(b, g)
<1>1. l \in Nat /\ \A i \in 1..l : b[i] \in Nat
  BY LenProperties, ElementOfSeq
<1>2. g \in 0..l /\ x = SubSeq(b, 1, g) /\ y = SubSeq(b, g + 1, l)
  BY DEF Front, Rest
<1> HIDE DEF l, x, y
<1>3. g \in 0..l /\ g \in Int /\ g + 1 \in Int /\ l \in Int /\ 1 \in Int
  BY ONLY <1>1, <1>2
<1>4. x \in Seq(Nat)
  <2>1. \A i \in 1..g : b[i] \in Nat
    BY ONLY <1>1, <1>3
  <2> QED
    BY ONLY <1>2, <1>3, <2>1, SubSeqProperties
<1>5. y \in Seq(Nat) /\ Len(y) = IF g + 1 <= l THEN l - (g + 1) + 1 ELSE 0
  <2>1. \A i \in (g + 1)..l : b[i] \in Nat
    BY ONLY <1>1, <1>3
  <2> DEFINE f == g + 1
  <2>2. f \in Int /\ y = SubSeq(b, f, l) /\ \A i \in f..l : b[i] \in Nat
    BY <1>2, <1>3, <2>1
  <2> HIDE DEF f
  <2>3. y \in Seq(Nat) /\ Len(y) = IF f <= l THEN l - f + 1 ELSE 0
    BY ONLY <1>3, <2>2, SubSeqProperties
  <2> QED
    BY <2>3 DEF f
<1>6. Len(y) <= l /\ Len(y) \in Nat
  BY ONLY <1>1, <1>3, <1>5
<1>7. x \o y = b
  <2>1. CASE g = 0
    <3>1. x = <<>>
      BY <1>2, <2>1, SubSeqEmpty
    <3>2. y = b
      <4>1. y = SubSeq(b, 1, Len(b))
        <5>1. g + 1 = 1
          BY ONLY <2>1
        <5> QED
          BY <1>2, <5>1 DEF l
      <4> QED
        BY <4>1, SubSeqFull
    <3> QED
      BY <3>1, <3>2, ConcatEmptySeq
  <2>2. CASE g = l
    <3>1. x = b
      <4>1. x = SubSeq(b, 1, Len(b))
        BY <1>2, <2>2 DEF l
      <4> QED
        BY <4>1, SubSeqFull
    <3>2. y = <<>>
      <4> DEFINE f == g + 1
      <4>1. f \in Int /\ l < f /\ y = SubSeq(b, f, l)
        BY ONLY <1>1, <1>2, <1>3, <2>2 DEF f
      <4> HIDE DEF f
      <4> QED
        BY <1>3, <4>1, SubSeqEmpty
    <3> QED
      BY <3>1, <3>2, ConcatEmptySeq
  <2>3. CASE 1 <= g /\ g < l
    <3>1. x \o y = SubSeq(b, 1, Len(b))
      <4> DEFINE k == 1
                 m == g
                 h == Len(b)
      <4>1. k \in 1..(Len(b) + 1) /\ m \in (k - 1)..Len(b) /\ h \in m..Len(b)
        BY <1>1, <1>3, <2>3 DEF l
      <4>2. SubSeq(b, k, m) \o SubSeq(b, m + 1, h) = SubSeq(b, k, h)
        <5> HIDE DEF k, m, h
        <5> QED
          BY <4>1, ConcatAdjacentSubSeq
      <4> QED
        BY <1>2, <4>2 DEF l
    <3> QED
      BY <3>1, SubSeqFull
  <2> QED
    BY ONLY <1>1, <1>3, <2>1, <2>2, <2>3
<1>8. ASSUME b = <<>> PROVE y = <<>> /\ x = <<>>
  <2>1. l = 0 /\ g = 0
    BY <1>1, <1>3, <1>8, EmptySeq DEF l
  <2>2. x = <<>>
    BY <1>2, <2>1, SubSeqEmpty
  <2> QED
    BY <1>4, <1>5, <1>7, <1>8, <2>2, ConcatEmptySeq
<1> QED
  BY <1>4, <1>5, <1>6, <1>7, <1>8 DEF l, x, y

LEMMA PopStep ==
    ASSUME IInv, scene' = scene,
           UNCHANGED <<tcp, ephemeral_port, drawn, wire_out, wire_in, peer>>, NEW n \in Nat, Pops(n),
           TryOK', call' \in CallBlock, call'.op \in {"idle", call.op},
           call.op \notin {"send", "close", "connect"}
    PROVE  IInv'
<1>1. /\ scene \in Scenes /\ recv_buf \in Seq(Nat) /\ Len(recv_buf) <= RecvCap
      /\ session \in SessionBlock /\ tcp \in Control /\ ControlInv /\ SeqMod \in Nat \ {0}
      /\ BlockOK /\ TypeOK
  BY ControlFacts
<1> DEFINE g == IF n < Len(recv_buf) THEN n ELSE Len(recv_buf)
           x == Front(recv_buf, g)
           y == Rest(recv_buf, g)
<1>2. session' = [session EXCEPT !.read = @ \o x] /\ recv_buf' = y
  BY DEF Pops, Front, Rest
<1>3. g \in 0..Len(recv_buf)
  BY <1>1, LenProperties
<1> HIDE DEF g
<1>4. /\ x \in Seq(Nat) /\ y \in Seq(Nat) /\ Len(y) <= Len(recv_buf) /\ Len(y) \in Nat
      /\ x \o y = recv_buf /\ (recv_buf = <<>> => y = <<>> /\ x = <<>>)
  BY <1>1, <1>3, Popped
<1> HIDE DEF x, y
<1> DEFINE r == session.read
           q == session.read \o x
<1>5. r \in Seq(Nat) /\ q \in Seq(Nat)
  BY <1>1, <1>4, ConcatProperties DEF SessionBlock
<1>6. /\ session' \in SessionBlock /\ session'.port = session.port /\ session'.taken = session.taken
      /\ session'.read = q /\ session'.overtaken = session.overtaken
      /\ session'.reset = session.reset /\ session'.finished = session.finished
  <2>1. session' = [session EXCEPT !.read = q]
    BY <1>2
  <2> HIDE DEF q
  <2> QED
    BY <1>1, <1>5, <2>1 DEF SessionBlock
<1>7. Len(recv_buf) \in Nat /\ Len(recv_buf') \in Nat /\ Len(recv_buf') <= Len(recv_buf)
      /\ Len(recv_buf') <= RecvCap /\ RecvCap \in Nat /\ recv_buf' \in Seq(Nat)
  <2>1. RecvCap \in Nat /\ Len(recv_buf) \in Nat
    BY <1>1, SceneFacts, LenProperties
  <2> QED
    BY <1>1, <1>2, <1>4, <2>1
<1>8. ControlInv'
  BY <1>1, <1>6, <1>7, QuietControl
<1>9. Me' = Me /\ Drawn' = Drawn /\ U' = U /\ N' = N /\ D' = D
      /\ (Linked' <=> Linked) /\ (Live' <=> Live) /\ (Open' <=> Open) /\ Got(Me)' = Got(Me)
      /\ \A m : /\ Off(m)' = Off(m) /\ (Mine(m)' <=> Mine(m))
                /\ (Plain(m)' <=> Plain(m)) /\ (Void(m)' <=> Void(m))
  BY DEF Me, Drawn, U, N, D, Linked, Live, Open, Got, Bound, Off, Mine, Plain, Void
<1>10. WireInv'
  BY <1>9, KernelWire
<1>11. SendInv'
  <2>1. NumbersOK' /\ OpeningOK'
    BY <1>9 DEF IInv, SendInv, NumbersOK, OpeningOK
  <2>2. SentOK'
    BY <1>9 DEF IInv, SendInv, SentOK
  <2>3. ClosingOK'
    BY <1>9 DEF IInv, SendInv, ClosingOK
  <2> QED
    BY <2>1, <2>2, <2>3 DEF SendInv
<1>12. CallInv'
  BY CallEnds
<1>13. FreshOK'
  <2>1. Me = 0 => recv_buf' = <<>>
    BY <1>2, <1>4 DEF IInv, RecvInv, FreshOK
  <2>2. /\ (Me # 0 /\ (session.overtaken \/ tcp.state = "SYN_SENT")) => tcp.rcv_nxt = 0
        /\ (tcp.state = "SYN_SENT" /\ Linked) =>
              /\ Pristine(Me) /\ peer[Me].state # "open"
              /\ \A m \in wire_out : (m.segment.port = Me /\ Plain(m)) => Void(m)
    BY DEF IInv, RecvInv, FreshOK
  <2>3. Pristine(Me) => Pristine(Me)'
    BY <1>9 DEF Pristine
  <2> QED
    BY <1>6, <1>9, <2>1, <2>2, <2>3 DEF FreshOK
<1>14. NextOK'
  BY <1>6, <1>9 DEF IInv, RecvInv, NextOK
<1>15. RoomOK'
  <2> SUFFICES ASSUME Live, ~session.overtaken, Linked PROVE RoomOK'
    BY <1>6, <1>9 DEF RoomOK
  <2>1. /\ D <= peer[Me].nxt + (IF peer[Me].fin THEN 2 ELSE 1)
        /\ peer[Me].una + 1 <= D
        /\ peer[Me].edge + 1 + Len(recv_buf) <= D + RecvCap
        /\ \A m \in wire_out : (m.segment.port = Me /\ Plain(m)) => Heard(m)
    BY DEF IInv, RecvInv, RoomOK
  <2>2. D \in Nat /\ Me \in Port /\ PeerIss[Me] \in Seqno
    <3>1. Me # 0
      BY <1>1 DEF BlockOK, Linked
    <3>2. Me \in Port /\ tcp.rcv_nxt \in Seqno
      BY <1>1, <3>1 DEF Me, Control
    <3>3. PeerIss[Me] \in Seqno
      BY <1>1, <3>2, SceneFacts
    <3> QED
      BY <1>1, <3>2, <3>3, DistanceNat DEF D
  <2>3. peer[Me].edge \in Nat
    BY <1>1, <2>2 DEF TypeOK, PeerBlock
  <2>4. peer[Me].edge + 1 + Len(recv_buf') <= D + RecvCap
    BY <1>7, <2>1, <2>2, <2>3
  <2>5. ASSUME NEW m \in wire_out, m.segment.port = Me, Plain(m) PROVE Heard(m)'
    <3>1. Heard(m)
      BY <2>1, <2>5
    <3> DEFINE a == Distance(PeerIss[Me], m.segment.ack)
               d == D
               l == Len(recv_buf)
               l2 == Len(recv_buf')
               w == m.window
    <3>2. a \in Nat /\ d \in Nat /\ l \in Nat /\ l2 \in Nat /\ l2 <= l /\ w \in Nat
      <4>1. m.segment.ack \in Seqno /\ m.window \in Nat
        BY <1>1 DEF TypeOK, Segments
      <4> QED
        BY <1>1, <1>7, <2>2, <4>1, DistanceNat
    <3>3. Void(m) \/ (1 <= a /\ a <= d /\ a + w + l <= d + RecvCap)
      BY <3>1 DEF Heard
    <3> HIDE DEF a, d, l, l2, w
    <3>4. Void(m) \/ (1 <= a /\ a <= d /\ a + w + l2 <= d + RecvCap)
      BY <1>7, <3>2, <3>3
    <3> QED
      BY <1>9, <3>4 DEF Heard, a, d, l2, w
  <2> QED
    BY <1>9, <2>1, <2>4, <2>5 DEF RoomOK
<1>16. StreamInv'
  <2> SUFFICES ASSUME session.port # 0, ~session.overtaken PROVE StreamInv'
    BY <1>6 DEF StreamInv
  <2>1. Stream' = Stream
    <3>1. CASE Me = session.port
      <4>1. Stream = r \o recv_buf
        BY <3>1 DEF Stream, Me
      <4>2. Stream' = q \o y
        BY <1>2, <1>6, <3>1 DEF Stream, Me
      <4> HIDE DEF r
      <4>3. (r \o x) \o y = r \o (x \o y)
        <5>1. r \in Seq(Nat) /\ x \in Seq(Nat) /\ y \in Seq(Nat)
          BY <1>4, <1>5
        <5> HIDE DEF q
        <5> QED
          BY ONLY <5>1, ConcatAssociative, SMTT(30)
      <4> QED
        BY <1>4, <4>1, <4>2, <4>3 DEF r
    <3>2. CASE Me # session.port
      <4>1. Me = 0
        BY <1>1, <3>2 DEF BlockOK
      <4>2. x = <<>>
        BY <1>4, <4>1 DEF IInv, RecvInv, FreshOK
      <4>3. q = r
        BY <1>5, <4>2, ConcatEmptySeq
      <4> QED
        BY <1>6, <3>2, <4>3 DEF Stream, Me
    <3> QED
      BY <3>1, <3>2
  <2>2. \A k : Nth(k)' = Nth(k)
    BY <1>6, <2>1 DEF Nth
  <2>3. /\ \A i, j \in 1..Len(Stream) : i < j => Nth(i) < Nth(j)
        /\ ~peer[session.port].probed => \A k \in 1..Len(Stream) : Nth(k) = k
        /\ Live => /\ \A k \in 1..Len(Stream) : Nth(k) < D
                   /\ ~peer[Me].probed =>
                        Len(Stream) = IF D <= peer[Me].nxt + 1 THEN D - 1 ELSE peer[Me].nxt
        /\ tcp.state \in {"SYN_SENT", "LISTEN", "SYN_RECEIVED"} => Stream = <<>>
    BY DEF IInv, StreamInv
  <2> HIDE DEF Stream
  <2> QED
    BY <1>6, <1>9, <2>1, <2>2, <2>3 DEF StreamInv
<1>17. TakenInv'
  BY <1>6, TakenSame
<1> QED
  BY <1>8, <1>10, <1>11, <1>12, <1>13, <1>14, <1>15, <1>16, <1>17 DEF IInv, RecvInv

LEMMA RecvStep ==
    ASSUME IInv, scene' = scene, NEW n \in Reads, recv(n)
    PROVE  IInv'
<1>1. /\ UNCHANGED <<tcp, ephemeral_port, drawn, wire_out, wire_in, peer>>
      /\ call = Idle /\ n \in Nat
  <2>1. scene \in Scenes
    BY ControlFacts
  <2> QED
    BY <2>1, SceneFacts DEF recv, NoAnswer, Begins
<1>2. call.op = "idle" /\ call \in CallBlock /\ TryOK
  BY <1>1, ControlFacts DEF Idle
<1>3. CASE Pops(n) /\ UNCHANGED call
  <2>1. TryOK'
    BY <1>1, <1>2, <1>3 DEF TryOK, Me
  <2> QED
    BY <1>1, <1>2, <1>3, <2>1, PopStep
<1>4. CASE call' = [Idle EXCEPT !.op = "recv", !.want = n] /\ UNCHANGED <<recv_buf, session>>
  <2>1. call' \in CallBlock /\ call'.op = "recv"
    BY <1>1, <1>4, ControlFacts, IdleIs DEF CallBlock
  <2>2. TryOK'
    BY <1>1, <1>2, <2>1 DEF TryOK, Me
  <2>3. ControlInv'
    BY <1>1, <1>4, <2>1, <2>2, ControlFacts, QuietControl
  <2>4. CallInv'
    BY <2>1, CallEnds
  <2> QED
    BY <1>1, <1>2, <1>4, <2>1, <2>3, <2>4, TakenSame, QuietStep
<1> QED
  BY <1>3, <1>4 DEF recv

LEMMA RecvPolledStep ==
    ASSUME IInv, scene' = scene, recv_polled
    PROVE  IInv'
<1>1. /\ UNCHANGED <<tcp, ephemeral_port, drawn, wire_out, wire_in, peer>>
      /\ call.op = "recv" /\ call' = Idle /\ Pops(call.want)
  BY DEF recv_polled, NoAnswer, Returns
<1>2. call.want \in Nat /\ TryOK
  BY ControlFacts DEF CallBlock
<1>3. tcp.state \notin {"SYN_SENT", "FIN_WAIT1", "FIN_WAIT2", "LAST_ACK"}
  BY <1>1, <1>2 DEF TryOK
<1>4. TryOK' /\ call' \in CallBlock /\ call'.op = "idle"
  BY <1>1, <1>3, ControlFacts, ReturnControl
<1> QED
  BY <1>1, <1>2, <1>4, PopStep

\* A call that begins a connection.
LEMMA FreshStep ==
    ASSUME IInv, scene' = scene, ControlInv', tcp'.snd_iss = 0,
           tcp'.state \in {"SYN_SENT", "LISTEN"}, tcp'.state = "SYN_SENT" => tcp'.rcv_nxt = 0,
           recv_buf' = <<>>, session'.taken = 0, session'.finished = FALSE, session'.read = <<>>,
           call'.op \in {"idle", "connect"}, Me' # 0,
           UNCHANGED <<drawn, wire_out, wire_in, peer>>
    PROVE  IInv'
<1>1. WireInv'
  <2>1. Drawn' = Drawn
    BY DEF Drawn
  <2> QED
    BY <2>1, KernelWire
<1>2. ~Linked' /\ ~Live' /\ ~Open'
  BY DEF Linked, Live, Open
<1>3. SendInv'
  BY <1>2 DEF SendInv, NumbersOK, SentOK, OpeningOK, ClosingOK
<1>4. CallInv'
  BY DEF CallInv, ChunkOK, CountOK, EndOK, NewOK
<1>5. session'.overtaken = FALSE
  <2>1. BlockOK' /\ session' \in SessionBlock
    BY DEF ControlInv, TypeOK
  <2>2. tcp'.state \in {"LISTEN", "SYN_SENT", "SYN_RECEIVED"} => ~session'.overtaken
    BY <2>1 DEF BlockOK
  <2> QED
    BY <2>1, <2>2 DEF SessionBlock
<1>6. RecvInv'
  BY <1>2, <1>5 DEF RecvInv, FreshOK, NextOK, RoomOK
<1>7. Stream' = <<>> /\ Len(Stream') = 0
  <2> DEFINE e == <<>>
  <2>1. e \in Seq(Nat) /\ Len(e) = 0
    BY EmptySeq
  <2>2. Stream' = e \o e
    BY DEF Stream
  <2>3. e \o <<>> = e
    BY <2>1, ConcatEmptySeq
  <2> QED
    BY <2>1, <2>2, <2>3
<1>8. StreamInv'
  <2>1. /\ \A i, j \in 1..Len(Stream') : FALSE
        /\ \A k \in 1..Len(Stream') : FALSE
    <3> DEFINE l == Len(Stream')
    <3>1. l = 0
      BY <1>7
    <3> HIDE DEF l
    <3> QED
      BY <3>1 DEF l
  <2> QED
    BY <1>2, <1>7, <2>1 DEF StreamInv
<1>9. TakenInv'
  <2>1. \A k \in 1..session'.taken : FALSE
    OBVIOUS
  <2> QED
    BY <2>1 DEF TakenInv
<1> QED
  BY <1>1, <1>3, <1>4, <1>6, <1>8, <1>9 DEF IInv

LEMMA ConnectStep ==
    ASSUME IInv, scene' = scene, NEW src \in scene.ports \cup {0}, connect(src)
    PROVE  IInv'
BY ControlFacts, ConnectControl, FreshStep

LEMMA ListenStep ==
    ASSUME IInv, scene' = scene, NEW port \in scene.ports, listen(port)
    PROVE  IInv'
BY ControlFacts, ListenControl, FreshStep

\* A new initial sequence number: no segment and no remote end belongs to it.
LEMMA NewSend ==
    ASSUME IInv, scene' = scene, drawn < Len(scene.iss), drawn' = drawn + 1, NEW n,
           n = scene.iss[drawn + 1], tcp'.snd_iss = n, tcp'.snd_una = n,
           tcp'.snd_nxt = Plus(n, 1), peer' = peer, Me' \in Port,
           \A m \in wire_out' :
               m \in wire_out \/ ("PSH" \notin m.segment.flags /\ "FIN" \notin m.segment.flags)
    PROVE  /\ ~Linked' /\ NumbersOK' /\ SentOK' /\ ClosingOK' /\ U' = 0 /\ N' = 1
           /\ Drawn \subseteq Drawn' /\ n \in Drawn' /\ n # 0 /\ n \in Seqno
           /\ \A m \in wire_out : "SYN" \in m.segment.flags => m.segment.seq # n
<1>1. /\ TypeOK /\ scene \in Scenes /\ SeqMod \in Nat \ {0} /\ drawn \in Nat
      /\ peer \in [Port -> PeerBlock]
  BY ControlFacts DEF TypeOK
<1>2. n \in Seqno /\ n # 0 /\ Distance(n, Plus(n, 1)) = 1
  BY <1>1, IssDrawn
<1>3. Drawn \subseteq Drawn' /\ n \in Drawn' /\ n \notin Drawn
  BY <1>1, MoreDrawn, NewNumber
<1>4. ~Linked'
  <2>1. PeerFine(Me')
    BY DEF IInv, WireInv, PeerOK
  <2>2. Bound(Me') => peer[Me'].irs \in Drawn
    BY <2>1 DEF PeerFine
  <2>3. Bound(Me)' => peer[Me'].irs # n
    BY <1>3, <2>2 DEF Bound
  <2> QED
    BY <2>3 DEF Linked
<1>5. U' = 0 /\ N' = 1
  <2>1. Distance(n, n) = 0
    BY <1>1, <1>2, DistanceSelf
  <2> QED
    BY <1>2, <2>1 DEF U, N
<1>6. NumbersOK'
  <2>1. SpaceMax \in Nat
    BY <1>1, SceneFacts
  <2>2. 1 <= SpaceMax + 1
    BY <2>1
  <2> QED
    BY <1>4, <1>5, <2>2 DEF NumbersOK
<1>7. SentOK'
  <2> SUFFICES ASSUME NEW m \in wire_out', Mine(m)'
               PROVE  "PSH" \notin m.segment.flags /\ "FIN" \notin m.segment.flags
    BY DEF SentOK
  <2>1. Distance(n, m.segment.seq) <= SpaceMax + 1
    BY DEF Mine, Off
  <2> SUFFICES ASSUME m \in wire_out, "PSH" \in m.segment.flags \/ "FIN" \in m.segment.flags
               PROVE  FALSE
    OBVIOUS
  <2>2. OutFine(m)
    BY DEF IInv, WireInv, OutOK
  <2>3. PICK b \in Drawn : Distance(b, m.segment.seq) + Size(m.segment) <= SpaceMax + 1
    BY <2>2 DEF OutFine, Owned
  <2>4. m.segment.seq \in Seqno /\ Len(m.segment.data) \in Nat
    BY <1>1, LenProperties DEF TypeOK, Segments
  <2>5. Size(m.segment) \in Nat
    <3> DEFINE s == m.segment
    <3>1. Len(s.data) \in Nat
      BY <2>4
    <3> HIDE DEF s
    <3>2. Len(s.data) + 1 \in Nat /\ Len(s.data) + 0 \in Nat
      BY ONLY <3>1
    <3>3. Size(s) \in Nat
      BY ONLY <3>2 DEF Size
    <3> QED
      BY <3>3 DEF s
  <2>6. b \in Seqno
    <3>1. TryOK
      BY ControlFacts
    <3> QED
      BY <1>1, <2>3, <3>1, DrawnFacts DEF TryOK
  <2>7. Distance(b, m.segment.seq) \in Nat /\ SpaceMax \in Nat
    BY <1>1, <2>4, <2>6, DistanceNat, SceneFacts
  <2>8. Distance(b, m.segment.seq) <= SpaceMax + 1
    BY <2>3, <2>5, <2>7
  <2>9. ~(Distance(scene.iss[drawn + 1], m.segment.seq) <= SpaceMax + 1)
    BY <1>1, <2>3, <2>4, <2>8, NewSpace
  <2> QED
    BY <2>1, <2>9
<1>8. ClosingOK'
  BY <1>4 DEF ClosingOK
<1>9. ASSUME NEW m \in wire_out, "SYN" \in m.segment.flags PROVE m.segment.seq # n
  <2>1. OutFine(m)
    BY DEF IInv, WireInv, OutOK
  <2>2. m.segment.seq \in Drawn
    BY <1>9, <2>1 DEF OutFine
  <2> QED
    BY <1>3, <2>2
<1> QED
  BY <1>2, <1>3, <1>4, <1>5, <1>6, <1>7, <1>8, <1>9

LEMMA ConnectTryStep ==
    ASSUME IInv, scene' = scene, connect_try
    PROVE  IInv'
<1> DEFINE n == scene.iss[drawn + 1]
<1>1. /\ ControlInv'
      /\ drawn < Len(scene.iss) /\ drawn' = drawn + 1 /\ Me' # 0
      /\ tcp'.state = tcp.state /\ tcp'.rcv_nxt = 0
      /\ tcp'.snd_iss = n /\ tcp'.snd_una = n
      /\ tcp'.snd_nxt = Plus(n, 1)
      /\ session'.taken = session.taken /\ session'.finished = session.finished
      /\ session'.read = session.read /\ call'.op = "connect"
      /\ session'.overtaken = FALSE =>
            tcp.state = "SYN_SENT" /\ session.overtaken = FALSE
      /\ UNCHANGED <<recv_buf, wire_in, peer>>
      /\ \A m \in wire_out' :
            \/ m \in wire_out
            \/ /\ m.segment \in Segments /\ m.window \in Nat /\ m.window <= RecvCap
               /\ m.segment.port = Me' /\ m.segment.flags = {"SYN"}
               /\ m.segment.seq = n /\ m.segment.data = <<>>
  BY ControlFacts, TryControl
<1>2. call.op = "connect"
  BY DEF connect_try
<1> HIDE DEF n
<1>3. Me' \in Port /\ Me' \in scene.ports /\ Me' = session'.port /\ session'.overtaken \in BOOLEAN
  <2>1. BlockOK' /\ tcp' \in Control /\ session' \in SessionBlock
    BY <1>1 DEF ControlInv, TypeOK
  <2>2. Me' \in {0, session'.port} /\ session'.port \in scene.ports \cup {0}
    BY <2>1 DEF BlockOK
  <2> QED
    BY <1>1, <2>1, <2>2 DEF Control, Me, SessionBlock
<1>4. /\ ~Linked' /\ NumbersOK' /\ SentOK' /\ ClosingOK'
      /\ Drawn \subseteq Drawn' /\ n \in Drawn'
      /\ \A m \in wire_out : "SYN" \in m.segment.flags => m.segment.seq # n
  <2>1. n = scene.iss[drawn + 1]
    BY DEF n
  <2>2. \A m \in wire_out' :
            m \in wire_out \/ ("PSH" \notin m.segment.flags /\ "FIN" \notin m.segment.flags)
    BY <1>1
  <2> QED
    BY <1>1, <1>3, <2>1, <2>2, NewSend
<1>5. OpeningOK'
  BY <1>1, <1>4 DEF OpeningOK
<1>6. WireInv'
  <2>1. ASSUME NEW m \in wire_out', m \notin wire_out PROVE OutFine(m)'
    BY <1>1, <1>3, <1>4, <2>1 DEF OutFine, Plain
  <2> QED
    BY <1>1, <1>4, <2>1, KernelWire
<1>7. CallInv'
  BY <1>1, <1>2 DEF IInv, CallInv, ChunkOK, CountOK, EndOK, NewOK
<1>8. RecvInv'
  <2>1. session'.overtaken = FALSE => ~Live' /\ ~Open'
    BY <1>1 DEF Live, Open
  <2> QED
    BY <1>1, <1>3, <1>4, <2>1 DEF RecvInv, FreshOK, NextOK, RoomOK
<1>9. StreamInv'
  <2> SUFFICES ASSUME session'.overtaken = FALSE PROVE StreamInv'
    BY <1>3 DEF StreamInv
  <2>1. tcp.state = "SYN_SENT" /\ session.overtaken = FALSE
    BY <1>1
  <2>2. Me = session.port /\ Me # 0
    BY <2>1, ControlFacts DEF BlockOK
  <2>3. Stream = <<>>
    BY <2>1, <2>2 DEF IInv, StreamInv
  <2> DEFINE r == session.read
             b == recv_buf
  <2>4. Stream = r \o b /\ Stream' = r \o b /\ r \in Seq(Nat) /\ b \in Seq(Nat)
    BY <1>1, <1>3, <2>2, ControlFacts DEF Stream, Me, SessionBlock
  <2>5. Stream' = <<>> /\ Len(Stream') = 0
    BY <2>3, <2>4, EmptySeq
  <2>6. /\ \A i, j \in 1..Len(Stream') : FALSE
        /\ \A k \in 1..Len(Stream') : FALSE
    <3> DEFINE l == Len(Stream')
    <3>1. l = 0
      BY <2>5
    <3> HIDE DEF l
    <3> QED
      BY <3>1 DEF l
  <2>7. ~Live'
    BY <1>1, <2>1 DEF Live, Open
  <2> QED
    BY <2>5, <2>6, <2>7 DEF StreamInv
<1>10. TakenInv'
  <2>1. session.taken = 0 /\ ~session.finished
    BY <1>2 DEF IInv, CallInv, NewOK
  <2>2. \A k \in 1..session'.taken : FALSE
    BY <1>1, <2>1
  <2> QED
    BY <1>1, <2>1, <2>2 DEF TakenInv
<1> QED
  BY <1>1, <1>4, <1>5, <1>6, <1>7, <1>8, <1>9, <1>10 DEF IInv, SendInv

-----------------------------------------------------------------------------
(* The segments that arrive                                                *)

\* The sending half of a segment that arrives: at most acknowledgements go out.
LEMMA SendFrame ==
    ASSUME IInv, scene' = scene, Me' = Me, tcp'.snd_iss = tcp.snd_iss,
           tcp'.snd_nxt = tcp.snd_nxt, UNCHANGED <<call, peer>>, NumbersOK',
           session'.taken = session.taken, session'.finished = session.finished,
           tcp'.state = "SYN_SENT" => tcp.state = "SYN_SENT", EndOK',
           \A m \in wire_out' :
               \/ m \in wire_out
               \/ {"SYN", "PSH", "FIN"} \cap m.segment.flags = {}
    PROVE  SendInv' /\ CallInv'
<1>1. /\ N' = N /\ F' = F /\ ChunkData' = ChunkData
      /\ (Linked' <=> Linked)
      /\ \A m : Off(m)' = Off(m) /\ (Mine(m)' <=> Mine(m))
  BY DEF N, F, ChunkData, Linked, Bound, Off, Mine
<1>2. \A m \in wire_out' :
          m \in wire_out \/ ("SYN" \notin m.segment.flags /\ "PSH" \notin m.segment.flags
                             /\ "FIN" \notin m.segment.flags)
  OBVIOUS
<1>3. SentOK'
  BY <1>1, <1>2 DEF IInv, SendInv, SentOK
<1>4. OpeningOK'
  BY <1>1, <1>2 DEF IInv, SendInv, OpeningOK
<1>5. ClosingOK'
  BY <1>1 DEF IInv, SendInv, ClosingOK
<1>6. ChunkOK'
  <2> SUFFICES ASSUME call.op = "send" PROVE ChunkOK'
    BY DEF ChunkOK
  <2>1. /\ 1 <= F /\ F + Len(ChunkData) = N /\ call.last = tcp.snd_nxt
        /\ call.sent + Len(ChunkData) <= call.want
        /\ N + (call.want - call.sent - Len(ChunkData)) <= SpaceMax
        /\ Linked => \/ 1 + Len(peer[Me].rcvd) <= F
                     \/ /\ 1 + Len(peer[Me].rcvd) = N
                        /\ \A k \in 1..Len(ChunkData) : peer[Me].rcvd[F + k - 1] = ChunkData[k]
    BY DEF IInv, CallInv, ChunkOK
  <2>2. ASSUME NEW m \in wire_out', Mine(m), "PSH" \in m.segment.flags
        PROVE  \/ Off(m) + Len(m.segment.data) <= F
               \/ Off(m) = F /\ m.segment.data = ChunkData
    BY <1>2, <2>2 DEF IInv, CallInv, ChunkOK
  <2> HIDE DEF ChunkData
  <2> QED
    BY <1>1, <2>1, <2>2 DEF ChunkOK
<1>7. CountOK' /\ NewOK'
  BY <1>1 DEF IInv, CallInv, CountOK, NewOK
<1> QED
  BY <1>3, <1>4, <1>5, <1>6, <1>7 DEF SendInv, CallInv

LEMMA SameNumbers ==
    ASSUME IInv, scene' = scene, Me' = Me, tcp'.snd_iss = tcp.snd_iss,
           tcp'.snd_nxt = tcp.snd_nxt, tcp'.snd_una = tcp.snd_una, UNCHANGED peer
    PROVE  NumbersOK'
<1>1. U' = U /\ N' = N /\ (Linked' <=> Linked) /\ Got(Me)' = Got(Me)
  BY DEF U, N, Linked, Bound, Got
<1> QED
  BY <1>1 DEF IInv, SendInv, NumbersOK

LEMMA StaleArrivesStep ==
    ASSUME IInv, scene' = scene, NEW s \in wire_in, stale_ack_arrives(s)
    PROVE  IInv'
<1>1. tcp' = Block(tcp.active, tcp.peer_fin, tcp.reset_seen, tcp.state, tcp.local_port,
                   tcp.snd_iss, tcp.snd_una, tcp.snd_nxt, tcp.rcv_nxt, TRUE)
  BY ControlFacts, StaleEffect
<1>2. UNCHANGED <<recv_buf, ephemeral_port, drawn, call, wire_out, wire_in, peer, session>>
  BY DEF stale_ack_arrives
<1>3. /\ tcp'.state = tcp.state /\ Me' = Me /\ tcp'.snd_iss = tcp.snd_iss
      /\ tcp'.snd_una = tcp.snd_una /\ tcp'.snd_nxt = tcp.snd_nxt /\ tcp'.rcv_nxt = tcp.rcv_nxt
  BY <1>1 DEF Block, Me
<1>4. ControlInv'
  BY ControlFacts, StaleControl
<1>5. WireInv'
  <2>1. Drawn' = Drawn
    BY <1>2 DEF Drawn
  <2> QED
    BY <1>2, <2>1, KernelWire
<1>6. EndOK'
  BY <1>2, <1>3 DEF IInv, CallInv, EndOK, F, N
<1>7. SendInv' /\ CallInv'
  <2>1. NumbersOK'
    BY <1>2, <1>3, SameNumbers
  <2> QED
    BY <1>2, <1>3, <1>6, <2>1, SendFrame
<1>8. RecvInv' /\ StreamInv'
  BY <1>2, <1>3, RecvFrame
<1> QED
  BY <1>2, <1>4, <1>5, <1>7, <1>8, TakenSame DEF IInv

LEMMA RstArrivesStep ==
    ASSUME IInv, scene' = scene, NEW s \in wire_in, rst_arrives(s)
    PROVE  IInv'
<1>1. /\ tcp' = Block(FALSE, tcp.peer_fin, TRUE, "CLOSED", tcp.local_port, tcp.snd_iss,
                      tcp.snd_una, tcp.snd_nxt, tcp.rcv_nxt, tcp.stale_ack_seen)
      /\ session' = Told(session.port, session.taken, session.read, TRUE, session.finished,
                         session.overtaken)
  BY ControlFacts, RstEffect
<1>2. UNCHANGED <<recv_buf, ephemeral_port, drawn, call, wire_out, wire_in, peer>>
  BY DEF rst_arrives
<1>3. /\ tcp'.state = "CLOSED" /\ Me' = Me /\ tcp'.snd_iss = tcp.snd_iss
      /\ tcp'.snd_una = tcp.snd_una /\ tcp'.snd_nxt = tcp.snd_nxt /\ tcp'.rcv_nxt = tcp.rcv_nxt
  BY <1>1 DEF Block, Me
<1>4. /\ session'.port = session.port /\ session'.taken = session.taken
      /\ session'.read = session.read /\ session'.reset = TRUE
      /\ session'.finished = session.finished /\ session'.overtaken = session.overtaken
  BY <1>1 DEF Told
<1>5. ControlInv'
  BY ControlFacts, RstControl
<1>6. WireInv'
  <2>1. Drawn' = Drawn
    BY <1>2 DEF Drawn
  <2> QED
    BY <1>2, <2>1, KernelWire
<1>7. EndOK'
  BY <1>2, <1>3, <1>4 DEF IInv, CallInv, EndOK, F, N
<1>8. SendInv' /\ CallInv'
  <2>1. NumbersOK'
    BY <1>2, <1>3, SameNumbers
  <2> QED
    BY <1>2, <1>3, <1>4, <1>7, <2>1, SendFrame
<1>9. ~Live' /\ ~Open'
  BY <1>3 DEF Live, Open
<1>10. RecvInv'
  <2>1. FreshOK'
    BY <1>2, <1>3, <1>4 DEF IInv, RecvInv, FreshOK
  <2> QED
    BY <1>9, <2>1 DEF RecvInv, NextOK, RoomOK
<1>11. Stream' = Stream
  BY <1>2, <1>3, <1>4 DEF Stream, Me
<1>12. \A k : Nth(k)' = Nth(k)
  BY <1>4, <1>11 DEF Nth
<1>13. StreamInv'
  <2> SUFFICES ASSUME session.port # 0, ~session.overtaken PROVE StreamInv'
    BY <1>4 DEF StreamInv
  <2>1. /\ \A i, j \in 1..Len(Stream) : i < j => Nth(i) < Nth(j)
        /\ ~peer[session.port].probed => \A k \in 1..Len(Stream) : Nth(k) = k
    BY DEF IInv, StreamInv
  <2> HIDE DEF Stream
  <2> QED
    BY <1>2, <1>3, <1>4, <1>9, <1>11, <1>12, <2>1 DEF StreamInv
<1>14. TakenInv'
  BY <1>2, <1>4, TakenSame
<1> QED
  BY <1>5, <1>6, <1>8, <1>10, <1>13, <1>14 DEF IInv

\* An acknowledgement in this connection's space comes from a remote end that has it.
LEMMA AckedBy ==
    ASSUME IInv, NEW s \in wire_in, s.port = Me, "ACK" \in s.flags, tcp.snd_iss # 0,
           Distance(tcp.snd_iss, s.ack) <= SpaceMax + 1
    PROVE  Linked /\ Distance(tcp.snd_iss, s.ack) \in 1..(1 + Got(Me))
<1>1. TypeOK /\ BlockOK /\ TryOK /\ scene \in Scenes
  BY ControlFacts
<1>2. Me \in Port /\ tcp.snd_iss \in Drawn /\ drawn <= Len(scene.iss) /\ s.ack \in Seqno
  BY <1>1 DEF BlockOK, TryOK, TypeOK, Control, Me, Segments
<1>3. Bound(Me) /\ Distance(peer[Me].irs, s.ack) \in 1..(1 + Got(Me))
  <2>1. InFine(s)
    BY DEF IInv, WireInv, InOK
  <2> QED
    BY <2>1 DEF InFine
<1>4. peer[Me].irs \in Drawn /\ Got(Me) <= SpaceMax
  <2>1. PeerFine(Me)
    BY <1>2 DEF IInv, WireInv, PeerOK
  <2> QED
    BY <1>3, <2>1 DEF PeerFine
<1>5. Got(Me) \in Nat /\ SpaceMax \in Nat
  BY <1>2, SendNumbers
<1>6. Distance(peer[Me].irs, s.ack) <= SpaceMax + 1
  <2> DEFINE d == Distance(peer[Me].irs, s.ack)
             g == Got(Me)
  <2>1. d \in 1..(1 + g) /\ g <= SpaceMax /\ g \in Nat
    BY <1>3, <1>4, <1>5
  <2> HIDE DEF d, g
  <2>2. d <= SpaceMax + 1
    BY <1>5, <2>1
  <2> QED
    BY <2>2 DEF d
<1>7. peer[Me].irs = tcp.snd_iss
  BY <1>1, <1>2, <1>4, <1>6, SameSpace
<1> QED
  BY <1>3, <1>7 DEF Linked

LEMMA FirstByte ==
    ASSUME IInv, NEW s \in wire_in, Arrives(s), "SYN" \in s.flags
    PROVE  /\ s.seq = PeerIss[Me] /\ Distance(PeerIss[Me], Plus(s.seq, 1)) = 1
           /\ Plus(s.seq, 1) \in Seqno /\ Me \in Port /\ s.port = Me
<1>1. /\ s \in Segments /\ tcp.local_port \in Port /\ s.port = tcp.local_port /\ scene \in Scenes
      /\ SeqMod \in Nat \ {0}
  BY ControlFacts, ArrivesFacts
<1>2. InFine(s)
  BY DEF IInv, WireInv, InOK
<1>3. s.seq = PeerIss[Me] /\ s.port = Me /\ Me \in Port
  BY <1>1, <1>2 DEF InFine, Me
<1>4. PeerIss[Me] \in Seqno
  BY <1>1, <1>3, SceneFacts
<1> DEFINE one == 1
<1>5. one \in Seqno
  BY <1>1, SmallNumbers
<1>6. Plus(PeerIss[Me], one) \in Seqno /\ Distance(PeerIss[Me], Plus(PeerIss[Me], one)) = one
  <2> HIDE DEF one
  <2> QED
    BY <1>1, <1>4, <1>5, PlusDistance
<1> QED
  BY <1>3, <1>6

\* A connection that begins has nothing in its stream.
LEMMA StreamStarts ==
    ASSUME IInv, scene' = scene, tcp.state \in {"LISTEN", "SYN_SENT"}, D' = 1, Me' = Me,
           UNCHANGED <<recv_buf, session, peer>>, tcp'.state \in {"SYN_RECEIVED", "ESTABLISHED"}
    PROVE  StreamInv'
<1>1. BlockOK /\ peer \in [Port -> PeerBlock] /\ tcp \in Control
  BY ControlFacts
<1>2. Me # 0 /\ Me = session.port /\ ~session.overtaken
  BY <1>1 DEF BlockOK
<1>3. peer[Me].nxt \in Nat
  <2>1. Me \in Port
    BY <1>1, <1>2 DEF Me, Control
  <2> QED
    BY <1>1, <2>1 DEF PeerBlock
<1>4. Stream' = Stream
  BY DEF Stream, Me
<1>5. Stream = <<>>
  BY <1>2 DEF IInv, StreamInv
<1>6. Stream' = <<>> /\ Len(Stream') = 0
  BY <1>4, <1>5, EmptySeq
<1>7. /\ \A i, j \in 1..Len(Stream') : FALSE
      /\ \A k \in 1..Len(Stream') : FALSE
  <2> DEFINE l == Len(Stream')
  <2>1. l = 0
    BY <1>6
  <2> HIDE DEF l
  <2> QED
    BY <2>1 DEF l
<1>8. Len(Stream') = IF D' <= peer[Me].nxt + 1 THEN D' - 1 ELSE peer[Me].nxt
  <2> DEFINE d == D'
             l == Len(Stream')
             x == peer[Me].nxt
  <2>1. d = 1 /\ l = 0 /\ x \in Nat
    BY <1>3, <1>6
  <2> HIDE DEF d, l, x
  <2>2. l = IF d <= x + 1 THEN d - 1 ELSE x
    BY <2>1
  <2> QED
    BY <2>2 DEF d, l, x
<1> HIDE DEF Stream
<1> QED
  BY <1>6, <1>7, <1>8 DEF StreamInv

LEMMA SynArrivesStep ==
    ASSUME IInv, scene' = scene, NEW s \in wire_in, syn_arrives(s)
    PROVE  IInv'
<1> DEFINE n == scene.iss[drawn + 1]
           r == Plus(s.seq, 1)
<1>1. /\ tcp' = Block(tcp.active, tcp.peer_fin, tcp.reset_seen, "SYN_RECEIVED", tcp.local_port,
                      n, n, Plus(n, 1), r, tcp.stale_ack_seen)
      /\ wire_out' = wire_out \cup
             {[segment |-> Segment(tcp.local_port, {"SYN", "ACK"}, n, r, <<>>),
               window |-> window(recv_buf)]}
  BY ControlFacts, SynEffect
<1>2. drawn < Len(scene.iss) /\ drawn' = drawn + 1 /\ tcp.state = "LISTEN"
      /\ UNCHANGED <<recv_buf, call, wire_in, peer, session>> /\ Arrives(s) /\ "SYN" \in s.flags
  BY DEF syn_arrives
<1>3. /\ s.seq = PeerIss[Me] /\ Distance(PeerIss[Me], r) = 1 /\ r \in Seqno /\ Me \in Port
  BY <1>2, FirstByte
<1>4. /\ TypeOK /\ BlockOK /\ TryOK /\ scene \in Scenes /\ recv_buf \in Seq(Nat)
      /\ Len(recv_buf) <= RecvCap
  BY ControlFacts
<1>5. n \in Seqno /\ n = scene.iss[drawn + 1]
  BY <1>2, <1>4, IssDrawn DEF TypeOK
<1> HIDE DEF n, r
<1>6. PICK m : /\ m = [segment |-> Segment(tcp.local_port, {"SYN", "ACK"}, n, r, <<>>),
                        window |-> window(recv_buf)]
               /\ wire_out' = wire_out \cup {m}
  BY <1>1
<1>7. /\ m.segment \in Segments /\ m.window \in Nat /\ m.window <= RecvCap - Len(recv_buf)
      /\ m.segment.port = Me /\ m.segment.flags = {"SYN", "ACK"} /\ m.segment.ack = r
      /\ m.segment.seq = n /\ m.segment.data = <<>>
  BY <1>3, <1>4, <1>5, <1>6, SynAckTyped DEF Me
<1>8. /\ tcp'.state = "SYN_RECEIVED" /\ Me' = Me /\ tcp'.snd_iss = n
      /\ tcp'.snd_una = n /\ tcp'.snd_nxt = Plus(n, 1) /\ tcp'.rcv_nxt = r
  BY <1>1 DEF Block, Me
<1>9. ControlInv'
  BY ControlFacts, SynControl
<1>10. /\ ~Linked' /\ NumbersOK' /\ SentOK' /\ ClosingOK'
       /\ Drawn \subseteq Drawn' /\ n \in Drawn'
  <2>1. \A x \in wire_out' :
            x \in wire_out \/ ("PSH" \notin x.segment.flags /\ "FIN" \notin x.segment.flags)
    BY <1>6, <1>7
  <2> QED
    BY <1>2, <1>3, <1>5, <1>8, <2>1, NewSend
<1>11. OpeningOK'
  BY <1>8 DEF OpeningOK
<1>12. Me \in scene.ports /\ ~session.overtaken /\ session.overtaken \in BOOLEAN
  BY <1>2, <1>4 DEF BlockOK, TypeOK, SessionBlock
<1>13. WireInv'
  <2>1. m.window <= RecvCap
    <3>1. RecvCap \in Nat /\ Len(recv_buf) \in Nat
      BY <1>4, SceneFacts, LenProperties
    <3> QED
      BY <1>7, <3>1
  <2>2. OutFine(m)'
    BY <1>7, <1>10, <1>12, <2>1 DEF OutFine, Plain
  <2>3. \A x \in wire_out' : x \in wire_out \/ OutFine(x)'
    BY <1>6, <2>2
  <2> QED
    BY <1>2, <1>10, <2>3, KernelWire
<1>14. CallInv'
  <2>1. call.op \notin {"send", "close", "connect"}
    BY <1>2, <1>4 DEF TryOK
  <2> QED
    BY <1>2, <2>1, CallEnds
<1>15. D' = 1
  BY <1>3, <1>8 DEF D
<1>16. RecvInv'
  <2>1. Me # 0
    BY <1>2, <1>4 DEF BlockOK
  <2>2. FreshOK'
    BY <1>2, <1>8, <1>12, <2>1 DEF FreshOK
  <2>3. NextOK'
    BY <1>8, <1>15 DEF NextOK, Open
  <2>4. RoomOK'
    BY <1>10 DEF RoomOK
  <2> QED
    BY <2>2, <2>3, <2>4 DEF RecvInv
<1>17. StreamInv'
  BY <1>2, <1>8, <1>15, StreamStarts
<1>18. TakenInv'
  BY <1>2, TakenSame
<1> QED
  BY <1>9, <1>10, <1>11, <1>13, <1>14, <1>16, <1>17, <1>18 DEF IInv, SendInv

LEMMA SynAckArrivesStep ==
    ASSUME IInv, scene' = scene, NEW s \in wire_in, syn_ack_arrives(s)
    PROVE  IInv'
<1> DEFINE r == Plus(s.seq, 1)
<1>1. /\ tcp' = Block(tcp.active, tcp.peer_fin, tcp.reset_seen, "ESTABLISHED", tcp.local_port,
                      tcp.snd_iss, s.ack, tcp.snd_nxt, r, tcp.stale_ack_seen)
      /\ wire_out' = wire_out \cup
             {[segment |-> Segment(tcp.local_port, {"ACK"}, 0, r, <<>>),
               window |-> window(recv_buf)]}
  BY ControlFacts, SynAckEffect
<1>2. /\ tcp.state = "SYN_SENT" /\ Arrives(s) /\ "SYN" \in s.flags /\ "ACK" \in s.flags
      /\ s.ack = tcp.snd_nxt /\ UNCHANGED <<recv_buf, drawn, call, wire_in, peer, session>>
  BY DEF syn_ack_arrives
<1>3. /\ Distance(PeerIss[Me], r) = 1 /\ r \in Seqno /\ Me \in Port /\ s.port = Me
  BY <1>2, FirstByte
<1>4. /\ TypeOK /\ BlockOK /\ TryOK /\ scene \in Scenes /\ recv_buf \in Seq(Nat)
      /\ Len(recv_buf) <= RecvCap /\ RecvCap \in Nat /\ Len(recv_buf) \in Nat
  <2>1. /\ TypeOK /\ BlockOK /\ TryOK /\ scene \in Scenes /\ recv_buf \in Seq(Nat)
        /\ Len(recv_buf) <= RecvCap
    BY ControlFacts
  <2> QED
    BY <2>1, SceneFacts, LenProperties
<1> HIDE DEF r
<1>5. PICK m : /\ m = [segment |-> Segment(tcp.local_port, {"ACK"}, 0, r, <<>>),
                       window |-> window(recv_buf)]
               /\ wire_out' = wire_out \cup {m}
  BY <1>1
<1>6. /\ m.segment \in Segments /\ m.window \in Nat /\ m.window <= RecvCap - Len(recv_buf)
      /\ m.segment.port = Me /\ m.segment.flags = {"ACK"} /\ m.segment.ack = r
      /\ m.segment.data = <<>>
  BY <1>3, <1>4, <1>5, AckTyped DEF Me
<1>7. /\ tcp'.state = "ESTABLISHED" /\ Me' = Me /\ tcp'.snd_iss = tcp.snd_iss
      /\ tcp'.snd_una = s.ack /\ tcp'.snd_nxt = tcp.snd_nxt /\ tcp'.rcv_nxt = r
  BY <1>1 DEF Block, Me
<1>8. ControlInv'
  BY ControlFacts, SynAckControl
<1>9. /\ call.op = "connect" /\ tcp.snd_iss # 0 /\ ~session.overtaken /\ Me \in scene.ports
      /\ Me # 0 /\ session.overtaken \in BOOLEAN
  <2>1. call.op = "connect" /\ tcp.snd_iss # 0
    BY <1>2, <1>4 DEF TryOK, Arrives
  <2>2. ~session.overtaken /\ Me \in scene.ports /\ Me # 0
    BY <1>2, <1>4 DEF BlockOK
  <2> QED
    BY <1>4, <2>1, <2>2 DEF TypeOK, SessionBlock
<1>10. /\ 1 <= N /\ N <= SpaceMax + 1
       /\ Linked => 1 + Got(Me) <= N
  BY <1>9 DEF IInv, SendInv, NumbersOK
<1>11. Linked /\ N \in 1..(1 + Got(Me))
  BY <1>2, <1>3, <1>9, <1>10, AckedBy DEF N
<1>12. N' = N /\ U' = N /\ (Linked' <=> Linked) /\ Got(Me)' = Got(Me) /\ Drawn' = Drawn
  BY <1>2, <1>7 DEF U, N, Linked, Bound, Got, Drawn
<1>13. NumbersOK'
  <2>1. N \in Nat /\ Got(Me) \in Nat
    BY <1>3, SendNumbers
  <2>2. N <= N /\ N <= 1 + Got(Me)
    BY <1>11, <2>1
  <2> QED
    BY <1>10, <1>11, <1>12, <2>2 DEF NumbersOK
<1>14. EndOK'
  BY <1>2, <1>9 DEF EndOK
<1>15. SendInv' /\ CallInv'
  <2>1. \A x \in wire_out' : x \in wire_out \/ {"SYN", "PSH", "FIN"} \cap x.segment.flags = {}
    BY <1>5, <1>6
  <2> QED
    BY <1>2, <1>7, <1>13, <1>14, <2>1, SendFrame
<1>16. WireInv'
  <2>1. m.window <= RecvCap
    BY <1>4, <1>6
  <2>2. Bound(Me)'
    BY <1>2, <1>7, <1>11 DEF Linked, Bound
  <2>3. Bound(m.segment.port)'
    BY <1>6, <1>7, <2>2 DEF Bound
  <2>4. OutFine(m)'
    BY <1>6, <1>9, <2>1, <2>3 DEF OutFine
  <2>5. \A x \in wire_out' : x \in wire_out \/ OutFine(x)'
    BY <1>5, <2>4
  <2> QED
    BY <1>2, <1>12, <2>5, KernelWire
<1>17. D' = 1
  BY <1>3, <1>7 DEF D
<1>18. FreshOK'
  BY <1>2, <1>7, <1>9 DEF FreshOK
<1>19. NextOK'
  BY <1>2, <1>7, <1>11, <1>12, <1>17 DEF NextOK
<1>20. RoomOK'
  <2>1. /\ Pristine(Me)
        /\ \A x \in wire_out : (x.segment.port = Me /\ Plain(x)) => Void(x)
    BY <1>2, <1>11 DEF IInv, RecvInv, FreshOK
  <2>2. /\ peer[Me].nxt = 0 /\ peer[Me].una = 0 /\ peer[Me].edge = 0 /\ ~peer[Me].fin
    BY <2>1 DEF Pristine
  <2>3. /\ D' <= peer[Me].nxt + (IF peer[Me].fin THEN 2 ELSE 1)
        /\ peer[Me].una + 1 <= D'
        /\ peer[Me].edge + 1 + Len(recv_buf) <= D' + RecvCap
    <3> DEFINE d == D'
               l == Len(recv_buf)
               x == peer[Me].nxt
               u == peer[Me].una
               e == peer[Me].edge
    <3>1. d = 1 /\ l \in Nat /\ l <= RecvCap /\ x = 0 /\ u = 0 /\ e = 0
      BY <1>4, <1>17, <2>2
    <3> HIDE DEF d, l, x, u, e
    <3>2. d <= x + 1 /\ u + 1 <= d /\ e + 1 + l <= d + RecvCap
      BY <1>4, <3>1
    <3> QED
      BY <2>2, <3>2 DEF d, l, x, u, e
  <2>4. ASSUME NEW x \in wire_out', x.segment.port = Me, Plain(x) PROVE Heard(x)'
    <3>1. CASE x \in wire_out
      BY <1>2, <2>1, <2>4, <3>1 DEF Heard, Void
    <3>2. CASE x = m
      <4> DEFINE a == Distance(PeerIss[Me], m.segment.ack)
                 d == D'
                 w == m.window
                 l == Len(recv_buf)
      <4>1. a = 1 /\ d = 1 /\ w \in Nat /\ l \in Nat /\ w <= RecvCap - l /\ RecvCap \in Nat
        BY <1>3, <1>4, <1>6, <1>17
      <4> HIDE DEF a, d, w, l
      <4>2. 1 <= a /\ a <= d /\ a + w + l <= d + RecvCap
        BY <4>1
      <4>3. Heard(m)'
        BY <1>2, <1>7, <4>2 DEF Heard, a, d, w, l
      <4> QED
        BY <3>2, <4>3
    <3> QED
      BY <1>5, <3>1, <3>2
  <2> QED
    BY <1>2, <1>7, <2>3, <2>4 DEF RoomOK, Plain
<1>21. StreamInv'
  BY <1>2, <1>7, <1>17, StreamStarts
<1>22. TakenInv'
  BY <1>2, TakenSame
<1> QED
  BY <1>8, <1>15, <1>16, <1>18, <1>19, <1>20, <1>21, <1>22 DEF IInv, RecvInv

\* A number that the comparisons of the code put between two others lies between them.
LEMMA Between ==
    ASSUME SeqMod \in Nat \ {0}, NEW K \in Nat, SeqMod > 2 * K, NEW a \in Seqno, NEW x \in Seqno,
           NEW y \in Seqno, NEW z \in Seqno, Distance(a, x) <= Distance(a, y),
           Distance(a, y) < K, seq_ge(z, x), seq_le(z, y)
    PROVE  Distance(a, x) <= Distance(a, z) /\ Distance(a, z) <= Distance(a, y)
<1> DEFINE u == Distance(a, x)
           n == Distance(a, y)
           d == Distance(a, z)
           g == Distance(x, z)
           e == Distance(y, z)
           h == SeqMod \div 2
<1>1. /\ g = IF u <= d THEN d - u ELSE SeqMod - (u - d)
      /\ e = IF n <= d THEN d - n ELSE SeqMod - (n - d)
  BY DistanceFrom
<1>2. h \in Nat /\ h >= K /\ 2 * h <= SeqMod
  OBVIOUS
<1>3. u \in Nat /\ n \in Nat /\ d \in Nat
  BY DistanceNat
<1>4. g < h /\ (e = 0 \/ e >= h)
  BY DEF seq_ge, seq_le
<1>5. u <= n /\ n < K
  OBVIOUS
<1> HIDE DEF u, n, d, g, e, h
<1>6. u <= d
  <2>1. ~(u <= d) => g = SeqMod - (u - d)
    BY <1>1
  <2> QED
    BY <1>2, <1>3, <1>4, <1>5, <2>1
<1>7. g = d - u
  BY <1>1, <1>6
<1>8. d <= n
  <2>1. ~(d <= n) => e = d - n
    BY <1>1, <1>3
  <2> QED
    BY <1>2, <1>3, <1>4, <1>5, <1>7, <2>1
<1> QED
  BY <1>6, <1>8 DEF u, n, d

\* What a segment acknowledges, counted from where the connection's numbers begin.
V(s) == Distance(tcp.snd_iss, NewUna(s))

LEMMA SegmentAcks ==
    ASSUME IInv, NEW s \in wire_in, s.port = Me, tcp.snd_iss # 0
    PROVE  /\ V(s) <= N
           /\ V(s) = 0 \/ (Linked /\ V(s) <= 1 + Got(Me))
           /\ Acked(s) => Linked /\ 1 + Got(Me) = N
<1> DEFINE K == SpaceMax + 2
           a == tcp.snd_iss
           x == tcp.snd_una
           y == tcp.snd_nxt
           z == NewUna(s)
<1>1. TypeOK /\ ControlInv /\ SeqMod \in Nat \ {0} /\ scene \in Scenes
  BY ControlFacts
<1>2. a \in Seqno /\ x \in Seqno /\ y \in Seqno /\ z \in Seqno /\ s.ack \in Seqno /\ Me \in Port
  <2>1. s \in Segments /\ tcp \in Control
    BY <1>1 DEF TypeOK
  <2>2. z \in Seqno
    BY <1>1, <2>1, SegmentNumbers
  <2> QED
    BY <2>1, <2>2, <1>1 DEF Control, Segments
<1>3. K \in Nat /\ SeqMod > 2 * K
  <2>1. SpaceMax \in Nat /\ SeqMod > 2 * (SpaceMax + scene.peerMax + 2) /\ scene.peerMax \in Nat
        /\ SeqMod \in Nat
    BY <1>1, SceneFacts
  <2> QED
    BY ONLY <2>1
<1>4. /\ U <= N /\ 1 <= N /\ N <= SpaceMax + 1
      /\ U = 0 \/ (Linked /\ U <= 1 + Got(Me))
      /\ Linked => 1 + Got(Me) <= N
  BY DEF IInv, SendInv, NumbersOK
<1>5. U = Distance(a, x) /\ N = Distance(a, y) /\ V(s) = Distance(a, z)
  BY DEF U, N, V
<1>6. U \in Nat /\ N \in Nat /\ Got(Me) \in Nat /\ SpaceMax \in Nat
  BY <1>2, SendNumbers
<1>7. N < K
  BY <1>4, <1>6
<1>8. ASSUME AckTaken(s)
      PROVE  V(s) <= N /\ Linked /\ V(s) \in 1..(1 + Got(Me))
  <2>1. z = s.ack /\ seq_ge(s.ack, x) /\ seq_le(s.ack, y) /\ "ACK" \in s.flags
    BY <1>8 DEF AckTaken, NewUna
  <2> HIDE DEF a, x, y, z, K
  <2>2. Distance(a, z) <= Distance(a, y)
    BY <1>1, <1>2, <1>3, <1>4, <1>5, <1>7, <2>1, Between
  <2> DEFINE v == Distance(a, z)
             n == Distance(a, y)
  <2>3. v \in Nat /\ n \in Nat /\ n <= SpaceMax + 1 /\ v <= n
    BY <1>1, <1>2, <1>4, <1>5, <2>2, DistanceNat
  <2> HIDE DEF v, n
  <2>4. v <= SpaceMax + 1
    BY <1>6, <2>3
  <2>5. Linked /\ Distance(tcp.snd_iss, s.ack) \in 1..(1 + Got(Me))
    BY <2>1, <2>4, AckedBy DEF v, a
  <2> QED
    BY <1>5, <2>1, <2>2, <2>5 DEF a
<1>9. ASSUME ~AckTaken(s) PROVE V(s) = U
  BY <1>9 DEF V, U, NewUna
<1>10. V(s) <= N
  BY <1>4, <1>8, <1>9
<1>11. V(s) = 0 \/ (Linked /\ V(s) <= 1 + Got(Me))
  <2>1. CASE AckTaken(s)
    BY <1>6, <1>8, <2>1
  <2>2. CASE ~AckTaken(s)
    BY <1>4, <1>9, <2>2
  <2> QED
    BY <2>1, <2>2
<1>12. ASSUME Acked(s) PROVE Linked /\ 1 + Got(Me) = N
  <2>1. seq_ge(z, y)
    BY <1>12 DEF Acked
  <2> HIDE DEF a, x, y, z, K
  <2>2. Distance(a, z) < K
    <3> DEFINE v == Distance(a, z)
               n == Distance(a, y)
    <3>1. v \in Nat /\ n \in Nat /\ v <= n /\ n < K
      BY <1>1, <1>2, <1>5, <1>7, <1>10, DistanceNat
    <3> HIDE DEF v, n
    <3>2. v < K
      BY <1>3, <3>1
    <3> QED
      BY <3>2 DEF v
  <2>3. Distance(a, z) >= Distance(a, y)
    BY <1>1, <1>2, <1>3, <1>5, <1>7, <2>1, <2>2, Compared
  <2>4. V(s) >= N /\ V(s) \in Nat
    BY <1>1, <1>2, <1>5, <2>3, DistanceNat
  <2>5. V(s) # 0
    BY <1>4, <1>6, <2>4
  <2>6. Linked /\ V(s) <= 1 + Got(Me) /\ 1 + Got(Me) <= N
    BY <1>4, <1>11, <2>5
  <2> QED
    BY <1>6, <2>4, <2>6
<1> QED
  BY <1>10, <1>11, <1>12

\* Where a segment is looked at, the control block stands for a connection.
LEMMA SegmentFacts ==
    ASSUME IInv, NEW s \in wire_in, segment_arrives(s)
    PROVE  /\ s.port = Me /\ Me \in Port /\ Me \in scene.ports /\ Me = session.port /\ Me # 0
           /\ tcp.snd_iss # 0 /\ Live /\ s \in Segments /\ s.data \in Seq(Nat) /\ InFine(s)
           /\ tcp.state # "CLOSED" /\ tcp.state # "SYN_SENT" /\ tcp.state # "LISTEN"
           /\ ~session.overtaken => Linked
<1>1. /\ TypeOK /\ BlockOK /\ ControlInv /\ scene \in Scenes
  BY ControlFacts
<1>2. Arrives(s) /\ tcp.state \notin {"LISTEN", "SYN_SENT"}
      /\ (tcp.state = "SYN_RECEIVED" => Completes(s))
  BY DEF segment_arrives
<1>3. /\ s \in Segments /\ tcp.local_port \in Port /\ s.port = tcp.local_port
      /\ tcp.state # "CLOSED" /\ s.data \in Seq(Nat)
  BY <1>1, <1>2, ArrivesFacts
<1>4. Me # 0 /\ Me = session.port /\ Me \in scene.ports /\ tcp.snd_iss # 0
  BY <1>1, <1>2, <1>3 DEF BlockOK
<1>5. tcp.state \in State
  BY <1>1 DEF TypeOK, Control
<1>6. Live
  BY <1>2, <1>3, <1>5 DEF Live, Open, State
<1>7. InFine(s)
  BY DEF IInv, WireInv, InOK
<1>8. s.port = Me /\ Me \in Port
  BY <1>3 DEF Me
<1>9. ~session.overtaken => Linked
  <2>1. CASE tcp.state = "SYN_RECEIVED"
    <3>1. "ACK" \in s.flags /\ s.ack = tcp.snd_nxt
      BY <1>2, <2>1 DEF Completes
    <3>2. N <= SpaceMax + 1
      BY <1>4 DEF IInv, SendInv, NumbersOK
    <3> QED
      BY <1>4, <1>8, <3>1, <3>2, AckedBy DEF N
  <2>2. CASE tcp.state # "SYN_RECEIVED"
    <3>1. Open
      BY <1>6, <2>2 DEF Live
    <3> QED
      BY <1>6, <3>1 DEF IInv, RecvInv, NextOK
  <2> QED
    BY <2>1, <2>2
<1> QED
  BY <1>2, <1>3, <1>4, <1>6, <1>7, <1>8, <1>9

\* Where a byte lies that follows others.
LEMMA Following ==
    ASSUME scene \in Scenes, NEW p \in Port, NEW b \in Seqno, NEW k \in Nat,
           Distance(PeerIss[p], b) + k <= scene.peerMax + 2
    PROVE  Plus(b, k) \in Seqno /\ Distance(PeerIss[p], Plus(b, k)) = Distance(PeerIss[p], b) + k
<1>1. SeqMod \in Nat \ {0} /\ SeqMod > 2 * (SpaceMax + scene.peerMax + 2) /\ SpaceMax \in Nat
      /\ scene.peerMax \in Nat /\ PeerIss \in [Port -> Seqno]
  BY SceneFacts
<1>2. PeerIss[p] \in Seqno
  BY <1>1
<1> DEFINE d == Distance(PeerIss[p], b)
<1>3. d \in Nat
  BY <1>1, <1>2, DistanceNat
<1>4. d + k <= scene.peerMax + 2
  OBVIOUS
<1> HIDE DEF d
<1>5. d + k < SeqMod
  BY <1>1, <1>3, <1>4
<1> QED
  BY <1>1, <1>2, <1>5, DistancePlus DEF d

\* Where the bytes and the FIN of a segment lie among those of the remote end.
LEMMA SegmentPlace ==
    ASSUME IInv, NEW s \in wire_in, s.port = Me, Me \in Port, s.data # <<>> \/ "FIN" \in s.flags
    PROVE  LET i == Distance(PeerIss[Me], s.seq) IN
           /\ 1 <= i /\ i + Len(s.data) <= peer[Me].nxt + 1 /\ peer[Me].nxt <= scene.peerMax
           /\ i \in Nat /\ Len(s.data) \in Nat /\ peer[Me].nxt \in Nat /\ scene.peerMax \in Nat
           /\ Distance(PeerIss[Me], Plus(s.seq, Len(s.data))) = i + Len(s.data)
           /\ Plus(s.seq, Len(s.data)) \in Seqno
           /\ \A k \in 1..Len(s.data) : Distance(PeerIss[Me], s.data[k]) = i + k - 1
           /\ "FIN" \in s.flags => peer[Me].fin /\ i + Len(s.data) = peer[Me].nxt + 1
<1> DEFINE i == Distance(PeerIss[Me], s.seq)
           l == Len(s.data)
           x == peer[Me].nxt
           y == scene.peerMax
<1>1. TypeOK /\ scene \in Scenes /\ peer \in [Port -> PeerBlock] /\ SeqMod \in Nat \ {0}
  BY ControlFacts
<1>2. s \in Segments /\ InFine(s)
  BY <1>1 DEF TypeOK, IInv, WireInv, InOK
<1>3. /\ 1 <= i /\ i + l <= x + 1
      /\ \A k \in 1..l : s.data[k] = ByteSeq(Me, i + k - 1)
      /\ "FIN" \in s.flags => peer[Me].fin /\ i + l = x + 1
  BY <1>2 DEF InFine
<1>4. s.seq \in Seqno /\ l \in Nat
  BY <1>2, LenProperties DEF Segments
<1>5. x <= y /\ x \in Nat /\ y \in Nat
  <2>1. PeerFine(Me)
    BY DEF IInv, WireInv, PeerOK
  <2> QED
    BY <1>1, <2>1, SceneFacts DEF PeerFine, PeerBlock
<1>6. i \in Nat
  <2>1. PeerIss \in [Port -> Seqno]
    BY <1>1, SceneFacts
  <2>2. PeerIss[Me] \in Seqno
    BY <2>1
  <2> QED
    BY <1>1, <1>4, <2>2, DistanceNat
<1>7. Distance(PeerIss[Me], Plus(s.seq, l)) = i + l /\ Plus(s.seq, l) \in Seqno
  <2>1. i + l <= y + 2
    <3> HIDE DEF i, l, x, y
    <3> QED
      BY <1>3, <1>4, <1>5, <1>6
  <2> HIDE DEF l
  <2> QED
    BY <1>1, <1>4, <2>1, Following DEF i, y
<1>8. ASSUME NEW k \in 1..l PROVE Distance(PeerIss[Me], s.data[k]) = i + k - 1
  <2> DEFINE j == i + k - 1
  <2>1. j \in 0..(y + 2)
    <3> HIDE DEF i, l, x, y
    <3> QED
      BY <1>3, <1>4, <1>5, <1>6
  <2>2. s.data[k] = ByteSeq(Me, j)
    BY <1>3
  <2> HIDE DEF j
  <2>3. Distance(PeerIss[Me], ByteSeq(Me, j)) = j
    BY <1>1, <2>1, ByteDistance
  <2> QED
    BY <2>2, <2>3 DEF j
<1> QED
  BY <1>3, <1>4, <1>5, <1>6, <1>7, <1>8

\* How many bytes of a segment are taken, and where the next byte is expected then.
Taken(s) == IF DataTaken(s) THEN Len(s.data) ELSE 0
G(s) == Distance(PeerIss[Me], NewNxt(s))

LEMMA SegmentBytes ==
    ASSUME IInv, NEW s \in wire_in, s.port = Me, Me \in Port
    PROVE  /\ Taken(s) \in Nat /\ D \in Nat /\ G(s) \in Nat /\ peer[Me].nxt \in Nat
           /\ DataTaken(s) => /\ D + Taken(s) <= peer[Me].nxt + 1 /\ Taken(s) = Len(s.data)
                              /\ \A k \in 1..Len(s.data) :
                                    Distance(PeerIss[Me], s.data[k]) = D + k - 1
           /\ ~FinTaken(s) => G(s) = D + Taken(s)
           /\ FinTaken(s) => /\ peer[Me].fin /\ D + Taken(s) = peer[Me].nxt + 1
                             /\ G(s) = peer[Me].nxt + 2
<1> DEFINE d == D
           t == Taken(s)
           x == peer[Me].nxt
           y == scene.peerMax
           e == Distance(PeerIss[Me], DataNxt(s))
<1>1. TypeOK /\ ControlInv /\ scene \in Scenes /\ SeqMod \in Nat \ {0} /\ peer \in [Port -> PeerBlock]
  BY ControlFacts
<1>2. s \in Segments /\ Len(s.data) \in Nat /\ tcp.rcv_nxt \in Seqno
  BY <1>1, LenProperties DEF TypeOK, Segments, Control
<1>3. DataNxt(s) \in Seqno /\ NewNxt(s) \in Seqno
  BY <1>1, <1>2, SegmentNumbers
<1>4. PeerIss[Me] \in Seqno
  <2>1. PeerIss \in [Port -> Seqno]
    BY <1>1, SceneFacts
  <2> QED
    BY <2>1
<1>5. d \in Nat /\ t \in Nat /\ x \in Nat /\ y \in Nat /\ e \in Nat /\ G(s) \in Nat /\ x <= y
  <2>1. d \in Nat /\ e \in Nat /\ G(s) \in Nat
    BY <1>1, <1>2, <1>3, <1>4, DistanceNat DEF D, G
  <2>2. PeerFine(Me)
    BY DEF IInv, WireInv, PeerOK
  <2> QED
    BY <1>1, <1>2, <2>1, <2>2, SceneFacts DEF Taken, PeerFine, PeerBlock
<1>6. ASSUME DataTaken(s)
      PROVE  /\ d + t <= x + 1 /\ e = d + t /\ t = Len(s.data)
             /\ \A k \in 1..Len(s.data) : Distance(PeerIss[Me], s.data[k]) = d + k - 1
  <2>1. s.data # <<>> /\ s.seq = tcp.rcv_nxt /\ t = Len(s.data)
        /\ DataNxt(s) = Plus(s.seq, Len(s.data))
    BY <1>6 DEF DataTaken, Taken, DataNxt
  <2>2. Distance(PeerIss[Me], s.seq) = d
    BY <2>1 DEF D
  <2>3. LET i == Distance(PeerIss[Me], s.seq) IN
        /\ i + Len(s.data) <= x + 1
        /\ Distance(PeerIss[Me], Plus(s.seq, Len(s.data))) = i + Len(s.data)
        /\ \A k \in 1..Len(s.data) : Distance(PeerIss[Me], s.data[k]) = i + k - 1
    BY <2>1, SegmentPlace
  <2> HIDE DEF d, t, x
  <2> QED
    BY <2>1, <2>2, <2>3
<1>7. ASSUME ~DataTaken(s) PROVE e = d + t /\ t = 0
  <2>1. e = d /\ t = 0
    BY <1>7 DEF DataNxt, D, Taken
  <2> HIDE DEF e, d, t
  <2> QED
    BY <1>5, <2>1
<1>8. e = d + t
  BY <1>6, <1>7
<1>9. ASSUME ~FinTaken(s) PROVE G(s) = d + t
  BY <1>8, <1>9 DEF G, NewNxt
<1>10. ASSUME FinTaken(s) PROVE peer[Me].fin /\ d + t = x + 1 /\ G(s) = x + 2
  <2>1. "FIN" \in s.flags /\ Plus(s.seq, Len(s.data)) = DataNxt(s)
    BY <1>10 DEF FinTaken
  <2>2. LET i == Distance(PeerIss[Me], s.seq) IN
        /\ Distance(PeerIss[Me], Plus(s.seq, Len(s.data))) = i + Len(s.data)
        /\ peer[Me].fin /\ i + Len(s.data) = x + 1
    BY <2>1, SegmentPlace
  <2>3. peer[Me].fin /\ e = x + 1
    BY <2>1, <2>2
  <2>4. e + 1 <= y + 2
    <3> HIDE DEF e, x, y
    <3> QED
      BY <1>5, <2>3
  <2> DEFINE one == 1
             b == DataNxt(s)
  <2>5. one \in Nat /\ b \in Seqno /\ Distance(PeerIss[Me], b) + one <= scene.peerMax + 2
    BY <1>3, <2>4
  <2>6. NewNxt(s) = Plus(b, one)
    BY <1>10 DEF NewNxt
  <2> HIDE DEF one, b
  <2>7. Distance(PeerIss[Me], Plus(b, one)) = Distance(PeerIss[Me], b) + one
    BY <1>1, <2>5, Following
  <2>8. G(s) = e + 1
    BY <2>6, <2>7 DEF G, one, b
  <2>9. e + 1 = x + 2
    <3> HIDE DEF e, x
    <3> QED
      BY <1>5, <2>3
  <2> QED
    BY <1>8, <2>3, <2>8, <2>9
<1> QED
  BY <1>5, <1>6, <1>9, <1>10

\* A connect that overtook its own answer takes nothing.
LEMMA SegmentVoid ==
    ASSUME IInv, NEW s \in wire_in, segment_arrives(s), session.overtaken
    PROVE  NewNxt(s) = tcp.rcv_nxt /\ NewBuf(s) = recv_buf /\ tcp.rcv_nxt = 0
           /\ scene.retries > 1
<1>1. s.port = Me /\ Me \in Port /\ Me \in scene.ports /\ Me # 0
  BY SegmentFacts
<1>2. TypeOK /\ BlockOK /\ scene \in Scenes
  BY ControlFacts
<1>3. tcp.rcv_nxt = 0 /\ scene.retries > 1
  BY <1>1, <1>2 DEF BlockOK, IInv, RecvInv, FreshOK
<1>4. Distance(PeerIss[Me], 0) > scene.peerMax + 2
  BY <1>1, <1>2, <1>3, VoidFar
<1> DEFINE i == Distance(PeerIss[Me], s.seq)
           l == Len(s.data)
           x == peer[Me].nxt
           y == scene.peerMax
           z == Distance(PeerIss[Me], 0)
<1>5. ASSUME s.data # <<>> \/ "FIN" \in s.flags
      PROVE  /\ i + l <= x + 1 /\ x <= y /\ i \in Nat /\ l \in Nat /\ x \in Nat /\ y \in Nat
             /\ Distance(PeerIss[Me], Plus(s.seq, l)) = i + l
  BY <1>1, <1>5, SegmentPlace
<1>6. ~DataTaken(s)
  <2> SUFFICES ASSUME DataTaken(s) PROVE FALSE
    OBVIOUS
  <2>1. i = z /\ s.data # <<>> /\ z > y + 2
    BY <1>3, <1>4 DEF DataTaken
  <2> HIDE DEF i, l, x, y, z
  <2> QED
    BY <1>5, <2>1
<1>7. ~FinTaken(s)
  <2> SUFFICES ASSUME FinTaken(s) PROVE FALSE
    OBVIOUS
  <2>1. "FIN" \in s.flags /\ Plus(s.seq, l) = 0
    BY <1>3, <1>6 DEF FinTaken, DataNxt
  <2>2. i + l = z /\ z > y + 2
    BY <1>4, <1>5, <2>1
  <2> HIDE DEF i, l, x, y, z
  <2> QED
    BY <1>5, <2>1, <2>2
<1> QED
  BY <1>3, <1>6, <1>7 DEF NewNxt, NewBuf, DataNxt

\* Bytes in the order of the remote end, before one of its positions, and all of them.
Ordered(a, w) == \A i, j \in 1..Len(w) : i < j => Distance(a, w[i]) < Distance(a, w[j])
Below(a, w, d) == \A k \in 1..Len(w) : Distance(a, w[k]) < d
Complete(a, w) == \A k \in 1..Len(w) : Distance(a, w[k]) = k
Onwards(a, data, d) == \A k \in 1..Len(data) : Distance(a, data[k]) = d + k - 1

\* Each byte of v comes from w or, after it, from data, with some left out after the first lr.
Selects(v, w, data, lr, drop) ==
    \A k \in 1..Len(v) : \E m \in 1..(Len(w) + Len(data)) :
        /\ m = IF k <= lr THEN k ELSE k + drop
        /\ m <= Len(w) => v[k] = w[m]
        /\ m > Len(w) => v[k] = data[m - Len(w)]

\* What is read, and then the ring, after bytes were pushed into it.
LEMMA PushedAfter ==
    ASSUME scene \in Scenes, NEW r \in Seq(Nat), NEW b \in Seq(Nat), NEW data \in Seq(Nat),
           Len(b) <= RecvCap, NEW w, w = r \o b, NEW v, v = r \o recv_push(b, data)
    PROVE  /\ w \in Seq(Nat) /\ v \in Seq(Nat)
           /\ \E drop \in Nat :
                 /\ Len(v) = Len(w) + Len(data) - drop
                 /\ Len(b) + Len(data) <= RecvCap => drop = 0
                 /\ Selects(v, w, data, Len(r), drop)
<1> DEFINE q == recv_push(b, data)
           all == Len(b) + Len(data)
           drop == IF all > RecvCap THEN all - RecvCap ELSE 0
           lr == Len(r)
           lb == Len(b)
           ld == Len(data)
           lq == Len(q)
           lw == Len(w)
           lv == Len(v)
<1>1. /\ q \in Seq(Nat) /\ Len(q) = all - drop
      /\ \A k \in 1..(all - drop) : q[k] =
            IF k + drop <= Len(b) THEN b[k + drop] ELSE data[k + drop - Len(b)]
  BY Pushed
<1>2. lr \in Nat /\ lb \in Nat /\ ld \in Nat /\ RecvCap \in Nat
  BY SceneFacts, LenProperties
<1>3. /\ w \in Seq(Nat) /\ lw = lr + lb
      /\ \A i \in 1..lw : w[i] = IF i <= lr THEN r[i] ELSE b[i - lr]
  BY ConcatProperties
<1>4. v = r \o q
  OBVIOUS
<1>5. all = lb + ld /\ lb <= RecvCap
  OBVIOUS
<1> HIDE DEF q
<1>6. /\ v \in Seq(Nat) /\ lv = lr + lq
      /\ \A i \in 1..lv : v[i] = IF i <= lr THEN r[i] ELSE q[i - lr]
  <2>1. r \in Seq(Nat) /\ q \in Seq(Nat)
    BY <1>1
  <2> QED
    BY ONLY <1>4, <2>1, ConcatProperties
<1> HIDE DEF lr, lb, ld, lq, lw, lv, all
<1>7. drop \in Nat /\ drop <= all /\ (all <= RecvCap => drop = 0) /\ drop <= lb + ld
  BY <1>2, <1>5
<1>8. lq = all - drop
  BY <1>1 DEF lq
<1>9. \A k \in 1..lq : q[k] = IF k + drop <= lb THEN b[k + drop] ELSE data[k + drop - lb]
  BY <1>1, <1>8 DEF lb
<1> HIDE DEF drop
<1>10. lv = lw + ld - drop
  BY <1>2, <1>3, <1>5, <1>6, <1>7, <1>8
<1>11. ASSUME NEW k \in 1..lv
       PROVE  \E m \in 1..(lw + ld) : /\ m = IF k <= lr THEN k ELSE k + drop
                                      /\ m <= lw => v[k] = w[m]
                                      /\ m > lw => v[k] = data[m - lw]
  <2>1. CASE k <= lr
    <3>1. k \in 1..(lw + ld) /\ k <= lw /\ k \in 1..lw
      BY <1>2, <1>3, <2>1
    <3>2. v[k] = r[k] /\ w[k] = r[k]
      BY <1>3, <1>6, <2>1, <3>1
    <3>3. /\ k = IF k <= lr THEN k ELSE k + drop
          /\ k <= lw => v[k] = w[k]
          /\ k > lw => v[k] = data[k - lw]
      BY <1>2, <1>3, <2>1, <3>1, <3>2
    <3> QED
      BY ONLY <3>1, <3>3
  <2>2. CASE k > lr
    <3> DEFINE j == k - lr + drop
               m == k + drop
    <3>1. j \in Nat /\ m \in 1..(lw + ld) /\ m = lr + j /\ m - lw = j - lb
          /\ (m <= lw <=> j <= lb) /\ j >= 1 /\ ~(k <= lr)
      BY <1>2, <1>3, <1>5, <1>6, <1>7, <1>8, <2>2
    <3>2. PICK i \in 1..lq : i = k - lr
      BY <1>2, <1>6, <1>7, <1>8, <2>2
    <3>3. v[k] = q[i]
      BY <1>6, <2>2, <3>1, <3>2
    <3>a. q[i] = IF i + drop <= lb THEN b[i + drop] ELSE data[i + drop - lb]
      BY ONLY <1>9
    <3>b. i + drop = j
      BY <3>2
    <3>c. q[i] = IF j <= lb THEN b[j] ELSE data[j - lb]
      <4> DEFINE x == i + drop
                 y == i + (drop - lb)
      <4>1. q[i] = IF x <= lb THEN b[x] ELSE data[y]
        BY <3>a
      <4>2. x = j /\ y = j - lb
        <5>1. i \in Nat /\ j = i + drop
          BY <3>b
        <5> HIDE DEF j
        <5> QED
          BY ONLY <1>2, <1>7, <5>1
      <4> HIDE DEF x, y, j
      <4> QED
        BY ONLY <4>1, <4>2
    <3> HIDE DEF j, m
    <3>4. ASSUME m <= lw PROVE v[k] = w[m]
      <4>1. m \in 1..lw /\ ~(m <= lr) /\ m - lr = j
        BY <1>2, <1>3, <3>1, <3>4
      <4>2. w[m] = b[m - lr]
        BY <1>3, <4>1
      <4>3. v[k] = b[j]
        BY <3>1, <3>3, <3>c, <3>4
      <4> QED
        BY <4>1, <4>2, <4>3
    <3>5. ASSUME m > lw PROVE v[k] = data[m - lw]
      <4>1. ~(j <= lb)
        BY <1>2, <1>3, <3>1, <3>5
      <4>2. v[k] = data[j - lb]
        BY <3>3, <3>c, <4>1
      <4> QED
        BY <3>1, <4>2
    <3>6. m = IF k <= lr THEN k ELSE k + drop
      BY <3>1 DEF m
    <3> QED
      BY <3>1, <3>4, <3>5, <3>6
  <2> QED
    <3>1. k <= lr \/ k > lr
      BY <1>2
    <3> QED
      BY ONLY <2>1, <2>2, <3>1
<1>12. /\ w \in Seq(Nat) /\ v \in Seq(Nat) /\ drop \in Nat /\ lv = lw + ld - drop
       /\ (lb + ld <= RecvCap => drop = 0)
  BY <1>3, <1>5, <1>6, <1>7, <1>10
<1>13. Selects(v, w, data, lr, drop)
  BY <1>11 DEF Selects, lv, lw, ld
<1> QED
  BY <1>12, <1>13 DEF lr, lb, ld, lw, lv

\* The bytes v that pushing data makes of w, of which b is the ring, when d is the place of
\* the next byte.
Extends(a, v, w, b, data, d) ==
    /\ Ordered(a, v) /\ Below(a, v, d + Len(data))
    /\ (Complete(a, w) /\ Len(w) = d - 1 /\ Len(b) + Len(data) <= RecvCap) =>
          Complete(a, v) /\ Len(v) = Len(w) + Len(data)

LEMMA Pushing ==
    ASSUME scene \in Scenes, NEW a \in Seqno, NEW r \in Seq(Nat), NEW b \in Seq(Nat),
           NEW data \in Seq(Nat), Len(b) <= RecvCap, NEW w, w = r \o b,
           NEW v, v = r \o recv_push(b, data), NEW d \in Nat,
           Ordered(a, w), Below(a, w, d), Onwards(a, data, d)
    PROVE  Extends(a, v, w, b, data, d)
<1> DEFINE lw == Len(w)
           ld == Len(data)
           lv == Len(v)
           lr == Len(r)
<1>1. PICK drop \in Nat :
         /\ lv = lw + ld - drop
         /\ Len(b) + Len(data) <= RecvCap => drop = 0
         /\ \A k \in 1..lv : \E m \in 1..(lw + ld) :
               /\ m = IF k <= lr THEN k ELSE k + drop
               /\ m <= lw => v[k] = w[m]
               /\ m > lw => v[k] = data[m - lw]
  <2>1. /\ scene \in Scenes /\ r \in Seq(Nat) /\ b \in Seq(Nat) /\ data \in Seq(Nat)
        /\ Len(b) <= RecvCap /\ w = r \o b /\ v = r \o recv_push(b, data)
    OBVIOUS
  <2>2. \E drop \in Nat : /\ lv = lw + ld - drop
                          /\ Len(b) + Len(data) <= RecvCap => drop = 0
                          /\ Selects(v, w, data, lr, drop)
    BY ONLY <2>1, PushedAfter
  <2> QED
    BY <2>2 DEF Selects
<1>2. w \in Seq(Nat) /\ v \in Seq(Nat)
  BY PushedAfter
<1>3. lw \in Nat /\ ld \in Nat /\ lv \in Nat /\ lr \in Nat
  BY <1>2, LenProperties
<1>4. SeqMod \in Nat \ {0}
  BY SceneFacts
<1>5. /\ \A i, j \in 1..lw : i < j => Distance(a, w[i]) < Distance(a, w[j])
      /\ \A k \in 1..lw : Distance(a, w[k]) < d
      /\ \A k \in 1..ld : Distance(a, data[k]) = d + k - 1
  BY DEF Ordered, Below, Onwards
<1>6. ASSUME NEW x \in Nat PROVE Distance(a, x) \in Nat
  <2>1. a \in Nat
    BY DEF Seqno
  <2>2. x - a \in Int
    BY <2>1
  <2> DEFINE y == x - a
  <2> HIDE DEF y
  <2>3. y % SeqMod \in Nat
    BY <1>4, <2>2 DEF y
  <2> QED
    BY <2>3 DEF Distance, y
<1>7. /\ \A i \in 1..lw : Distance(a, w[i]) \in Nat
      /\ \A i \in 1..lv : Distance(a, v[i]) \in Nat
  <2>1. ASSUME NEW i \in 1..lw PROVE Distance(a, w[i]) \in Nat
    <3>1. w[i] \in Nat
      BY <1>2, ElementOfSeq
    <3> QED
      BY <1>6, <3>1
  <2>2. ASSUME NEW i \in 1..lv PROVE Distance(a, v[i]) \in Nat
    <3>1. v[i] \in Nat
      BY <1>2, ElementOfSeq
    <3> QED
      BY <1>6, <3>1
  <2> QED
    BY <2>1, <2>2
<1> HIDE DEF lw, ld, lv, lr
<1>8. ASSUME NEW k \in 1..lv
      PROVE  \E m \in 1..(lw + ld) :
                /\ m = IF k <= lr THEN k ELSE k + drop
                /\ m <= lw => m \in 1..lw /\ Distance(a, v[k]) = Distance(a, w[m])
                              /\ Distance(a, v[k]) < d
                /\ m > lw => Distance(a, v[k]) = d + (m - lw) - 1
  <2>1. PICK m \in 1..(lw + ld) :
            /\ m = IF k <= lr THEN k ELSE k + drop
            /\ m <= lw => v[k] = w[m]
            /\ m > lw => v[k] = data[m - lw]
    BY <1>1
  <2>2. ASSUME m <= lw
        PROVE  /\ m \in 1..lw /\ Distance(a, v[k]) = Distance(a, w[m])
               /\ Distance(a, v[k]) < d
    <3>1. m \in 1..lw
      BY ONLY <1>3, <2>2, m \in 1..(lw + ld)
    <3>2. v[k] = w[m]
      BY <2>1, <2>2
    <3> QED
      BY <1>5, <3>1, <3>2
  <2>3. ASSUME m > lw PROVE Distance(a, v[k]) = d + (m - lw) - 1
    <3> DEFINE n == m - lw
    <3>1. n \in 1..ld
      BY <1>3, <2>1, <2>3
    <3>2. v[k] = data[n]
      BY <2>1, <2>3
    <3> HIDE DEF n
    <3>3. Distance(a, data[n]) = d + n - 1
      BY <1>5, <3>1
    <3> QED
      BY <3>2, <3>3 DEF n
  <2>4. m = IF k <= lr THEN k ELSE k + drop
    BY <2>1
  <2> QED
    BY ONLY <2>2, <2>3, <2>4
<1>9. ASSUME NEW i \in 1..lv, NEW j \in 1..lv, i < j
      PROVE  Distance(a, v[i]) < Distance(a, v[j])
  <2> DEFINE x == Distance(a, v[i])
             y == Distance(a, v[j])
  <2>1. PICK m \in 1..(lw + ld) :
           /\ m = IF i <= lr THEN i ELSE i + drop
           /\ m <= lw => m \in 1..lw /\ x = Distance(a, w[m]) /\ x < d
           /\ m > lw => x = d + (m - lw) - 1
    BY <1>8
  <2>2. PICK n \in 1..(lw + ld) :
           /\ n = IF j <= lr THEN j ELSE j + drop
           /\ n <= lw => n \in 1..lw /\ y = Distance(a, w[n]) /\ y < d
           /\ n > lw => y = d + (n - lw) - 1
    BY <1>8
  <2>3. m < n
    <3>1. m = (IF i <= lr THEN i ELSE i + drop) /\ n = (IF j <= lr THEN j ELSE j + drop)
      BY <2>1, <2>2
    <3> QED
      BY ONLY <1>1, <1>3, <1>9, <3>1
  <2>4. CASE n <= lw
    <3>1. m <= lw
      BY <1>3, <2>3, <2>4
    <3>2. m \in 1..lw /\ n \in 1..lw /\ x = Distance(a, w[m]) /\ y = Distance(a, w[n])
      BY <2>1, <2>2, <2>4, <3>1
    <3> QED
      BY <1>5, <2>3, <3>2
  <2>5. CASE n > lw
    <3>1. y = d + (n - lw) - 1 /\ x \in Nat
      BY <1>7, <2>2, <2>5
    <3>2. (m <= lw => x < d) /\ (m > lw => x = d + (m - lw) - 1)
      BY <2>1
    <3> HIDE DEF x, y
    <3>3. x < y
      BY <1>3, <2>3, <2>5, <3>1, <3>2
    <3> QED
      BY <3>3 DEF x, y
  <2>6. n <= lw \/ n > lw
    BY ONLY <1>3, n \in 1..(lw + ld)
  <2> QED
    BY ONLY <2>4, <2>5, <2>6
<1>10. ASSUME NEW k \in 1..lv PROVE Distance(a, v[k]) < d + ld
  <2> DEFINE x == Distance(a, v[k])
  <2>1. PICK m \in 1..(lw + ld) :
           /\ m <= lw => x < d
           /\ m > lw => x = d + (m - lw) - 1
    BY <1>8
  <2>2. x \in Nat
    BY <1>7
  <2> HIDE DEF x
  <2>3. x < d + ld
    BY <1>3, <2>1, <2>2
  <2> QED
    BY <2>3 DEF x
<1>11. ASSUME Complete(a, w), lw = d - 1, Len(b) + Len(data) <= RecvCap
       PROVE  Complete(a, v) /\ lv = lw + ld
  <2>1. drop = 0
    BY <1>1, <1>11
  <2>2. lv = lw + ld
    BY <1>1, <1>3, <2>1
  <2>3. ASSUME NEW k \in 1..lv PROVE Distance(a, v[k]) = k
    <3> DEFINE x == Distance(a, v[k])
    <3>1. PICK m \in 1..(lw + ld) :
             /\ m = IF k <= lr THEN k ELSE k + drop
             /\ m <= lw => m \in 1..lw /\ x = Distance(a, w[m])
             /\ m > lw => x = d + (m - lw) - 1
      BY <1>8
    <3>2. m = k
      BY <2>1, <3>1
    <3>3. CASE m <= lw
      <4>1. Distance(a, w[m]) = m
        BY <1>11, <3>1, <3>3 DEF Complete, lw
      <4> QED
        BY <3>1, <3>2, <3>3, <4>1
    <3>4. CASE m > lw
      <4>1. x = d + (m - lw) - 1
        BY <3>1, <3>4
      <4> HIDE DEF x
      <4>2. x = m
        BY <1>3, <1>11, <4>1
      <4> QED
        BY <3>2, <4>2 DEF x
    <3>5. m <= lw \/ m > lw
      BY ONLY <1>3, m \in 1..(lw + ld)
    <3> QED
      BY ONLY <3>3, <3>4, <3>5
  <2> QED
    BY <2>2, <2>3 DEF Complete, lv
<1>12. Ordered(a, v)
  BY <1>9 DEF Ordered, lv
<1>13. Below(a, v, d + Len(data))
  BY <1>10 DEF Below, lv, ld
<1> QED
  BY <1>11, <1>12, <1>13 DEF Extends, lw, lv, ld

\* What a segment leaves behind: the state st, and at most the acknowledgement m.
Leaves(s, st, m) ==
    /\ Turns(s, st) /\ tcp'.state = st /\ st \notin {"LISTEN", "SYN_SENT", "SYN_RECEIVED"}
    /\ Me' = Me /\ tcp'.snd_iss = tcp.snd_iss /\ tcp'.snd_una = NewUna(s)
    /\ tcp'.snd_nxt = tcp.snd_nxt /\ tcp'.rcv_nxt = NewNxt(s) /\ recv_buf' = NewBuf(s)
    /\ UNCHANGED <<drawn, call, wire_in, peer, session>>
    /\ m.segment.port = Me /\ m.segment.flags = {"ACK"} /\ m.segment.ack = NewNxt(s)
    /\ m.segment.data = <<>> /\ m.window \in Nat /\ m.window <= RecvCap - Len(NewBuf(s))
    /\ \A x \in wire_out' : x \in wire_out \/ x = m

LEMMA SegmentLeaves ==
    ASSUME IInv, NEW s \in wire_in, segment_arrives(s)
    PROVE  \E st, m : Leaves(s, st, m)
<1>1. TypeOK /\ BlockOK /\ ControlInv /\ scene \in Scenes
  BY ControlFacts
<1>2. s \in Segments /\ Me \in Port /\ tcp.state \notin {"CLOSED", "LISTEN", "SYN_SENT"}
  BY SegmentFacts
<1>3. PICK st \in State, fin \in BOOLEAN :
         /\ Turns(s, st)
         /\ tcp' = Block(st # "CLOSED", fin, tcp.reset_seen, st, tcp.local_port, tcp.snd_iss,
                         NewUna(s), tcp.snd_nxt, NewNxt(s), tcp.stale_ack_seen)
         /\ recv_buf' = NewBuf(s)
         /\ \/ wire_out' = wire_out
            \/ wire_out' = wire_out \cup
                  {[segment |-> Segment(tcp.local_port, {"ACK"}, 0, NewNxt(s), <<>>),
                    window |-> window(NewBuf(s))]}
  BY <1>1, SegmentEffect
<1>4. PICK m : /\ m = [segment |-> Segment(tcp.local_port, {"ACK"}, 0, NewNxt(s), <<>>),
                       window |-> window(NewBuf(s))]
               /\ wire_out' = wire_out \/ wire_out' = wire_out \cup {m}
  BY <1>3
<1>5. NewNxt(s) \in Seqno /\ NewBuf(s) \in Seq(Nat) /\ Len(NewBuf(s)) <= RecvCap
  BY <1>1, <1>2, SegmentNumbers
<1>6. /\ m.window \in Nat /\ m.window <= RecvCap - Len(NewBuf(s))
      /\ m.segment.port = Me /\ m.segment.flags = {"ACK"} /\ m.segment.ack = NewNxt(s)
      /\ m.segment.data = <<>>
  BY <1>1, <1>2, <1>4, <1>5, AckTyped DEF Me
<1>7. /\ tcp'.state = st /\ tcp'.local_port = tcp.local_port /\ tcp'.snd_iss = tcp.snd_iss
      /\ tcp'.snd_una = NewUna(s) /\ tcp'.snd_nxt = tcp.snd_nxt /\ tcp'.rcv_nxt = NewNxt(s)
  BY <1>3 DEF Block
<1>8. UNCHANGED <<drawn, call, wire_in, peer, session>>
  BY DEF segment_arrives
<1>9. st \notin {"LISTEN", "SYN_SENT", "SYN_RECEIVED"}
  BY <1>1, <1>2, <1>3 DEF Turns, TypeOK, Control, State
<1>10. \A x \in wire_out' : x \in wire_out \/ x = m
  BY <1>4
<1> QED
  BY <1>3, <1>6, <1>7, <1>8, <1>9, <1>10 DEF Leaves, Me

LEMMA SegmentSend ==
    ASSUME IInv, scene' = scene, NEW s \in wire_in, segment_arrives(s), NEW st, NEW m,
           Leaves(s, st, m)
    PROVE  SendInv' /\ CallInv'
<1>1. /\ s.port = Me /\ Me \in Port /\ tcp.snd_iss # 0 /\ tcp.state # "CLOSED"
  BY SegmentFacts
<1>2. /\ V(s) <= N
      /\ V(s) = 0 \/ (Linked /\ V(s) <= 1 + Got(Me))
      /\ Acked(s) => Linked /\ 1 + Got(Me) = N
  BY <1>1, SegmentAcks
<1>3. /\ Me' = Me /\ tcp'.snd_iss = tcp.snd_iss /\ tcp'.snd_una = NewUna(s)
      /\ tcp'.snd_nxt = tcp.snd_nxt /\ UNCHANGED <<call, peer, session>> /\ tcp'.state = st
      /\ Turns(s, st) /\ st # "SYN_SENT"
  BY DEF Leaves
<1>4. /\ U' = V(s) /\ N' = N /\ F' = F /\ (Linked' <=> Linked) /\ Got(Me)' = Got(Me)
  BY <1>3 DEF U, N, F, V, Linked, Bound, Got
<1>5. NumbersOK'
  <2>1. 1 <= N /\ N <= SpaceMax + 1 /\ (Linked => 1 + Got(Me) <= N)
    BY <1>1 DEF IInv, SendInv, NumbersOK
  <2> QED
    BY <1>2, <1>3, <1>4, <2>1 DEF NumbersOK
<1>6. ASSUME Acked(s), call.op = "close" PROVE peer[Me].eof
  <2>1. Linked /\ 1 + Got(Me) = N
    BY <1>2, <1>6
  <2>2. Len(peer[Me].rcvd) + 2 <= N
    BY <1>6, <2>1 DEF IInv, SendInv, ClosingOK
  <2>3. PICK c \in PeerBlock : c = peer[Me]
    BY <1>1, ControlFacts
  <2>4. Len(c.rcvd) \in Nat /\ (~c.eof => Count(c) = Len(c.rcvd))
    BY CountIs
  <2>5. 1 + Count(c) = N /\ Len(c.rcvd) + 2 <= N
    BY <2>1, <2>2, <2>3 DEF Got
  <2> QED
    BY <2>3, <2>4, <2>5
<1>7. EndOK'
  <2> SUFFICES ASSUME call.op = "close" PROVE EndOK'
    BY <1>3 DEF EndOK
  <2>1. /\ F + 1 = N /\ 1 <= F
        /\ tcp.state = "FIN_WAIT2" => peer[Me].eof
    BY DEF IInv, CallInv, EndOK
  <2>2. tcp.state \in {"FIN_WAIT1", "FIN_WAIT2", "LAST_ACK"}
    BY <1>1, ControlFacts DEF TryOK
  <2>3. st \in {"FIN_WAIT2", "CLOSED"} => peer[Me].eof
    BY <1>3, <1>6, <2>1, <2>2 DEF Turns
  <2> QED
    BY <1>3, <1>4, <2>1, <2>3 DEF EndOK
<1>8. \A x \in wire_out' : x \in wire_out \/ {"SYN", "PSH", "FIN"} \cap x.segment.flags = {}
  BY DEF Leaves
<1> QED
  BY <1>3, <1>5, <1>7, <1>8, SendFrame

LEMMA SegmentWire ==
    ASSUME IInv, scene' = scene, NEW s \in wire_in, segment_arrives(s), NEW st, NEW m,
           Leaves(s, st, m)
    PROVE  WireInv'
<1>1. /\ Me \in Port /\ Me \in scene.ports /\ s \in Segments
      /\ ~session.overtaken => Linked
  BY SegmentFacts
<1>2. m.window <= RecvCap
  <2>1. ControlInv /\ scene \in Scenes
    BY ControlFacts
  <2>2. NewBuf(s) \in Seq(Nat) /\ RecvCap \in Nat
    BY <1>1, <2>1, SegmentNumbers, SceneFacts
  <2>3. Len(NewBuf(s)) \in Nat
    BY <2>2, LenProperties
  <2> QED
    BY <2>2, <2>3 DEF Leaves
<1>3. Bound(Me) \/ Void(m)
  <2>1. CASE session.overtaken
    BY <2>1, SegmentVoid DEF Void, Leaves
  <2>2. CASE ~session.overtaken
    BY <1>1, <2>2 DEF Linked
  <2> QED
    BY <2>1, <2>2
<1>4. m.segment.port = Me /\ m.segment.flags = {"ACK"} /\ m.segment.data = <<>>
  BY DEF Leaves
<1>5. UNCHANGED <<wire_in, peer>> /\ Drawn' = Drawn
  BY DEF Leaves, Drawn
<1>6. Bound(m.segment.port)' \/ Void(m)'
  BY <1>3, <1>4, <1>5 DEF Bound, Void
<1>7. OutFine(m)'
  BY <1>1, <1>2, <1>4, <1>6 DEF OutFine
<1>8. \A x \in wire_out' : x \in wire_out \/ OutFine(x)'
  BY <1>7 DEF Leaves
<1> QED
  BY <1>5, <1>8, KernelWire

\* The next byte expected moves on by what is taken, and the ring grows by no more.
LEMMA SegmentMoves ==
    ASSUME IInv, NEW s \in wire_in, segment_arrives(s), ~session.overtaken
    PROVE  /\ D \in Nat /\ G(s) \in Nat /\ Taken(s) \in Nat /\ RecvCap \in Nat
           /\ Len(recv_buf) \in Nat /\ Len(NewBuf(s)) \in Nat
           /\ 1 <= D /\ D + Taken(s) <= G(s) /\ Len(NewBuf(s)) <= Len(recv_buf) + Taken(s)
           /\ Len(NewBuf(s)) <= RecvCap
           /\ G(s) <= peer[Me].nxt + (IF peer[Me].fin THEN 2 ELSE 1)
           /\ peer[Me].una \in Nat /\ peer[Me].edge \in Nat /\ peer[Me].nxt \in Nat
           /\ peer[Me].una + 1 <= D /\ peer[Me].edge + 1 + Len(recv_buf) <= D + RecvCap
<1>1. /\ s.port = Me /\ Me \in Port /\ Live /\ s \in Segments /\ s.data \in Seq(Nat) /\ Linked
  BY SegmentFacts
<1>2. /\ TypeOK /\ ControlInv /\ scene \in Scenes /\ recv_buf \in Seq(Nat) /\ Len(recv_buf) <= RecvCap
      /\ peer \in [Port -> PeerBlock]
  BY ControlFacts
<1>3. /\ Taken(s) \in Nat /\ D \in Nat /\ G(s) \in Nat /\ peer[Me].nxt \in Nat
      /\ DataTaken(s) => D + Taken(s) <= peer[Me].nxt + 1 /\ Taken(s) = Len(s.data)
      /\ ~FinTaken(s) => G(s) = D + Taken(s)
      /\ FinTaken(s) => /\ peer[Me].fin /\ D + Taken(s) = peer[Me].nxt + 1
                        /\ G(s) = peer[Me].nxt + 2
  BY <1>1, SegmentBytes
<1>4. 1 <= D
  BY <1>1 DEF IInv, RecvInv, NextOK
<1>5. /\ D <= peer[Me].nxt + (IF peer[Me].fin THEN 2 ELSE 1)
      /\ peer[Me].una + 1 <= D
      /\ peer[Me].edge + 1 + Len(recv_buf) <= D + RecvCap
  BY <1>1 DEF IInv, RecvInv, RoomOK
<1>6. peer[Me].una \in Nat /\ peer[Me].edge \in Nat /\ RecvCap \in Nat /\ peer[Me].fin \in BOOLEAN
  <2>1. peer[Me] \in PeerBlock
    BY <1>1, <1>2
  <2> QED
    BY <1>2, <2>1, SceneFacts DEF PeerBlock
<1>7. NewBuf(s) \in Seq(Nat) /\ Len(NewBuf(s)) <= RecvCap
  BY <1>1, <1>2, SegmentNumbers
<1>8. Len(recv_buf) \in Nat /\ Len(NewBuf(s)) \in Nat /\ Len(s.data) \in Nat
  BY <1>1, <1>2, <1>7, LenProperties
<1>9. Len(NewBuf(s)) <= Len(recv_buf) + Taken(s)
  <2>1. CASE DataTaken(s)
    <3> DEFINE all == Len(recv_buf) + Len(s.data)
               drop == IF all > RecvCap THEN all - RecvCap ELSE 0
    <3>1. Len(recv_push(recv_buf, s.data)) = all - drop
      BY <1>1, <1>2, Pushed
    <3>2. NewBuf(s) = recv_push(recv_buf, s.data) /\ Taken(s) = Len(s.data)
      BY <2>1 DEF NewBuf, Taken
    <3>3. all \in Nat /\ drop \in Nat
      BY <1>6, <1>8
    <3>4. all = Len(recv_buf) + Taken(s) /\ Len(NewBuf(s)) = all - drop
      BY <3>1, <3>2
    <3> HIDE DEF all, drop
    <3> QED
      BY <1>3, <1>8, <3>3, <3>4
  <2>2. CASE ~DataTaken(s)
    BY <1>3, <1>8, <2>2 DEF NewBuf, Taken
  <2> QED
    BY <2>1, <2>2
<1>10. D + Taken(s) <= G(s)
  <2> DEFINE d == D
             t == Taken(s)
             g == G(s)
             x == peer[Me].nxt
  <2>1. /\ d \in Nat /\ t \in Nat /\ g \in Nat /\ x \in Nat
        /\ g = d + t \/ (d + t = x + 1 /\ g = x + 2)
    BY <1>3
  <2> HIDE DEF d, t, g, x
  <2>2. d + t <= g
    BY <2>1
  <2> QED
    BY <2>2 DEF d, t, g
<1>11. G(s) <= peer[Me].nxt + (IF peer[Me].fin THEN 2 ELSE 1)
  <2> DEFINE d == D
             t == Taken(s)
             g == G(s)
             x == peer[Me].nxt
             f == IF peer[Me].fin THEN 2 ELSE 1
  <2>1. d \in Nat /\ t \in Nat /\ g \in Nat /\ x \in Nat /\ d <= x + f /\ f \in {1, 2}
        /\ (f = 2 <=> peer[Me].fin)
    BY <1>3, <1>5, <1>6
  <2>2. CASE FinTaken(s)
    <3>1. g = x + 2 /\ f = 2
      BY <1>3, <2>1, <2>2
    <3> HIDE DEF f, g, x
    <3>2. g <= x + f
      BY <2>1, <3>1
    <3> QED
      BY <3>2 DEF f, g, x
  <2>3. CASE ~FinTaken(s)
    <3>1. g = d + t
      BY <1>3, <2>3
    <3>2. t = 0 \/ d + t <= x + 1
      BY <1>3 DEF Taken
    <3> HIDE DEF f, g, x, t, d
    <3>3. g <= x + f
      BY <2>1, <3>1, <3>2
    <3> QED
      BY <3>3 DEF f, g, x
  <2> QED
    BY <2>2, <2>3
<1> QED
  BY <1>3, <1>4, <1>5, <1>6, <1>7, <1>8, <1>9, <1>10, <1>11

LEMMA SegmentRecv ==
    ASSUME IInv, scene' = scene, NEW s \in wire_in, segment_arrives(s), NEW st, NEW m,
           Leaves(s, st, m)
    PROVE  RecvInv'
<1>1. /\ Me \in Port /\ Me # 0 /\ (~session.overtaken => Linked) /\ Live
  BY SegmentFacts
<1>2. /\ Me' = Me /\ tcp'.snd_iss = tcp.snd_iss /\ tcp'.rcv_nxt = NewNxt(s)
      /\ recv_buf' = NewBuf(s) /\ UNCHANGED <<drawn, call, wire_in, peer, session>>
      /\ tcp'.state = st /\ st \notin {"LISTEN", "SYN_SENT", "SYN_RECEIVED"}
  BY DEF Leaves
<1>3. D' = G(s) /\ (Linked' <=> Linked)
  BY <1>2 DEF D, G, Linked, Bound
<1>4. FreshOK'
  BY <1>1, <1>2, SegmentVoid DEF FreshOK
<1>5. NextOK'
  <2> SUFFICES ASSUME ~session.overtaken PROVE NextOK'
    BY <1>2 DEF NextOK
  <2>1. 1 <= G(s)
    <3>1. D \in Nat /\ G(s) \in Nat /\ Taken(s) \in Nat /\ 1 <= D /\ D + Taken(s) <= G(s)
      BY SegmentMoves
    <3> QED
      BY <3>1
  <2> QED
    BY <1>1, <1>2, <1>3, <2>1 DEF NextOK
<1>6. RoomOK'
  <2> SUFFICES ASSUME ~session.overtaken PROVE RoomOK'
    BY <1>2 DEF RoomOK
  <2> DEFINE d == D
             g == G(s)
             t == Taken(s)
             l == Len(recv_buf)
             n == Len(NewBuf(s))
             u == peer[Me].una
             e == peer[Me].edge
  <2>1. /\ d \in Nat /\ g \in Nat /\ t \in Nat /\ RecvCap \in Nat /\ l \in Nat /\ n \in Nat
        /\ d + t <= g /\ n <= l + t /\ n <= RecvCap
        /\ u \in Nat /\ e \in Nat /\ u + 1 <= d /\ e + 1 + l <= d + RecvCap
        /\ g <= peer[Me].nxt + (IF peer[Me].fin THEN 2 ELSE 1)
    BY SegmentMoves
  <2>2. u + 1 <= g /\ e + 1 + n <= g + RecvCap
    <3> HIDE DEF d, g, t, l, n, u, e
    <3> QED
      BY <2>1
  <2>3. ASSUME NEW x \in wire_out', x.segment.port = Me, Plain(x) PROVE Heard(x)'
    <3> DEFINE a == Distance(PeerIss[Me], x.segment.ack)
               w == x.window
    <3>1. CASE x \in wire_out
      <4>1. Heard(x)
        BY <1>1, <2>3, <3>1 DEF IInv, RecvInv, RoomOK
      <4>2. CASE Void(x)
        BY <1>2, <4>2 DEF Heard, Void
      <4>3. CASE ~Void(x)
        <5>1. 1 <= a /\ a <= d /\ a + w + l <= d + RecvCap
          BY <4>1, <4>3 DEF Heard
        <5>2. a \in Nat /\ w \in Nat
          <6>1. TypeOK /\ SeqMod \in Nat \ {0} /\ scene \in Scenes
            BY ControlFacts
          <6>2. PeerIss \in [Port -> Seqno]
            BY <6>1, SceneFacts
          <6>3. x.segment.ack \in Seqno /\ w \in Nat
            BY <3>1, <6>1 DEF TypeOK, Segments
          <6>4. PeerIss[Me] \in Seqno
            BY <1>1, <6>2
          <6> QED
            BY <6>1, <6>3, <6>4, DistanceNat
        <5>3. 1 <= a /\ a <= g /\ a + w + n <= g + RecvCap
          <6> HIDE DEF a, w, d, g, t, l, n, u, e
          <6> QED
            BY <2>1, <5>1, <5>2
        <5> QED
          BY <1>2, <1>3, <5>3 DEF Heard
      <4> QED
        BY <4>2, <4>3
    <3>2. CASE x = m
      <4>1. a = g /\ w \in Nat /\ w <= RecvCap - n
        BY <3>2 DEF Leaves, G
      <4>2. 1 <= d
        BY SegmentMoves
      <4>3. 1 <= a /\ a <= g /\ a + w + n <= g + RecvCap
        <5> HIDE DEF a, w, d, g, t, l, n, u, e
        <5> QED
          BY <2>1, <4>1, <4>2
      <4> QED
        BY <1>2, <1>3, <4>3 DEF Heard
    <3> QED
      BY <2>3, <3>1, <3>2 DEF Leaves
  <2>4. /\ D' <= peer'[Me'].nxt + (IF peer'[Me'].fin THEN 2 ELSE 1)
        /\ peer'[Me'].una + 1 <= D'
        /\ peer'[Me'].edge + 1 + Len(recv_buf') <= D' + RecvCap
    BY <1>2, <1>3, <2>1, <2>2
  <2> QED
    BY <1>2, <2>3, <2>4 DEF RoomOK, Plain
<1> QED
  BY <1>4, <1>5, <1>6 DEF RecvInv

LEMMA SegmentStream ==
    ASSUME IInv, scene' = scene, NEW s \in wire_in, segment_arrives(s), NEW st, NEW m,
           Leaves(s, st, m)
    PROVE  StreamInv'
<1>1. /\ s.port = Me /\ Me \in Port /\ Me # 0 /\ Me = session.port /\ Live /\ s.data \in Seq(Nat)
      /\ ~session.overtaken => Linked
  BY SegmentFacts
<1>2. /\ Me' = Me /\ tcp'.rcv_nxt = NewNxt(s) /\ recv_buf' = NewBuf(s)
      /\ UNCHANGED <<peer, session>>
      /\ tcp'.state = st /\ st \notin {"LISTEN", "SYN_SENT", "SYN_RECEIVED"}
  BY DEF Leaves
<1> SUFFICES ASSUME ~session.overtaken PROVE StreamInv'
  BY <1>2 DEF StreamInv
<1>3. /\ TypeOK /\ scene \in Scenes /\ recv_buf \in Seq(Nat) /\ Len(recv_buf) <= RecvCap
      /\ session \in SessionBlock /\ peer \in [Port -> PeerBlock]
  BY ControlFacts
<1> DEFINE a == PeerIss[Me]
           r == session.read
           w == Stream
           v == Stream'
           d == D
           g == G(s)
           t == Taken(s)
           x == peer[Me].nxt
<1>4. a \in Seqno /\ r \in Seq(Nat)
  <2>1. PeerIss \in [Port -> Seqno]
    BY <1>3, SceneFacts
  <2> QED
    BY <1>1, <1>3, <2>1 DEF SessionBlock
<1>5. w = r \o recv_buf /\ v = r \o NewBuf(s)
  BY <1>1, <1>2 DEF Stream, Me
<1>6. /\ Ordered(a, w) /\ Below(a, w, d)
      /\ ~peer[Me].probed =>
            Complete(a, w) /\ Len(w) = IF d <= x + 1 THEN d - 1 ELSE x
  <2>1. /\ \A i, j \in 1..Len(Stream) : i < j => Nth(i) < Nth(j)
        /\ ~peer[Me].probed => \A k \in 1..Len(Stream) : Nth(k) = k
        /\ \A k \in 1..Len(Stream) : Nth(k) < D
        /\ ~peer[Me].probed => Len(Stream) = IF D <= peer[Me].nxt + 1 THEN D - 1 ELSE peer[Me].nxt
    BY <1>1 DEF IInv, StreamInv
  <2>2. \A k : Nth(k) = Distance(a, w[k])
    BY <1>1 DEF Nth
  <2> HIDE DEF w
  <2> QED
    BY <2>1, <2>2 DEF Ordered, Below, Complete, w
<1>7. /\ t \in Nat /\ d \in Nat /\ g \in Nat /\ x \in Nat
      /\ DataTaken(s) => /\ d + t <= x + 1 /\ t = Len(s.data)
                         /\ Onwards(a, s.data, d)
      /\ ~FinTaken(s) => g = d + t
      /\ FinTaken(s) => d + t = x + 1 /\ g = x + 2
  BY <1>1, SegmentBytes DEF Onwards
<1>8. 1 <= d /\ d + t <= g
  BY SegmentMoves
<1>9. ~peer[Me].probed => d + Len(recv_buf) + t <= d + RecvCap \/ t = 0
  <2> DEFINE e == peer[Me].edge
             l == Len(recv_buf)
  <2>1. e \in Nat /\ l \in Nat /\ RecvCap \in Nat /\ e + 1 + l <= d + RecvCap
    BY SegmentMoves
  <2>2. ~peer[Me].probed => x <= e
    <3>1. PeerFine(Me)
      BY <1>1 DEF IInv, WireInv, PeerOK
    <3> QED
      BY <3>1 DEF PeerFine
  <2>3. t = 0 \/ d + t <= x + 1
    BY <1>7 DEF Taken
  <2> HIDE DEF e, l, d, t, x
  <2>4. ~peer[Me].probed => d + l + t <= d + RecvCap \/ t = 0
    BY <1>7, <2>1, <2>2, <2>3
  <2> QED
    BY <2>4 DEF l
<1>10. /\ Ordered(a, v) /\ Below(a, v, d + t)
       /\ (~peer[Me].probed /\ Len(w) = d - 1) => Complete(a, v) /\ Len(v) = Len(w) + t
       /\ t = 0 => v = w
  <2>1. CASE DataTaken(s)
    <3>1. NewBuf(s) = recv_push(recv_buf, s.data) /\ t = Len(s.data) /\ Onwards(a, s.data, d)
          /\ s.data # <<>>
      BY <1>7, <2>1 DEF NewBuf, DataTaken
    <3>2. v = r \o recv_push(recv_buf, s.data)
      BY <1>5, <3>1
    <3>3. t # 0
      BY <1>1, <3>1, EmptySeq
    <3> DEFINE b == recv_buf
               z == s.data
               l == Len(b)
    <3>4. b \in Seq(Nat) /\ z \in Seq(Nat) /\ Len(b) <= RecvCap /\ w = r \o b
          /\ v = r \o recv_push(b, z) /\ t = Len(z) /\ Onwards(a, z, d)
      BY <1>1, <1>3, <1>5, <3>1, <3>2
    <3>5. l \in Nat /\ RecvCap \in Nat
      BY SegmentMoves
    <3>6. ~peer[Me].probed => d + l + t <= d + RecvCap
      BY <1>9, <3>3
    <3> HIDE DEF a, r, w, v, d, t, b, z
    <3>7. /\ Ordered(a, v) /\ Below(a, v, d + Len(z))
          /\ (Complete(a, w) /\ Len(w) = d - 1 /\ Len(b) + Len(z) <= RecvCap) =>
                Complete(a, v) /\ Len(v) = Len(w) + Len(z)
      <4>1. /\ scene \in Scenes /\ a \in Seqno /\ r \in Seq(Nat) /\ d \in Nat
            /\ Ordered(a, w) /\ Below(a, w, d)
        BY <1>3, <1>4, <1>6, <1>7
      <4>2. Extends(a, v, w, b, z, d)
        BY ONLY <3>4, <4>1, Pushing
      <4> QED
        BY <4>2 DEF Extends
    <3> HIDE DEF l
    <3>8. ~peer[Me].probed => l + t <= RecvCap
      BY ONLY <1>7, <3>5, <3>6
    <3>9. ~peer[Me].probed => Len(b) + Len(z) <= RecvCap
      BY <3>4, <3>8 DEF l
    <3> QED
      BY <1>6, <3>3, <3>4, <3>7, <3>9
  <2>2. CASE ~DataTaken(s)
    <3>1. t = 0 /\ v = w
      BY <1>5, <2>2 DEF NewBuf, Taken
    <3>2. Len(w) \in Nat
      <4>1. w \in Seq(Nat)
        BY <1>3, <1>4, <1>5, ConcatProperties
      <4> QED
        BY <4>1, LenProperties
    <3> HIDE DEF a, r, w, v, d, t
    <3>3. d + t = d /\ Len(w) + t = Len(w)
      BY <1>7, <3>1, <3>2
    <3> QED
      BY <1>6, <3>1, <3>3
  <2> QED
    BY <2>1, <2>2
<1>11. Below(a, v, g)
  <2> SUFFICES ASSUME NEW k \in 1..Len(v) PROVE Distance(a, v[k]) < g
    BY DEF Below
  <2>1. Distance(a, v[k]) < d + t
    BY <1>10 DEF Below
  <2>2. v \in Seq(Nat)
    <3>1. NewBuf(s) \in Seq(Nat)
      BY <1>1, ControlFacts, SegmentFacts, SegmentNumbers
    <3> QED
      BY <1>4, <1>5, <3>1, ConcatProperties
  <2>3. v[k] \in Nat
    <3> HIDE DEF v
    <3> QED
      BY <2>2, ElementOfSeq
  <2> DEFINE y == Distance(a, v[k])
  <2>4. y \in Int
    <3>1. SeqMod \in Nat \ {0} /\ a \in Int
      BY <1>3, <1>4, SceneFacts, SMTT(30) DEF Seqno
    <3> DEFINE q == v[k] - a
    <3>2. q \in Int
      BY <2>3, <3>1
    <3> HIDE DEF q
    <3>3. q % SeqMod \in Int
      BY <3>1, <3>2
    <3> QED
      BY <3>3 DEF q, Distance
  <2> HIDE DEF y, d, t, g
  <2>5. y < g
    BY <1>7, <1>8, <2>1, <2>4 DEF y
  <2> QED
    BY <2>5 DEF y
<1>12. ~peer[Me].probed => Complete(a, v) /\ Len(v) = IF g <= x + 1 THEN g - 1 ELSE x
  <2> SUFFICES ASSUME ~peer[Me].probed
               PROVE  Complete(a, v) /\ Len(v) = IF g <= x + 1 THEN g - 1 ELSE x
    OBVIOUS
  <2> DEFINE lw == Len(w)
             lv == Len(v)
  <2>1. Complete(a, w) /\ lw = IF d <= x + 1 THEN d - 1 ELSE x
    BY <1>6
  <2>2. CASE d <= x + 1
    <3>1. lw = d - 1
      BY <2>1, <2>2
    <3>2. Complete(a, v) /\ lv = lw + t
      BY <1>10, <3>1
    <3>3. g = d + t \/ (d + t = x + 1 /\ g = x + 2)
      BY <1>7
    <3>4. t = 0 \/ d + t <= x + 1
      BY <1>7 DEF Taken
    <3> HIDE DEF lw, lv, d, t, g, x
    <3>5. lv = IF g <= x + 1 THEN g - 1 ELSE x
      BY ONLY <1>7, <2>2, <3>1, <3>2, <3>3, <3>4
    <3> QED
      BY <3>2, <3>5 DEF lv
  <2>3. CASE ~(d <= x + 1)
    <3>1. t = 0 \/ d + t <= x + 1
      BY <1>7 DEF Taken
    <3>2. g = d + t \/ (d + t = x + 1 /\ g = x + 2)
      BY <1>7
    <3>3. t = 0 => lv = lw /\ v = w
      BY <1>10
    <3>4. lw = x
      BY <2>1, <2>3
    <3> HIDE DEF lw, lv, d, t, g, x
    <3>5. t = 0 /\ g = d
      BY ONLY <1>7, <2>3, <3>1, <3>2
    <3>6. lv = IF g <= x + 1 THEN g - 1 ELSE x
      BY <2>3, <3>3, <3>4, <3>5
    <3>7. Complete(a, v)
      <4> HIDE DEF v, w
      <4> QED
        BY <2>1, <3>3, <3>5
    <3> QED
      BY <3>6, <3>7 DEF lv
  <2> QED
    BY <2>2, <2>3
<1>13. D' = g
  BY <1>2 DEF D, G
<1>14. \A k : Nth(k)' = Distance(a, v[k])
  BY <1>1, <1>2 DEF Nth
<1>15. /\ \A i, j \in 1..Len(v) : i < j => Nth(i)' < Nth(j)'
       /\ \A k \in 1..Len(v) : Nth(k)' < D'
       /\ ~peer[Me].probed => /\ \A k \in 1..Len(v) : Nth(k)' = k
                              /\ Len(v) = IF D' <= x + 1 THEN D' - 1 ELSE x
  <2> HIDE DEF v, a, g
  <2> QED
    BY <1>10, <1>11, <1>12, <1>13, <1>14 DEF Ordered, Below, Complete
<1> QED
  BY <1>1, <1>2, <1>15 DEF StreamInv

LEMMA SegmentArrivesStep ==
    ASSUME IInv, scene' = scene, NEW s \in wire_in, segment_arrives(s)
    PROVE  IInv'
<1>1. PICK st, m : Leaves(s, st, m)
  BY SegmentLeaves
<1>2. ControlInv'
  BY ControlFacts, SegmentControl
<1>3. UNCHANGED <<peer, session>>
  BY <1>1 DEF Leaves
<1> QED
  BY <1>1, <1>2, <1>3, SegmentSend, SegmentWire, SegmentRecv, SegmentStream, TakenSame DEF IInv

-----------------------------------------------------------------------------
(* The theorems                                                            *)

\* The invariant holds at the start: nothing was sent and nothing received.
LEMMA InitInv ==
    ASSUME Init
    PROVE  IInv
<1>1. /\ tcp = Closed /\ recv_buf = <<>> /\ scene \in Scenes /\ ephemeral_port \in scene.ports
      /\ drawn = 0 /\ call = Idle /\ wire_out = {} /\ wire_in = {}
      /\ peer = [p \in Port |-> NoPeer] /\ session = NewSession(0)
  BY DEF Init
<1>2. /\ SpaceMax \in Nat /\ RecvCap \in Nat /\ SeqMod \in Nat \ {0} /\ scene.peerMax \in Nat
      /\ 0 \in Seqno /\ Len(scene.iss) \in Nat /\ scene.iss \in Seq(1..(SeqMod - 1))
  BY <1>1, SceneFacts, SmallNumbers, LenProperties
<1>3. /\ tcp \in Control
      /\ tcp = Block(FALSE, FALSE, FALSE, "CLOSED", 0, 0, 0, 0, 0, FALSE)
  BY <1>1, ClosedIs
<1>4. /\ call \in CallBlock /\ call.op = "idle"
  BY <1>1, IdleIs DEF InCall
<1> DEFINE e == <<>>
<1>5. e \in Seq(Nat) /\ Len(e) = 0
  BY EmptySeq
<1>6. session = Told(0, 0, e, FALSE, FALSE, FALSE)
  BY <1>1, NewSessionIs
<1>7. NoPeer = [state |-> "fresh", irs |-> 0, nxt |-> 0, una |-> 0, edge |-> 0, rcvd |-> e,
                fin |-> FALSE, eof |-> FALSE, probed |-> FALSE]
  BY DEF NoPeer
<1>8. recv_buf = e
  BY <1>1
<1> HIDE DEF e
<1>9. /\ session \in SessionBlock /\ session.port = 0 /\ session.overtaken = FALSE
      /\ session.finished = FALSE
  BY <1>5, <1>6 DEF Told, SessionBlock
<1>10. NoPeer \in PeerBlock /\ NoPeer.state = "fresh" /\ NoPeer.nxt = 0 /\ NoPeer.una = 0
       /\ NoPeer.edge = 0 /\ NoPeer.rcvd = e /\ ~NoPeer.fin /\ ~NoPeer.eof /\ ~NoPeer.probed
  BY <1>2, <1>5, <1>7 DEF PeerBlock
<1>11. peer \in [Port -> PeerBlock] /\ \A p \in Port : peer[p] = NoPeer
  BY <1>1, <1>10
<1>12. /\ tcp.active = FALSE /\ tcp.state = "CLOSED" /\ Me = 0 /\ tcp.snd_iss = 0
  BY <1>3 DEF Block, Me
<1>13. TypeOK
  <2>1. recv_buf \in Seq(Nat) /\ Len(recv_buf) = 0
    BY <1>5, <1>8
  <2>2. Len(recv_buf) <= RecvCap
    BY <1>2, <2>1
  <2>3. (\A m \in wire_out : m.segment \in Segments /\ m.window \in Nat) /\ wire_in \subseteq Segments
    BY <1>1
  <2> QED
    BY <1>1, <1>3, <1>4, <1>9, <1>11, <2>1, <2>2, <2>3 DEF TypeOK
<1>14. BlockOK
  BY <1>9, <1>12 DEF BlockOK
<1>15. TryOK
  BY <1>1, <1>2, <1>4, <1>12 DEF TryOK
<1>16. WireInv
  <2>1. ASSUME NEW p \in Port PROVE PeerFine(p)
    <3>1. Pristine(p) /\ ~Bound(p)
      BY <1>5, <1>10, <1>11 DEF Pristine, Bound, e
    <3>2. peer[p].nxt = 0 /\ peer[p].una = 0 /\ peer[p].edge = 0
      BY <1>10, <1>11
    <3> QED
      BY <1>2, <3>1, <3>2 DEF PeerFine
  <2> QED
    BY <1>1, <2>1 DEF WireInv, PeerOK, OutOK, InOK
<1>17. ~Linked /\ ~Live /\ ~Open
  BY <1>12 DEF Linked, Live, Open
<1>18. SendInv
  BY <1>12, <1>17 DEF SendInv, NumbersOK, SentOK, OpeningOK, ClosingOK
<1>19. CallInv
  BY <1>4 DEF CallInv, ChunkOK, CountOK, EndOK, NewOK
<1>20. RecvInv
  BY <1>1, <1>12, <1>17 DEF RecvInv, FreshOK, NextOK, RoomOK
<1>21. StreamInv /\ TakenInv
  BY <1>9 DEF StreamInv, TakenInv
<1> QED
  BY <1>13, <1>14, <1>15, <1>16, <1>18, <1>19, <1>20, <1>21 DEF IInv, ControlInv

\* Every step keeps it.
LEMMA NextInv ==
    ASSUME IInv, [Next]_vars
    PROVE  IInv'
<1>1. CASE CallStep
  <2> SUFFICES ASSUME scene' = scene PROVE IInv'
    BY <1>1 DEF CallStep
  <2> QED
    BY <1>1, ConnectTryStep, ConnectPolledStep, ConnectFailsStep, AcceptPolledStep, SendTryStep,
       SendPolledStep, SendFailsStep, RecvPolledStep, CloseTryStep, ClosePolledStep, CloseFailsStep
       DEF CallStep
<1>2. CASE CallBegins /\ UNCHANGED scene
  BY <1>2, UnresolvedStep, ConnectStep, ListenStep, AcceptStep, SendStep, RecvStep, CloseStep
     DEF CallBegins
<1>3. CASE Poll /\ UNCHANGED scene
  BY <1>3, SynArrivesStep, RstArrivesStep, SynAckArrivesStep, StaleArrivesStep, SegmentArrivesStep
     DEF Poll
<1>4. CASE Peer /\ UNCHANGED scene
  BY <1>4, PeerStep
<1>5. CASE UNCHANGED vars
  <2>1. /\ scene' = scene /\ ControlInv /\ ControlInv'
        /\ UNCHANGED <<tcp, recv_buf, drawn, call, wire_out, wire_in, peer, session>>
    BY <1>5, ControlFacts DEF vars, kernel, ControlInv, TypeOK, BlockOK, TryOK, Me, Drawn
  <2>2. CallInv'
    BY <2>1, CallGoesOn
  <2>3. TakenInv'
    BY <2>1, TakenSame
  <2> QED
    BY <2>1, <2>2, <2>3, QuietStep
<1> QED
  BY <1>1, <1>2, <1>3, <1>4, <1>5 DEF Next

\* The invariant the theorems rest on: the control block, the call in progress, the
\* segments on the wire and the remote end stay consistent, whatever arrives when.
THEOREM ConnectionInvariant == Spec => []IInv
<1>1. Init => IInv
  BY InitInv
<1>2. IInv /\ [Next]_vars => IInv'
  BY NextInv
<1> QED
  BY <1>1, <1>2, PTL DEF Spec

LEMMA InSyncHolds ==
    ASSUME IInv
    PROVE  InSync
<1> SUFFICES ASSUME Open, ~session.overtaken, Remote.state = "open" PROVE InSync
  BY DEF InSync
<1>1. /\ TypeOK /\ BlockOK /\ scene \in Scenes /\ tcp \in Control /\ peer \in [Port -> PeerBlock]
      /\ SeqMod \in Nat \ {0}
  BY ControlFacts
<1>2. Live /\ Me # 0 /\ Me \in Port /\ tcp.snd_iss # 0
  BY <1>1 DEF Live, Open, BlockOK, Control, Me
<1>3. Linked /\ 1 <= D
  BY <1>2 DEF IInv, RecvInv, NextOK
<1> DEFINE c == peer[Me]
           a == tcp.snd_iss
           b == PeerIss[Me]
           e == AckOf(c)
           one == 1
           f == IF c.fin THEN 2 ELSE 1
<1>4. c \in PeerBlock /\ a \in Seqno /\ b \in Seqno /\ Remote = c
  <2>1. PeerIss \in [Port -> Seqno]
    BY <1>1, SceneFacts
  <2> QED
    BY <1>1, <1>2, <2>1 DEF Control, Remote, Me
<1>5. c.irs = a
  BY <1>3 DEF Linked
<1>6. PeerRcvNxt(Me) = e
  <2>1. PeerRcvNxt(Me) = Plus(c.irs, 1 + Len(c.rcvd) + (IF c.eof THEN 1 ELSE 0))
    BY DEF PeerRcvNxt
  <2>2. 1 + Len(c.rcvd) + (IF c.eof THEN 1 ELSE 0) = 1 + Count(c)
    <3> DEFINE l == Len(c.rcvd)
               g == IF c.eof THEN 1 ELSE 0
    <3>1. l \in Nat /\ g \in Nat /\ Count(c) = l + g
      BY <1>4, LenProperties DEF Count, PeerBlock
    <3> HIDE DEF l, g, c
    <3>2. 1 + l + g = 1 + Count(c)
      BY <3>1
    <3> QED
      BY <3>2 DEF l, g
  <2> HIDE DEF c
  <2> QED
    BY <2>1, <2>2 DEF AckOf
<1>7. /\ U <= N /\ 1 <= N /\ N <= SpaceMax + 1
      /\ U = 0 \/ U <= 1 + Got(Me)
      /\ 1 + Got(Me) <= N
  BY <1>2, <1>3 DEF IInv, SendInv, NumbersOK
<1>8. /\ U \in Nat /\ N \in Nat /\ Got(Me) \in Nat /\ SpaceMax \in Nat /\ 1 <= SpaceMax
      /\ scene.peerMax \in Nat /\ SeqMod > 2 * (SpaceMax + scene.peerMax + 2)
  BY <1>1, <1>2, SendNumbers, SceneFacts
<1>9. Distance(a, e) = 1 + Got(Me) /\ e \in Seqno
  <2>1. Count(c) <= SpaceMax
    BY <1>7, <1>8 DEF Got
  <2>2. Distance(c.irs, e) = 1 + Count(c)
    <3> HIDE DEF c
    <3> QED
      BY <1>1, <1>4, <2>1, AckDistance
  <2>3. e \in Seqno
    <3>1. Count(c) \in Nat
      BY <1>8 DEF Got
    <3>2. c.irs \in Seqno /\ 1 + Count(c) \in Nat
      BY <1>4, <3>1 DEF PeerBlock
    <3> HIDE DEF c
    <3> QED
      BY <1>1, <3>2, PlusType DEF AckOf
  <2> QED
    BY <1>5, <2>2, <2>3 DEF Got
<1> HIDE DEF e
\* The sending half: a counts its numbers.
<1>10. seq_le(tcp.snd_una, e) /\ seq_le(e, tcp.snd_nxt)
  <2> DEFINE K == SpaceMax + 2
             x == tcp.snd_una
             y == tcp.snd_nxt
             u == Distance(a, x)
             n == Distance(a, y)
             g == Distance(a, e)
  <2>1. K \in Nat /\ SeqMod > 2 * K
    BY ONLY <1>1, <1>8
  <2>2. x \in Seqno /\ y \in Seqno
    BY <1>1 DEF Control
  <2>3. u = U /\ n = N
    BY DEF U, N
  <2>4. u \in Nat /\ n \in Nat /\ g \in Nat /\ u < K /\ n < K /\ g < K /\ u <= g /\ g <= n
    <3>1. g = 1 + Got(Me)
      BY <1>9
    <3> HIDE DEF u, n, g
    <3> QED
      BY <1>7, <1>8, <2>3, <3>1
  <2> HIDE DEF K, x, y, a
  <2>5. (seq_le(x, e) <=> u <= g) /\ (seq_le(e, y) <=> g <= n)
    BY <1>1, <1>4, <1>9, <2>1, <2>2, <2>4, Compared
  <2> QED
    BY <2>4, <2>5 DEF x, y
<1>11. /\ D <= c.nxt + f /\ c.una + 1 <= D
  BY <1>2, <1>3 DEF IInv, RecvInv, RoomOK
<1>12. c.nxt <= scene.peerMax /\ c.una <= c.nxt + 1 /\ c.nxt \in Nat /\ c.una \in Nat
  <2>1. PeerFine(Me)
    BY <1>2 DEF IInv, WireInv, PeerOK
  <2> QED
    BY <1>4, <2>1 DEF PeerFine, PeerBlock
\* The receiving half: b counts its numbers.
<1>13. /\ seq_le(ByteSeq(Me, c.una + 1), tcp.rcv_nxt)
       /\ seq_le(tcp.rcv_nxt, ByteSeq(Me, c.nxt + f))
  <2> DEFINE K == scene.peerMax + 3
             i == c.una + 1
             j == c.nxt + f
             x == ByteSeq(Me, i)
             y == ByteSeq(Me, j)
             z == tcp.rcv_nxt
             d == Distance(b, z)
  <2>1. K \in Nat /\ SeqMod > 2 * K
    BY ONLY <1>1, <1>8
  <2>2. z \in Seqno /\ d = D /\ d \in Nat
    <3>1. z \in Seqno
      BY <1>1 DEF Control
    <3> QED
      BY <1>1, <1>4, <3>1, DistanceNat DEF D
  <2>3. f \in {1, 2}
    OBVIOUS
  <2>4. i \in 0..(scene.peerMax + 2) /\ j \in 0..(scene.peerMax + 2) /\ i <= d /\ d <= j
        /\ d < K /\ i < K /\ j < K
    <3> HIDE DEF f, d, c
    <3> QED
      BY ONLY <1>8, <1>11, <1>12, <2>2, <2>3
  <2> HIDE DEF i, j
  <2>5. x \in Seqno /\ y \in Seqno /\ Distance(b, x) = i /\ Distance(b, y) = j
    BY <1>1, <1>2, <2>4, ByteDistance
  <2> HIDE DEF K, x, y, z, b, d
  <2>6. Distance(b, x) < K /\ Distance(b, y) < K /\ Distance(b, z) < K
    BY <2>4, <2>5 DEF d
  <2>7. (seq_le(x, z) <=> Distance(b, x) <= Distance(b, z))
        /\ (seq_le(z, y) <=> Distance(b, z) <= Distance(b, y))
    BY <1>1, <1>4, <2>1, <2>2, <2>5, <2>6, Compared
  <2>8. seq_le(x, z) /\ seq_le(z, y)
    BY <2>4, <2>5, <2>7 DEF d
  <2> QED
    BY <2>8 DEF x, y, z, i, j
<1> QED
  BY <1>4, <1>5, <1>6, <1>10, <1>13 DEF InSync, Me

LEMMA WindowHolds ==
    ASSUME IInv
    PROVE  WindowKept
<1> SUFFICES ASSUME Open, ~session.overtaken PROVE WindowKept
  BY DEF WindowKept
<1>1. /\ TypeOK /\ BlockOK /\ scene \in Scenes /\ tcp \in Control /\ peer \in [Port -> PeerBlock]
      /\ SeqMod \in Nat \ {0} /\ recv_buf \in Seq(Nat)
  BY ControlFacts
<1>2. Live /\ Me # 0 /\ Me \in Port
  BY <1>1 DEF Live, Open, BlockOK, Control, Me
<1>3. Linked /\ 1 <= D
  BY <1>2 DEF IInv, RecvInv, NextOK
<1> DEFINE b == PeerIss[Me]
           e == peer[Me].edge
           l == Len(recv_buf)
           one == 1
           x == ByteSeq(Me, one)
           z == tcp.rcv_nxt
           d == Distance(b, z)
           g == Distance(x, z)
<1>4. e + 1 + l <= d + RecvCap
  BY <1>2, <1>3 DEF IInv, RecvInv, RoomOK, D
<1>5. e \in Nat /\ l \in Nat /\ RecvCap \in Nat /\ scene.peerMax \in Nat /\ b \in Seqno
      /\ z \in Seqno
  <2>1. PeerIss \in [Port -> Seqno] /\ RecvCap \in Nat /\ scene.peerMax \in Nat
    BY <1>1, SceneFacts
  <2>2. peer[Me] \in PeerBlock
    BY <1>1, <1>2
  <2> QED
    BY <1>1, <1>2, <2>1, <2>2, LenProperties DEF PeerBlock, Control
<1>6. d \in Nat /\ 1 <= d
  BY <1>1, <1>3, <1>5, DistanceNat DEF D
<1>7. x \in Seqno /\ Distance(b, x) = one
  <2>1. one \in 0..(scene.peerMax + 2)
    BY <1>5
  <2> HIDE DEF one
  <2> QED
    BY <1>1, <1>2, <2>1, ByteDistance
<1>8. g = IF one <= d THEN d - one ELSE SeqMod - (one - d)
  <2> HIDE DEF one, x, b, z
  <2> QED
    BY <1>1, <1>5, <1>7, DistanceFrom
<1>9. e - g <= RecvCap - l
  <2> HIDE DEF e, g, l, d
  <2> QED
    BY ONLY <1>4, <1>5, <1>6, <1>8
<1> QED
  BY <1>9 DEF WindowKept, Remote, Me

LEMMA StreamHolds ==
    ASSUME IInv
    PROVE  StreamRead
<1> DEFINE got == session.read \o (IF tcp.local_port = session.port THEN recv_buf ELSE <<>>)
           nth(k) == Distance(PeerIss[session.port], got[k])
<1> SUFFICES ASSUME session.port # 0, ~session.overtaken
             PROVE  /\ \A k \in 1..(Len(got) - 1) : nth(k) < nth(k + 1)
                    /\ ~peer[session.port].probed => \A k \in 1..Len(got) : nth(k) = k
  BY DEF StreamRead
<1>1. got = Stream /\ \A k : nth(k) = Nth(k)
  BY DEF Stream, Nth
<1>2. /\ \A i, j \in 1..Len(Stream) : i < j => Nth(i) < Nth(j)
      /\ ~peer[session.port].probed => \A k \in 1..Len(Stream) : Nth(k) = k
  BY DEF IInv, StreamInv
<1> HIDE DEF got, nth
<1>3. Len(got) \in Nat
  <2>1. session.read \in Seq(Nat) /\ recv_buf \in Seq(Nat)
    BY ControlFacts DEF SessionBlock
  <2>2. got \in Seq(Nat)
    BY <2>1, EmptySeq, ConcatProperties DEF got
  <2> QED
    BY <2>2, LenProperties
<1>4. ASSUME NEW k \in 1..(Len(got) - 1) PROVE nth(k) < nth(k + 1)
  <2> DEFINE j == k + 1
  <2>1. k \in 1..Len(got) /\ j \in 1..Len(got) /\ k < j
    BY <1>3
  <2> HIDE DEF j
  <2>2. nth(k) < nth(j)
    BY <1>1, <1>2, <2>1
  <2> QED
    BY <2>2 DEF j
<1>5. ~peer[session.port].probed => \A k \in 1..Len(got) : nth(k) = k
  BY <1>1, <1>2
<1> QED
  BY <1>4, <1>5

\* The two ends of an open connection agree on its sequence numbers, and what the remote
\* end was told it may send finds room in the receive ring: late, repeated and stale
\* segments, and those of earlier tries, never bring clks_net_process_tcp to anything else.
THEOREM ConnectionsSound == Spec => []ConnectionSound
<1>1. IInv => ConnectionSound
  BY InSyncHolds, WindowHolds DEF ConnectionSound
<1> QED
  BY <1>1, ConnectionInvariant, PTL

\* What clks_net_tcp_recv returned, with what waits in the ring, is a prefix of what the
\* remote end sent, unless it probed a closed window: bytes are missing then, where
\* clks_net_tcp_recv_push gave up the oldest, and the others still come in order.
THEOREM StreamsRead == Spec => []StreamRead
<1>1. IInv => StreamRead
  BY StreamHolds
<1> QED
  BY <1>1, ConnectionInvariant, PTL

\* Every byte that clks_net_tcp_send counted was received by the remote end, and
\* clks_net_tcp_close does not return true for a FIN that was not, unless the connection
\* was reset.
THEOREM SentBytesArrived == Spec => []SentArrived
<1>1. IInv => SentArrived
  BY DEF IInv, TakenInv, SentArrived
<1> QED
  BY <1>1, ConnectionInvariant, PTL

=============================================================================
