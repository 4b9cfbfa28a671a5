-------------------------------- MODULE Tcp --------------------------------
(***************************************************************************)
(* The TCP connection of src/kernel/runtime/net.c: one global control      *)
(* block, calls that poll the card until an answer or a budget ends them,  *)
(* and a remote endpoint behind a network that loses, duplicates and       *)
(* reorders segments.                                                      *)
(*                                                                         *)
(* A call is a sequence of steps: it transmits (phase "tx", no frame is    *)
(* looked at), then polls (phase "poll": any number of segments is         *)
(* processed between two looks at the control block).  The kernel's idle   *)
(* loop and the terminal reads poll too, so segments arrive when no call   *)
(* is in progress.  A segment stays on the wire for ever: losing it is     *)
(* never delivering it, and it may be delivered again and in any order.    *)
(*                                                                         *)
(* Sequence numbers are taken modulo SeqMod, as the code's u32; a chunk    *)
(* length is taken modulo LenMod, as its u16.  A byte of the remote        *)
(* endpoint is its sequence number, a byte of the program its position in  *)
(* what the program has to send.                                           *)
(***************************************************************************)
EXTENDS Integers, Sequences, FiniteSets

CONSTANTS
    SeqMod,         \* 2^32: sequence numbers
    LenMod,         \* 2^16: the chunk length of clks_net_tcp_send
    IoMax,          \* NET_TCP_IO_MAX of the system call
    RecvCap,        \* CLKS_NET_TCP_RECV_CAP
    Window,         \* CLKS_NET_TCP_DEFAULT_WINDOW
    MaxSegment,     \* CLKS_NET_TCP_SEND_MAX_SEGMENT
    Port,           \* the local ports
    PeerIss,        \* the remote endpoint's first sequence number, for each port
    SpaceMax,       \* bound on the sequence numbers one connection uses
    Reads,          \* the capacities passed to clks_net_tcp_recv
    Scenes          \* what a run is about, see Scene

CallName == {"unresolved", "connect", "listen", "send", "recv", "close"}

\* ports: the local ports in use; iss: the initial sequence numbers the calls draw, in
\* order; retries: CLKS_NET_TCP_RETRY_COUNT; peerMax, appMax: bounds on the bytes of the
\* remote endpoint and of the program; calls: the calls the program makes; aborts:
\* whether the remote endpoint may reset a connection.
Scene(ports, iss, retries, peerMax, appMax, calls, aborts) ==
    [ports |-> ports, iss |-> iss, retries |-> retries, peerMax |-> peerMax,
     appMax |-> appMax, calls |-> calls, aborts |-> aborts]

ASSUME TcpAssumption ==
    /\ SeqMod \in Nat /\ LenMod \in Nat \ {0}
    /\ IoMax \in Nat /\ RecvCap \in Nat \ {0} /\ Window \in Nat \ {0}
    /\ MaxSegment \in Nat \ {0} /\ SpaceMax \in Nat \ {0}
    /\ 0 \notin Port /\ PeerIss \in [Port -> 0..(SeqMod - 1)] /\ Reads \subseteq Nat \ {0}
    /\ \A s \in Scenes :
          /\ s.ports \subseteq Port /\ s.ports # {} /\ s.iss \in Seq(1..(SeqMod - 1))
          /\ s.retries \in Nat \ {0} /\ s.appMax \in Nat /\ s.peerMax \in Nat
          /\ SeqMod > 2 * (SpaceMax + s.peerMax + 2)
          /\ s.calls \subseteq CallName /\ s.aborts \in BOOLEAN

\* What clks_net_tcp_make_iss is for: two sequence spaces it opens do not overlap.
ASSUME IssApart ==
    \A s \in Scenes : \A i, j \in 1..Len(s.iss) :
        i # j => (s.iss[j] - s.iss[i]) % SeqMod > SpaceMax + 1

\* A connect that tries again puts 0 in rcv_nxt, which a segment of the remote endpoint
\* is then compared with: 0 is no sequence number of it.
ASSUME ZeroApart ==
    \A s \in Scenes : s.retries > 1 =>
        \A p \in s.ports : (0 - PeerIss[p]) % SeqMod > s.peerMax + 2

VARIABLES
    scene,          \* the scene
    tcp,            \* clks_net_tcp without its buffer
    recv_buf,       \* the ring of received bytes, oldest first
    last_err,       \* clks_net_tcp_last_err
    ephemeral_port, \* clks_net_tcp_ephemeral_port
    drawn,          \* how many initial sequence numbers were drawn
    call,           \* the call in progress
    wire_out,       \* the segments sent to the remote endpoint
    wire_in,        \* the segments the remote endpoint sent
    peer,           \* the remote endpoint's control block for each port
    session         \* what the program knows of its last connection

kernel == <<tcp, recv_buf, last_err, ephemeral_port, drawn, call>>
vars == <<scene, kernel, wire_out, wire_in, peer, session>>

Plus(a, n) == (a + n) % SeqMod
Distance(a, b) == (b - a) % SeqMod      \* from a forward to b
seq_ge(a, b) == Distance(b, a) < SeqMod \div 2
seq_le(a, b) == Distance(b, a) = 0 \/ Distance(b, a) >= SeqMod \div 2

Closed == [active |-> FALSE, peer_fin |-> FALSE, reset_seen |-> FALSE, state |-> "CLOSED",
           local_port |-> 0, snd_iss |-> 0, snd_una |-> 0, snd_nxt |-> 0, rcv_nxt |-> 0,
           stale_ack_seen |-> FALSE]

\* op: the call; phase: "tx" before it transmits, "poll" while it polls; try:
\* try_index; src: src_port of a connect, 0 for an ephemeral one; want: the
\* length or capacity asked for; sent: sent_total; first, last: seq_start and
\* seq_end of the chunk, or fin_seq.
Idle == [op |-> "idle", phase |-> "poll", try |-> 0, src |-> 0, want |-> 0, sent |-> 0,
         first |-> 0, last |-> 0]

\* taken: the bytes clks_net_tcp_send counted; overtaken: a try of a connect began
\* although an earlier one had been answered.
NewSession(port) == [port |-> port, taken |-> 0, read |-> <<>>, reset |-> FALSE,
                     finished |-> FALSE, overtaken |-> FALSE]

\* The remote endpoint: nxt bytes sent, una acknowledged, edge the number of bytes
\* the last window lets it send, probed when it sent a byte beyond it.
NoPeer == [state |-> "fresh", irs |-> 0, nxt |-> 0, una |-> 0, edge |-> 0, rcvd |-> <<>>,
           fin |-> FALSE, eof |-> FALSE, probed |-> FALSE]

Segment(port, flags, seq, ack, data) ==
    [port |-> port, flags |-> flags, seq |-> seq, ack |-> ack, data |-> data]

\* clks_net_send_tcp_segment_raw: the window is the free room, up to Window.
free_bytes(b) == RecvCap - Len(b)
window(b) == IF free_bytes(b) < Window THEN free_bytes(b) ELSE Window
tcp_segment(t, b, flags, seq, data) ==
    [segment |-> Segment(t.local_port, flags, seq,
                         IF "ACK" \in flags THEN t.rcv_nxt ELSE 0, data),
     window |-> window(b)]
Transmits(s) == wire_out' = wire_out \cup {s}
\* A bare acknowledgement's sequence number plays no part: 0 stands for snd_nxt.
tcp_ack(t, b) == tcp_segment(t, b, {"ACK"}, 0, <<>>)

Init ==
    /\ tcp = Closed /\ recv_buf = <<>> /\ last_err = "NONE"
    /\ scene \in Scenes
    /\ ephemeral_port \in scene.ports
    /\ drawn = 0 /\ call = Idle
    /\ wire_out = {} /\ wire_in = {}
    /\ peer = [p \in Port |-> NoPeer]
    /\ session = NewSession(0)

-----------------------------------------------------------------------------
(* A received segment, clks_net_process_tcp.                               *)

\* clks_net_tcp_recv_push: a full buffer gives up its oldest byte for each new one.
recv_push(b, data) ==
    LET all == b \o data
    IN  SubSeq(all, (IF Len(all) > RecvCap THEN Len(all) - RecvCap ELSE 0) + 1, Len(all))

Arrives(s) ==
    /\ s \in wire_in
    /\ call.phase = "poll" /\ tcp.active
    /\ s.port = tcp.local_port

syn_arrives(s) ==
    /\ Arrives(s) /\ tcp.state = "LISTEN" /\ "SYN" \in s.flags
    /\ drawn < Len(scene.iss)
    /\ LET iss == scene.iss[drawn + 1]
           t == [tcp EXCEPT !.snd_iss = iss, !.snd_una = iss, !.snd_nxt = Plus(iss, 1),
                            !.rcv_nxt = Plus(s.seq, 1), !.state = "SYN_RECEIVED"]
       IN  /\ tcp' = t
           /\ Transmits(tcp_segment(t, recv_buf, {"SYN", "ACK"}, iss, <<>>))
    /\ drawn' = drawn + 1
    /\ UNCHANGED <<recv_buf, last_err, ephemeral_port, call, wire_in, peer, session>>

rst_arrives(s) ==
    /\ Arrives(s) /\ tcp.state # "LISTEN" /\ "RST" \in s.flags
    /\ tcp' = [tcp EXCEPT !.reset_seen = TRUE, !.active = FALSE, !.state = "CLOSED"]
    /\ session' = [session EXCEPT !.reset = TRUE]
    /\ UNCHANGED <<recv_buf, last_err, ephemeral_port, drawn, call, wire_out, wire_in, peer>>

\* MUTANT: any SYN of the remote endpoint answers this try.
syn_ack_unchecked(s) ==
    /\ Arrives(s) /\ tcp.state = "SYN_SENT" /\ {"SYN", "ACK"} \subseteq s.flags
    /\ LET t == [tcp EXCEPT !.snd_una = s.ack, !.rcv_nxt = Plus(s.seq, 1),
                            !.state = "ESTABLISHED"]
       IN  tcp' = t /\ Transmits(tcp_ack(t, recv_buf))
    /\ UNCHANGED <<recv_buf, last_err, ephemeral_port, drawn, call, wire_in, peer, session>>

syn_ack_arrives(s) ==
    /\ Arrives(s) /\ tcp.state = "SYN_SENT" /\ "RST" \notin s.flags
    /\ {"SYN", "ACK"} \subseteq s.flags /\ s.ack = tcp.snd_nxt
    /\ LET t == [tcp EXCEPT !.snd_una = s.ack, !.rcv_nxt = Plus(s.seq, 1),
                            !.state = "ESTABLISHED"]
       IN  tcp' = t /\ Transmits(tcp_ack(t, recv_buf))
    /\ UNCHANGED <<recv_buf, last_err, ephemeral_port, drawn, call, wire_in, peer, session>>

stale_ack_arrives(s) ==
    /\ Arrives(s) /\ tcp.state = "SYN_SENT" /\ "RST" \notin s.flags
    /\ "ACK" \in s.flags /\ "SYN" \notin s.flags
    /\ tcp' = [tcp EXCEPT !.stale_ack_seen = TRUE]
    /\ UNCHANGED <<recv_buf, last_err, ephemeral_port, drawn, call, wire_out, wire_in,
                   peer, session>>

\* What a segment does to an open connection: t the control block, b the buffer
\* and answer whether an acknowledgement is due.
OnAck(t, s) ==
    IF "ACK" \in s.flags /\ seq_ge(s.ack, t.snd_una) /\ seq_le(s.ack, t.snd_nxt)
    THEN [t EXCEPT !.snd_una = s.ack] ELSE t

\* MUTANT: a segment that begins before rcv_nxt is taken as well.
OnPayloadAgain(t, s) ==
    IF s.data # <<>> /\ seq_le(s.seq, t.rcv_nxt)
    THEN [t |-> [t EXCEPT !.rcv_nxt = Plus(s.seq, Len(s.data))],
          b |-> recv_push(recv_buf, s.data), answer |-> TRUE]
    ELSE [t |-> t, b |-> recv_buf, answer |-> s.data # <<>>]

OnPayload(t, s) ==
    IF s.data # <<>> /\ s.seq = t.rcv_nxt
    THEN [t |-> [t EXCEPT !.rcv_nxt = Plus(@, Len(s.data))],
          b |-> recv_push(recv_buf, s.data), answer |-> TRUE]
    ELSE [t |-> t, b |-> recv_buf, answer |-> s.data # <<>>]

\* An out-of-order FIN leaves rcv_nxt alone and is otherwise treated like another.
fin_received(t, s) ==
    LET fin_seq == Plus(s.seq, Len(s.data))
    IN  [t EXCEPT !.rcv_nxt = IF fin_seq = @ THEN Plus(@, 1) ELSE @,
                  !.peer_fin = TRUE,
                  !.state = CASE @ = "ESTABLISHED" -> "CLOSE_WAIT"
                              [] @ = "FIN_WAIT2" -> "CLOSED"
                              [] OTHER -> @,
                  !.active = @ /\ t.state # "FIN_WAIT2"]

OnFin(r, s) ==
    IF "FIN" \in s.flags THEN [r EXCEPT !.t = fin_received(@, s), !.answer = TRUE] ELSE r

fin_acked(t) == seq_ge(t.snd_una, t.snd_nxt)
AfterFin(t) ==
    CASE t.state = "FIN_WAIT1" /\ fin_acked(t) /\ ~t.peer_fin ->
             [t EXCEPT !.state = "FIN_WAIT2"]
      [] \/ t.state = "FIN_WAIT1" /\ fin_acked(t) /\ t.peer_fin
         \/ t.state = "LAST_ACK" /\ fin_acked(t) ->
             [t EXCEPT !.state = "CLOSED", !.active = FALSE]
      [] OTHER -> t

\* What ends SYN_RECEIVED.
Completes(s) == "ACK" \in s.flags /\ s.ack = tcp.snd_nxt

segment_arrives(s) ==
    /\ Arrives(s) /\ tcp.state \notin {"LISTEN", "SYN_SENT"} /\ "RST" \notin s.flags
    /\ tcp.state = "SYN_RECEIVED" => Completes(s)
    /\ LET open == IF tcp.state = "SYN_RECEIVED" THEN [tcp EXCEPT !.state = "ESTABLISHED"]
                   ELSE tcp
           r == OnFin(OnPayload(OnAck(open, s), s), s)
           t == AfterFin(r.t)
       IN  /\ tcp' = t /\ recv_buf' = r.b
           /\ IF r.answer /\ t.active THEN Transmits(tcp_ack(t, r.b)) ELSE UNCHANGED wire_out
    /\ UNCHANGED <<last_err, ephemeral_port, drawn, call, wire_in, peer, session>>

-----------------------------------------------------------------------------
(* The calls.                                                              *)

Begins(name) == call = Idle /\ name \in scene.calls
Returns == call' = Idle
NextTry == call' = [call EXCEPT !.try = @ + 1, !.phase = "tx"]
NoAnswer == UNCHANGED <<wire_in, peer>>

\* clks_net_tcp_connect.  A bad argument or no hardware address: it fails before it
\* touches the connection there is.
connect_unresolved ==
    /\ Begins("unresolved")
    /\ last_err' \in {"ARP", "BAD_ARG"}
    /\ UNCHANGED <<tcp, recv_buf, ephemeral_port, drawn, call, wire_out, session>> /\ NoAnswer

\* clks_net_tcp_next_ephemeral_port steps to another port.
next_ephemeral_port == ephemeral_port' \in scene.ports \ {ephemeral_port}

connect(src) ==
    /\ Begins("connect") /\ drawn + scene.retries <= Len(scene.iss)
    /\ IF src = 0 THEN next_ephemeral_port ELSE UNCHANGED ephemeral_port
    /\ LET port == IF src = 0 THEN ephemeral_port' ELSE src
       IN  /\ tcp' = [Closed EXCEPT !.active = TRUE, !.state = "SYN_SENT",
                                    !.local_port = port]
           /\ session' = NewSession(port)
    /\ recv_buf' = <<>> /\ last_err' = "NONE"
    /\ call' = [Idle EXCEPT !.op = "connect", !.phase = "tx", !.src = src]
    /\ UNCHANGED <<drawn, wire_out>> /\ NoAnswer

connect_try ==
    /\ call.op = "connect" /\ call.phase = "tx" /\ call.try < scene.retries
    /\ IF call.src = 0 /\ call.try > 0 THEN next_ephemeral_port ELSE UNCHANGED ephemeral_port
    /\ LET iss == scene.iss[drawn + 1]
           port == IF call.src = 0 THEN ephemeral_port' ELSE tcp.local_port
           t == [tcp EXCEPT !.local_port = port, !.snd_iss = iss, !.snd_una = iss,
                            !.snd_nxt = Plus(iss, 1), !.rcv_nxt = 0,
                            !.stale_ack_seen = FALSE]
       IN  /\ tcp' = t /\ session' = [session EXCEPT !.port = port,
                                                        !.overtaken = @ \/ tcp.state # "SYN_SENT"]
           /\ \/ /\ Transmits(tcp_segment(t, recv_buf, {"SYN"}, iss, <<>>))
                 /\ call' = [call EXCEPT !.phase = "poll"]
                 /\ UNCHANGED last_err
              \/ /\ last_err' = "SYN_TX" /\ NextTry
                 /\ UNCHANGED wire_out
    /\ drawn' = drawn + 1
    /\ UNCHANGED recv_buf /\ NoAnswer

connect_polled ==
    /\ call.op = "connect" /\ call.phase = "poll"
    /\ \/ /\ tcp.reset_seen
          /\ tcp' = Closed /\ recv_buf' = <<>> /\ last_err' = "RST" /\ Returns
       \/ /\ ~tcp.reset_seen /\ tcp.stale_ack_seen
          /\ last_err' = "STALE_ACK" /\ NextTry
          /\ UNCHANGED <<tcp, recv_buf>>
       \/ /\ ~tcp.reset_seen /\ ~tcp.stale_ack_seen /\ tcp.state = "ESTABLISHED"
          /\ last_err' = "NONE" /\ Returns
          /\ UNCHANGED <<tcp, recv_buf>>
       \/ /\ ~tcp.reset_seen /\ ~tcp.stale_ack_seen /\ tcp.state # "ESTABLISHED"
          /\ NextTry
          /\ UNCHANGED <<tcp, recv_buf, last_err>>
    /\ UNCHANGED <<ephemeral_port, drawn, wire_out, session>> /\ NoAnswer

connect_fails ==
    /\ call.op = "connect" /\ call.phase = "tx" /\ call.try = scene.retries
    /\ tcp' = Closed /\ recv_buf' = <<>>
    /\ last_err' = IF last_err \in {"NONE", "SYN_TX"} THEN "TIMEOUT" ELSE last_err
    /\ Returns
    /\ UNCHANGED <<ephemeral_port, drawn, wire_out, session>> /\ NoAnswer

listen(port) ==
    /\ Begins("listen")
    /\ tcp' = [Closed EXCEPT !.active = TRUE, !.state = "LISTEN", !.local_port = port]
    /\ recv_buf' = <<>> /\ last_err' = "NONE" /\ session' = NewSession(port)
    /\ UNCHANGED <<ephemeral_port, drawn, call, wire_out>> /\ NoAnswer

accept ==
    /\ Begins("listen")
    /\ \/ /\ tcp.active /\ tcp.state = "LISTEN"
          /\ call' = [Idle EXCEPT !.op = "accept"]
          /\ UNCHANGED last_err
       \/ /\ ~tcp.active \/ tcp.state # "LISTEN"
          /\ last_err' = "BAD_ARG"
          /\ UNCHANGED call
    /\ UNCHANGED <<tcp, recv_buf, ephemeral_port, drawn, wire_out, session>> /\ NoAnswer

\* The budget may end after any look that finds no connection.
accept_polled ==
    /\ call.op = "accept"
    /\ \/ /\ tcp.reset_seen
          /\ tcp' = Closed /\ recv_buf' = <<>> /\ last_err' = "RST"
       \/ /\ ~tcp.reset_seen
          /\ last_err' = IF tcp.state = "ESTABLISHED" THEN "NONE" ELSE "TIMEOUT"
          /\ UNCHANGED <<tcp, recv_buf>>
    /\ Returns
    /\ UNCHANGED <<ephemeral_port, drawn, wire_out, session>> /\ NoAnswer

\* clks_net_tcp_send: one chunk after the other, each acknowledged before the next.
chunk_len(left) ==
    LET len == left % LenMod IN IF len > MaxSegment THEN MaxSegment ELSE len
\* How far into the connection's sequence space a sender may go in the model.
Room(len) == Distance(tcp.snd_iss, tcp.snd_nxt) + len <= SpaceMax

\* MUTANT: the chunk counts as acknowledged when what precedes it is.
NextChunkEarly(c, t) ==
    /\ tcp' = [t EXCEPT !.snd_nxt = Plus(@, chunk_len(c.want - c.sent))]
    /\ call' = [c EXCEPT !.phase = "tx", !.try = 0, !.first = t.snd_nxt,
                         !.last = t.snd_nxt]

NextChunk(c, t) ==
    /\ tcp' = [t EXCEPT !.snd_nxt = Plus(@, chunk_len(c.want - c.sent))]
    /\ call' = [c EXCEPT !.phase = "tx", !.try = 0, !.first = t.snd_nxt,
                         !.last = Plus(t.snd_nxt, chunk_len(c.want - c.sent))]

SendReturns(sent) ==
    /\ session' = [session EXCEPT !.taken = @ + sent]
    /\ Returns

send(n) ==
    /\ Begins("send") /\ n <= IoMax /\ session.taken + n <= scene.appMax /\ Room(n)
    /\ tcp.active /\ tcp.state \in {"ESTABLISHED", "CLOSE_WAIT"}
    /\ NextChunk([Idle EXCEPT !.op = "send", !.want = n], tcp)
    /\ UNCHANGED <<recv_buf, last_err, ephemeral_port, drawn, wire_out, session>> /\ NoAnswer

\* The bytes of the chunk in progress.
ChunkData ==
    [k \in 1..chunk_len(call.want - call.sent) |-> session.taken + call.sent + k]

send_try ==
    /\ call.op = "send" /\ call.phase = "tx" /\ call.try < scene.retries
    /\ \/ /\ Transmits(tcp_segment(tcp, recv_buf, {"ACK", "PSH"}, call.first, ChunkData))
          /\ call' = [call EXCEPT !.phase = "poll"]
       \/ NextTry /\ UNCHANGED wire_out
    /\ UNCHANGED <<tcp, recv_buf, last_err, ephemeral_port, drawn, session>> /\ NoAnswer

send_polled ==
    /\ call.op = "send" /\ call.phase = "poll"
    /\ \/ /\ tcp.reset_seen
          /\ tcp' = Closed /\ recv_buf' = <<>> /\ SendReturns(call.sent)
       \/ /\ ~tcp.reset_seen /\ seq_ge(tcp.snd_una, call.last)
          /\ LET c == [call EXCEPT !.sent = @ + chunk_len(call.want - call.sent)]
             IN  \/ /\ c.sent < c.want
                    /\ NextChunk(c, tcp)
                    /\ UNCHANGED session
                 \/ /\ c.sent >= c.want
                    /\ SendReturns(c.sent)
                    /\ UNCHANGED tcp
          /\ UNCHANGED recv_buf
       \/ /\ ~tcp.reset_seen /\ ~seq_ge(tcp.snd_una, call.last)
          /\ NextTry
          /\ UNCHANGED <<tcp, recv_buf, session>>
    /\ UNCHANGED <<last_err, ephemeral_port, drawn, wire_out>> /\ NoAnswer

send_fails ==
    /\ call.op = "send" /\ call.phase = "tx" /\ call.try = scene.retries
    /\ SendReturns(call.sent)
    /\ UNCHANGED <<tcp, recv_buf, last_err, ephemeral_port, drawn, wire_out>> /\ NoAnswer

\* clks_net_tcp_recv and clks_net_tcp_recv_pop.
Pops(n) ==
    LET got == IF n < Len(recv_buf) THEN n ELSE Len(recv_buf)
    IN  /\ session' = [session EXCEPT !.read = @ \o SubSeq(recv_buf, 1, got)]
        /\ recv_buf' = SubSeq(recv_buf, got + 1, Len(recv_buf))

recv(n) ==
    /\ Begins("recv")
    /\ \/ recv_buf # <<>> /\ Pops(n) /\ UNCHANGED call
       \/ /\ recv_buf = <<>>
          /\ call' = [Idle EXCEPT !.op = "recv", !.want = n]
          /\ UNCHANGED <<recv_buf, session>>
    /\ UNCHANGED <<tcp, last_err, ephemeral_port, drawn, wire_out>> /\ NoAnswer

recv_polled ==
    /\ call.op = "recv"
    /\ Pops(call.want) /\ Returns
    /\ UNCHANGED <<tcp, last_err, ephemeral_port, drawn, wire_out>> /\ NoAnswer

\* clks_net_tcp_close.
close ==
    /\ Begins("close")
    /\ \/ /\ tcp.active /\ tcp.state \in {"ESTABLISHED", "CLOSE_WAIT"} /\ Room(1)
          /\ tcp' = [tcp EXCEPT !.snd_nxt = Plus(@, 1),
                                !.state = IF @ = "CLOSE_WAIT" THEN "LAST_ACK"
                                          ELSE "FIN_WAIT1"]
          /\ call' = [Idle EXCEPT !.op = "close", !.phase = "tx", !.first = tcp.snd_nxt]
          /\ UNCHANGED recv_buf
       \/ /\ tcp.active /\ tcp.state \notin {"ESTABLISHED", "CLOSE_WAIT"}
          /\ tcp' = Closed /\ recv_buf' = <<>>
          /\ UNCHANGED call
    /\ UNCHANGED <<last_err, ephemeral_port, drawn, wire_out, session>> /\ NoAnswer

close_try ==
    /\ call.op = "close" /\ call.phase = "tx" /\ call.try < scene.retries
    /\ Transmits(tcp_segment(tcp, recv_buf, {"FIN", "ACK"}, call.first, <<>>))
    /\ call' = [call EXCEPT !.phase = "poll"]
    /\ UNCHANGED <<tcp, recv_buf, last_err, ephemeral_port, drawn, session>> /\ NoAnswer

\* MUTANT: the tries are not counted.
close_polled_forever ==
    /\ call.op = "close" /\ call.phase = "poll"
    /\ \/ /\ tcp.state = "CLOSED" \/ ~tcp.active
          /\ tcp' = Closed /\ recv_buf' = <<>> /\ Returns
          /\ session' = [session EXCEPT !.finished = TRUE]
       \/ /\ tcp.state # "CLOSED" /\ tcp.active
          /\ call' = [call EXCEPT !.phase = "tx"]
          /\ UNCHANGED <<tcp, recv_buf, session>>
    /\ UNCHANGED <<last_err, ephemeral_port, drawn, wire_out>> /\ NoAnswer

close_polled ==
    /\ call.op = "close" /\ call.phase = "poll"
    /\ \/ /\ tcp.state = "CLOSED" \/ ~tcp.active
          /\ tcp' = Closed /\ recv_buf' = <<>> /\ Returns
          /\ session' = [session EXCEPT !.finished = TRUE]
       \/ /\ tcp.state # "CLOSED" /\ tcp.active
          /\ NextTry
          /\ UNCHANGED <<tcp, recv_buf, session>>
    /\ UNCHANGED <<last_err, ephemeral_port, drawn, wire_out>> /\ NoAnswer

close_fails ==
    /\ call.op = "close" /\ call.phase = "tx" /\ call.try = scene.retries
    /\ tcp' = Closed /\ recv_buf' = <<>> /\ Returns
    /\ UNCHANGED <<last_err, ephemeral_port, drawn, wire_out, session>> /\ NoAnswer

-----------------------------------------------------------------------------
(* The remote endpoint: a TCP of its own, which keeps to the window it was *)
(* given except when it probes a closed one with a single byte.            *)

ByteSeq(p, k) == Plus(PeerIss[p], k)        \* the sequence number of its k-th byte
PeerRcvNxt(p) ==
    Plus(peer[p].irs, 1 + Len(peer[p].rcvd) + (IF peer[p].eof THEN 1 ELSE 0))
\* Bytes i to j, with the acknowledgement the control block c stands for.
FromPeer(p, c, flags, i, j) ==
    Segment(p, flags, ByteSeq(p, i),
            Plus(c.irs, 1 + Len(c.rcvd) + (IF c.eof THEN 1 ELSE 0)),
            [k \in 1..(j - i + 1) |-> ByteSeq(p, i + k - 1)])
Answers(s) == wire_in' = wire_in \cup {s}
PureAck(p, c) == [FromPeer(p, c, {"ACK"}, 1, 0) EXCEPT !.seq = 0]

peer_connects(p) ==
    /\ "listen" \in scene.calls /\ peer[p].state = "fresh"
    /\ peer' = [peer EXCEPT ![p].state = "syn_sent"]
    /\ Answers(Segment(p, {"SYN"}, PeerIss[p], 0, <<>>))
    /\ UNCHANGED <<kernel, wire_out, session>>

\* A SYN opens a connection; one that does not belong to the connection there is
\* gets an acknowledgement of it.
peer_gets_syn(m) ==
    /\ m \in wire_out /\ m.segment.flags = {"SYN"}
    /\ LET p == m.segment.port
           c == [peer[p] EXCEPT !.state = "syn_rcvd", !.irs = m.segment.seq]
       IN  \/ /\ peer[p].state = "fresh"
              /\ peer' = [peer EXCEPT ![p] = c]
              /\ Answers(Segment(p, {"SYN", "ACK"}, PeerIss[p], Plus(c.irs, 1), <<>>))
           \/ /\ peer[p].state \in {"syn_rcvd", "open"} /\ peer[p].irs # m.segment.seq
              /\ Answers(PureAck(p, peer[p]))
              /\ UNCHANGED peer
    /\ UNCHANGED <<kernel, wire_out, session>>

peer_gets_syn_ack(m) ==
    /\ m \in wire_out /\ m.segment.flags = {"SYN", "ACK"}
    /\ LET p == m.segment.port
           c == [peer[p] EXCEPT !.state = "open", !.irs = m.segment.seq, !.edge = m.window]
       IN  /\ peer[p].state = "syn_sent" /\ m.segment.ack = Plus(PeerIss[p], 1)
           /\ peer' = [peer EXCEPT ![p] = c]
           /\ Answers(PureAck(p, c))
    /\ UNCHANGED <<kernel, wire_out, session>>

\* Nothing answers for a connection that is gone or was never there.
peer_refuses(m) ==
    /\ m \in wire_out
    /\ LET p == m.segment.port
       IN  /\ \/ peer[p].state = "dead"
              \/ /\ peer[p].state \in {"fresh", "syn_rcvd"} /\ "ACK" \in m.segment.flags
                 /\ peer[p].state = "syn_rcvd" => m.segment.ack # Plus(PeerIss[p], 1)
           /\ Answers(Segment(p, {"RST"}, m.segment.ack, 0, <<>>))
    /\ UNCHANGED <<kernel, wire_out, peer, session>>

\* An acknowledgement moves una and the edge of the window; data and FIN are taken
\* in order and acknowledged in any case.
TakesAck(p, c, m) ==
    LET acked == Distance(Plus(PeerIss[p], 1), m.segment.ack)
    IN  IF acked > c.nxt + 1 THEN c
        ELSE [c EXCEPT !.una = IF acked > @ THEN acked ELSE @,
                       !.edge = IF acked + m.window > @ THEN acked + m.window ELSE @]
TakesData(p, c, m) ==
    IF m.segment.seq = PeerRcvNxt(p) /\ ~c.eof
    THEN [c EXCEPT !.rcvd = @ \o m.segment.data, !.eof = "FIN" \in m.segment.flags]
    ELSE c

peer_gets_segment(m) ==
    /\ m \in wire_out /\ "ACK" \in m.segment.flags /\ "SYN" \notin m.segment.flags
    /\ LET p == m.segment.port
           c == TakesData(p, TakesAck(p, [peer[p] EXCEPT !.state = "open"], m), m)
       IN  /\ \/ peer[p].state = "open"
              \/ peer[p].state = "syn_rcvd" /\ m.segment.ack = Plus(PeerIss[p], 1)
           /\ peer' = [peer EXCEPT ![p] = c]
           /\ IF m.segment.data # <<>> \/ "FIN" \in m.segment.flags
              THEN Answers(PureAck(p, c)) ELSE UNCHANGED wire_in
    /\ UNCHANGED <<kernel, wire_out, session>>

\* New bytes, or everything since the first that is not acknowledged.
peer_sends(p, i, j) ==
    /\ peer[p].state = "open" /\ ~peer[p].fin
    /\ i \in {peer[p].una + 1, peer[p].nxt + 1} /\ i <= j /\ peer[p].nxt <= j
    /\ j <= scene.peerMax /\ j <= peer[p].edge
    /\ peer' = [peer EXCEPT ![p].nxt = j]
    /\ Answers(FromPeer(p, peer[p], {"ACK"}, i, j))
    /\ UNCHANGED <<kernel, wire_out, session>>

peer_probes(p) ==
    /\ peer[p].state = "open" /\ ~peer[p].fin
    /\ peer[p].nxt = peer[p].edge /\ peer[p].nxt < scene.peerMax
    /\ peer' = [peer EXCEPT ![p].nxt = @ + 1, ![p].probed = TRUE]
    /\ Answers(FromPeer(p, peer[p], {"ACK"}, peer[p].nxt + 1, peer[p].nxt + 1))
    /\ UNCHANGED <<kernel, wire_out, session>>

\* The FIN, with the last bytes or without.
peer_finishes(p, i) ==
    /\ peer[p].state = "open" /\ peer[p].una <= peer[p].nxt
    /\ i \in {peer[p].una + 1, peer[p].nxt + 1}
    /\ peer' = [peer EXCEPT ![p].fin = TRUE]
    /\ Answers(FromPeer(p, peer[p], {"FIN", "ACK"}, i, peer[p].nxt))
    /\ UNCHANGED <<kernel, wire_out, session>>

peer_aborts(p) ==
    /\ scene.aborts /\ peer[p].state \in {"syn_rcvd", "open"}
    /\ peer' = [peer EXCEPT ![p].state = "dead"]
    /\ Answers(Segment(p, {"RST"}, ByteSeq(p, peer[p].nxt + 1), 0, <<>>))
    /\ UNCHANGED <<kernel, wire_out, session>>

-----------------------------------------------------------------------------
CallStep ==
    /\ \/ connect_try \/ connect_polled \/ connect_fails
       \/ accept_polled
       \/ send_try \/ send_polled \/ send_fails
       \/ recv_polled
       \/ close_try \/ close_polled \/ close_fails
    /\ UNCHANGED scene

CallBegins ==
    \/ connect_unresolved
    \/ \E src \in scene.ports \cup {0} : connect(src)
    \/ \E port \in scene.ports : listen(port)
    \/ accept
    \/ \E n \in 1..IoMax : send(n)
    \/ \E n \in Reads : recv(n)
    \/ close

Poll ==
    \E s \in wire_in :
        syn_arrives(s) \/ rst_arrives(s) \/ syn_ack_arrives(s) \/ stale_ack_arrives(s)
            \/ segment_arrives(s)

Peer ==
    \/ \E p \in scene.ports :
        \/ peer_connects(p) \/ peer_probes(p) \/ peer_aborts(p)
        \/ \E i, j \in 1..scene.peerMax : peer_sends(p, i, j)
        \/ \E i \in 1..(scene.peerMax + 1) : peer_finishes(p, i)
    \/ \E m \in wire_out :
        peer_gets_syn(m) \/ peer_gets_syn_ack(m) \/ peer_refuses(m) \/ peer_gets_segment(m)

Next == CallStep \/ ((CallBegins \/ Poll \/ Peer) /\ UNCHANGED scene)

Spec == Init /\ [][Next]_vars

\* Every loop of a call is bounded by a poll budget, so a call goes on.
FairSpec == Spec /\ WF_vars(CallStep)

-----------------------------------------------------------------------------
(* Properties.                                                             *)

\* The connection the program has, once it is open.
Open == tcp.state \in {"ESTABLISHED", "FIN_WAIT1", "FIN_WAIT2", "CLOSE_WAIT", "LAST_ACK"}
Remote == peer[tcp.local_port]

\* The two ends speak of the same connection: whatever late, repeated or stale segments
\* of earlier tries arrive, when both ends are open the remote end acknowledges this
\* try's sequence numbers, and neither has acknowledged what the other has not sent.
\* The exception is a connect that began another try although a segment processed in the
\* same poll had just opened the connection (clks_net_tcp_connect looks for a stale
\* acknowledgement first, and does not know CLOSE_WAIT).
InSync ==
    (Open /\ ~session.overtaken /\ Remote.state = "open") =>
        /\ Remote.irs = tcp.snd_iss
        /\ seq_le(tcp.snd_una, PeerRcvNxt(tcp.local_port))
        /\ seq_le(PeerRcvNxt(tcp.local_port), tcp.snd_nxt)
        /\ seq_le(ByteSeq(tcp.local_port, Remote.una + 1), tcp.rcv_nxt)
        /\ seq_le(tcp.rcv_nxt, ByteSeq(tcp.local_port,
                                       Remote.nxt + (IF Remote.fin THEN 2 ELSE 1)))

\* The windows that clks_net_send_tcp_segment_raw advertises are kept: a remote end that
\* never sent beyond one can fill the buffer but not overrun it.
WindowKept ==
    (Open /\ ~session.overtaken /\ Remote.state = "open" /\ ~Remote.probed) =>
        Remote.edge - Distance(ByteSeq(tcp.local_port, 1), tcp.rcv_nxt)
            <= RecvCap - Len(recv_buf)

\* The two ends of an open connection agree on its sequence numbers and on the room in
\* the receive buffer, over tries, stale answers, lost and repeated segments.
ConnectionSound == InSync /\ WindowKept

\* What the program read, with what waits in the buffer, is a prefix of the remote end's
\* bytes, each once and in order, unless the remote end probed a closed window: then
\* clks_net_tcp_recv_push gives up the oldest byte, and bytes are missing, but none is
\* repeated or out of order.
StreamRead ==
    LET got == session.read \o (IF tcp.local_port = session.port THEN recv_buf ELSE <<>>)
        nth(k) == Distance(PeerIss[session.port], got[k])
    IN  (session.port # 0 /\ ~session.overtaken) =>
            /\ \A k \in 1..(Len(got) - 1) : nth(k) < nth(k + 1)
            /\ ~peer[session.port].probed => \A k \in 1..Len(got) : nth(k) = k

\* What the calls tell the program happened at the remote end: every byte that
\* clks_net_tcp_send counted has been received there, also after retries, failed sends
\* and a reset, and clks_net_tcp_close returns true after its FIN only when that FIN,
\* and so every byte before it, was received or the connection reset.
SentArrived ==
    /\ session.port # 0 =>
          \A k \in 1..session.taken :
              \E i \in 1..Len(peer[session.port].rcvd) : peer[session.port].rcvd[i] = k
    /\ (session.finished /\ ~session.reset) => peer[session.port].eof

\* A FIN that arrives before the bytes it follows waits for them: the connection counts
\* as finished by the remote end only when every byte before the FIN has arrived.
FinInOrder ==
    (tcp.peer_fin /\ Open /\ Remote.state = "open") =>
        tcp.rcv_nxt = ByteSeq(tcp.local_port, Remote.nxt + 2)

\* A send whose length is a multiple of LenMod: its chunk is truncated to no byte at
\* all, and the loop of clks_net_tcp_send makes no progress however often the empty
\* chunk is acknowledged.  The system call allows one such length, 65536.
Endless == call.op = "send" /\ call.want % LenMod = 0

\* Every other call returns: no combination of segments keeps connect, accept, recv or
\* close in its loops, nor a send that is not Endless.
CallsReturn == (call.op # "idle" /\ ~Endless) ~> (call.op = "idle")
=============================================================================
