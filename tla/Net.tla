-------------------------------- MODULE Net --------------------------------
(***************************************************************************)
(* The network stack of src/kernel/runtime/net.c below and beside TCP: the *)
(* descriptor rings of the card, DHCP at boot, the ARP table, ping and the *)
(* UDP queue.                                                              *)
(*                                                                         *)
(* Nothing interrupts the kernel when a frame arrives: a call looks at the *)
(* receive ring between two looks at what it waits for, the idle loop      *)
(* looks at it when no call is in progress.  The card runs on its own: it  *)
(* fills and drains its rings at any time.  A frame stays on the wire for  *)
(* ever, so the network loses, delays, reorders and duplicates.            *)
(*                                                                         *)
(* An address is a number, 0 being none; a mask m splits an address a into *)
(* the network a \div m and the rest, 0 being no mask.                     *)
(***************************************************************************)
EXTENDS Integers, Sequences, SequencesExt, FiniteSets

CONSTANTS
    DescCount,      \* CLKS_NET_DESC_COUNT
    ArpCap,         \* CLKS_NET_ARP_TABLE_CAP
    QueueCap,       \* CLKS_NET_UDP_QUEUE_CAP
    Retries,        \* CLKS_NET_DHCP_STAGE_RETRIES
    OurMac, BroadcastMac, InvalidMac,
    BroadcastIp,    \* 255.255.255.255
    Fallback,       \* the configuration of clks_net_apply_fallback_config
    Peers,          \* the card behind each address of the network, a function
    Scenes          \* what a run is about: see Init

ASSUME NetAssumption ==
    /\ DescCount \in Nat \ {0, 1} /\ ArpCap \in Nat \ {0} /\ QueueCap \in Nat \ {0}
    /\ Retries \in Nat \ {0}
    /\ Fallback.ip # 0 /\ Fallback.ip # BroadcastIp
    /\ \A s \in Scenes : \A f \in s.strays \cup s.offers \cup s.acks : f.kind \in {"arp", "ip"}

VARIABLES
    scene,      \* the scene
    nic,        \* the rings: descriptors, the card's heads and tails, our indexes
    ready,      \* clks_net_ready and clks_net_hw_ready
    config,     \* our address, mask, gateway and name server
    dhcp,       \* clks_net_dhcp_*
    arp,        \* clks_net_arp_table and the next stamp
    ping,       \* clks_net_ping_*
    udp,        \* clks_net_udp_queue, head, tail, count
    call,       \* the call in progress and how far it is
    wire,       \* every frame sent to us
    budget,     \* the frames the card may still take in and the calls still made
    ghost       \* what the rings, tables and calls are compared with

protocols == <<dhcp, arp, ping, udp>>
vars == <<scene, nic, ready, config, protocols, call, wire, budget, ghost>>

None == [kind |-> "none"]
Arp(op, from, spa, to, tpa) ==
    [kind |-> "arp", op |-> op, from |-> from, spa |-> spa, to |-> to, tpa |-> tpa]
Packet(from, to, src, dst, proto, body) ==
    [kind |-> "ip", from |-> from, to |-> to, src |-> src, dst |-> dst, proto |-> proto,
     body |-> body]
\* for: the card it is about (xid and chaddr); type: "none" when the option is missing.
Lease(type, for, ip, server, mask, router, dns) ==
    [type |-> type, for |-> for, ip |-> ip, server |-> server, mask |-> mask,
     router |-> router, dns |-> dns]
Echo(type, own, seq) == [type |-> type, own |-> own, seq |-> seq]

\* CLKS_NET_DEFAULT_*_BE
NoConfig == [ip |-> 0, mask |-> 0, gateway |-> 0, dns |-> 0]

\* clks_net_setup_descs: every receive descriptor but one is the card's; a
\* descriptor that holds None is done (transmit) or empty (receive).
setup_descs ==
    [rx |-> [i \in 0..(DescCount - 1) |-> None], rx_head |-> 0, rx_tail |-> DescCount - 1,
     rx_index |-> 0,
     tx |-> [i \in 0..(DescCount - 1) |-> None], tx_head |-> 0, tx_index |-> 0]
After(i) == (i + 1) % DescCount

\* clks_net_dhcp_state_reset
dhcp_state_reset ==
    [active |-> FALSE, offer_ready |-> FALSE, ack_ready |-> FALSE, failed |-> FALSE, ip |-> 0,
     server |-> 0, mask |-> 0, router |-> 0, dns |-> 0]

\* clks_net_arp_table_reset, clks_net_udp_queue_reset
arp_table_reset ==
    [table |-> [i \in 1..ArpCap |-> [ip |-> 0, mac |-> InvalidMac, stamp |-> 0]], stamp |-> 1]
udp_queue_reset ==
    [slot |-> [i \in 0..(QueueCap - 1) |-> None], head |-> 0, tail |-> 0, count |-> 0]
NoPing == [seq |-> 0, waiting |-> FALSE, reply_ok |-> FALSE, dst |-> 0, alt |-> 0]

\* phase: what the call does next; try: attempt of a DHCP stage; processed: the
\* frames the poll under way has handled; then: what the resolved address is for;
\* dst, hop, mac: the destination, the next hop, its card.
Call(phase) == [phase |-> phase, try |-> 0, processed |-> 0, then |-> "", dst |-> 0,
                hop |-> 0, mac |-> InvalidMac]
Idle == Call("idle")

NoResult == [dst |-> 0, via |-> 0, seq |-> 0, own |-> FALSE]
NoGhost == [queued |-> <<>>, heard |-> <<>>, unread |-> <<>>, answered |-> NoResult]

\* A scene: whether the card works, the DHCP messages the server sends after a
\* DISCOVER and after a REQUEST, the frames other hosts send on their own, the
\* calls programs make, and the bounds on frames and calls.
Init ==
    /\ scene \in Scenes
    /\ nic = setup_descs
    /\ ready = FALSE
    /\ config = NoConfig
    /\ dhcp = dhcp_state_reset /\ arp = arp_table_reset /\ udp = udp_queue_reset
    /\ ping = NoPing
    /\ call = Call("off")
    /\ wire = scene.strays
    /\ budget = [frames |-> scene.frames, calls |-> scene.callMax]
    /\ ghost = NoGhost

-----------------------------------------------------------------------------
(* The card and the network, seen from the driver.                         *)

\* The card stores a frame in the descriptor at its head while it owns one.
CardReceives ==
    /\ scene.card /\ call.phase # "off" /\ budget.frames > 0
    /\ nic.rx_head # nic.rx_tail
    /\ \E f \in wire :
          nic' = [nic EXCEPT !.rx[nic.rx_head] = f, !.rx_head = After(@)]
    /\ budget' = [budget EXCEPT !.frames = @ - 1]
    /\ UNCHANGED <<scene, ready, config, protocols, call, wire, ghost>>

\* What other hosts may send because of a frame of ours.
Answers(f) ==
    IF f.kind = "arp" THEN
        IF f.op = "request" /\ f.tpa \in DOMAIN Peers
        THEN {Arp("reply", Peers[f.tpa], f.tpa, OurMac, f.spa)} ELSE {}
    ELSE IF f.proto = "dhcp" THEN
        IF f.body.type = "DISCOVER" THEN scene.offers
        ELSE {m \in scene.acks : m.body.ip \in {0, f.body.ip}}
    ELSE IF f.proto = "icmp" /\ f.body.type = "request" THEN
        {Packet(f.to, OurMac, s, f.src, "icmp", Echo("reply", TRUE, f.body.seq)) :
            s \in {f.dst} \cup {a \in DOMAIN Peers : Peers[a] = f.to}}
    ELSE {}

\* The card sends the frame at its head and marks the descriptor done; a head
\* equal to the tail is an empty ring to it.
CardTransmits ==
    /\ nic.tx_head # nic.tx_index
    /\ nic' = [nic EXCEPT !.tx[nic.tx_head] = None, !.tx_head = After(@)]
    /\ wire' = wire \cup Answers(nic.tx[nic.tx_head])
    /\ ghost' = [ghost EXCEPT !.queued = Tail(@)]
    /\ UNCHANGED <<scene, ready, config, protocols, call, budget>>

\* MUTANT: the descriptor is not looked at.
TxFreeAlways(n) == TRUE

\* clks_net_tx_frame waits for the descriptor at tx_index to be done; when the wait
\* ends first nothing is sent.
TxFree(n) == n.tx[n.tx_index] = None
tx_frame(n, f) ==
    IF TxFree(n) THEN [n EXCEPT !.tx[n.tx_index] = f, !.tx_index = After(@)] ELSE n
Queued(g, n, f) == IF TxFree(n) THEN [g EXCEPT !.queued = Append(@, f)] ELSE g

-----------------------------------------------------------------------------
(* A received frame: clks_net_poll_internal and the handlers it calls.     *)

polling == {"idle", "offer", "ack", "resolve", "reply", "recv"}
Polled == nic.rx[nic.rx_index] = None \/ call.processed = DescCount

\* The descriptor just read is given back to the card.
Returned(n) ==
    [n EXCEPT !.rx[n.rx_index] = None, !.rx_tail = n.rx_index, !.rx_index = After(@)]

\* MUTANT: an entry that is heard again keeps its age.
StampKept(a, e, ip) == IF e.ip = ip THEN e.stamp ELSE a.stamp
\* An entry is as young as the frame it was last heard in.
Stamped(a, e, ip) == a.stamp
\* clks_net_arp_upsert: the entry of the address, else the first free one, else the
\* one heard from longest ago.
arp_upsert(a, ip, mac) ==
    LET known == {i \in 1..ArpCap : a.table[i].ip = ip}
        free == {i \in 1..ArpCap : a.table[i].ip = 0}
        oldest == {i \in 1..ArpCap : \A j \in 1..ArpCap : a.table[i].stamp <= a.table[j].stamp}
        pick == IF known # {} THEN known ELSE IF free # {} THEN free ELSE oldest
        i == CHOOSE k \in pick : \A j \in pick : k <= j
    IN  IF ip = 0 \/ mac = InvalidMac THEN a
        ELSE [table |-> [a.table EXCEPT ![i] =
                            [ip |-> ip, mac |-> mac, stamp |-> Stamped(a, @, ip)]],
              stamp |-> a.stamp + 1]
arp_lookup(a, ip) == {a.table[i].mac : i \in {k \in 1..ArpCap : a.table[k].ip = ip}} \ {InvalidMac}

\* The addresses in the order they were last heard, the oldest dropped: what the
\* table is compared with.
Heard(h, ip, mac) ==
    LET known == {k \in 1..Len(h) : h[k][1] = ip}
        all == Append(IF known = {} THEN h ELSE RemoveAt(h, CHOOSE k \in known : TRUE), <<ip, mac>>)
    IN  IF ip = 0 \/ mac = InvalidMac THEN h
        ELSE IF Len(all) > ArpCap THEN Tail(all) ELSE all

\* The frame at rx_index is handled, its descriptor given back; r: the frame sent in
\* answer, None for none; u: the datagrams not yet read.
Reads(f, ip, r, u) ==
    /\ call.phase \in polling /\ call.processed < DescCount
    /\ f # None
    /\ LET n == IF r = None THEN nic ELSE tx_frame(nic, r)
           g == [ghost EXCEPT !.heard = Heard(@, ip, f.from), !.unread = u]
       IN  /\ nic' = Returned(n)
           /\ ghost' = IF r = None THEN g ELSE Queued(g, nic, r)
    /\ arp' = arp_upsert(arp, ip, f.from)
    /\ call' = IF call = Idle THEN call ELSE [call EXCEPT !.processed = @ + 1]
    /\ UNCHANGED <<scene, ready, config, wire, budget>>

Unread == nic.rx[nic.rx_index]

\* clks_net_process_arp: the sender is learnt, a request for our address answered.
process_arp ==
    LET f == Unread
    IN  /\ f.kind = "arp"
        /\ Reads(f, f.spa,
                 IF f.op = "request" /\ f.tpa = config.ip
                 THEN Arp("reply", OurMac, config.ip, f.from, f.spa) ELSE None,
                 ghost.unread)
        /\ UNCHANGED <<dhcp, ping, udp>>

\* clks_net_process_ipv4: "bad" is a packet its header checks refuse.  Before we have
\* an address a DHCP answer to the address we are about to get is taken too.
Accepted(f) ==
    /\ f.kind = "ip" /\ f.proto # "bad"
    /\ \/ f.dst \in {config.ip, BroadcastIp}
       \/ dhcp.active /\ config.ip = 0 /\ f.proto = "dhcp"
    /\ f.src # 0

process_other ==
    LET f == Unread
    IN  /\ f.kind = "ip" /\ ~Accepted(f)
        /\ Reads(f, 0, None, ghost.unread)
        /\ UNCHANGED <<dhcp, ping, udp>>

\* MUTANT: an answer to any card is taken for an answer to ours.
IsOursAny(f) == TRUE
\* The transaction and the card of the message are ours.
IsOurs(f) == f.body.for = OurMac

\* clks_net_dhcp_process_payload: an offer replaces the last one whoever sends it; an
\* acknowledgement changes the fields it has.
process_payload(d, f) ==
    LET b == f.body
        server == IF b.server = 0 THEN f.src ELSE b.server
        Or(x, y) == IF x # 0 THEN x ELSE y
    IN  IF ~d.active \/ ~IsOurs(f) THEN d
        ELSE IF b.type = "OFFER" \/ (b.type = "none" /\ ~d.offer_ready) THEN
            [d EXCEPT !.offer_ready = TRUE, !.ip = b.ip, !.server = server, !.mask = b.mask,
                      !.router = b.router, !.dns = b.dns]
        ELSE IF b.type = "ACK" \/ (b.type = "none" /\ ~d.ack_ready) THEN
            [d EXCEPT !.ack_ready = TRUE, !.ip = Or(b.ip, @), !.server = Or(server, @),
                      !.mask = Or(b.mask, @), !.router = Or(b.router, @), !.dns = Or(b.dns, @)]
        ELSE IF b.type = "NAK" THEN [d EXCEPT !.failed = TRUE]
        ELSE d

process_dhcp ==
    LET f == Unread
    IN  /\ f.kind = "ip" /\ Accepted(f) /\ f.proto = "dhcp"
        /\ dhcp' = process_payload(dhcp, f)
        /\ Reads(f, f.src, None, ghost.unread)
        /\ UNCHANGED <<ping, udp>>

\* clks_net_process_icmp: only a request with our own identifier is answered.
process_echo_request ==
    LET f == Unread
    IN  /\ f.kind = "ip" /\ Accepted(f) /\ f.proto = "icmp" /\ f.body.type = "request"
        /\ Reads(f, f.src,
                 IF f.body.own
                 THEN Packet(OurMac, f.from, config.ip, f.src, "icmp",
                             Echo("reply", TRUE, f.body.seq))
                 ELSE None,
                 ghost.unread)
        /\ UNCHANGED <<dhcp, ping, udp>>

\* MUTANT: the sequence number is not compared.
ReplyAwaitedAny(p, f) == f.body.own /\ p.waiting /\ f.src \in {p.dst, p.alt}
ReplyAwaited(p, f) ==
    /\ f.body.own /\ p.waiting /\ f.body.seq = p.seq
    /\ f.src \in {p.dst, p.alt}

process_echo_reply ==
    LET f == Unread
    IN  /\ f.kind = "ip" /\ Accepted(f) /\ f.proto = "icmp" /\ f.body.type = "reply"
        /\ ping' = IF ReplyAwaited(ping, f)
                   THEN [ping EXCEPT !.reply_ok = TRUE, !.waiting = FALSE] ELSE ping
        /\ Reads(f, f.src, None, ghost.unread)
        /\ UNCHANGED <<dhcp, udp>>

\* A full queue gives up its oldest datagram.
MadeRoom(q) ==
    IF q.count >= QueueCap
    THEN [q EXCEPT !.head = (@ + 1) % QueueCap, !.count = @ - 1] ELSE q
\* clks_net_udp_queue_push
udp_queue_push(q, d) ==
    LET r == MadeRoom(q)
    IN  [r EXCEPT !.slot[r.tail] = d, !.tail = (@ + 1) % QueueCap, !.count = @ + 1]

process_datagram ==
    LET f == Unread
    IN  /\ f.kind = "ip" /\ Accepted(f) /\ f.proto = "udp"
        /\ udp' = udp_queue_push(udp, f.body)
        /\ Reads(f, f.src, None,
                 IF Len(ghost.unread) = QueueCap THEN Append(Tail(ghost.unread), f.body)
                 ELSE Append(ghost.unread, f.body))
        /\ UNCHANGED <<dhcp, ping>>

\* A look that finds nothing: the loop polls again.
PollAgain ==
    /\ call.phase \in polling \ {"idle", "recv"} /\ Polled /\ call.processed > 0
    /\ CASE call.phase = "offer" -> ~dhcp.failed /\ ~dhcp.offer_ready
         [] call.phase = "ack" -> ~dhcp.failed /\ ~dhcp.ack_ready
         [] call.phase = "resolve" -> arp_lookup(arp, call.hop) = {}
         [] call.phase = "reply" -> ~ping.reply_ok
    /\ call' = [call EXCEPT !.processed = 0]
    /\ UNCHANGED <<scene, nic, ready, config, protocols, wire, budget, ghost>>

-----------------------------------------------------------------------------
(* Boot: clks_net_init and clks_net_dhcp_autoconfigure.                    *)

\* A card that is missing, has no usable registers, does not leave reset or gets no
\* memory leaves the network unavailable.
hw_init ==
    /\ call.phase = "off"
    /\ call' = IF scene.card THEN Call("discover") ELSE Idle
    /\ dhcp' = [dhcp EXCEPT !.active = scene.card]
    /\ UNCHANGED <<scene, nic, ready, config, arp, ping, udp, wire, budget, ghost>>

\* The end of clks_net_init: the acknowledged lease, or the fallback.
Configured(d, ok) ==
    /\ dhcp' = [d EXCEPT !.active = FALSE]
    /\ config' = IF ~ok THEN Fallback
                 ELSE [ip |-> d.ip,
                       mask |-> IF d.mask # 0 THEN d.mask ELSE Fallback.mask,
                       gateway |-> IF d.router # 0 THEN d.router
                                   ELSE IF d.server # 0 THEN d.server ELSE Fallback.gateway,
                       dns |-> IF d.dns # 0 THEN d.dns ELSE Fallback.dns]
    /\ ready' = TRUE
    /\ call' = Idle

Moves(c) == call' = c /\ UNCHANGED <<dhcp, config, ready>>
Acknowledged(d) == d.ack_ready /\ d.ip # 0

\* No attempt of the stage is left.
LastTry(stage) ==
    IF stage = "discover" THEN Configured(dhcp, FALSE)
    ELSE Configured(dhcp, Acknowledged(dhcp))

NextTry(stage) ==
    IF call.try + 1 < Retries
    THEN Moves([Call(stage) EXCEPT !.try = call.try + 1]) ELSE LastTry(stage)

\* A DISCOVER, or a REQUEST for the address offered; no message names the server.
Message(type, ip) ==
    Packet(OurMac, BroadcastMac, 0, BroadcastIp, "dhcp", Lease(type, OurMac, ip, 0, 0, 0, 0))

\* clks_net_dhcp_send_discover, clks_net_dhcp_send_request and the attempt's polls.
dhcp_send(stage, type, ip, next, sendable) ==
    /\ call.phase = stage
    /\ IF sendable /\ TxFree(nic)
       THEN /\ nic' = tx_frame(nic, Message(type, ip))
            /\ ghost' = Queued(ghost, nic, Message(type, ip))
            /\ Moves([Call(next) EXCEPT !.try = call.try])
       ELSE /\ NextTry(stage)
            /\ UNCHANGED <<nic, ghost>>
    /\ UNCHANGED <<scene, arp, ping, udp, wire, budget>>

dhcp_send_discover == dhcp_send("discover", "DISCOVER", 0, "offer", TRUE)
dhcp_send_request == dhcp_send("request", "REQUEST", dhcp.ip, "ack", dhcp.ip # 0)

\* The look after a poll; a stage may time out at any look.
OfferLook ==
    /\ call.phase = "offer" /\ Polled
    /\ IF dhcp.failed THEN Configured(dhcp, FALSE)
       ELSE IF ~dhcp.offer_ready THEN NextTry("discover")
       ELSE IF dhcp.ip = 0 \/ dhcp.server = 0 THEN Configured(dhcp, FALSE)
       ELSE Moves(Call("request"))
    /\ UNCHANGED <<scene, nic, arp, ping, udp, wire, budget, ghost>>

AckLook ==
    /\ call.phase = "ack" /\ Polled
    /\ IF dhcp.failed THEN Configured(dhcp, FALSE)
       ELSE IF dhcp.ack_ready THEN Configured(dhcp, Acknowledged(dhcp))
       ELSE NextTry("request")
    /\ UNCHANGED <<scene, nic, arp, ping, udp, wire, budget, ghost>>

-----------------------------------------------------------------------------
(* The calls of programs.                                                  *)

\* clks_net_next_hop_for
next_hop_for(dst) ==
    IF \/ dst \in {0, BroadcastIp}
       \/ config.mask # 0 /\ dst \div config.mask = config.ip \div config.mask
       \/ config.gateway = 0
    THEN dst ELSE config.gateway

Calls(c) ==
    /\ call = Idle /\ c \in scene.calls
    /\ budget.calls > 0 /\ budget' = [budget EXCEPT !.calls = @ - 1]

Returns(dst, ok) ==
    /\ call' = Idle
    /\ ghost' = [ghost EXCEPT !.answered =
                    IF ok THEN [dst |-> dst, via |-> next_hop_for(dst), seq |-> ping.seq,
                                own |-> dst = config.ip]
                    ELSE NoResult]

\* A call that needs no frame: it is refused for want of a card or an address, or it
\* is a ping to our own address, which succeeds at once.
call_returns ==
    \E c \in scene.calls :
        /\ Calls(c)
        /\ \/ /\ ~ready \/ (c.op # "recv" /\ c.dst = 0)
              /\ Returns(0, FALSE)
           \/ /\ ready /\ c.op = "ping" /\ c.dst # 0 /\ c.dst = config.ip
              /\ Returns(c.dst, TRUE)
        /\ UNCHANGED <<scene, nic, ready, config, protocols, wire>>

\* clks_net_ping_ipv4 and clks_net_udp_send as far as clks_net_resolve_ipv4: the
\* next hop's card from the table, or an ARP request.
call_starts ==
    \E c \in scene.calls :
        /\ Calls(c) /\ ready /\ c.op \in {"ping", "send"} /\ c.dst # 0
        /\ c.op = "send" \/ c.dst # config.ip
        /\ LET hop == next_hop_for(c.dst)
               known == IF c.dst = config.ip THEN {OurMac}
                        ELSE IF c.op = "send" /\ c.dst = BroadcastIp THEN {BroadcastMac}
                        ELSE arp_lookup(arp, hop)
               request == Arp("request", OurMac, config.ip, BroadcastMac, hop)
               goal == [Call("resolve") EXCEPT !.then = c.op, !.dst = c.dst, !.hop = hop]
           IN  IF known # {}
               THEN /\ \E m \in known : call' = [goal EXCEPT !.phase = c.op, !.mac = m]
                    /\ UNCHANGED <<nic, ghost>>
               ELSE /\ call' = goal
                    /\ nic' = tx_frame(nic, request)
                    /\ ghost' = Queued(ghost, nic, request)
        /\ UNCHANGED <<scene, ready, config, protocols, wire>>

\* The look of clks_net_resolve_ipv4 after a poll; the budget may end at any look.
ResolveLook ==
    /\ call.phase = "resolve" /\ Polled
    /\ LET known == arp_lookup(arp, call.hop)
       IN  IF known = {} THEN Returns(0, FALSE)
           ELSE /\ \E m \in known : call' = [call EXCEPT !.phase = call.then, !.processed = 0,
                                                        !.mac = m]
                /\ UNCHANGED ghost
    /\ UNCHANGED <<scene, nic, ready, config, protocols, wire, budget>>

Wrap16 == 65536

\* clks_net_ping_ipv4 once the card is known: a reply may come from the next hop.
send_echo_request ==
    /\ call.phase = "ping"
    /\ LET seq == (ping.seq + 1) % Wrap16
           f == Packet(OurMac, call.mac, config.ip, call.dst, "icmp", Echo("request", TRUE, seq))
           alt == IF call.hop = call.dst THEN 0 ELSE call.hop
           sent == TxFree(nic)
       IN  /\ ping' = [seq |-> seq, waiting |-> sent, reply_ok |-> FALSE, dst |-> call.dst,
                       alt |-> IF sent THEN alt ELSE 0]
           /\ nic' = tx_frame(nic, f)
           /\ IF sent THEN call' = [call EXCEPT !.phase = "reply"] /\ ghost' = Queued(ghost, nic, f)
              ELSE Returns(0, FALSE)
    /\ UNCHANGED <<scene, ready, config, dhcp, arp, udp, wire, budget>>

ReplyLook ==
    /\ call.phase = "reply" /\ Polled
    /\ ping' = [ping EXCEPT !.waiting = FALSE, !.reply_ok = FALSE, !.alt = 0]
    /\ Returns(call.dst, ping.reply_ok)
    /\ UNCHANGED <<scene, nic, ready, config, dhcp, arp, udp, wire, budget>>

\* clks_net_udp_send once the card is known.
send_datagram ==
    /\ call.phase = "send"
    /\ LET f == Packet(OurMac, call.mac, config.ip, call.dst, "udp", 0)
       IN  /\ nic' = tx_frame(nic, f)
           /\ ghost' = Queued(ghost, nic, f)
    /\ call' = Idle
    /\ UNCHANGED <<scene, ready, config, protocols, wire, budget>>

\* clks_net_udp_recv: one poll, then the oldest datagram; an empty one returns 0 as an
\* empty queue does.
udp_recv ==
    /\ Calls([op |-> "recv", dst |-> 0]) /\ ready
    /\ call' = Call("recv")
    /\ UNCHANGED <<scene, nic, ready, config, protocols, wire, ghost>>

RecvLook ==
    /\ call.phase = "recv" /\ Polled
    /\ IF udp.count = 0 THEN UNCHANGED <<udp, ghost>>
       ELSE /\ udp' = [udp EXCEPT !.slot[udp.head] = None, !.head = (@ + 1) % QueueCap,
                                  !.count = @ - 1]
            /\ ghost' = [ghost EXCEPT !.unread = Tail(@)]
    /\ call' = Idle
    /\ UNCHANGED <<scene, nic, ready, config, dhcp, arp, ping, wire, budget>>

Next ==
    \/ CardReceives \/ CardTransmits
    \/ process_arp \/ process_other \/ process_dhcp \/ process_echo_request
    \/ process_echo_reply \/ process_datagram \/ PollAgain
    \/ hw_init \/ dhcp_send_discover \/ dhcp_send_request \/ OfferLook \/ AckLook
    \/ call_returns \/ call_starts \/ ResolveLook \/ send_echo_request \/ ReplyLook
    \/ send_datagram \/ udp_recv \/ RecvLook

Spec == Init /\ [][Next]_vars

-----------------------------------------------------------------------------
(* Properties.                                                             *)

\* The indexes from i up to j, around the ring.
Span(i, j) == {(i + k) % DescCount : k \in 0..(((j - i) % DescCount) - 1)}

\* The driver and the card never touch the same descriptor: the frames not yet read
\* are the ones from rx_index up to the card's head, every other descriptor but one is
\* the card's, and the frames clks_net_tx_frame accepted leave in order, none
\* overwritten by a later one.
RingsInOrder ==
    /\ {i \in 0..(DescCount - 1) : nic.rx[i] # None} = Span(nic.rx_index, nic.rx_head)
    /\ nic.rx_index = After(nic.rx_tail)
    /\ Cardinality({i \in 0..(DescCount - 1) : nic.tx[i] # None}) = Len(ghost.queued)
    /\ \A k \in 1..Len(ghost.queued) :
          nic.tx[(nic.tx_head + k - 1) % DescCount] = ghost.queued[k]

\* The network is available only with an address, and that is the fallback's unless a
\* server acknowledged a lease to this card in this transaction (a server without
\* message types: named one) and the address is one a server gave this card, whatever was
\* lost, repeated or meant for other cards.  With several servers it need not be the
\* address that was acknowledged: an offer that follows the acknowledgement within one
\* poll replaces it (net.c:1848).
ForUs(types) == {f \in wire : /\ f.kind = "ip" /\ f.proto = "dhcp" /\ f.body.for = OurMac
                              /\ f.body.type \in types}
LeaseOurs ==
    ready => \/ config = Fallback
             \/ /\ config.ip # 0 /\ ForUs({"ACK", "none"}) # {}
                /\ \E f \in ForUs({"OFFER", "ACK", "none"}) : f.body.ip = config.ip

\* The ARP table holds, for the addresses heard from last, the card each was last
\* heard with: a frame that replaces an entry replaces the one silent for longest.
ArpNewest ==
    {<<arp.table[i].ip, arp.table[i].mac>> : i \in {k \in 1..ArpCap : arp.table[k].ip # 0}}
        = ToSet(ghost.heard)

\* clks_net_ping_ipv4 answers TRUE only when the destination, or the gateway on the
\* way to it, answered this very request: never because of a late reply to an
\* earlier one.  For the machine's own address it answers TRUE and asks nobody.
PingTruthful ==
    (ghost.answered # NoResult /\ ~ghost.answered.own) =>
        \E f \in wire : /\ f.kind = "ip" /\ f.proto = "icmp"
                        /\ f.body.type = "reply" /\ f.body.own
                        /\ f.body.seq = ghost.answered.seq
                        /\ f.src \in {ghost.answered.dst, ghost.answered.via}

\* The UDP queue holds the last datagrams not yet read, in the order they came.
UdpNewestKept ==
    /\ udp.count = Len(ghost.unread)
    /\ \A k \in 1..udp.count : udp.slot[(udp.head + k - 1) % QueueCap] = ghost.unread[k]

\* A full table or queue gives up what is oldest in it and nothing else.
NewestKept == ArpNewest /\ UdpNewestKept
=============================================================================
