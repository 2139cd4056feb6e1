---------------------------- MODULE TunnelStream ----------------------------
(***************************************************************************)
(* The TCP forwarder of src/tunnel.c: the connections of one live tunnel   *)
(* between a client (which accepts local connections) and a host (which    *)
(* opens one to the server for each), with the credits of the flow control.*)
(*                                                                         *)
(* The bytes of one socket read are a chunk, and a stream's chunks are     *)
(* numbered.  Everything the tunnel does runs in the tox thread, so one    *)
(* poll and one received packet are one step each; the sockets change in   *)
(* between.                                                                *)
(*                                                                         *)
(* toxcore's lossless queue is a FIFO of bounded length: a packet that     *)
(* does not fit is refused (SENDQ), and what is under way is gone when the *)
(* friend disconnects.                                                     *)
(***************************************************************************)
EXTENDS Integers, Sequences, FiniteSets, SequencesExt

CONSTANTS
    Window,      \* TT_TUNNEL_TCP_WINDOW: unacknowledged DATA frames
    Batch,       \* TT_TUNNEL_ACK_BATCH: frames accepted before credit is returned
    MaxConns,    \* TT_TUNNEL_MAX_CONNS
    Setups       \* the links, sockets and failures to look at, see Setup

\* e2ee: t->tun_e2ee, the tunnel is encrypted and its handshake has still to
\* be completed; flight: packets the lossless queue takes; slow: the server may
\* take longer to answer a connect than a poll; full: a program may not read
\* its socket, whose buffer is then full; ids, chunks, drops: bounds on the
\* connections made, the chunks written into one socket and the disconnections
Setup == [e2ee : BOOLEAN, flight : Nat \ {0}, slow : BOOLEAN, full : BOOLEAN,
          ids : Nat, chunks : Nat, drops : Nat]

ASSUME StreamAssumption ==
    /\ {Window, Batch, MaxConns} \subseteq Nat \ {0}
    /\ Batch <= Window
    /\ \A x \in Setups : x \in Setup

Side == {"client", "host"}

Other(x) == IF x = "client" THEN "host" ELSE "client"

MaxIds == Max({x.ids : x \in Setups})
MaxChunks == Max({x.chunks : x \in Setups})

Id == 1..MaxIds
Slot == 1..MaxConns

VARIABLES
    conns,    \* each side's TTTunnelConn slots
    wire,     \* lossless packets on the way to each side
    sock,     \* each side's end of a connection: what was written into it, how
              \* much of that the tunnel has read, whether it is closed, and what
              \* the tunnel has written to it
    kernel,   \* the connect to the server: "none", "trying", "up" or "refused"
    waiting,  \* local connections that wait to be accepted
    next_connid,
    link,     \* the friend is connected, the tunnel session is active
    lost,     \* the streams <<side, id>> whose DATA and the connections whose
              \* control frames were given up on
    spent,    \* connections made and disconnections so far
    setup

vars == <<conns, wire, sock, kernel, waiting, next_connid, link, lost, spent, setup>>

-----------------------------------------------------------------------------
(* Connection slots                                                        *)

NoConn == [used |-> FALSE, id |-> 0, sock |-> FALSE, connecting |-> FALSE,
           peer_gone |-> FALSE, unacked |-> 0, ack_due |-> 0,
           pend |-> <<>>, out |-> <<>>]

\* conn_alloc of a slot, with the socket of connection id
NewConn(id, connecting) ==
    [NoConn EXCEPT !.used = TRUE, !.id = id, !.sock = TRUE, !.connecting = connecting]

\* conn_find
Slots(cs, id) == {k \in Slot : cs[k].used /\ cs[k].id = id}
Has(x, id) == Slots(conns[x], id) # {}
The(x, id) == CHOOSE k \in Slots(conns[x], id) : TRUE

Free(cs) == {k \in Slot : ~cs[k].used}
FirstFree(cs) == CHOOSE k \in Free(cs) : \A j \in Free(cs) : k <= j

NewSock == [wrote |-> 0, read |-> 0, eof |-> FALSE, got |-> <<>>]

\* a step of side x works on its slots, its sockets, its outgoing queue, the
\* connects under way and the frames given up on
Ctx(x) == [me |-> x, cs |-> conns[x], sock |-> sock[x], w |-> wire[Other(x)],
           kernel |-> kernel, waiting |-> waiting, next |-> next_connid, lost |-> lost]

\* first c, then F of it
Then(c, F(_)) == CHOOSE d \in {F(x) : x \in {c}} : TRUE

conn_free(c, k) == [c EXCEPT !.cs[k] = NoConn]

-----------------------------------------------------------------------------
(* Sending                                                                 *)

Frame(op, id, n) == [op |-> op, id |-> id, n |-> n]

\* tcp_send_ex, up to the return code: a frame of an inactive session is dropped
\* and reported as sent; with E2EE a missing friend looks like a full queue
Status(w) ==
    CASE ~link.active                                   -> "DROPPED"
      [] link.active /\ ~link.up                        -> IF setup.e2ee THEN "SENDQ"
                                                           ELSE "FATAL"
      [] link.active /\ link.up /\ Len(w) >= setup.flight -> "SENDQ"
      [] OTHER                                          -> "OK"

\* tcp_send: a control frame gets one try
tcp_send(c, op, id, n) ==
    IF Status(c.w) = "OK" THEN [c EXCEPT !.w = Append(@, Frame(op, id, n))]
    ELSE [c EXCEPT !.lost.ctl = @ \cup {id}]

Smallest(S) == CHOOSE n \in S : \A m \in S : n <= m

\* how many of n DATA frames conn_flush_out hands over
Sendable(c, k, n) ==
    LET credit == Window - c.cs[k].unacked
        room   == setup.flight - Len(c.w)
    IN  CASE Status(c.w) \in {"SENDQ", "FATAL"} -> 0
          [] Status(c.w) = "DROPPED" -> Smallest({n, credit})
          [] Status(c.w) = "OK"      -> Smallest({n, credit, room})

\* conn_flush_out of the n first of ms
Flushed(c, k, ms, n) ==
    LET id == c.cs[k].id
        fs == [i \in 1..n |-> Frame("DATA", id, ms[i])]
        ok == Status(c.w) = "OK"
    IN  [c EXCEPT !.cs[k].unacked = @ + n,
                  !.w = IF ok THEN @ \o fs ELSE @,
                  !.lost.data = IF ok \/ n = 0 THEN @ ELSE @ \cup {<<c.me, id>>}]

\* mutant: a chunk is read from the socket before the buffer has been flushed
Unread_first(c, k) ==
    LET s == c.sock[c.cs[k].id] IN [i \in 1..(s.wrote - s.read) |-> s.read + i] \o c.cs[k].out

\* the buffered chunks and then those in the socket, in the order they are sent
Unread(c, k) ==
    LET s == c.sock[c.cs[k].id] IN c.cs[k].out \o [i \in 1..(s.wrote - s.read) |-> s.read + i]

\* conn_drain_out: chunks are read and sent until the window or the queue is
\* full; then at most one chunk that was read waits in the buffer
Drained(c, k) ==
    LET out    == Len(c.cs[k].out)
        ms     == Unread(c, k)
        Now(n) == IF n < out THEN out ELSE IF n < Len(ms) THEN n + 1 ELSE n
    IN  Then(Sendable(c, k, Len(ms)),
             LAMBDA n : [Flushed(c, k, ms, n) EXCEPT
                            !.cs[k].out = SubSeq(ms, n + 1, Now(n)),
                            !.sock[c.cs[k].id].read = @ + Now(n) - out])

\* nothing is left to send and the socket is at its end or broken
AtEnd(c, k) ==
    LET id == c.cs[k].id
    IN  /\ Unread(c, k) = <<>>
        /\ c.sock[id].eof \/ (c.me = "host" /\ c.kernel[id] = "refused")

\* a frame that no retry can send
Hopeless(c, k) ==
    Status(c.w) = "FATAL" /\ c.cs[k].unacked < Window /\ Unread(c, k) # <<>>

\* conn_drain, and the FIN of a connection that must be dropped
conn_drain(c, k) ==
    LET Fin(d) == conn_free(tcp_send(d, "FIN", d.cs[k].id, 0), k)
    IN  IF ~(c.cs[k].used /\ c.cs[k].sock) THEN c
        ELSE IF Hopeless(c, k) THEN Fin(c)
        ELSE Then(Drained(c, k), LAMBDA d : IF AtEnd(d, k) THEN Fin(d) ELSE d)

-----------------------------------------------------------------------------
(* Receiving                                                               *)

\* mutant: credit is returned only when more than the window has accumulated
conn_return_credit_late(c, k) ==
    LET due == c.cs[k].ack_due + 1
        d   == [c EXCEPT !.cs[k].ack_due = due]
    IN  IF due <= Window THEN d
        ELSE [tcp_send(d, "ACK", c.cs[k].id, due) EXCEPT !.cs[k].ack_due = 0]

\* conn_return_credit: one frame was accepted
conn_return_credit(c, k) ==
    LET due == c.cs[k].ack_due + 1
        d   == [c EXCEPT !.cs[k].ack_due = due]
    IN  IF due < Batch THEN d
        ELSE [tcp_send(d, "ACK", c.cs[k].id, due) EXCEPT !.cs[k].ack_due = 0]

\* conn_take_credit
conn_take_credit(c, k, n) ==
    LET left == IF n >= c.cs[k].unacked THEN 0 ELSE c.cs[k].unacked - n
    IN  IF c.cs[k].peer_gone /\ left = 0 THEN conn_free(c, k)
        ELSE [c EXCEPT !.cs[k].unacked = left]

\* conn_mark_peer_gone
conn_mark_peer_gone(c, k) ==
    IF c.cs[k].unacked = 0 THEN conn_free(c, k)
    ELSE [c EXCEPT !.cs[k].peer_gone = TRUE, !.cs[k].sock = FALSE]

\* tt_send to the local program: what its socket does not take is lost
Write(c, id, ms, taken) ==
    IF taken /\ (c.me = "client" \/ c.kernel[id] = "up")
    THEN [c EXCEPT !.sock[id].got = @ \o ms]
    ELSE [c EXCEPT !.lost.data = IF ms = <<>> THEN @ ELSE @ \cup {<<Other(c.me), id>>}]

\* TT_TCP_DATA.  While the connect is under way the host buffers.  A closed
\* connection returns credit on the host only.
rx_data(c, k, id, n, taken) ==
    CASE c.cs[k].connecting -> conn_return_credit([c EXCEPT !.cs[k].pend = Append(@, n)], k)
      [] ~c.cs[k].connecting /\ c.cs[k].sock ->
            conn_return_credit(Write(c, id, <<n>>, taken), k)
      [] OTHER -> IF c.me = "host" THEN conn_return_credit(c, k) ELSE c

\* host_open_conn: connect() succeeds, is under way, or fails
host_open_conn(c, id, outcome) ==
    LET k == FirstFree(c.cs)
        d == [c EXCEPT !.cs[k] = NewConn(id, outcome = "trying"), !.kernel[id] = outcome]
    IN  IF Slots(c.cs, id) # {} THEN c
        ELSE IF Free(c.cs) = {} \/ outcome = "refused" THEN tcp_send(c, "OPEN_FAIL", id, 0)
        ELSE IF outcome = "up" THEN tcp_send(d, "OPEN_ACK", id, 0)
        ELSE d

\* tunnel_tcp_rx_host and tunnel_tcp_rx_client: only OPEN needs no connection
tcp_rx(c, f, outcome, taken) ==
    LET ks == Slots(c.cs, f.id)
        k  == CHOOSE j \in ks : TRUE
    IN  CASE f.op = "OPEN"                        -> host_open_conn(c, f.id, outcome)
          [] ks # {} /\ f.op = "DATA"             -> rx_data(c, k, f.id, f.n, taken)
          [] ks # {} /\ f.op = "ACK"              -> conn_take_credit(c, k, f.n)
          [] ks # {} /\ f.op = "FIN"              -> conn_mark_peer_gone(c, k)
          [] ks # {} /\ f.op = "OPEN_FAIL"        -> conn_free(c, k)
          [] OTHER                                -> c

-----------------------------------------------------------------------------
(* Polling                                                                 *)

\* SO_ERROR is 0 for a connect that succeeded and for one still under way
finish_connect(c, k) ==
    LET id == c.cs[k].id
        d  == [c EXCEPT !.cs[k].connecting = FALSE, !.cs[k].pend = <<>>]
    IN  IF ~(c.cs[k].used /\ c.cs[k].connecting /\ c.cs[k].sock) THEN c
        ELSE IF c.kernel[id] = "refused" THEN tcp_send(conn_free(c, k), "OPEN_FAIL", id, 0)
        ELSE Write(tcp_send(d, "OPEN_ACK", id, 0), id, c.cs[k].pend, TRUE)

HostSlot(c, k) == Then(finish_connect(c, k), LAMBDA d : conn_drain(d, k))

\* tt_accept of the next local connection; with all slots taken it is closed
Accept(c) ==
    LET k == FirstFree(c.cs)
        d == [c EXCEPT !.waiting = @ - 1]
    IN  IF Free(c.cs) = {} THEN d
        ELSE tcp_send([d EXCEPT !.cs[k] = NewConn(c.next, FALSE), !.next = @ + 1],
                      "OPEN", c.next, 0)

\* the loop over tt_accept ends at the first connection that has no slot
AcceptAll(c) ==
    LET n == Smallest({c.waiting, Cardinality(Free(c.cs)) + 1})
    IN  FoldLeft(LAMBDA d, i : Then(d, Accept), c, [i \in 1..n |-> i])

ForSlots(F(_, _), c) ==
    FoldLeft(LAMBDA d, k : Then(d, LAMBDA x : F(x, k)), c, [i \in Slot |-> i])

tunnel_poll_host(c) == ForSlots(HostSlot, c)

tunnel_poll_client(c) == Then(AcceptAll(c), LAMBDA d : ForSlots(conn_drain, d))

-----------------------------------------------------------------------------
(* Actions                                                                 *)

Init ==
    /\ conns = [x \in Side |-> [k \in Slot |-> NoConn]]
    /\ wire = [x \in Side |-> <<>>]
    /\ sock = [x \in Side |-> [id \in Id |-> NewSock]]
    /\ kernel = [id \in Id |-> "none"]
    /\ waiting = 0
    /\ next_connid = 1
    /\ setup \in Setups
    /\ link = [up |-> TRUE, active |-> ~setup.e2ee]
    /\ lost = [data |-> {}, ctl |-> {}]
    /\ spent = [made |-> 0, drops |-> 0]

\* the outcome of a step of side x, with what is left of its incoming packets
Done(x, c, rest) ==
    /\ conns' = [conns EXCEPT ![x] = c.cs]
    /\ sock' = [sock EXCEPT ![x] = c.sock]
    /\ wire' = [wire EXCEPT ![x] = rest, ![Other(x)] = c.w]
    /\ kernel' = c.kernel
    /\ waiting' = c.waiting
    /\ next_connid' = c.next
    /\ lost' = c.lost
    /\ UNCHANGED <<link, spent, setup>>

\* unless the server may be slow, its answer is there at the next poll
HostPolls == setup.slow \/ \A id \in Id : kernel[id] # "trying"

\* tt_tunnel_poll
PollHost ==
    /\ HostPolls
    /\ \E c \in {Then(Ctx("host"), tunnel_poll_host)} : Done("host", c, wire["host"])

PollClient ==
    \E c \in {Then(Ctx("client"), tunnel_poll_client)} : Done("client", c, wire["client"])

\* tt_tunnel_rx_tcp
Receive(x) ==
    /\ link.up
    /\ wire[x] # <<>>
    /\ \E taken \in {TRUE, ~setup.full} : \E outcome \in {"up", "trying", "refused"} :
          /\ Head(wire[x]).op # "OPEN" => outcome = "up"
          /\ \E c \in {Then(Ctx(x), LAMBDA d : tcp_rx(d, Head(wire[x]), outcome, taken))} :
                Done(x, c, Tail(wire[x]))

\* a program connects to the local port
LocalConnect ==
    /\ spent.made < setup.ids
    /\ spent' = [spent EXCEPT !.made = @ + 1]
    /\ waiting' = waiting + 1
    /\ UNCHANGED <<conns, wire, sock, kernel, next_connid, link, lost, setup>>

\* the connection has a program at its end that can use it
Open(x, id) ==
    /\ Has(x, id) /\ conns[x][The(x, id)].sock
    /\ ~sock[x][id].eof
    /\ x = "host" => kernel[id] = "up"

AppWrite(x, id) ==
    /\ Open(x, id)
    /\ sock[x][id].wrote < setup.chunks
    /\ sock' = [sock EXCEPT ![x][id].wrote = @ + 1]
    /\ UNCHANGED <<conns, wire, kernel, waiting, next_connid, link, lost, spent, setup>>

AppClose(x, id) ==
    /\ Open(x, id)
    /\ sock' = [sock EXCEPT ![x][id].eof = TRUE]
    /\ UNCHANGED <<conns, wire, kernel, waiting, next_connid, link, lost, spent, setup>>

\* the server answers the connect
ServerAnswers(id) ==
    /\ kernel[id] = "trying"
    /\ \E r \in {"up", "refused"} : kernel' = [kernel EXCEPT ![id] = r]
    /\ UNCHANGED <<conns, wire, sock, waiting, next_connid, link, lost, spent, setup>>

\* the handshake of the tunnel session completes
Handshake ==
    /\ ~link.active /\ link.up
    /\ link' = [link EXCEPT !.active = TRUE]
    /\ UNCHANGED <<conns, wire, sock, kernel, waiting, next_connid, lost, spent, setup>>

UnderWay(op) ==
    {<<x, id>> \in Side \X Id : \E i \in 1..Len(wire[Other(x)]) :
        wire[Other(x)][i].op \in op /\ wire[Other(x)][i].id = id}

\* the friend is gone, and what was under way with it; the tunnel stays
Disconnect ==
    /\ link.up
    /\ spent.drops < setup.drops
    /\ spent' = [spent EXCEPT !.drops = @ + 1]
    /\ link' = [link EXCEPT !.up = FALSE]
    /\ wire' = [x \in Side |-> <<>>]
    /\ lost' = [data |-> lost.data \cup UnderWay({"DATA"}),
                ctl  |-> lost.ctl \cup {y[2] : y \in
                            UnderWay({"OPEN", "OPEN_ACK", "OPEN_FAIL", "ACK", "FIN"})}]
    /\ UNCHANGED <<conns, sock, kernel, waiting, next_connid, setup>>

Reconnect ==
    /\ ~link.up
    /\ link' = [link EXCEPT !.up = TRUE]
    /\ UNCHANGED <<conns, wire, sock, kernel, waiting, next_connid, lost, spent, setup>>

Next ==
    \/ PollHost
    \/ PollClient
    \/ \E x \in Side : Receive(x)
    \/ LocalConnect
    \/ \E x \in Side, id \in Id : AppWrite(x, id) \/ AppClose(x, id)
    \/ \E id \in Id : ServerAnswers(id)
    \/ Handshake
    \/ Disconnect
    \/ Reconnect

\* a poll would change something
HostHasWork == HostPolls /\ tunnel_poll_host(Ctx("host")) # Ctx("host")
ClientHasWork == tunnel_poll_client(Ctx("client")) # Ctx("client")
HasMail(x) == link.up /\ wire[x] # <<>>

\* Weak fairness: the tox thread polls and iterates; toxcore delivers and
\* reconnects; a connect ends; nothing is assumed of the programs.  For the first
\* three what it is to be enabled is spelled out.
Fairness ==
    /\ []<>~HostHasWork \/ []<><<PollHost>>_vars
    /\ []<>~ClientHasWork \/ []<><<PollClient>>_vars
    /\ \A x \in Side : []<>~HasMail(x) \/ []<><<Receive(x)>>_vars
    /\ \A id \in Id : WF_vars(ServerAnswers(id))
    /\ WF_vars(Handshake) /\ WF_vars(Reconnect)

Spec == Init /\ [][Next]_vars /\ Fairness

-----------------------------------------------------------------------------
(* Properties                                                              *)

\* The slots are well formed, and a connection has at most one on each side.
TypeOK ==
    /\ \A x \in Side : \A k \in Slot :
          LET c == conns[x][k]
          IN  /\ c.used \in BOOLEAN /\ c.id \in 0..MaxIds
              /\ c.unacked \in 0..Window /\ c.ack_due \in 0..(Batch - 1)
              /\ Len(c.out) <= 1
              /\ c.peer_gone => c.unacked > 0 /\ ~c.sock
              /\ ~c.used => c = NoConn
    /\ \A x \in Side : \A id \in Id : Cardinality(Slots(conns[x], id)) <= 1
    /\ \A x \in Side : Len(wire[x]) <= setup.flight

\* What a program receives is what the other one has written, from the first
\* byte on and without a gap, through full windows, refused packets and closing
\* connections, unless the tunnel lost a piece; and it loses none on a link that
\* stays up, with an active session, prompt connects and programs that read.
StreamIntact ==
    /\ \A x \in Side : \A id \in Id :
        (<<x, id>> \notin lost.data) =>
            /\ Len(sock[Other(x)][id].got) <= sock[x][id].wrote
            /\ \A i \in 1..Len(sock[Other(x)][id].got) : sock[Other(x)][id].got[i] = i
    /\ (~setup.e2ee /\ ~setup.slow /\ ~setup.full /\ spent.drops = 0) => lost.data = {}

Sum(S, F(_)) == FoldSet(LAMBDA i, n : n + F(i), 0, S)

\* Credit is never invented: what side x counts as unacknowledged covers its
\* DATA under way, what the other side has accepted without returning credit and
\* the credit on its way back.  So at most Window of its frames are in the queue.
CreditSound ==
    \A x \in Side : \A id \in Id : (Has(x, id) /\ ~conns[x][The(x, id)].peer_gone) =>
        LET y == Other(x)
            Of(q, op) == {i \in 1..Len(q) : q[i].op = op /\ q[i].id = id}
            under  == Cardinality(Of(wire[y], "DATA"))
            due    == IF Has(y, id) THEN conns[y][The(y, id)].ack_due ELSE 0
            back   == Sum(Of(wire[x], "ACK"), LAMBDA i : wire[x][i].n)
        IN  conns[x][The(x, id)].unacked >= under + due + back

\* What is written into a connection that stays open arrives at the other end:
\* neither the window nor a refused packet stops a stream for good, as long as
\* no frame of the connection was given up on.  (A program writes a bounded
\* number of chunks, so it is enough that again and again all have arrived.)
Delivered ==
    []<>(\A x \in Side : \A id \in Id :
            \/ Len(sock[Other(x)][id].got) = sock[x][id].wrote
            \/ \E y \in Side : sock[y][id].eof
            \/ id \in lost.ctl \/ <<x, id>> \in lost.data
            \/ ~Has(x, id) \/ kernel[id] = "refused")

\* When a program closes its end, the slot on its side is released in the end,
\* or waits for the acknowledgement of a peer that is gone.
Closes ==
    []<>(\A x \in Side : \A id \in Id :
            sock[x][id].eof =>
                \/ ~Has(x, id) \/ conns[x][The(x, id)].peer_gone
                \/ id \in lost.ctl \/ \E y \in Side : <<y, id>> \in lost.data)

\* A slot whose peer has closed is released in the end.
Reclaimed ==
    \A x \in Side : \A k \in Slot : conns[x][k].peer_gone ~> ~conns[x][k].used
=============================================================================
