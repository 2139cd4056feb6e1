----------------------------- MODULE TunnelShare ----------------------------
(***************************************************************************)
(* How tunnels come and go (tunnel.c): a host shares a service with a      *)
(* friend, the friend accepts or declines, either side stops, an invite    *)
(* that is never answered times out; and which tunnels a UDP datagram ends *)
(* in.  Per peer: the table of tunnels on the tox thread, the Tk front end *)
(* with its panel and its one invite dialog (ui_tk.c), the queues between  *)
(* them.  Between peers: the lossless signals, lost when the link fails,   *)
(* and the lossy datagrams.  TCP streams are module TunnelStream.          *)
(***************************************************************************)
EXTENDS Integers, Sequences, FiniteSets

CONSTANTS
    Peers,
    None,
    MaxTunnels, \* TT_TUNNEL_MAX_TUNNELS
    MaxCmds,    \* commands a front end has waiting
    Setups      \* [shares: how often a peer shares with a friend, by <<host, friend>>;
                \*  cuts: link failures, binds: whether the local ports can be bound,
                \*  stops: the peers whose users stop tunnels, datagrams: datagrams sent]

TunnelType == [id : Nat, host : BOOLEAN, pending : BOOLEAN, timed : BOOLEAN, fn : Peers,
               svc : Nat, allow : SUBSET Peers, socks : SUBSET Peers, peer_set : BOOLEAN]

ASSUME TunnelShareAssumption ==
    /\ None \notin Peers /\ None \notin Nat /\ None \notin TunnelType
    /\ MaxTunnels \in Nat \ {0} /\ MaxCmds \in Nat \ {0}
    /\ \A s \in Setups : /\ DOMAIN s.shares \subseteq Peers \X Peers
                         /\ \A pq \in DOMAIN s.shares : s.shares[pq] \in Nat
                         /\ s.cuts \in Nat /\ s.datagrams \in Nat /\ s.stops \subseteq Peers
                         /\ s.binds \subseteq BOOLEAN /\ s.binds # {}

VARIABLES
    setup,
    tunnels,    \* tunnels[p]: the table, [Slots -> tunnel or None]
    tunnel_seq, \* tunnel_seq[p]: the last id given
    ui,         \* tun_invite_fn (None: no dialog) and the ids of the panel's rows
    cmds, evs,  \* queues front end -> engine and back
    wire,       \* wire[p][q]: signals from p to q
    down,       \* pairs whose link is down
    lossy,      \* datagrams in flight
    shared,     \* <<host, friend>> of the shares posted; the n-th shares service n,
                \* which no signal and no datagram names
    cuts, sent, \* link failures and datagrams so far
    strays,     \* <<n, m>>: a datagram of service n came out at service m
    loose       \* <<host, friend>>: one end was given up without telling the other, or a
                \* second invite went out over the first; no signal says which one it is for

vars == <<setup, tunnels, tunnel_seq, ui, cmds, evs, wire, down, lossy, shared, cuts,
          sent, strays, loose>>

Slots == 1..MaxTunnels
Pairs == DOMAIN setup.shares

Init ==
    /\ setup \in Setups
    /\ tunnels = [p \in Peers |-> [i \in Slots |-> None]]
    /\ tunnel_seq = [p \in Peers |-> 0]
    /\ ui = [p \in Peers |-> [invite |-> None, panel |-> {}]]
    /\ cmds = [p \in Peers |-> <<>>]
    /\ evs = [p \in Peers |-> <<>>]
    /\ wire = [p \in Peers |-> [q \in Peers |-> <<>>]]
    /\ down = {} /\ lossy = {} /\ shared = <<>> /\ cuts = 0 /\ sent = 0 /\ strays = {}
    /\ loose = {}

-----------------------------------------------------------------------------
(* The front end.                                                          *)

uiRest == <<setup, tunnels, tunnel_seq, evs, wire, down, lossy, cuts, sent, strays, loose>>
Post(p, c) == Len(cmds[p]) < MaxCmds /\ cmds' = [cmds EXCEPT ![p] = Append(@, c)]

cc_tun_share_ok(p, q) ==
    /\ <<p, q>> \in Pairs
    /\ Cardinality({n \in 1..Len(shared) : shared[n] = <<p, q>>}) < setup.shares[<<p, q>>]
    /\ shared' = Append(shared, <<p, q>>)
    /\ Post(p, [cmd |-> "share", fn |-> q, svc |-> Len(shared) + 1])
    /\ UNCHANGED <<uiRest, ui>>

Answer(p, kind) ==
    /\ ui[p].invite # None
    /\ Post(p, [cmd |-> kind, fn |-> ui[p].invite])
    /\ ui' = [ui EXCEPT ![p].invite = None]
    /\ UNCHANGED <<uiRest, shared>>
cc_tun_accept(p) == Answer(p, "accept")
cc_tun_decline(p) == Answer(p, "decline")

cc_tun_stop(p, id) ==
    /\ p \in setup.stops /\ id \in ui[p].panel
    /\ Post(p, [cmd |-> "stop", id |-> id])
    /\ UNCHANGED <<uiRest, ui, shared>>

\* What event e does to the screen u.  An invite that comes while the dialog is open
\* is not shown; ERROR, REMOVE and a declined STATE take the row away.
Showed(u, e) ==
    CASE e.ev = "invite" -> [u EXCEPT !.invite = IF @ = None THEN e.fn ELSE @]
      [] e.ev = "add"    -> [u EXCEPT !.panel = @ \cup {e.id}]
      [] e.ev = "gone"   -> [u EXCEPT !.panel = @ \ {e.id}]
      [] e.ev = "live"   -> u
TakeEvent(p) ==
    /\ evs[p] # <<>> /\ evs' = [evs EXCEPT ![p] = Tail(@)]
    /\ ui' = [ui EXCEPT ![p] = Showed(@, Head(evs[p]))]
    /\ UNCHANGED <<setup, tunnels, tunnel_seq, cmds, wire, down, lossy, shared, cuts,
                   sent, strays, loose>>

-----------------------------------------------------------------------------
(* The table of tunnels.                                                   *)

Used(p) == {i \in Slots : tunnels[p][i] # None}
\* The first free slot, or None when the table is full.
FreeSlot(p) == IF Used(p) = Slots THEN None
               ELSE CHOOSE i \in Slots \ Used(p) : \A j \in Slots \ Used(p) : i <= j
\* tunnel_by_peer: the first tunnel of that role with that friend.
tunnel_by_peer(p, q, host) ==
    LET of == {i \in Used(p) : tunnels[p][i].host = host /\ tunnels[p][i].fn = q}
    IN  IF of = {} THEN None ELSE CHOOSE i \in of : \A j \in of : i <= j

tunnel_alloc(p, i, tn) ==
    /\ tunnels' = [tunnels EXCEPT ![p][i] = tn]
    /\ tunnel_seq' = [tunnel_seq EXCEPT ![p] = @ + 1]
tunnel_free(p, i) == tunnels' = [tunnels EXCEPT ![p][i] = None] /\ UNCHANGED tunnel_seq
\* mutant: the time of the invite is not kept
Tunnel_untimed(p, host, q, svc) ==
    [id |-> tunnel_seq[p] + 1, host |-> host, pending |-> TRUE, timed |-> FALSE, fn |-> q,
     svc |-> svc, allow |-> IF host THEN {q} ELSE {}, socks |-> {}, peer_set |-> FALSE]
Tunnel(p, host, q, svc) ==
    [id |-> tunnel_seq[p] + 1, host |-> host, pending |-> TRUE, timed |-> host, fn |-> q,
     svc |-> svc, allow |-> IF host THEN {q} ELSE {}, socks |-> {}, peer_set |-> FALSE]

Push(p, e) == evs' = [evs EXCEPT ![p] = Append(@, e)]
Row(kind, id) == [ev |-> kind, id |-> id]
\* sig_send: a signal the link refuses is only logged.
sig_send(p, q, m) ==
    wire' = IF {p, q} \in down THEN wire ELSE [wire EXCEPT ![p][q] = Append(@, m)]
Ignored == UNCHANGED <<tunnels, tunnel_seq, evs, wire>>

-----------------------------------------------------------------------------
(* The commands, on the tox thread.                                        *)

tt_tunnel_share(p, c) ==
    LET i == FreeSlot(p)
        tn == Tunnel(p, TRUE, c.fn, c.svc)
    IN  IF i = None THEN Ignored
        ELSE /\ tunnel_alloc(p, i, tn)
             /\ sig_send(p, c.fn, [sig |-> "invite", svc |-> c.svc])
             /\ Push(p, Row("add", tn.id))

\* The local ports cannot be bound: the user is told, the host is not.
tt_tunnel_accept(p, c) ==
    LET i == tunnel_by_peer(p, c.fn, FALSE)
    IN  IF i = None \/ ~tunnels[p][i].pending THEN Ignored
        ELSE \E ok \in setup.binds :
                IF ok THEN /\ tunnels' = [tunnels EXCEPT ![p][i].pending = FALSE]
                           /\ sig_send(p, c.fn, [sig |-> "accept"])
                           /\ Push(p, Row("add", tunnels[p][i].id))
                           /\ UNCHANGED tunnel_seq
                ELSE /\ Push(p, Row("gone", tunnels[p][i].id))
                     /\ tunnel_free(p, i)
                     /\ UNCHANGED wire

\* mutant: the declined tunnel stays in the table
tt_tunnel_decline_kept(p, c) ==
    LET i == tunnel_by_peer(p, c.fn, FALSE)
    IN  IF i = None \/ ~tunnels[p][i].pending THEN Ignored
        ELSE /\ sig_send(p, c.fn, [sig |-> "decline"])
             /\ UNCHANGED <<tunnels, tunnel_seq, evs>>
tt_tunnel_decline(p, c) ==
    LET i == tunnel_by_peer(p, c.fn, FALSE)
    IN  IF i = None \/ ~tunnels[p][i].pending THEN Ignored
        ELSE /\ sig_send(p, c.fn, [sig |-> "decline"])
             /\ tunnel_free(p, i)
             /\ UNCHANGED evs

\* The friend is not told.
tt_tunnel_stop(p, c) ==
    LET of == {i \in Used(p) : tunnels[p][i].id = c.id}
    IN  IF of = {} THEN Ignored
        ELSE /\ Push(p, Row("gone", c.id))
             /\ tunnel_free(p, CHOOSE i \in of : TRUE)
             /\ UNCHANGED wire

engineRest == <<setup, ui, down, lossy, shared, cuts, sent, strays>>

\* The parties to tunnel tn of p, and those of the tunnels that this step gives up.
Parties(p, tn) == IF tn.host THEN <<p, tn.fn>> ELSE <<tn.fn, p>>
GivenUp(p) == {Parties(p, tunnels[p][i]) : i \in {j \in Used(p) : tunnels'[p][j] = None}}

TakeCommand(p) ==
    /\ cmds[p] # <<>> /\ cmds' = [cmds EXCEPT ![p] = Tail(@)]
    /\ LET c == Head(cmds[p]) IN
        \/ /\ c.cmd = "share" /\ tt_tunnel_share(p, c)
           /\ loose' = loose \cup {pq \in {<<p, c.fn>>} : tunnel_by_peer(p, c.fn, TRUE) # None}
        \/ c.cmd = "accept" /\ tt_tunnel_accept(p, c) /\ loose' = loose \cup GivenUp(p)
        \/ c.cmd = "decline" /\ tt_tunnel_decline(p, c) /\ UNCHANGED loose
        \/ c.cmd = "stop" /\ tt_tunnel_stop(p, c) /\ loose' = loose \cup GivenUp(p)
    /\ UNCHANGED engineRest

-----------------------------------------------------------------------------
(* The network, on the tox thread.                                         *)

\* A second invite of a friend is ignored while a tunnel of theirs exists.
OnInvite(p, q, m) ==
    LET i == FreeSlot(p)
    IN  IF tunnel_by_peer(p, q, FALSE) # None \/ i = None
        THEN UNCHANGED <<tunnels, tunnel_seq, evs>>
        ELSE /\ tunnel_alloc(p, i, Tunnel(p, FALSE, q, m.svc))
             /\ Push(p, [ev |-> "invite", fn |-> q])

\* An accept that is too short for its port (no peer sends one) would be dropped.
OnAccept(p, q) ==
    LET i == tunnel_by_peer(p, q, TRUE)
    IN  IF i = None \/ ~tunnels[p][i].pending
        THEN UNCHANGED <<tunnels, tunnel_seq, evs>>
        ELSE /\ tunnels' = [tunnels EXCEPT ![p][i].pending = FALSE]
             /\ Push(p, Row("live", tunnels[p][i].id))
             /\ UNCHANGED tunnel_seq

OnDecline(p, q) ==
    LET i == tunnel_by_peer(p, q, TRUE)
    IN  IF i = None \/ ~tunnels[p][i].pending
        THEN UNCHANGED <<tunnels, tunnel_seq, evs>>
        ELSE Push(p, Row("gone", tunnels[p][i].id)) /\ tunnel_free(p, i)

tunnel_sig_rx(p, q) ==
    /\ wire[q][p] # <<>> /\ wire' = [wire EXCEPT ![q][p] = Tail(@)]
    /\ LET m == Head(wire[q][p]) IN
        \/ m.sig = "invite" /\ OnInvite(p, q, m)
        \/ m.sig = "accept" /\ OnAccept(p, q)
        \/ m.sig = "decline" /\ OnDecline(p, q)
    /\ UNCHANGED <<engineRest, cmds, loose>>

\* tt_tunnel_poll: a host's invite of 60 seconds ago is dropped.
PendingTimeout(p, i) ==
    /\ i \in Used(p) /\ tunnels[p][i].pending /\ tunnels[p][i].host /\ tunnels[p][i].timed
    /\ Push(p, Row("gone", tunnels[p][i].id))
    /\ tunnel_free(p, i) /\ loose' = loose \cup GivenUp(p)
    /\ UNCHANGED <<engineRest, cmds, wire>>

Live(p) == {i \in Used(p) : ~tunnels[p][i].pending}

\* tunnel_poll_client, tunnel_poll_host: a datagram of the local application goes
\* to the host, one of the server to the friend its socket is for.
Datagram(p, q, svc) ==
    /\ sent < setup.datagrams /\ sent' = sent + 1
    /\ lossy' = IF {p, q} \in down THEN lossy
                ELSE lossy \cup {[from |-> p, to |-> q, svc |-> svc, no |-> sent]}
    /\ UNCHANGED <<setup, tunnel_seq, ui, cmds, evs, wire, down, shared, cuts, strays, loose>>
PollClient(p, i) ==
    /\ i \in Live(p) /\ ~tunnels[p][i].host
    /\ tunnels' = [tunnels EXCEPT ![p][i].peer_set = TRUE]
    /\ Datagram(p, tunnels[p][i].fn, tunnels[p][i].svc)
PollHost(p, i, q) ==
    /\ i \in Live(p) /\ q \in tunnels[p][i].socks
    /\ Datagram(p, q, tunnels[p][i].svc) /\ UNCHANGED tunnels

\* The tunnels that take a datagram of q: a host's if q is on its allowlist
\* (host_forward), a client's if q is its host and its application is known.
\* mutant: the allowlist is not asked
Takes_anyone(tn, q) == IF tn.host THEN TRUE ELSE tn.fn = q /\ tn.peer_set
Takes(tn, q) == IF tn.host THEN q \in tn.allow ELSE tn.fn = q /\ tn.peer_set

\* host_forward opens a socket for the friend.
Fed(tn, q) == IF tn.host THEN [tn EXCEPT !.socks = @ \cup {q}] ELSE tn

tt_tunnel_rx(p, d) ==
    /\ d \in lossy /\ d.to = p /\ lossy' = lossy \ {d}
    /\ LET by == {i \in Live(p) : Takes(tunnels[p][i], d.from)} IN
        /\ tunnels' = [tunnels EXCEPT ![p] = [i \in Slots |->
                         IF i \in by THEN Fed(@[i], d.from) ELSE @[i]]]
        /\ strays' = strays \cup {<<d.svc, tunnels[p][i].svc>> :
                                    i \in {j \in by : tunnels[p][j].svc # d.svc}}
    /\ UNCHANGED <<setup, tunnel_seq, ui, cmds, evs, wire, down, shared, cuts, sent, loose>>

LoseDatagram(d) ==
    /\ d \in lossy /\ lossy' = lossy \ {d}
    /\ UNCHANGED <<setup, tunnels, tunnel_seq, ui, cmds, evs, wire, down, shared, cuts,
                   sent, strays, loose>>

Cut(p, q) ==
    /\ p # q /\ {p, q} \notin down /\ cuts < setup.cuts /\ cuts' = cuts + 1
    /\ down' = down \cup {{p, q}}
    /\ wire' = [wire EXCEPT ![p][q] = <<>>, ![q][p] = <<>>]
    /\ lossy' = {d \in lossy : {d.from, d.to} # {p, q}}
    /\ loose' = loose \cup {<<p, q>>, <<q, p>>}
    /\ UNCHANGED <<setup, tunnels, tunnel_seq, ui, cmds, evs, shared, sent, strays>>
Reconnect ==
    /\ down # {} /\ down' = {}
    /\ UNCHANGED <<setup, tunnels, tunnel_seq, ui, cmds, evs, wire, lossy, shared, cuts,
                   sent, strays, loose>>

Next ==
    \/ \E p \in Peers :
        \/ cc_tun_accept(p) \/ cc_tun_decline(p) \/ TakeEvent(p) \/ TakeCommand(p)
        \/ \E id \in ui[p].panel : cc_tun_stop(p, id)
        \/ \E i \in Slots : PendingTimeout(p, i) \/ PollClient(p, i)
        \/ \E q \in Peers : \/ cc_tun_share_ok(p, q) \/ tunnel_sig_rx(p, q) \/ Cut(p, q)
                            \/ \E i \in Slots : PollHost(p, i, q)
        \/ \E d \in lossy : tt_tunnel_rx(p, d)
    \/ \E d \in lossy : LoseDatagram(d)
    \/ Reconnect

\* The tox thread polls and takes its commands, the front end its events.
Fairness ==
    \A p \in Peers : /\ WF_vars(TakeEvent(p)) /\ WF_vars(TakeCommand(p))
                     /\ \A i \in Slots : WF_vars(PendingTimeout(p, i))
Spec == Init /\ [][Next]_vars /\ Fairness

-----------------------------------------------------------------------------
(* Properties.                                                             *)

Quiet(p) == cmds[p] = <<>> /\ evs[p] = <<>>
RowsOf(p) == {tunnels[p][i].id : i \in {j \in Used(p) : tunnels[p][j].host \/ ~tunnels[p][j].pending}}
LiveIds(p) == {tunnels[p][i].id : i \in Live(p)}

\* Once a peer's queues are empty its screen tells the truth: the panel lists
\* exactly its tunnels, and an invite that waits is shown, so that the user can
\* answer it (a friend's tunnel that is never answered blocks all later invites of
\* that friend).  A peer has one inviting friend in the setups: of two invites at a
\* time the second is never shown (ui_tk.c:2421).  Answers, time-outs, failed binds and
\* stops in any order leave no row without a tunnel and no tunnel without a row.
ScreenTrue ==
    \A p \in Peers : Quiet(p) =>
        /\ ui[p].panel = RowsOf(p)
        /\ \A i \in Used(p) : ~tunnels[p][i].host /\ tunnels[p][i].pending
                             => ui[p].invite = tunnels[p][i].fn

\* Where a datagram of one service comes out at another one: a host "relays
\* allowlisted friends' traffic to one server endpoint" (tunnel.h:21), but neither
\* datagrams nor signals say which tunnel they are for.  It never leaves the two
\* peers, whoever else they share with.  Between them it happens when they share with
\* each other, and in one direction only after a link failure, a time-out, a stop or a
\* failed bind has left one end standing, or after an invite was sent over another:
\* declined and repeated invites alone never mix two services.
Among(n, m) == {shared[n][1], shared[n][2]} = {shared[m][1], shared[m][2]}
NoCrossTalk ==
    \A s \in strays : /\ Among(s[1], s[2])
                      /\ shared[s[1]] = shared[s[2]] => shared[s[1]] \in loose

\* No row stays in a panel without a live tunnel: an invite is accepted, declined,
\* stopped or timed out, and the row follows ("so the panel doesn't show a zombie
\* (pending) row forever").  With no share left to post all rows are live in the end.
NoZombies == []<>(\A p \in Peers : ui[p].panel \subseteq LiveIds(p))
=============================================================================
