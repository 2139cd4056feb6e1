------------------------------ MODULE ChatE2EE ------------------------------
(***************************************************************************)
(* The encrypted chat between two friends: the handshake and the reliable  *)
(* transport of src/session.c, the engine that drives them in              *)
(* src/tox_thread.c (messages, connections, ticks, the plaintext fallback  *)
(* and its enforcement, the offline queue) and the session store that a    *)
(* restart reads.                                                          *)
(*                                                                         *)
(* toxcore delivers friend messages in order while the friend is           *)
(* connected; what is on the way when the connection drops is gone.        *)
(*                                                                         *)
(* A handshake's ephemeral keys and a session's root are numbers drawn     *)
(* from a counter.  REPLY opens under any ephemeral keys of the initiator  *)
(* (it is sealed to the identity key), but gives the responder's root only *)
(* with the keys it answers: with others the initiator computes a root     *)
(* nobody shares, a negative number here.  The chain of a direction is the *)
(* root and the number of folds so far; Rekey has the folds in detail, and *)
(* here any directly sent text may carry one.                              *)
(***************************************************************************)
EXTENDS Integers, Sequences, FiniteSets, SequencesExt

CONSTANTS
    PendingMax,    \* TT_SESSION_PENDING_MAX: texts stashed during a handshake
    SentMax,       \* TT_SENT_MAX: texts buffered until they are acknowledged
    FallbackAge,   \* TT_E2EE_FALLBACK_TIMEOUT in ticks (INIT retransmits)
    MaxInits,      \* bound on the copies of INIT on the way to one peer
    Setups         \* the histories to look at, see Setup

\* bounds on the texts typed (both users together), the texts that carry a
\* re-key fold, the connection losses, the orderly restarts, the crashes and the
\* user's changes of the enforcement; prompt: what is sent arrives within a
\* tick, so ticks see no traffic
Setup == [texts : Nat, folds : Nat, drops : Nat, restarts : Nat, crashes : Nat,
          toggles : Nat, prompt : BOOLEAN]

ASSUME ChatAssumption ==
    /\ {PendingMax, SentMax, FallbackAge, MaxInits} \subseteq Nat \ {0}
    /\ \A x \in Setups : x \in Setup

Peer == {1, 2}   \* in the order of their public keys

Other(p) == 3 - p

VARIABLES
    e,        \* each peer's engine: its TTSession and what t->e2ee_* keeps
    up,       \* the friend is connected, as the last callback told
    net,      \* messages on the way to each peer
    store,    \* the .ses file: the session as last saved
    fresh,    \* the next unused key number
    shown,    \* the texts each peer has displayed, in order
    trusted,  \* a session was once active and the user has not lifted the rule
    tries,    \* INITs each peer has sent on this connection (up to FallbackAge)
    keys,     \* the message keys each peer has sealed a text with, in order
    spent,    \* how much of each bound is used up
    setup     \* the bounds, which do not change

vars == <<e, up, net, store, fresh, shown, trusted, tries, keys, spent, setup>>

NoAge == -1   \* e2ee_handshake_at = 0: no handshake was started
Blank == 0    \* a buffered text that was overwritten with zeros

\* what tt_session_clear leaves of the fields reestablish_preserve does not keep
cleared ==
    [active |-> FALSE, ini |-> FALSE, pend |-> FALSE, init |-> 0, root |-> 0,
     snd |-> 1, sepoch |-> 0, rcv |-> 1, repoch |-> 0, gap |-> {}]

\* TTReliable and the stash
no_reliable ==
    [sent |-> <<>>, acked |-> 0, ack_due |-> FALSE, req |-> <<>>, rep |-> <<>>]

\* a session, its stash, the engine's bookkeeping, the offline queue and the
\* queue's file as last written
fresh_engine ==
    [s |-> cleared, rel |-> no_reliable, stash |-> <<>>, oq |-> <<>>,
     file |-> <<>>, age |-> NoAge, required |-> FALSE]

-----------------------------------------------------------------------------
(* A handler runs on a context: the peer's engine, whether it is connected, *)
(* what it has sent so far, the texts it displays, the keys it has used.    *)

Ctx(p) == [me |-> p, e |-> e[p], up |-> up[p], fresh |-> fresh, out |-> <<>>,
           shown |-> <<>>, keys |-> <<>>]

\* e2ee_send_frame / tox_friend_send_message: refused when not connected
Send(c, f) == IF c.up THEN [c EXCEPT !.out = Append(@, f)] ELSE c

\* reestablish_preserve: the stash and the reliable transport survive
reestablish_preserve(c) == [c EXCEPT !.e.s = cleared]

\* e2ee_start / tt_session_start
e2ee_start(c) ==
    Send([c EXCEPT !.e.s = [cleared EXCEPT !.ini = TRUE, !.pend = TRUE,
                                           !.init = c.fresh],
                   !.e.age = 0, !.fresh = @ + 1],
         [t |-> "INIT", id |-> c.fresh])

e2ee_fallback_due(c) == ~c.e.s.active /\ c.e.age >= FallbackAge

-----------------------------------------------------------------------------
(* Sending                                                                 *)

\* rel_sent_add: the oldest entry makes room
rel_sent_add(sent, x) ==
    IF Len(sent) >= SentMax THEN Append(Tail(sent), x) ELSE Append(sent, x)

DataFrame(s, m, fold) ==
    [t |-> "DATA", root |-> s.root, ini |-> s.ini, epoch |-> s.sepoch,
     seq |-> s.snd, fold |-> fold, msg |-> m]

\* mutant: a frame the transport refuses does not step the chain
emit_frame_holds(c, m, fold) ==
    LET s == c.e.s IN
    [c EXCEPT !.e.s.snd = IF c.up THEN @ + 1 ELSE @,
              !.e.s.sepoch = IF fold THEN @ + 1 ELSE @,
              !.e.rel.sent = rel_sent_add(@, [gen |-> s.root, seq |-> s.snd, msg |-> m]),
              !.keys = Append(@, <<s.root, s.ini, s.sepoch, s.snd>>)]

\* emit_frame: one chain step, the buffered copy, the fold
emit_frame(c, m, fold) ==
    LET s == c.e.s IN
    [c EXCEPT !.e.s.snd = @ + 1,
              !.e.s.sepoch = IF fold THEN @ + 1 ELSE @,
              !.e.rel.sent = rel_sent_add(@, [gen |-> s.root, seq |-> s.snd, msg |-> m]),
              !.keys = Append(@, <<s.root, s.ini, s.sepoch, s.snd>>)]

EmitSend(c, m, fold) == Send(emit_frame(c, m, fold), DataFrame(c.e.s, m, fold))

EmitPlain(c, m) == EmitSend(c, m, FALSE)

\* mutant: one text is flushed, the others are forgotten
e2ee_pump_once(c) ==
    IF c.e.stash = <<>> THEN c
    ELSE EmitPlain([c EXCEPT !.e.stash = <<>>], Head(c.e.stash))

\* mutant: the stash is flushed but not emptied
e2ee_pump_keeps(c) == FoldLeft(EmitPlain, c, c.e.stash)

\* e2ee_pump
e2ee_pump(c) ==
    FoldLeft(EmitPlain, [c EXCEPT !.e.stash = <<>>], c.e.stash)

SendText(c, m) == Send(c, [t |-> "TEXT", msg |-> m])

\* tt_oq_save
tt_oq_save(c) == [c EXCEPT !.e.file = c.e.oq]

\* tt_oq_add and tt_oq_save, of what is left over
Queue(c, ms) == IF ms = <<>> THEN c ELSE tt_oq_save([c EXCEPT !.e.oq = @ \o ms])

\* tt_session_send before the session is active: the stash, then the queue
Stash(c, ms) ==
    LET room == PendingMax - Len(c.e.stash)
        k    == IF Len(ms) < room THEN Len(ms) ELSE room
    IN  Queue([c EXCEPT !.e.stash = @ \o SubSeq(ms, 1, k)],
              SubSeq(ms, k + 1, Len(ms)))

\* offline_flush_friend, of a connected friend: blocked texts are dropped, and
\* the file keeps what went out in the clear
offline_flush_friend(c) ==
    LET ms == c.e.oq
        d  == [c EXCEPT !.e.oq = <<>>]
    IN  CASE ms = <<>> -> c
          [] ms # <<>> /\ e2ee_fallback_due(c) ->
                IF c.e.required THEN tt_oq_save(d) ELSE FoldLeft(SendText, d, ms)
          [] ms # <<>> /\ ~e2ee_fallback_due(c) ->
                IF c.e.s.active THEN FoldLeft(EmitPlain, tt_oq_save(d), ms)
                ELSE tt_oq_save(Stash(d, ms))

\* TT_CMD_SEND_MESSAGE
send_message(c, m, fold) ==
    CASE e2ee_fallback_due(c) ->
            IF c.e.required THEN c
            ELSE IF c.up THEN SendText(c, m) ELSE Queue(c, <<m>>)
      [] ~e2ee_fallback_due(c) /\ c.e.s.active ->
            IF c.up THEN EmitSend(c, m, fold)
            ELSE Queue(emit_frame(c, m, fold), <<m>>)
      [] OTHER -> Stash(c, <<m>>)

-----------------------------------------------------------------------------
(* tt_session_rel_poll, drained by e2ee_rel_poll                           *)

PollRequest(c) ==
    IF c.e.rel.req = <<>> THEN c
    ELSE Send([c EXCEPT !.e.rel.req = <<>>],
              [t |-> "RESEND", root |-> c.e.s.root,
               gen |-> c.e.rel.req[1], from |-> c.e.rel.req[2]])

\* one re-send under the fresh chain.  The oldest entry of a full buffer is
\* zeroed to make room while it is itself the text to buffer again.
Resend(c, x) ==
    LET sent == c.e.rel.sent
        kept == Remove(IF Len(sent) >= SentMax THEN Tail(sent) ELSE sent, x)
        copy == IF Len(sent) >= SentMax /\ sent[1] = x THEN Blank ELSE x.msg
        d    == EmitPlain(c, x.msg)
    IN  IF ~Contains(sent, x) THEN c
        ELSE [d EXCEPT !.e.rel.sent = Append(kept, [gen |-> c.e.s.root,
                                                    seq |-> c.e.s.snd, msg |-> copy])]

PollReply(c) ==
    LET Due(x) == x.gen = c.e.rel.rep[1] /\ x.seq >= c.e.rel.rep[2]
    IN  [FoldLeft(Resend, c, SelectSeq(c.e.rel.sent, Due)) EXCEPT !.e.rel.rep = <<>>]

PollAck(c) ==
    IF ~c.e.rel.ack_due THEN c
    ELSE Send([c EXCEPT !.e.rel.ack_due = FALSE],
              [t |-> "ACK", root |-> c.e.s.root, upto |-> c.e.rel.acked])

\* the loop ends when a call builds nothing: after the last re-send
e2ee_rel_poll(c) ==
    IF ~c.e.s.active THEN c
    ELSE LET d == PollRequest(c)
         IN  IF d.e.rel.rep # <<>> THEN PollReply(d) ELSE PollAck(d)

-----------------------------------------------------------------------------
(* tt_session_feed and the engine's reaction to it (e2ee_rx)               *)

\* after a handshake event on an active session: enforce, flush what waited
Established(c, was_active) ==
    LET d == [c EXCEPT !.e.required = @ \/ ~was_active]
    IN  offline_flush_friend(e2ee_pump(d))

\* mutant: no tie-break, whoever receives an INIT answers it
ReceiveInit_yields(c, f) ==
    LET s == c.e.s
        d == Send([reestablish_preserve(c) EXCEPT !.e.s.active = TRUE,
                                                  !.e.s.root = c.fresh,
                                                  !.fresh = @ + 1],
                  [t |-> "REPLY", id |-> f.id, root |-> c.fresh])
    IN  IF s.active /\ ~s.ini THEN Established(c, TRUE) ELSE Established(d, s.active)

\* mutant: whoever waits for a REPLY ignores the other's INIT
ReceiveInit_waits(c, f) ==
    IF c.e.s.pend THEN e2ee_rel_poll(c) ELSE ReceiveInit_yields(c, f)

\* INIT is a retransmit (nothing is sent), is ignored by the lower public key
\* while it waits itself, or makes us the responder of a new session
ReceiveInit(c, f) ==
    LET s == c.e.s
        d == Send([reestablish_preserve(c) EXCEPT !.e.s.active = TRUE,
                                                  !.e.s.root = c.fresh,
                                                  !.fresh = @ + 1],
                  [t |-> "REPLY", id |-> f.id, root |-> c.fresh])
    IN  CASE s.active /\ ~s.ini                  -> Established(c, TRUE)
          [] s.pend /\ c.me < Other(c.me)        -> e2ee_rel_poll(c)
          [] ~(s.active /\ ~s.ini) /\ ~(s.pend /\ c.me < Other(c.me))
                                                 -> Established(d, s.active)

\* REPLY counts only while we wait for one
ReceiveReply(c, f) ==
    LET root == IF f.id = c.e.s.init THEN f.root ELSE -f.root
    IN  IF c.e.s.pend
        THEN Established([c EXCEPT !.e.s = [cleared EXCEPT !.active = TRUE,
                                                           !.ini = TRUE,
                                                           !.root = root]], FALSE)
        ELSE e2ee_rel_poll(c)

\* the gap a DATA frame leaves, the step past it, the ACK that is due, the fold
CommitData(c, f) ==
    LET s   == c.e.s
        rcv == IF f.seq >= s.rcv THEN f.seq + 1 ELSE s.rcv
    IN  [c EXCEPT !.e.s.rcv = rcv,
                  !.e.s.gap = IF f.fold THEN {} ELSE (@ \cup s.rcv..(f.seq - 1)) \ {f.seq},
                  !.e.s.repoch = IF f.fold THEN @ + 1 ELSE @,
                  !.e.rel.ack_due = @ \/ rcv - 1 > c.e.rel.acked,
                  !.e.rel.acked = IF rcv - 1 > @ THEN rcv - 1 ELSE @,
                  !.shown = Append(@, f.msg)]

\* a replay restarts the handshake; a frame that does not open also asks for
\* the texts from the next expected one on
ReceiveData(c, f) ==
    LET s      == c.e.s
        replay == f.seq < s.rcv /\ f.seq \notin s.gap
        opens  == f.root = s.root /\ f.ini # s.ini /\ f.epoch = s.repoch
    IN  IF ~s.active \/ replay THEN e2ee_start(c)
        ELSE IF opens THEN e2ee_rel_poll(CommitData(c, f))
        ELSE e2ee_start([c EXCEPT !.e.rel.req = <<s.root, s.rcv>>])

\* rel_sent_ack
rel_sent_ack(sent, gen, upto) ==
    LET Keep(x) == ~(x.gen = gen /\ x.seq <= upto) IN SelectSeq(sent, Keep)

\* ACK and RESEND are sealed under the root: a stale one fails to decode
ReceiveControl(c, f) ==
    IF ~c.e.s.active \/ f.root # c.e.s.root THEN e2ee_start(c)
    ELSE IF f.t = "ACK"
    THEN e2ee_rel_poll([c EXCEPT !.e.rel.sent = rel_sent_ack(@, f.root, f.upto)])
    ELSE e2ee_rel_poll([c EXCEPT !.e.rel.rep = <<f.gen, f.from>>])

\* a plaintext: a desync for an active session, shown or blocked without one
ReceiveText(c, f) ==
    IF c.e.s.active THEN e2ee_start(c)
    ELSE IF c.e.required THEN c
    ELSE [c EXCEPT !.shown = Append(@, f.msg)]

e2ee_rx(c, f) ==
    CASE f.t = "INIT"              -> ReceiveInit(c, f)
      [] f.t = "REPLY"             -> ReceiveReply(c, f)
      [] f.t = "DATA"              -> ReceiveData(c, f)
      [] f.t \in {"ACK", "RESEND"} -> ReceiveControl(c, f)
      [] f.t = "TEXT"              -> ReceiveText(c, f)

-----------------------------------------------------------------------------
(* Actions                                                                 *)

Init ==
    /\ e = [p \in Peer |-> fresh_engine]
    /\ up = [p \in Peer |-> FALSE]
    /\ net = [p \in Peer |-> <<>>]
    /\ store = [p \in Peer |-> fresh_engine]
    /\ fresh = 1
    /\ shown = [p \in Peer |-> <<>>]
    /\ trusted = [p \in Peer |-> FALSE]
    /\ tries = [p \in Peer |-> 0]
    /\ keys = [p \in Peer |-> <<>>]
    /\ setup \in Setups
    /\ spent = [texts |-> 0, folds |-> 0, drops |-> 0, restarts |-> 0,
                crashes |-> 0, toggles |-> 0]

Copies(q, t) == Cardinality({i \in 1..Len(q) : q[i].t = t})

Counted(n, c) == LET k == n + Copies(c.out, "INIT")
                 IN  IF k > FallbackAge THEN FallbackAge ELSE k

\* the outcome of a handler of peer p, with what is left of its incoming queue
Done(p, c, rest) ==
    /\ e' = [e EXCEPT ![p] = c.e]
    /\ net' = [net EXCEPT ![p] = rest, ![Other(p)] = @ \o c.out]
    /\ fresh' = c.fresh
    /\ shown' = [shown EXCEPT ![p] = @ \o c.shown]
    /\ keys' = [keys EXCEPT ![p] = @ \o c.keys]
    /\ trusted' = [trusted EXCEPT ![p] = @ \/ (c.e.s.active /\ ~e[p].s.active)]

\* cb_friend_message
Receive(p) ==
    /\ up[p]
    /\ net[p] # <<>>
    /\ \E c \in {e2ee_rx(Ctx(p), Head(net[p]))} :
          /\ Done(p, c, Tail(net[p]))
          /\ tries' = [tries EXCEPT ![p] = Counted(@, c)]
    /\ UNCHANGED <<up, store, spent, setup>>

\* the user types the next text; fold: its frame carries a re-key fold
Type(p, fold) ==
    /\ spent.texts < setup.texts
    /\ fold => spent.folds < setup.folds /\ e[p].s.active
    /\ spent' = [spent EXCEPT !.texts = @ + 1, !.folds = IF fold THEN @ + 1 ELSE @]
    /\ Done(p, send_message(Ctx(p), spent.texts + 1, fold), net[p])
    /\ UNCHANGED <<up, store, tries, setup>>

\* e2ee_tick after five seconds: the INIT again, and what the transport owes
Tick(p) ==
    LET s == e[p].s
        c == [Ctx(p) EXCEPT !.e.age = IF @ \in {NoAge, FallbackAge} THEN @ ELSE @ + 1]
        d == IF s.pend THEN Send(c, [t |-> "INIT", id |-> s.init]) ELSE c
    IN  /\ setup.prompt => \A q \in Peer : net[q] = <<>>
        /\ s.pend => Copies(net[Other(p)], "INIT") < MaxInits
        /\ \E x \in {e2ee_rel_poll(d)} :
              /\ Done(p, x, net[p])
              /\ tries' = [tries EXCEPT ![p] = Counted(@, x)]
        /\ UNCHANGED <<up, store, spent, setup>>

\* cb_friend_connection, online: flush the queue, then start a handshake
Connect(p) ==
    LET c == offline_flush_friend([Ctx(p) EXCEPT !.up = TRUE])
        d == IF c.e.s.active \/ c.e.s.pend THEN c ELSE e2ee_start(c)
    IN  /\ ~up[p]
        /\ up' = [up EXCEPT ![p] = TRUE]
        /\ \E x \in {d} :
              /\ Done(p, x, net[p])
              /\ tries' = [tries EXCEPT ![p] = Counted(0, x)]
        /\ UNCHANGED <<store, spent, setup>>

\* cb_self_connection, online: offline_flush_all
SelfOnline(p) ==
    /\ up[p]
    /\ e[p].oq # <<>>
    /\ Done(p, tt_oq_save(offline_flush_friend(Ctx(p))), net[p])
    /\ UNCHANGED <<up, store, tries, spent, setup>>

\* both sides lose the connection and what was on the way
LinkDown ==
    /\ up' = [p \in Peer |-> FALSE]
    /\ net' = [p \in Peer |-> <<>>]

Drop ==
    /\ spent.drops < setup.drops
    /\ \E p \in Peer : up[p]
    /\ spent' = [spent EXCEPT !.drops = @ + 1]
    /\ LinkDown
    /\ UNCHANGED <<e, store, fresh, shown, trusted, tries, keys, setup>>

\* tt_session_store_save: only an active session is written, without its stash
Saved(x) == IF x.s.active THEN [fresh_engine EXCEPT !.s = x.s, !.rel = x.rel]
            ELSE fresh_engine

\* tt_oq_load: every entry is expected to have the mark that tt_oq_save writes
\* once, so only the first is read (OfflineQueue has the format)
tt_oq_load(file) == IF file = <<>> THEN <<>> ELSE <<Head(file)>>

\* mutant: the enforcement does not survive the restart
Loaded_forgets(x, f) ==
    [f EXCEPT !.oq = tt_oq_load(x.file), !.file = x.file, !.required = f.s.active]

\* start-up: the queue and the enforcement have files of their own, and a
\* restored session is enforced
Loaded(x, f) ==
    [f EXCEPT !.oq = tt_oq_load(x.file), !.file = x.file,
              !.required = x.required \/ f.s.active]

Restart(p) ==
    /\ spent.restarts < setup.restarts
    /\ spent' = [spent EXCEPT !.restarts = @ + 1]
    /\ store' = [store EXCEPT ![p] = Saved(e[p])]
    /\ e' = [e EXCEPT ![p] = Loaded([@ EXCEPT !.file = e[p].oq], Saved(@))]
    /\ trusted' = [trusted EXCEPT ![p] = @ \/ e[p].s.active]
    /\ LinkDown
    /\ UNCHANGED <<fresh, shown, tries, keys, setup>>

Crash(p) ==
    /\ spent.crashes < setup.crashes
    /\ spent' = [spent EXCEPT !.crashes = @ + 1]
    /\ e' = [e EXCEPT ![p] = Loaded(@, store[p])]
    /\ trusted' = [trusted EXCEPT ![p] = @ \/ store[p].s.active]
    /\ LinkDown
    /\ UNCHANGED <<store, fresh, shown, tries, keys, setup>>

\* TT_CMD_E2EE_ENFORCE: the user sets or lifts the enforcement
Enforce(p) ==
    /\ spent.toggles < setup.toggles
    /\ spent' = [spent EXCEPT !.toggles = @ + 1]
    /\ e' = [e EXCEPT ![p].required = ~@]
    /\ trusted' = [trusted EXCEPT ![p] = ~e[p].required]
    /\ UNCHANGED <<up, net, store, fresh, shown, tries, keys, setup>>

Next ==
    \/ \E p \in Peer :
          \/ Receive(p)
          \/ \E fold \in BOOLEAN : Type(p, fold)
          \/ Tick(p)
          \/ Connect(p)
          \/ SelfOnline(p)
          \/ Restart(p)
          \/ Crash(p)
          \/ Enforce(p)
    \/ Drop

\* toxcore reconnects friends and delivers, and the engine loop ticks
Fairness ==
    \A p \in Peer : WF_vars(Receive(p)) /\ WF_vars(Connect(p)) /\ WF_vars(Tick(p))

Spec == Init /\ [][Next]_vars /\ Fairness

-----------------------------------------------------------------------------
(* Properties                                                              *)

Texts == 0..setup.texts

\* The engine stays within its arrays and is in one of the handshake's states.
TypeOK ==
    \A p \in Peer :
        LET s == e[p].s r == e[p].rel
        IN  /\ ~(s.active /\ s.pend) /\ (s.pend => s.ini)
            /\ s.snd \in Nat \ {0} /\ s.rcv \in Nat \ {0} /\ s.gap \subseteq 1..(s.rcv - 1)
            /\ Len(r.sent) <= SentMax /\ \A i \in 1..Len(r.sent) : r.sent[i].msg \in Texts
            /\ Len(e[p].stash) <= PendingMax
            /\ Range(e[p].stash \o e[p].oq \o e[p].file \o shown[p]) \subseteq Texts
            /\ e[p].age \in NoAge..FallbackAge /\ tries[p] \in 0..FallbackAge

Quiet == \A p \in Peer : Copies(net[p], "INIT") + Copies(net[p], "REPLY") = 0

\* When both sessions are active and no handshake frame is on the way, the two
\* peers have the same root (so the same verification code) and opposite roles.
Agreement ==
    (Quiet /\ e[1].s.active /\ e[2].s.active) =>
        /\ e[1].s.root = e[2].s.root
        /\ e[1].s.ini # e[2].s.ini

\* Once a session was active, no text is sent in the clear any more, through
\* restarts, crashes and lost handshakes, unless the user lifts the enforcement.
NoSilentDowngrade ==
    [][\A p \in Peer :
          Copies(net'[Other(p)], "TEXT") > Copies(net[Other(p)], "TEXT")
              => ~trusted[p]]_vars

\* No message key seals two frames, whatever is lost, restarted or crashes.
NoKeyReuseEver == \A p \in Peer : IsInjective(keys[p])

\* As long as no peer crashes, no message key seals two frames: folds, lost
\* connections and orderly restarts keep the chains moving forward.
NoKeyReuse == spent.crashes = 0 => NoKeyReuseEver

\* Without a crash and a fold, no text is displayed twice, through lost
\* connections, re-sends, the offline queue and orderly restarts.
ShownOnce ==
    (spent.crashes = 0 /\ spent.folds = 0) => \A p \in Peer : IsInjective(shown[p])

\* A buffered text is a text that was typed, not zeros: what is kept for a
\* re-send can be re-sent.
BufferIntact ==
    \A p \in Peer : \A i \in 1..Len(e[p].rel.sent) : e[p].rel.sent[i].msg # Blank

\* An ACK on the way covers only seqs its sender has received: it is past them
\* and none of them is missing.
AckContiguous ==
    \A p \in Peer : \A i \in 1..Len(net[p]) :
        LET f == net[p][i] s == e[Other(p)].s
        IN  (f.t = "ACK" /\ f.root = s.root) =>
                f.upto < s.rcv /\ s.gap \cap 1..f.upto = {}

Undisturbed == spent.drops + spent.restarts + spent.crashes = 0

\* On a connection that lasts, a text goes out in the clear only after the
\* handshake was tried for the whole fallback time, however slow the network.
FallbackEarned ==
    [][\A p \in Peer :
          (Undisturbed /\ Copies(net'[Other(p)], "TEXT") > Copies(net[Other(p)], "TEXT"))
              => tries[p] >= FallbackAge]_vars

\* The friends end up, and stay, in a session they share, on a connection that lasts: a
\* REPLY that is lost with the connection is not sent again (LostReply of MCChatE2EE).
Settles ==
    <>[](/\ \A p \in Peer : e[p].s.active
         /\ e[1].s.root = e[2].s.root)

MaxTexts == Max({x.texts : x \in Setups})

\* What a peer has typed and still keeps somewhere is displayed in the end.
AllShown ==
    \A m \in 1..MaxTexts :
        (spent.texts >= m) ~> \E p \in Peer : Contains(shown[p], m)
=============================================================================
