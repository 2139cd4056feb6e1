-------------------------------- MODULE Rekey --------------------------------
(***************************************************************************)
(* The re-key protocol of an established session between two peers: the    *)
(* TTRekey part of src/session.c in both directions at once, with the      *)
(* parked carrier of a tunnel session and the drain of it in src/tunnel.c. *)
(*                                                                         *)
(* A peer's re-key key pair (KEM and DH, rotated together) is a number,    *)
(* and so is the root of a direction: the k-th pair and the k-th root.  A  *)
(* REKEY frame names the pair it was made for; the receiver computes the   *)
(* sender's new root exactly when that is the pair it holds, and otherwise *)
(* the wrong root 0 (tt_kem_dec has implicit rejection: no error).         *)
(*                                                                         *)
(* Lossless packets are a FIFO of bounded length (toxcore refuses a packet *)
(* that does not fit: SENDQ); datagrams are lost and reordered at will.    *)
(***************************************************************************)
EXTENDS Ratchet, FiniteSets

CONSTANTS
    Before,       \* payload frames each peer has sent when the behaviour starts
    Setups        \* the kinds of session and of traffic to look at, see Setup

\* lossy: s->lossy, a tunnel session (TRUE) or a chat session; longTexts: some
\* texts leave no room for a re-key header in their frame; flight: capacity of
\* the lossless queue of one direction; window: payload frames a peer sends
\* between two frames it receives; payload, datagram: bounds on the payload
\* frames each peer sends and on the datagrams on the way to it
Setup == [lossy : BOOLEAN, longTexts : BOOLEAN, flight : Nat \ {0},
          window : Nat \ {0}, payload : Nat, datagram : Nat]

ASSUME RekeyAssumption ==
    /\ Before \in 0..RekeyEvery
    /\ \A x \in Setups : x \in Setup

Peer == {1, 2}

Other(p) == 3 - p

VARIABLES
    s,       \* the TTSession of each peer: send, recv and the TTRekey fields
    wire,    \* lossless frames on the way to each peer
    dgram,   \* datagrams on the way to each peer (lost if never delivered)
    fault,   \* what became of a lossless frame that did not open: "restart" or
             \* "ignored"
    sent,    \* payload frames each peer has sent
    burst,   \* payload frames each peer has sent since it last heard the other
    setup    \* the kind of session and its traffic, which do not change

vars == <<s, wire, dgram, fault, sent, burst, setup>>

NoKeys == 0   \* a pair or a root that is no pair and no root

\* establish() leaves fresh ratchets and a fresh, unpublished pair
established(p) ==
    [send |-> ratchet_reset(1, IF p = 1 THEN "i" ELSE "r"),
     recv |-> ratchet_reset(1, IF p = 1 THEN "r" ELSE "i"),
     pair |-> 1, peer_have |-> FALSE, peer_kem |-> NoKeys, peer_eph |-> NoKeys,
     rekey_due |-> FALSE, awaiting_peer |-> FALSE, published |-> FALSE,
     post_fold_publish |-> FALSE, publish_back |-> FALSE, carrier |-> <<>>]

-----------------------------------------------------------------------------
(* emit_frame                                                              *)

AutoDue(t) == ~t.awaiting_peer /\ t.send.since_fold >= RekeyEvery

\* the auto-re-key trigger
Triggered(t) == [t EXCEPT !.rekey_due = @ \/ AutoDue(t)]

\* tt_session_rekey_pending
rekey_pending(t) ==
    \/ AutoDue(t)
    \/ t.rekey_due /\ (t.peer_have \/ ~t.awaiting_peer)
    \/ t.post_fold_publish
    \/ t.publish_back

\* the header a frame gets, in the order emit_frame tries them
Header(t) ==
    IF t.post_fold_publish                     THEN "republish"
    ELSE IF t.rekey_due /\ t.peer_have         THEN "rekey"
    ELSE IF t.rekey_due /\ ~t.awaiting_peer    THEN "publish"
    ELSE IF t.publish_back                     THEN "answer"
    ELSE "none"

\* the flags set while the header is built, before anything is encrypted
Built(t, h) ==
    CASE h = "republish" -> [t EXCEPT !.published = TRUE,
                                      !.post_fold_publish = FALSE,
                                      !.publish_back = FALSE]
      [] h = "publish"   -> [t EXCEPT !.published = TRUE,
                                      !.awaiting_peer = TRUE,
                                      !.rekey_due = FALSE]
      [] h = "answer"    -> [t EXCEPT !.published = TRUE,
                                      !.publish_back = FALSE]
      [] OTHER           -> t

\* the frame: kind, the sender's pair, and for a REKEY the pair it targets
Sealed(t, h) ==
    [seq |-> t.send.seq, key |-> msg_key_at(t.send, t.send.seq),
     kind |-> CASE h = "none" -> "plain" [] h = "rekey" -> "REKEY"
                [] OTHER -> "KEMPUB",
     pair |-> t.pair,
     kem  |-> IF h = "rekey" THEN t.peer_kem ELSE NoKeys,
     eph  |-> IF h = "rekey" THEN t.peer_eph ELSE NoKeys,
     root |-> IF h = "rekey" THEN t.send.root + 1 ELSE NoKeys]

\* mutant: our own pair is rotated on the send fold
Emitted_rotates(t, h) ==
    IF h = "rekey"
    THEN [t EXCEPT !.send = ratchet_fold(send_key(t.send), t.send.root + 1),
                   !.rekey_due = FALSE, !.peer_have = FALSE,
                   !.pair = @ + 1, !.post_fold_publish = TRUE]
    ELSE [t EXCEPT !.send = [send_key(t.send) EXCEPT !.since_fold = @ + 1]]

\* mutant: the peer's spent keys are kept after the fold
Emitted_keeps_peer(t, h) ==
    IF h = "rekey"
    THEN [t EXCEPT !.send = ratchet_fold(send_key(t.send), t.send.root + 1),
                   !.rekey_due = FALSE]
    ELSE [t EXCEPT !.send = [send_key(t.send) EXCEPT !.since_fold = @ + 1]]

\* the sender after the frame: a REKEY folds and spends the peer's keys
Emitted(t, h) ==
    IF h = "rekey"
    THEN [t EXCEPT !.send = ratchet_fold(send_key(t.send), t.send.root + 1),
                   !.rekey_due = FALSE, !.peer_have = FALSE]
    ELSE [t EXCEPT !.send = [send_key(t.send) EXCEPT !.since_fold = @ + 1]]

\* emit_frame as a whole: the new session and the frame
emit_frame(t, h) ==
    LET u == Built(t, h) IN [s |-> Emitted(u, h), f |-> Sealed(u, h)]

\* tt_session_send_lossy: a payload frame of a tunnel never has a header
emit_plain(t) == emit_frame(Triggered(t), "none")

\* one pass of the drain loop (tunnel_carrier_retry, tcp_send_ex) over session
\* and queue: re-offer the parked carrier or build the one that is due; what
\* the queue refuses stays parked
Pass(t, w) ==
    LET room == Len(w) < setup.flight
        keep == [s |-> t, w |-> w]
    IN  IF t.carrier # <<>>
        THEN {IF room THEN [s |-> [t EXCEPT !.carrier = <<>>], w |-> w \o t.carrier]
                      ELSE keep}
        ELSE IF rekey_pending(t)
        THEN {IF room THEN [s |-> e.s, w |-> Append(w, e.f)]
                      ELSE [s |-> [e.s EXCEPT !.carrier = <<e.f>>], w |-> w] :
              e \in {emit_frame(u, Header(u)) : u \in {Triggered(t)}}}
        ELSE {keep}

\* the loop: at most two passes (the set has one member)
Drained(t, w) == UNION {Pass(d.s, d.w) : d \in Pass(t, w)}

-----------------------------------------------------------------------------
(* tt_session_feed of a DATA frame that opens                              *)

\* a REKEY folds the receive direction and rotates the pair it was made for
ApplyRekey(t, f) ==
    [t EXCEPT !.recv = ratchet_fold(@, IF f.kem = t.pair /\ f.eph = t.pair
                                       THEN f.root ELSE NoKeys),
              !.peer_eph = f.pair,
              !.pair = @ + 1,
              !.published = FALSE,
              !.post_fold_publish = TRUE]

\* mutant: keys that arrive while we wait do not end the wait
ApplyKempub_waits(t, f) ==
    [t EXCEPT !.peer_kem = f.pair, !.peer_eph = f.pair, !.peer_have = TRUE,
              !.publish_back = @ \/ (~t.awaiting_peer /\ ~t.published)]

\* a KEMPUB brings the peer's keys: fold if we waited for them, else answer
ApplyKempub(t, f) ==
    [t EXCEPT !.peer_kem = f.pair, !.peer_eph = f.pair, !.peer_have = TRUE,
              !.awaiting_peer = FALSE,
              !.rekey_due = @ \/ t.awaiting_peer,
              !.publish_back = @ \/ (~t.awaiting_peer /\ ~t.published)]

Fed(t, f) ==
    LET u == [t EXCEPT !.recv = Commit(@, f)]
    IN  CASE f.kind = "REKEY"  -> ApplyRekey(u, f)
          [] f.kind = "KEMPUB" -> ApplyKempub(u, f)
          [] OTHER             -> u

-----------------------------------------------------------------------------
(* Actions                                                                 *)

\* Before payload frames of each peer have been sent and received, in order
Exchanged(t) ==
    [t EXCEPT !.send.seq = 1 + Before, !.send.since_fold = Before,
              !.recv.seq = 1 + Before]

Init ==
    /\ s = [p \in Peer |-> Exchanged(established(p))]
    /\ wire = [p \in Peer |-> <<>>]
    /\ dgram = [p \in Peer |-> {}]
    /\ fault = [p \in Peer |-> "none"]
    /\ sent = [p \in Peer |-> 0]
    /\ burst = [p \in Peer |-> 0]
    /\ setup \in Setups

\* the traffic: flow control (TT_TUNNEL_TCP_WINDOW) bounds what is unanswered
SendPayload(p) ==
    /\ sent[p] < setup.payload
    /\ burst[p] < setup.window
    /\ sent' = [sent EXCEPT ![p] = @ + 1]
    /\ burst' = [burst EXCEPT ![p] = @ + 1]

\* chat: tt_session_send.  fits: the text leaves room for the header in the
\* frame.  If it does not, the flags and the chain step are already taken.  toxcore
\* takes every frame here: one it refuses (e2ee_send_frame returns 0) is lost with
\* its fold, and the handshake of ChatE2EE has to repair that.
SendText(p, fits) ==
    LET t == Triggered(s[p])
        h == Header(t)
        e == emit_frame(t, h)
        q == Other(p)
    IN  /\ ~setup.lossy
        /\ SendPayload(p)
        /\ Len(wire[q]) < setup.flight
        /\ IF fits \/ h = "none"
           THEN /\ s' = [s EXCEPT ![p] = e.s]
                /\ wire' = [wire EXCEPT ![q] = Append(@, e.f)]
           ELSE /\ s' = [s EXCEPT ![p] = [Built(t, h) EXCEPT !.send = send_key(@)]]
                /\ UNCHANGED wire
        /\ UNCHANGED <<dgram, fault, setup>>

\* tunnel: the poll retries an outstanding carrier
PollCarrier(p) ==
    /\ setup.lossy
    /\ s[p].carrier # <<>> \/ rekey_pending(s[p])
    /\ \E d \in Drained(s[p], wire[Other(p)]) :
          /\ s' = [s EXCEPT ![p] = d.s]
          /\ wire' = [wire EXCEPT ![Other(p)] = d.w]
    /\ UNCHANGED <<dgram, fault, sent, burst, setup>>

\* a payload the drain leaves no way for: dropped (UDP) or held back (TCP)
Blocked(p) ==
    /\ setup.lossy
    /\ SendPayload(p)
    /\ \E d \in Drained(s[p], wire[Other(p)]) :
          /\ d.s.carrier # <<>>
          /\ s' = [s EXCEPT ![p] = d.s]
          /\ wire' = [wire EXCEPT ![Other(p)] = d.w]
    /\ UNCHANGED <<dgram, fault, setup>>

\* tunnel, UDP (tunnel_send_datagram)
SendDatagram(p) ==
    /\ setup.lossy
    /\ Cardinality(dgram[Other(p)]) < setup.datagram
    /\ SendPayload(p)
    /\ \E d \in Drained(s[p], wire[Other(p)]) :
          /\ d.s.carrier = <<>>
          /\ \E e \in {emit_plain(d.s)} :
                /\ s' = [s EXCEPT ![p] = e.s]
                /\ dgram' = [dgram EXCEPT ![Other(p)] = @ \cup {e.f}]
          /\ wire' = [wire EXCEPT ![Other(p)] = d.w]
    /\ UNCHANGED <<fault, setup>>

\* tunnel, TCP (tcp_send_ex): a frame the transport refuses is thrown away, its
\* chain step is not taken back
SendTcp(p) ==
    /\ setup.lossy
    /\ SendPayload(p)
    /\ \E d \in Drained(s[p], wire[Other(p)]) :
          /\ d.s.carrier = <<>>
          /\ \E e \in {emit_plain(d.s)} :
                /\ s' = [s EXCEPT ![p] = e.s]
                /\ wire' = [wire EXCEPT ![Other(p)] =
                      IF Len(d.w) < setup.flight THEN Append(d.w, e.f) ELSE d.w]
    /\ UNCHANGED <<dgram, fault, setup>>

Opens(t, f) == Verdict(t.recv, f) \in {"OK", "OK_RING"}

\* the engine on a lossless frame that did not open (tt_tunnel_e2ee_rx,
\* e2ee_rx): a desync restarts the handshake, any other status is passed over
Recovery(status) ==
    IF status \in {"DECODE_FAIL", "FAIL_RING", "REPLAY"} THEN "restart" ELSE "ignored"

\* a lossless frame
Receive(p) ==
    LET f == Head(wire[p]) IN
    /\ wire[p] # <<>>
    /\ wire' = [wire EXCEPT ![p] = Tail(@)]
    /\ IF Opens(s[p], f)
       THEN /\ s' = [s EXCEPT ![p] = Fed(@, f)]
            /\ UNCHANGED fault
       ELSE /\ fault' = [fault EXCEPT ![p] = Recovery(Verdict(s[p].recv, f))]
            /\ UNCHANGED s
    /\ burst' = [burst EXCEPT ![p] = 0]
    /\ UNCHANGED <<dgram, sent, setup>>

\* a datagram: one that does not open is dropped
ReceiveDatagram(p, f) ==
    /\ f \in dgram[p]
    /\ dgram' = [dgram EXCEPT ![p] = @ \ {f}]
    /\ s' = IF Opens(s[p], f) THEN [s EXCEPT ![p] = Fed(@, f)] ELSE s
    /\ UNCHANGED <<wire, fault, sent, burst, setup>>

Next ==
    \E p \in Peer :
        \/ \E fits \in {TRUE, ~setup.longTexts} : SendText(p, fits)
        \/ PollCarrier(p)
        \/ Blocked(p)
        \/ SendDatagram(p)
        \/ SendTcp(p)
        \/ Receive(p)
        \/ \E f \in dgram[p] : ReceiveDatagram(p, f)

\* the engine polls every tunnel on every tick, and a lossless packet that was
\* accepted arrives
Fairness == \A p \in Peer : WF_vars(PollCarrier(p)) /\ WF_vars(Receive(p))

Spec == Init /\ [][Next]_vars /\ Fairness

-----------------------------------------------------------------------------
(* Properties                                                              *)

DataFrame ==
    [seq : Nat, key : Key, kind : {"plain", "KEMPUB", "REKEY"}, pair : Nat,
     kem : Nat, eph : Nat, root : Nat]

SessionType ==
    [send : RatchetState, recv : RatchetState, pair : Nat, peer_have : BOOLEAN,
     peer_kem : Nat, peer_eph : Nat, rekey_due : BOOLEAN,
     awaiting_peer : BOOLEAN, published : BOOLEAN,
     post_fold_publish : BOOLEAN, publish_back : BOOLEAN,
     carrier : Seq(DataFrame)]

\* Types; at most one carrier is parked (TTRekey.carrier holds one frame) and
\* the skipped-key store stays within its array.
TypeOK ==
    /\ s \in [Peer -> SessionType]
    /\ \A p \in Peer : Len(s[p].carrier) <= 1
    /\ \A p \in Peer : Len(s[p].recv.skipped) <= SkippedMax
    /\ wire \in [Peer -> Seq(DataFrame)]
    /\ fault \in [Peer -> {"none", "restart", "ignored"}]
    /\ \A p \in Peer : dgram[p] \subseteq DataFrame

\* No lossless frame that toxcore accepted fails to open: whatever folds cross on
\* the wire, both peers stay on the same chain.
NoDesync == \A p \in Peer : fault[p] # "restart"

\* A lossless frame that is MaxSkip or more ahead of the receiver is answered by
\* a new handshake: no such frame is passed over without recovery.
BeyondSkipReinits == \A p \in Peer : fault[p] # "ignored"

\* every frame on its way to p, in the order p will see it
OnTheWay(p) == wire[p] \o s[Other(p)].carrier

\* A REKEY on the wire (or parked) is made for the pair its receiver holds when
\* it gets there: no fold targets a pair that is already retired, as long as fewer
\* than RekeyEvery frames of a peer are unanswered.  The TCP window of a tunnel sees
\* to that (16 of 64); a one-sided flow of datagrams has no such bound.
FoldTargetsLivePair ==
    \A p \in Peer : \A i \in 1..Len(OnTheWay(p)) :
        LET f == OnTheWay(p)[i]
            rekeysBefore == Cardinality({j \in 1..(i - 1) :
                                           OnTheWay(p)[j].kind = "REKEY"})
        IN  f.kind = "REKEY" =>
                /\ f.kem = s[p].pair + rekeysBefore
                /\ f.eph = s[p].pair + rekeysBefore

Kempub(w) == \E i \in 1..Len(w) : w[i].kind = "KEMPUB"

\* A peer that waits for the other's keys is owed them: its own publication is
\* still on the way, or the answer is pending or under way.
AnswerOwed ==
    \A p \in Peer :
        s[p].awaiting_peer =>
            \/ Kempub(OnTheWay(Other(p)))
            \/ s[Other(p)].publish_back \/ s[Other(p)].post_fold_publish
            \/ Kempub(OnTheWay(p))

\* On a tunnel a re-key that was begun is completed: the wait for the peer's
\* keys ends, and a parked carrier is handed to the transport.
RekeyCompletes ==
    \A p \in Peer : /\ (setup.lossy /\ s[p].awaiting_peer) ~> ~s[p].awaiting_peer
                    /\ s[p].carrier # <<>> ~> s[p].carrier = <<>>
=============================================================================
