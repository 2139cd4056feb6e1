--------------------------- MODULE RatchetChannel ---------------------------
(***************************************************************************)
(* One direction of an established session: the sender's TTRatchet, the    *)
(* receiver's, and a network between them that loses, duplicates, reorders *)
(* and corrupts DATA frames (the tunnel's view of it; the chat's FIFO is   *)
(* one of its behaviours).  The DATA part of tt_session_feed is one action *)
(* per outcome, emit_frame one action per kind of frame.                   *)
(*                                                                         *)
(* When the two sides fold, and that both compute the same new root, is    *)
(* the subject of module Rekey; here the sender folds whenever it likes    *)
(* and a REKEY frame carries its new root.                                 *)
(***************************************************************************)
EXTENDS Ratchet

CONSTANTS
    MaxSeq   \* bound on the frames the sender emits

ASSUME ChannelAssumption == MaxSeq \in Nat

VARIABLES
    send,    \* the sender's s->send
    recv,    \* the receiver's s->recv
    net,     \* every frame ever put on the wire: delivery does not remove it
    log      \* the seqs of the frames the receiver opened, in order

vars == <<send, recv, net, log>>

\* a DATA frame; root is the new root of a REKEY frame and 0 in a plain one
Frame == [seq : Nat, key : Key, root : Nat]

\* a frame whose bytes were damaged on the way opens under no key
CorruptKey == [root |-> 0, lab |-> "i", step |-> 0]

\* mutant: the fold is applied before the frame is committed
Opened_folds_first(r, f) ==
    IF f.root = 0 THEN Commit(r, f) ELSE Commit(ratchet_fold(r, f.root), f)

\* what the receiver does with an opened frame: commit, then a REKEY folds
Opened(r, f) ==
    IF f.root = 0 THEN Commit(r, f) ELSE ratchet_fold(Commit(r, f), f.root)

-----------------------------------------------------------------------------
Init ==
    /\ send = ratchet_reset(1, "i")
    /\ recv = ratchet_reset(1, "i")
    /\ net = {}
    /\ log = <<>>

\* emit_frame, no header
EmitPlain ==
    /\ send.seq <= MaxSeq
    /\ net' = net \cup
          {[seq |-> send.seq, key |-> msg_key_at(send, send.seq), root |-> 0]}
    /\ send' = [send_key(send) EXCEPT !.since_fold = @ + 1]
    /\ UNCHANGED <<recv, log>>

\* emit_frame, REKEY header: sealed under the old chain, then the fold
EmitRekey ==
    /\ send.seq <= MaxSeq
    /\ net' = net \cup
          {[seq |-> send.seq, key |-> msg_key_at(send, send.seq),
            root |-> send.root + 1]}
    /\ send' = ratchet_fold(send_key(send), send.root + 1)
    /\ UNCHANGED <<recv, log>>

\* tt_session_feed opens the frame
Deliver(f) ==
    /\ Verdict(recv, f) \in {"OK", "OK_RING"}
    /\ recv' = Opened(recv, f)
    /\ log' = Append(log, f.seq)
    /\ UNCHANGED <<send, net>>

\* tt_session_feed takes a stored key, the frame does not open, the key goes back
RejectRing(f) ==
    /\ Verdict(recv, f) = "FAIL_RING"
    /\ recv' = Restore(recv, f)
    /\ UNCHANGED <<send, net, log>>

\* SEQ_TOO_OLD, REPLAY and a DECODE_FAIL on the chain leave the ratchet alone
Reject(f) ==
    /\ Verdict(recv, f) \in {"TOO_OLD", "REPLAY", "DECODE_FAIL"}
    /\ UNCHANGED vars

Receive(f) == Deliver(f) \/ RejectRing(f) \/ Reject(f)

\* a copy of f that was damaged on the way
Damaged(f) == [f EXCEPT !.key = CorruptKey]

Next ==
    \/ EmitPlain
    \/ EmitRekey
    \/ \E f \in net : Receive(f) \/ Receive(Damaged(f))

Spec == Init /\ [][Next]_vars

\* toxcore retransmits a lossless packet until it arrives: every frame on the
\* wire is delivered if it stays acceptable
FairSpec ==
    /\ Spec
    /\ WF_vars(\E f \in net : f.seq = recv.seq /\ Deliver(f))

-----------------------------------------------------------------------------
(* Properties                                                              *)

\* Both ratchets are well formed, and the skipped-key store never holds more
\* entries than the fixed array TTRatchet.skipped has.
TypeOK ==
    /\ send \in RatchetState
    /\ recv \in RatchetState
    /\ net \subseteq Frame
    /\ log \in Seq(Nat)
    /\ Len(recv.skipped) <= SkippedMax

\* No frame is accepted twice, whatever the network repeats, and none that was
\* never sent (tt_session_feed: a replayed or corrupt frame does not open).
NoReplay ==
    /\ \A i, j \in 1..Len(log) : log[i] = log[j] => i = j
    /\ \A i \in 1..Len(log) : \E f \in net : f.seq = log[i]

\* The verdict on every genuine frame is the right one: a frame of the current
\* chain within MAX_SKIP opens, one from before the last fold or already
\* accepted never opens again, one from after a fold not yet seen is refused
\* without loss, and a stored key always opens the frame it is stored for.
VerdictSound ==
    \A f \in net :
        LET v == Verdict(recv, f) IN
        /\ v # "FAIL_RING"
        /\ f.key.root < recv.root => v = "REPLAY"
        /\ f.key.root > recv.root => v \in {"DECODE_FAIL", "TOO_OLD"}
        /\ (\E i \in 1..Len(log) : log[i] = f.seq) => v = "REPLAY"
        /\ /\ f.key.root = recv.root
           /\ f.seq >= recv.seq
           /\ f.seq - recv.seq < MaxSkip
           => v = "OK"

Ring(r) == {r.skipped[i] : i \in 1..Len(r.skipped)}

\* A frame that does not open consumes nothing: neither the chain position nor
\* any stored key ("receive hygiene" of tt_session_feed).
Hygiene ==
    [][log' = log => /\ recv'.seq = recv.seq
                     /\ recv'.root = recv.root
                     /\ Ring(recv') = Ring(recv)]_vars

\* Once both sides are at the same root they are on the same chain, and while
\* the receiver is behind a fold, the REKEY frame that takes it across is on
\* the wire and still ahead of it.
Aligned ==
    /\ recv.root = send.root => recv.base = send.base /\ recv.seq <= send.seq
    /\ recv.root < send.root =>
          \E f \in net : /\ f.key = msg_key_at(recv, f.seq)
                         /\ f.root = recv.root + 1
                         /\ f.seq >= recv.seq

\* Every frame that is sent is passed by the receiver in the end, whatever
\* arrived out of order, twice or damaged before it.
CatchesUp == \A n \in 1..MaxSeq : (send.seq > n) ~> (recv.seq > n)
=============================================================================
