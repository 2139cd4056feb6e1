------------------------------ MODULE Ratchet ------------------------------
(***************************************************************************)
(* The ratchet of one message direction (TTRatchet) and the re-key state   *)
(* of one side (TTRekey), as pure operators: src/session.c, src/session.h. *)
(*                                                                         *)
(* Key material is symbolic.  A root is a natural number: two roots are    *)
(* the same number exactly when the two sides hashed the same inputs.  A   *)
(* chain is its seed and the number of steps taken from it, so the message *)
(* key of seq n is the triple [root, lab, step] with step = n - base,      *)
(* where base is the seq the chain was (re-)seeded at.  A frame opens      *)
(* exactly when the opener holds the key it was sealed with (AEAD).        *)
(***************************************************************************)
EXTENDS Integers, Sequences

CONSTANTS
    MaxSkip,      \* TT_SESSION_MAX_SKIP: a jump of this many seqs is refused
    SkippedMax,   \* TT_SESSION_SKIPPED_MAX: capacity of the skipped-key store
    RekeyEvery    \* TT_SESSION_REKEY_EVERY: frames between two re-keys

ASSUME RatchetAssumption ==
    /\ MaxSkip \in Nat \ {0}
    /\ SkippedMax \in Nat \ {0}
    /\ RekeyEvery \in Nat \ {0}

Label == {"i", "r"}   \* chain label: initiator->responder, responder->initiator

Key == [root : Nat, lab : Label, step : Nat]

\* TTRatchetState: one direction.  since_fold counts on the send side only.
RatchetState ==
    [root : Nat, lab : Label, base : Nat, seq : Nat, since_fold : Nat,
     skipped : Seq([seq : Nat, key : Key])]

-----------------------------------------------------------------------------
(* The chain                                                               *)

ratchet_reset(root, lab) ==
    [root |-> root, lab |-> lab, base |-> 1, seq |-> 1, since_fold |-> 0,
     skipped |-> <<>>]

\* mutant: the keys skipped on the old chain survive the fold
ratchet_fold_keeps_skipped(r, newRoot) ==
    [r EXCEPT !.root = newRoot, !.base = r.seq, !.since_fold = 0]

\* seq continues; the chain re-seeds from the new root; skipped keys are void
ratchet_fold(r, newRoot) ==
    [r EXCEPT !.root = newRoot, !.base = r.seq, !.since_fold = 0,
              !.skipped = <<>>]

\* the key of seq n >= r.seq, without committing the chain
msg_key_at(r, n) == [root |-> r.root, lab |-> r.lab, step |-> n - r.base]

\* the sender's next key is msg_key_at(r, r.seq); taking it is one chain step
send_key(r) == [r EXCEPT !.seq = @ + 1]

-----------------------------------------------------------------------------
(* The skipped-key store: a FIFO of at most SkippedMax entries             *)

skipped_add(ring, e) ==
    IF Len(ring) >= SkippedMax THEN Append(Tail(ring), e) ELSE Append(ring, e)

\* every entry for the seqs the chain jumps over when it reaches n
Gap(r, n) ==
    [i \in 1..(n - r.seq) |->
        [seq |-> r.seq + i - 1, key |-> msg_key_at(r, r.seq + i - 1)]]

\* mutant: no eviction when the store is full
AddGap_unbounded(ring, gap) == ring \o gap

\* skipped_add of every entry of the gap in turn: the newest SkippedMax stay
AddGap(ring, gap) ==
    LET all == ring \o gap
    IN  IF Len(all) > SkippedMax
        THEN [i \in 1..SkippedMax |-> all[i + (Len(all) - SkippedMax)]]
        ELSE all

Stored(ring, n) == \E i \in 1..Len(ring) : ring[i].seq = n

\* skipped_take returns the FIRST entry for n and closes the hole
TakeIndex(ring, n) ==
    CHOOSE i \in 1..Len(ring) :
        /\ ring[i].seq = n
        /\ \A j \in 1..(i - 1) : ring[j].seq # n

\* mutant: the key that was taken stays in the store
Without_keeps(ring, i) == ring

Without(ring, i) ==
    [j \in 1..(Len(ring) - 1) |-> IF j < i THEN ring[j] ELSE ring[j + 1]]

-----------------------------------------------------------------------------
(* Receiving a DATA frame f = [seq, key, ...] on ratchet r: the verdict     *)
(* before decryption, the key tried, and the state afterwards.             *)

Verdict(r, f) ==
    IF f.seq >= r.seq
    THEN IF f.seq - r.seq >= MaxSkip THEN "TOO_OLD"
         ELSE IF f.key = msg_key_at(r, f.seq) THEN "OK" ELSE "DECODE_FAIL"
    ELSE IF ~Stored(r.skipped, f.seq) THEN "REPLAY"
         ELSE IF f.key = r.skipped[TakeIndex(r.skipped, f.seq)].key
              THEN "OK_RING" ELSE "FAIL_RING"

\* commit of an opened frame: fill the gap and step past it, or spend the entry
Commit(r, f) ==
    IF f.seq >= r.seq
    THEN [r EXCEPT !.skipped = AddGap(r.skipped, Gap(r, f.seq)),
                   !.seq = f.seq + 1]
    ELSE [r EXCEPT !.skipped = Without(r.skipped, TakeIndex(r.skipped, f.seq))]

\* mutant: the key tried on a damaged frame is not put back
Restore_drops(r, f) ==
    IF f.seq >= r.seq THEN r
    ELSE [r EXCEPT !.skipped = Without(r.skipped, TakeIndex(r.skipped, f.seq))]

\* a frame that did not open: only a ring entry moves, to the back of the ring
Restore(r, f) ==
    IF f.seq >= r.seq THEN r
    ELSE LET i == TakeIndex(r.skipped, f.seq)
         IN  [r EXCEPT !.skipped =
                skipped_add(Without(r.skipped, i), r.skipped[i])]
=============================================================================
