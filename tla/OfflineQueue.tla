---------------------------- MODULE OfflineQueue ----------------------------
(***************************************************************************)
(* The queue of texts for friends who are offline: src/offline_queue.c,    *)
(* and the places of src/tox_thread.c that add to it, flush it, save it    *)
(* and load it.                                                            *)
(*                                                                         *)
(* A text is its number in the order of typing.  The file is a sequence of *)
(* tokens: the mark that tt_oq_save writes, and one token per entry.  The  *)
(* file is replaced by a rename, so a crash leaves the old one or the new. *)
(***************************************************************************)
EXTENDS Integers, Sequences, FiniteSets, SequencesExt

CONSTANTS
    Friends,      \* how many friends: friend numbers are 1..Friends
    Limit,        \* TT_OQ_MAX_PER_FRIEND
    MaxTexts,     \* bound on the texts typed
    MaxFlushes,   \* bound on the flushes
    MaxRestarts,  \* bound on the restarts
    MaxCrashes    \* bound on the crashes

ASSUME QueueAssumption ==
    /\ {Friends, Limit} \subseteq Nat \ {0}
    /\ {MaxTexts, MaxFlushes, MaxRestarts, MaxCrashes} \subseteq Nat

Friend == 1..Friends

VARIABLES
    oq,        \* each friend's ring: the slots, the head and the count
    file,      \* the tokens of <profile>.oq
    typed,     \* texts typed so far
    sent,      \* what each friend was sent, in order
    lost,      \* texts given up: for the limit, with their friend, refused, blocked,
               \* not found in the file
    spent      \* how much of each bound is used up

vars == <<oq, file, typed, sent, lost, spent>>

Free == 0
Mark == [fn |-> 0, text |-> 0]

EmptyRing == [msgs |-> [i \in 0..(Limit - 1) |-> Free], head |-> 0, count |-> 0]

-----------------------------------------------------------------------------
(* src/offline_queue.c                                                     *)

\* mutant: in a full ring the newest text makes room
tt_oq_add_drops_newest(r, text) ==
    LET full == r.count = Limit
        n    == IF full THEN r.count - 1 ELSE r.count
    IN  [r EXCEPT !.msgs[(r.head + n) % Limit] = text, !.count = n + 1]

\* tt_oq_add on one friend's ring: the oldest makes room
tt_oq_add(r, text) ==
    LET full == r.count = Limit
        head == IF full THEN (r.head + 1) % Limit ELSE r.head
        n    == IF full THEN r.count - 1 ELSE r.count
    IN  [msgs |-> [r.msgs EXCEPT ![(head + n) % Limit] = text],
         head |-> head, count |-> n + 1]

\* one text after the other
AddAll(r, texts) ==
    LET ring[i \in 0..Len(texts)] ==
            IF i = 0 THEN r ELSE tt_oq_add(ring[i - 1], texts[i])
    IN  ring[Len(texts)]

\* the texts of a ring, oldest first
Texts(r) == [i \in 1..r.count |-> r.msgs[(r.head + i - 1) % Limit]]

\* tt_oq_take_all leaves the head where the texts ended
tt_oq_take_all(r) == [msgs |-> r.msgs, head |-> (r.head + r.count) % Limit, count |-> 0]

\* tt_oq_save: the mark, then every friend's texts
tt_oq_save(q) ==
    LET Entries(fn) == [i \in 1..q[fn].count |-> [fn |-> fn, text |-> Texts(q[fn])[i]]]
    IN  <<Mark>> \o FlattenSeq([fn \in Friend |-> Entries(fn)])

\* tt_oq_load: an entry is read, and added, after a mark, while the file goes on
\* like that
tt_oq_load(f) ==
    LET Pair(i) == /\ 2 * i <= Len(f)
                   /\ f[2 * i - 1] = Mark
                   /\ f[2 * i].fn \in Friend
        Read == {i \in 1..Len(f) : \A j \in 1..i : Pair(j)}
        rings[i \in 0..Cardinality(Read)] ==
            IF i = 0 THEN [fn \in Friend |-> EmptyRing]
            ELSE [rings[i - 1] EXCEPT ![f[2 * i].fn] = tt_oq_add(@, f[2 * i].text)]
    IN  rings[Cardinality(Read)]

-----------------------------------------------------------------------------
(* The tox thread                                                          *)

Init ==
    /\ oq = [fn \in Friend |-> EmptyRing]
    /\ file = <<>>
    /\ typed = 0
    /\ sent = [fn \in Friend |-> <<>>]
    /\ lost = {}
    /\ spent = [flushes |-> 0, restarts |-> 0, crashes |-> 0]

\* TT_CMD_SEND_MESSAGE to a friend who is not connected: queued and saved
SendMessage(fn) ==
    /\ typed < MaxTexts
    /\ typed' = typed + 1
    /\ oq' = [oq EXCEPT ![fn] = tt_oq_add(@, typed + 1)]
    /\ file' = tt_oq_save(oq')
    /\ lost' = IF oq[fn].count = Limit THEN lost \cup {Head(Texts(oq[fn]))} ELSE lost
    /\ UNCHANGED <<sent, spent>>

\* mutant: the texts that were sent are requeued with the others
Requeued_all(texts, k) == texts

\* what goes back into the ring when the friend is gone again after k texts
Requeued(texts, k) == SubSeq(texts, k + 1, Len(texts))

\* the texts that toxcore takes, in order
Accepted(texts, refused) ==
    LET taken[i \in 0..Len(texts)] ==
            IF i = 0 THEN <<>>
            ELSE IF texts[i] \in refused THEN taken[i - 1]
            ELSE Append(taken[i - 1], texts[i])
    IN  taken[Len(texts)]

\* offline_flush_friend: k texts leave, then the friend is gone again and the
\* others are queued anew.  Encrypted texts go to the session and the queue is
\* saved; the plaintext path does not save it, and a text that toxcore refuses
\* for another reason is skipped.
Flush(fn, k, encrypted, refused) ==
    /\ spent.flushes < MaxFlushes
    /\ oq[fn].count > 0
    /\ k <= oq[fn].count
    /\ encrypted => refused = {}
    /\ spent' = [spent EXCEPT !.flushes = @ + 1]
    /\ LET texts == Texts(oq[fn]) IN
       /\ refused \subseteq Range(SubSeq(texts, 1, k))
       /\ sent' = [sent EXCEPT ![fn] = @ \o Accepted(SubSeq(texts, 1, k), refused)]
       /\ oq' = [oq EXCEPT ![fn] = AddAll(tt_oq_take_all(@), Requeued(texts, k))]
    /\ file' = IF encrypted THEN tt_oq_save(oq') ELSE file
    /\ lost' = lost \cup refused
    /\ UNCHANGED typed

\* offline_flush_friend for a friend who does not support the encryption that is
\* required: the texts are taken, none is sent, and none goes back
FlushBlocked(fn) ==
    /\ spent.flushes < MaxFlushes
    /\ oq[fn].count > 0
    /\ spent' = [spent EXCEPT !.flushes = @ + 1]
    /\ oq' = [oq EXCEPT ![fn] = tt_oq_take_all(@)]
    /\ file' = tt_oq_save(oq')
    /\ lost' = lost \cup Range(Texts(oq[fn]))
    /\ UNCHANGED <<typed, sent>>

\* TT_CMD_DELETE_FRIEND: the friend's texts are taken and forgotten
DeleteFriend(fn) ==
    /\ oq[fn].count > 0
    /\ oq' = [oq EXCEPT ![fn] = tt_oq_take_all(@)]
    /\ file' = tt_oq_save(oq')
    /\ lost' = lost \cup Range(Texts(oq[fn]))
    /\ UNCHANGED <<typed, sent, spent>>

\* the texts that wait for anyone
Queued(q) == UNION {Range(Texts(q[fn])) : fn \in Friend}

\* shutdown saves the queue, start-up loads it
Restart ==
    /\ spent.restarts < MaxRestarts
    /\ spent' = [spent EXCEPT !.restarts = @ + 1]
    /\ file' = tt_oq_save(oq)
    /\ oq' = tt_oq_load(file')
    /\ lost' = lost \cup (Queued(oq) \ Queued(oq'))
    /\ UNCHANGED <<typed, sent>>

\* the program dies: it starts with the file of the last save
Crash ==
    /\ spent.crashes < MaxCrashes
    /\ spent' = [spent EXCEPT !.crashes = @ + 1]
    /\ oq' = tt_oq_load(file)
    /\ lost' = lost \cup (Queued(oq) \ Queued(oq'))
    /\ UNCHANGED <<file, typed, sent>>

Next ==
    \/ \E fn \in Friend :
          \/ SendMessage(fn)
          \/ \E k \in 0..Limit, encrypted \in BOOLEAN, refused \in SUBSET Range(Texts(oq[fn])) :
                Flush(fn, k, encrypted, refused)
          \/ FlushBlocked(fn)
          \/ DeleteFriend(fn)
    \/ Restart
    \/ Crash

Spec == Init /\ [][Next]_vars

-----------------------------------------------------------------------------
(* Properties                                                              *)

Increasing(s) == \A i, j \in 1..Len(s) : i < j => s[i] < s[j]

\* Each friend gets the texts in the order they were typed and none twice: what
\* was sent and then what waits is increasing, through a full ring (which stays
\* inside its array), flushes that are cut short and restarts.  After a crash a
\* plaintext flush that was not saved is repeated.
InOrder ==
    \A fn \in Friend :
        /\ oq[fn].head < Limit /\ oq[fn].count <= Limit
        /\ spent.crashes = 0 => Increasing(sent[fn] \o Texts(oq[fn]))

\* the texts of the entries that tt_oq_save wrote for a friend, which lie together
Saved(f, fn) ==
    LET Of    == {i \in 1..Len(f) : f[i].fn = fn}
        first == CHOOSE i \in Of : \A j \in Of : i <= j
    IN  [k \in 1..Cardinality(Of) |-> f[first + k - 1].text]

Abstract == INSTANCE TextQueue WITH
    waiting <- [fn \in Friend |-> Texts(oq[fn])],
    saved   <- [fn \in Friend |-> Saved(file, fn)]

\* The rings, the flushes that take everything out and put the rest back, and the
\* file of tokens implement the abstract queue: a text leaves from the front, or is
\* given up where TextQueue says so, and none disappears, comes back or overtakes another
\* in another way.  A restart and a crash are among the places where texts are given up:
\* one text of the file comes back and all others that waited are lost, which is not the
\* "queued text survives restarts" of offline_queue.h:5 (QueueSurvives is false).
ImplementsTextQueue == Abstract!Spec

\* A restart keeps the queue.
QueueSurvives ==
    [][spent'.restarts > spent.restarts =>
          \A fn \in Friend : Texts(oq'[fn]) = Texts(oq[fn])]_vars
=============================================================================
