----------------------------- MODULE TextQueue ------------------------------
(***************************************************************************)
(* What the offline queue keeps of its promise, without rings, tokens and  *)
(* bounds: each friend's texts wait in the order of typing, at most Limit  *)
(* of them (the oldest gives way), and leave from the front.  A start      *)
(* brings back one text of those that were saved, the first of a friend,   *)
(* and the others are lost.  OfflineQueue implements this specification.   *)
(***************************************************************************)
EXTENDS Integers, Sequences, SequencesExt

CONSTANTS
    Friends, \* how many friends: friend numbers are 1..Friends
    Limit    \* how many texts may wait for one friend

VARIABLES
    waiting, \* the texts that wait for each friend, oldest first
    saved,   \* what waited when the queue was saved last
    typed,   \* texts typed so far: a text is its number
    sent,    \* what each friend was sent, in order
    lost     \* texts given up

vars == <<waiting, saved, typed, sent, lost>>

Friend == 1..Friends
None == [fn \in Friend |-> <<>>]

Init == waiting = None /\ saved = None /\ typed = 0 /\ sent = None /\ lost = {}

\* A text for a friend who is away; the queue is saved.
Type(fn) ==
    LET full == Len(waiting[fn]) = Limit
        rest == IF full THEN Tail(waiting[fn]) ELSE waiting[fn]
    IN  /\ typed' = typed + 1
        /\ waiting' = [waiting EXCEPT ![fn] = Append(rest, typed + 1)]
        /\ saved' = waiting'
        /\ lost' = IF full THEN lost \cup {Head(waiting[fn])} ELSE lost
        /\ UNCHANGED sent

\* The texts without those in refused.
Accepted(texts, refused) ==
    LET taken[i \in 0..Len(texts)] ==
            IF i = 0 THEN <<>>
            ELSE IF texts[i] \in refused THEN taken[i - 1]
            ELSE Append(taken[i - 1], texts[i])
    IN  taken[Len(texts)]

\* The first k texts leave; those in refused are not taken by the network.
Hand(fn, k, refused) ==
    LET gone == SubSeq(waiting[fn], 1, k)
    IN  /\ waiting' = [waiting EXCEPT ![fn] = SubSeq(@, k + 1, Len(@))]
        /\ sent' = [sent EXCEPT ![fn] = @ \o Accepted(gone, refused)]
        /\ lost' = lost \cup refused
        /\ saved' \in {saved, waiting'}
        /\ UNCHANGED typed

\* All texts of a friend are given up; the queue is saved.
Forget(fn) ==
    /\ waiting' = [waiting EXCEPT ![fn] = <<>>]
    /\ saved' = waiting'
    /\ lost' = lost \cup Range(waiting[fn])
    /\ UNCHANGED <<typed, sent>>

All(w) == UNION {Range(w[fn]) : fn \in Friend}

\* The program starts again with the first text of what was saved, and gives up what
\* waited besides: although offline_queue.h has the queued text survive restarts, the
\* file has one mark and a mark is looked for before every entry.
Recover(q) ==
    /\ saved' = q
    /\ \/ (\A fn \in Friend : q[fn] = <<>>) /\ waiting' = None
       \/ \E fn \in Friend :
             q[fn] # <<>> /\ waiting' = [None EXCEPT ![fn] = <<Head(q[fn])>>]
    /\ lost' = lost \cup (All(waiting) \ All(waiting'))
    /\ UNCHANGED <<typed, sent>>

Next ==
    \/ \E fn \in Friend :
          \/ Type(fn) \/ Forget(fn)
          \/ \E k \in 0..Len(waiting[fn]) :
                \E refused \in SUBSET Range(SubSeq(waiting[fn], 1, k)) : Hand(fn, k, refused)
    \/ Recover(waiting) \/ Recover(saved)

Spec == Init /\ [][Next]_vars
=============================================================================
