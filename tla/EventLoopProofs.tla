-------------------------- MODULE EventLoopProofs --------------------------
(***************************************************************************)
(* What EventLoop promises, for every capacity of the queues and every     *)
(* kind of client and of use.                                              *)
(***************************************************************************)
EXTENDS EventLoop, QueueLemmas

-----------------------------------------------------------------------------
(* The inductive invariant                                                 *)

Slots == 0..(Cap - 1)
Ring == [items : [Slots -> Event], head : Slots, count : 0..Cap]
ToxPc == {"ask", "await", "boot", "refuse", "push", "loop", "drain", "done"}

QueueTypes ==
    /\ ring \in [Q -> Ring]
    /\ asleep \in [Q -> SUBSET Thread]
    /\ made \in [Q -> Nat]
    /\ got \in [Q -> Nat]

TypeOK ==
    /\ QueueTypes
    /\ tox \in [pc : ToxPc, push : Nat, then : {"loop", "drain"}]
    /\ ui \in {"idle", "post", "leave", "join", "exit"}
    /\ spent \in [events : Nat, commands : Nat, replies : Nat]
    /\ setup \in Setup

\* what a queue holds, oldest first
QueueOK(r, g, m) ==
    /\ g + r.count = m
    /\ \A i \in 0..(r.count - 1) : r.items[(r.head + i) % Cap].n = g + 1 + i

QueuesOK == \A q \in Q : QueueOK(ring[q], got[q], made[q])

\* where a thread is while it sleeps: the tox thread inside tt_queue_push, the
\* consumer inside tt_queue_post or tt_queue_pop_timed
Places ==
    /\ "tox" \notin asleep["in"]
    /\ "tox" \in asleep["out"] => tox.pc = "push"
    /\ "ui" \in asleep["in"] => ui = "post"
    /\ "ui" \in asleep["out"] => ui = "idle"

IInv ==
    /\ TypeOK
    /\ QueuesOK
    /\ Places
    /\ SleepsForCause

-----------------------------------------------------------------------------
(* The rings                                                               *)

\* tt_queue_push into a ring that has room keeps the order.
LEMMA EnqueuedOK ==
    ASSUME NEW r \in Ring, NEW ev \in Event, NEW g \in Nat, NEW m \in Nat,
           r.count # Cap, QueueOK(r, g, m), ev.n = m + 1
    PROVE  Enqueued(r, ev) \in Ring /\ QueueOK(Enqueued(r, ev), g, m + 1)
  <1> DEFINE at == (r.head + r.count) % Cap
             new == Enqueued(r, ev)
  <1>0. Cap \in Nat \ {0} /\ r.head \in Slots /\ r.count \in 0..(Cap - 1)
    BY LoopAssumption DEF Ring
  <1>1. at \in Slots
    BY <1>0 DEF Slots
  <1>2. /\ new.items = [r.items EXCEPT ![at] = ev]
        /\ new.head = r.head
        /\ new.count = r.count + 1
        /\ new \in Ring
    BY <1>0, <1>1 DEF Enqueued, Ring, Slots
  <1>3. ASSUME NEW i \in 0..(new.count - 1)
        PROVE  new.items[(new.head + i) % Cap].n = g + 1 + i
    <2>1. i \in 0..r.count
      BY <1>0, <1>2, <1>3
    <2>2. (r.head + i) % Cap \in Slots
      BY <1>0, <2>1 DEF Slots
    <2>3. CASE i = r.count
      BY <2>3, <1>0, <1>1, <1>2 DEF QueueOK, Ring
    <2>4. CASE i # r.count
      <3>1. i \in 0..(r.count - 1)
        BY <2>4, <2>1, <1>0
      <3>2. (r.head + i) % Cap # at
        BY <1>0, <3>1, PlacesDiffer DEF Slots
      <3>3. new.items[(new.head + i) % Cap] = r.items[(r.head + i) % Cap]
        BY <3>2, <2>2, <1>2 DEF Ring
      <3> QED BY <3>1, <3>3 DEF QueueOK
    <2> QED BY <2>3, <2>4
  <1> QED BY <1>0, <1>2, <1>3 DEF QueueOK

\* tt_queue_pop_timed from a ring that holds something keeps the order.
LEMMA DequeuedOK ==
    ASSUME NEW r \in Ring, NEW g \in Nat, NEW m \in Nat, r.count # 0, QueueOK(r, g, m)
    PROVE  Dequeued(r) \in Ring /\ QueueOK(Dequeued(r), g + 1, m)
  <1> DEFINE new == Dequeued(r)
  <1>0. Cap \in Nat \ {0} /\ r.head \in Slots /\ r.count \in 1..Cap
    BY LoopAssumption DEF Ring
  <1>1. (r.head + 1) % Cap \in Slots
    BY <1>0 DEF Slots
  <1>2. /\ new.items = r.items
        /\ new.head = (r.head + 1) % Cap
        /\ new.count = r.count - 1
        /\ new \in Ring
    BY <1>0, <1>1 DEF Dequeued, Ring, Slots
  <1>3. ASSUME NEW i \in 0..(new.count - 1)
        PROVE  new.items[(new.head + i) % Cap].n = g + 1 + 1 + i
    <2>1. i + 1 \in 0..(r.count - 1)
      BY <1>0, <1>2
    <2>2. (((r.head + 1) % Cap) + i) % Cap = (r.head + (i + 1)) % Cap
      <3>1. /\ r.head \in 0..(Cap - 1) /\ 1 \in 0..Cap /\ i \in 0..Cap
            /\ i + 1 <= Cap
        BY <1>0, <2>1 DEF Slots
      <3> QED BY <1>0, <3>1, HeadMoves, Zenon
    <2>3. r.items[(r.head + (i + 1)) % Cap].n = g + 1 + (i + 1)
      BY <2>1 DEF QueueOK
    <2> QED BY <2>2, <2>3, <1>2
  <1> QED BY <1>0, <1>2, <1>3 DEF QueueOK

-----------------------------------------------------------------------------
(* The condition variables                                                 *)

\* Never do two threads wait on one condition variable: both wait on "out" only
\* if it is full and empty.  So a single pthread_cond_signal wakes whoever waits.
LEMMA OneWaiter ==
    ASSUME IInv, NEW q \in Q
    PROVE  \A t, u \in asleep[q] : t = u
  <1>1. asleep["in"] \subseteq {"ui"}
    BY DEF IInv, TypeOK, QueueTypes, Places, Q, Thread
  <1>2. ~("tox" \in asleep["out"] /\ "ui" \in asleep["out"])
    BY LoopAssumption DEF IInv, SleepsForCause, Full, Empty
  <1>3. asleep["out"] \subseteq {"tox", "ui"}
    BY DEF IInv, TypeOK, QueueTypes, Q, Thread
  <1> QED BY <1>1, <1>2, <1>3 DEF Q

\* pthread_cond_signal leaves nobody asleep.
LEMMA Signalled ==
    ASSUME IInv, NEW q \in Q, Signal(q)
    PROVE  asleep' = [asleep EXCEPT ![q] = {}]
  <1>1. asleep \in [Q -> SUBSET Thread]
    BY DEF IInv, TypeOK, QueueTypes
  <1>2. CASE asleep[q] = {}
    <2>1. asleep' = asleep
      BY <1>2 DEF Signal
    <2> QED BY <1>1, <1>2, <2>1
  <1>3. CASE asleep[q] # {}
    <2>1. PICK t \in asleep[q] : asleep' = [asleep EXCEPT ![q] = @ \ {t}]
      BY <1>3 DEF Signal
    <2>2. asleep[q] \ {t} = {}
      BY OneWaiter, <2>1
    <2> QED BY <1>1, <2>1, <2>2
  <1> QED BY <1>2, <1>3

\* what a push or a pop leaves behind: queue q is in order, nobody waits on it,
\* and the other queue is as it was
Served(q) ==
    /\ QueueTypes' /\ QueuesOK'
    /\ asleep' = [asleep EXCEPT ![q] = {}]
    /\ \A p \in Q : p # q => ring'[p] = ring[p]

\* tt_queue_push with room serves the queue.
LEMMA PutServes ==
    ASSUME IInv, NEW q \in Q, NEW kind \in {"plain", "passphrase", "shutdown", "command"},
           Put(q, kind)
    PROVE  Served(q)
  <1> DEFINE ev == [n |-> made[q] + 1, kind |-> kind]
  <1>1. /\ ring \in [Q -> Ring] /\ asleep \in [Q -> SUBSET Thread]
        /\ made \in [Q -> Nat] /\ got \in [Q -> Nat] /\ QueuesOK
    BY DEF IInv, TypeOK, QueueTypes
  <1>2. /\ ring[q].count # Cap
        /\ ring' = [ring EXCEPT ![q] = Enqueued(@, ev)]
        /\ made' = [made EXCEPT ![q] = @ + 1]
        /\ got' = got
    BY DEF Put, Full
  <1>3. asleep' = [asleep EXCEPT ![q] = {}]
    BY Signalled DEF Put
  <1>4. ring[q] \in Ring /\ made[q] \in Nat /\ got[q] \in Nat
    BY <1>1
  <1>5. ev \in Event /\ ev.n = made[q] + 1
    BY <1>4 DEF Event
  <1>6. Enqueued(ring[q], ev) \in Ring /\ QueueOK(Enqueued(ring[q], ev), got[q], made[q] + 1)
    <2> HIDE DEF ev
    <2>1. QueueOK(ring[q], got[q], made[q])
      BY <1>1 DEF QueuesOK
    <2> QED BY <1>2, <1>4, <1>5, <2>1, EnqueuedOK
  <1> HIDE DEF ev
  <1>7. QueueTypes'
    BY <1>1, <1>2, <1>3, <1>4, <1>6 DEF QueueTypes
  <1>8. QueuesOK'
    BY <1>1, <1>2, <1>4, <1>6 DEF QueuesOK
  <1>9. \A p \in Q : p # q => ring'[p] = ring[p]
    BY <1>1, <1>2
  <1> QED BY <1>3, <1>7, <1>8, <1>9 DEF Served

\* tt_queue_pop_timed of a queue that is not empty serves it.
LEMMA TakeServes ==
    ASSUME IInv, NEW q \in Q, Take(q)
    PROVE  Served(q)
  <1>1. /\ ring \in [Q -> Ring] /\ asleep \in [Q -> SUBSET Thread]
        /\ made \in [Q -> Nat] /\ got \in [Q -> Nat] /\ QueuesOK
    BY DEF IInv, TypeOK, QueueTypes
  <1>2. /\ ring[q].count # 0
        /\ ring' = [ring EXCEPT ![q] = Dequeued(@)]
        /\ got' = [got EXCEPT ![q] = @ + 1]
        /\ made' = made
    BY DEF Take, Empty
  <1>3. asleep' = [asleep EXCEPT ![q] = {}]
    BY Signalled DEF Take
  <1>4. ring[q] \in Ring /\ made[q] \in Nat /\ got[q] \in Nat
    BY <1>1
  <1>6. Dequeued(ring[q]) \in Ring /\ QueueOK(Dequeued(ring[q]), got[q] + 1, made[q])
    <2>1. QueueOK(ring[q], got[q], made[q])
      BY <1>1 DEF QueuesOK
    <2> QED BY <1>2, <1>4, <2>1, DequeuedOK
  <1>7. QueueTypes'
    BY <1>1, <1>2, <1>3, <1>4, <1>6 DEF QueueTypes
  <1>8. QueuesOK'
    BY <1>1, <1>2, <1>4, <1>6 DEF QueuesOK
  <1>9. \A p \in Q : p # q => ring'[p] = ring[p]
    BY <1>1, <1>2
  <1> QED BY <1>3, <1>7, <1>8, <1>9 DEF Served

\* A step that leaves the queues alone.
LEMMA NoQueueKeeps ==
    ASSUME IInv, NoQueue
    PROVE  QueueTypes' /\ QueuesOK' /\ (SleepsForCause <=> SleepsForCause')
  BY DEF IInv, TypeOK, QueueTypes, QueuesOK, NoQueue, SleepsForCause, Full, Empty

-----------------------------------------------------------------------------
(* The invariant                                                           *)

\* The client starts in the invariant.
LEMMA InitOK == Init => IInv
  <1> SUFFICES ASSUME Init PROVE IInv
    OBVIOUS
  <1>0. Cap \in Nat \ {0} /\ setup \in Setup
    BY LoopAssumption DEF Init
  <1>1. tt_queue_init \in Ring /\ tt_queue_init.count = 0
    BY <1>0 DEF tt_queue_init, Ring, Slots, Event, NoEvent
  <1>2. QueueTypes
    BY <1>1 DEF Init, QueueTypes
  <1>3. QueuesOK
    BY <1>1 DEF Init, QueuesOK, QueueOK
  <1>4. TypeOK
    BY <1>0, <1>2 DEF Init, TypeOK, ToxPc
  <1>5. Places /\ SleepsForCause
    BY DEF Init, Places, SleepsForCause, Q
  <1> QED BY <1>3, <1>4, <1>5 DEF IInv

\* Every step of the tox thread keeps the invariant.
LEMMA ToxStepOK ==
    ASSUME IInv, ToxStep
    PROVE  IInv'
  <1>0. /\ tox \in [pc : ToxPc, push : Nat, then : {"loop", "drain"}]
        /\ ui \in {"idle", "post", "leave", "join", "exit"}
        /\ spent \in [events : Nat, commands : Nat, replies : Nat]
        /\ setup \in Setup
        /\ asleep \in [Q -> SUBSET Thread]
        /\ Places /\ SleepsForCause
    BY DEF IInv, TypeOK, QueueTypes
  <1> "in" \in Q /\ "out" \in Q /\ "in" # "out"
    BY DEF Q
  <1> SUFFICES /\ QueueTypes' /\ QueuesOK' /\ Places' /\ SleepsForCause'
               /\ tox' \in [pc : ToxPc, push : Nat, then : {"loop", "drain"}]
               /\ spent' \in [events : Nat, commands : Nat, replies : Nat]
               /\ UNCHANGED <<ui, setup>>
    BY <1>0 DEF IInv, TypeOK
  \* a push on "out" finds the consumer asleep, if anybody
  <1>1. ASSUME Served("out"), "tox" \notin asleep["out"], UNCHANGED ui
        PROVE  QueueTypes' /\ QueuesOK' /\ Places' /\ SleepsForCause'
    <2>1. asleep'["out"] = {} /\ asleep'["in"] = asleep["in"] /\ ring'["in"] = ring["in"]
      BY <1>1, <1>0 DEF Served
    <2> QED BY <1>0, <1>1, <2>1 DEF Served, Places, SleepsForCause, Full, Empty
  <1>2. ASSUME NoQueue, UNCHANGED ui, tox.pc # "push" \/ "tox" \notin asleep["out"]
        PROVE  QueueTypes' /\ QueuesOK' /\ Places' /\ SleepsForCause'
    <2>1. QueueTypes' /\ QueuesOK' /\ SleepsForCause'
      BY <1>0, <1>2, NoQueueKeeps
    <2>2. asleep' = asleep
      BY <1>2 DEF NoQueue
    <2>3. Places'
      BY <1>0, <1>2, <2>2 DEF Places
    <2> QED BY <2>1, <2>3
  <1>3. ASSUME NEW k \in 0..setup.burst, NEW pc \in {"loop", "drain"}, Events(k, pc)
        PROVE  /\ tox' \in [pc : ToxPc, push : Nat, then : {"loop", "drain"}]
               /\ spent' \in [events : Nat, commands : Nat, replies : Nat]
    BY <1>0, <1>3 DEF Events, ToxPc, Setup
  <1>a. CASE Ask
    <2>1. Served("out")
      BY <1>a, PutServes DEF Ask
    <2> QED BY <1>a, <1>0, <1>1, <2>1 DEF Ask, Places, ToxPc
  <1>b. CASE Answered
    BY <1>b, <1>0, <1>2 DEF Answered, ToxPc
  <1>c. CASE BootFails
    BY <1>c, <1>0, <1>2 DEF BootFails, ToxPc
  <1>d. CASE Refuse
    <2>1. Served("out")
      BY <1>d, PutServes DEF Refuse
    <2> QED BY <1>d, <1>0, <1>1, <2>1 DEF Refuse, Places, ToxPc
  <1>e. CASE Boot
    BY <1>e, <1>0, <1>2, <1>3 DEF Boot
  <1>f. CASE Iterate
    BY <1>f, <1>0, <1>2, <1>3 DEF Iterate, ToxPc
  <1>g. CASE PushEvent
    <2>0. "tox" \notin asleep["out"] /\ UNCHANGED <<ui, spent, setup>>
      BY <1>g DEF PushEvent, Awake
    <2>1. CASE tox.push = 0 /\ tox' = [tox EXCEPT !.pc = tox.then] /\ NoQueue
      BY <2>0, <2>1, <1>0, <1>2 DEF ToxPc
    <2>2. CASE tox.push > 0 /\ Put("out", "plain") /\ tox' = [tox EXCEPT !.push = @ - 1]
      <3>1. Served("out")
        BY <2>2, PutServes
      <3>2. tox.push - 1 \in Nat
        BY <2>2, <1>0
      <3> QED BY <2>0, <2>2, <3>1, <3>2, <1>0, <1>1
    <2>3. CASE Sleep("tox", "out") /\ UNCHANGED tox
      <3>1. /\ Full("out")
            /\ asleep'["out"] = asleep["out"] \cup {"tox"} /\ asleep'["in"] = asleep["in"]
            /\ UNCHANGED <<ring, made, got>>
        BY <2>3, <1>0 DEF Sleep
      <3>2. QueueTypes' /\ QueuesOK'
        BY <2>3, <3>1 DEF IInv, TypeOK, QueueTypes, QueuesOK, Sleep, Thread
      <3>3. tox.pc = "push"
        BY <1>g DEF PushEvent
      <3> QED BY <2>0, <2>3, <3>1, <3>2, <3>3, <1>0 DEF Places, SleepsForCause, Full, Empty
    <2> QED BY <1>g, <2>1, <2>2, <2>3 DEF PushEvent
  <1>h. CASE Drain
    <2>0. tox.pc = "drain" /\ UNCHANGED <<ui, setup>>
      BY <1>h DEF Drain
    <2>1. CASE NoQueue /\ tox' = [tox EXCEPT !.pc = "loop"] /\ UNCHANGED spent
      BY <2>0, <2>1, <1>0, <1>2 DEF ToxPc
    <2>2. CASE Take("in") /\ \E k \in 0..setup.burst : Events(k, "drain")
      <3>1. Served("in")
        BY <2>2, TakeServes
      <3>2. asleep'["in"] = {} /\ asleep'["out"] = asleep["out"] /\ ring'["out"] = ring["out"]
        BY <3>1, <1>0 DEF Served
      <3>3. "tox" \notin asleep["out"]
        BY <2>0, <1>0 DEF Places
      <3> QED BY <2>0, <2>2, <3>1, <3>2, <3>3, <1>0, <1>3
              DEF Served, Places, SleepsForCause, Full, Empty
    <2> QED BY <1>h, <2>1, <2>2 DEF Drain
  <1> QED BY <1>a, <1>b, <1>c, <1>d, <1>e, <1>f, <1>g, <1>h DEF ToxStep

\* Every step of the consumer, of the user and of the clock keeps it.
LEMMA OtherStepOK ==
    ASSUME IInv,
           UiStep \/ Command \/ AnswerDialog \/ Close \/ \E t \in Thread : WakeUp(t)
    PROVE  IInv'
  <1>0. /\ tox \in [pc : ToxPc, push : Nat, then : {"loop", "drain"}]
        /\ ui \in {"idle", "post", "leave", "join", "exit"}
        /\ spent \in [events : Nat, commands : Nat, replies : Nat]
        /\ setup \in Setup
        /\ asleep \in [Q -> SUBSET Thread]
        /\ Places /\ SleepsForCause
    BY DEF IInv, TypeOK, QueueTypes
  <1> "in" \in Q /\ "out" \in Q /\ "in" # "out"
    BY DEF Q
  <1> SUFFICES /\ QueueTypes' /\ QueuesOK' /\ Places' /\ SleepsForCause'
               /\ ui' \in {"idle", "post", "leave", "join", "exit"}
               /\ spent' \in [events : Nat, commands : Nat, replies : Nat]
               /\ UNCHANGED <<tox, setup>>
    BY <1>0 DEF IInv, TypeOK
  <1>1. ASSUME NoQueue, UNCHANGED tox, Awake("ui") \/ UNCHANGED ui \/ ui \in {"leave", "join"}
        PROVE  QueueTypes' /\ QueuesOK' /\ Places' /\ SleepsForCause'
    <2>1. QueueTypes' /\ QueuesOK' /\ SleepsForCause'
      BY <1>0, <1>1, NoQueueKeeps
    <2>2. asleep' = asleep
      BY <1>1 DEF NoQueue
    <2>3. Places'
      BY <1>0, <1>1, <2>2 DEF Places, Awake
    <2> QED BY <2>1, <2>3
  <1>2. ASSUME UNCHANGED <<ring, made, got>>, asleep' \in [Q -> SUBSET Thread]
        PROVE  QueueTypes' /\ QueuesOK'
    BY <1>2 DEF IInv, TypeOK, QueueTypes, QueuesOK
  <1>a. CASE Poll
    <2>1. /\ asleep'["out"] = asleep["out"] \cup {"ui"} /\ asleep'["in"] = asleep["in"]
          /\ asleep' \in [Q -> SUBSET Thread] /\ UNCHANGED <<ring, made, got, tox, ui, spent, setup>>
          /\ ui = "idle" /\ Empty("out")
      BY <1>a, <1>0 DEF Poll, Thread
    <2> QED BY <2>1, <1>0, <1>2 DEF Places, SleepsForCause, Full, Empty
  <1>b. CASE HandleEvent
    <2>1. Served("out")
      BY <1>b, TakeServes DEF HandleEvent
    <2>2. asleep'["out"] = {} /\ asleep'["in"] = asleep["in"] /\ ring'["in"] = ring["in"]
      BY <2>1, <1>0 DEF Served
    <2>3. "ui" \notin asleep["in"] /\ UNCHANGED <<tox, setup>>
      BY <1>b DEF HandleEvent, Awake
    <2>4. /\ ui' \in {"idle", "post", "leave", "join", "exit"}
          /\ spent' \in [events : Nat, commands : Nat, replies : Nat]
      BY <1>b, <1>0 DEF HandleEvent
    <2> QED BY <2>1, <2>2, <2>3, <2>4, <1>0 DEF Served, Places, SleepsForCause, Full, Empty
  <1>c. CASE Post
    <2>0. ui = "post" /\ Awake("ui") /\ UNCHANGED <<tox, spent, setup>>
      BY <1>c DEF Post
    <2>1. CASE Put("in", "command") /\ ui' = "idle"
      <3>1. Served("in")
        BY <2>1, PutServes
      <3>2. asleep'["in"] = {} /\ asleep'["out"] = asleep["out"] /\ ring'["out"] = ring["out"]
        BY <3>1, <1>0 DEF Served
      <3> QED BY <2>0, <2>1, <3>1, <3>2, <1>0
              DEF Served, Places, SleepsForCause, Full, Empty, Awake
    <2>2. CASE Sleep("ui", "in") /\ UNCHANGED ui
      <3>1. /\ asleep'["in"] = asleep["in"] \cup {"ui"} /\ asleep'["out"] = asleep["out"]
            /\ asleep' \in [Q -> SUBSET Thread] /\ UNCHANGED <<ring, made, got>>
            /\ Full("in")
        BY <2>2, <1>0 DEF Sleep, Thread
      <3> QED BY <2>0, <2>2, <3>1, <1>0, <1>2 DEF Places, SleepsForCause, Full, Empty
    <2> QED BY <1>c, <2>1, <2>2 DEF Post
  <1>d. CASE Leave
    BY <1>d, <1>0, <1>1 DEF Leave
  <1>e. CASE Join
    BY <1>e, <1>0, <1>1 DEF Join
  <1>f. CASE Command
    BY <1>f, <1>0, <1>1 DEF Command
  <1>g. CASE AnswerDialog
    BY <1>g, <1>0, <1>1 DEF AnswerDialog
  <1>h. CASE Close
    BY <1>h, <1>0, <1>1 DEF Close
  <1>i. CASE \E t \in Thread : WakeUp(t)
    <2>1. PICK t \in Thread, q \in Q : asleep' = [asleep EXCEPT ![q] = @ \ {t}]
      BY <1>i DEF WakeUp
    <2>2. UNCHANGED <<ring, made, got, tox, ui, spent, setup>>
      BY <1>i DEF WakeUp
    <2>3. /\ asleep' \in [Q -> SUBSET Thread]
          /\ \A p \in Q : asleep'[p] \subseteq asleep[p]
      BY <2>1, <1>0
    <2> QED BY <2>2, <2>3, <1>0, <1>2 DEF Places, SleepsForCause, Full, Empty
  <1> QED BY <1>a, <1>b, <1>c, <1>d, <1>e, <1>f, <1>g, <1>h, <1>i DEF UiStep

\* The invariant holds for ever.
LEMMA Inductive == Spec => []IInv
  <1>1. ASSUME IInv, [Next]_vars
        PROVE  IInv'
    <2>1. CASE UNCHANGED vars
      BY <1>1, <2>1 DEF vars, IInv, TypeOK, QueueTypes, QueuesOK, Places, SleepsForCause,
                        Full, Empty
    <2> QED BY <1>1, <2>1, ToxStepOK, OtherStepOK DEF Next
  <1> QED BY <1>1, InitOK, PTL DEF Spec

-----------------------------------------------------------------------------
(* The theorems                                                            *)

\* No wake-up is lost: a thread sleeps on the one condition variable of a queue
\* only while it cannot go on, although producer and consumer share the variable
\* and tt_queue_push and tt_queue_pop_timed signal it once.
THEOREM NoLostWakeUp == Spec => []SleepsForCause
  <1>1. IInv => SleepsForCause
    BY DEF IInv
  <1> QED BY <1>1, Inductive, PTL

\* The rings of the event queues stay inside their arrays, and events and
\* commands come out in the order they went in, none lost and none twice.
THEOREM QueuesInOrder == Spec => []InOrder
  <1>1. IInv => InOrder
    <2> SUFFICES ASSUME IInv, NEW q \in Q
                 PROVE  /\ ring[q].head < Cap /\ ring[q].count <= Cap
                        /\ QueueOK(ring[q], got[q], made[q])
      BY DEF InOrder, QueueOK
    <2>1. ring[q] \in Ring /\ QueueOK(ring[q], got[q], made[q])
      BY DEF IInv, TypeOK, QueueTypes, QueuesOK
    <2> QED BY <2>1, LoopAssumption DEF Ring, Slots
  <1> QED BY <1>1, Inductive, PTL
=============================================================================
