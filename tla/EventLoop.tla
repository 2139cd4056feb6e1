----------------------------- MODULE EventLoop -----------------------------
(***************************************************************************)
(* The two threads of the client and the two bounded queues between them:  *)
(* the tox thread (src/tox_thread.c, tox_thread_main) pushes events on     *)
(* "out" and takes commands from "in"; the consumer (the Tk loop of        *)
(* src/ui/ui_tk.c, or a headless mode) does the opposite, answers the      *)
(* passphrase dialog at start-up, and in the end stops and joins the tox   *)
(* thread.                                                                 *)
(*                                                                         *)
(* What is done under a queue's mutex is one step; pthread_cond_wait       *)
(* releases it, so a thread that waits is asleep until a signal picks it   *)
(* (or it wakes for no reason) and then looks at the queue again.          *)
(***************************************************************************)
EXTENDS Integers, FiniteSets, FiniteSetsExt

CONSTANTS
    Cap,           \* TT_QUEUE_CAP
    Setups         \* the kinds of client and of use to look at, see Setup

\* gui: the Tk front end or a headless mode; canFail: the engine may fail to
\* start; canClose: the user closes the window, or presses Ctrl-C; burst: events
\* one tox_iterate or one command pushes at most; events, commands, replies:
\* bounds on the events pushed, on the user's commands and on the commands that
\* handle_event itself posts
Setup == [gui : BOOLEAN, canFail : BOOLEAN, canClose : BOOLEAN, burst : Nat,
          events : Nat, commands : Nat, replies : Nat]

ASSUME LoopAssumption ==
    /\ Cap \in Nat \ {0}
    /\ \A x \in Setups : x \in Setup

Q == {"in", "out"}
Thread == {"tox", "ui"}

VARIABLES
    ring,      \* each TTQueue's items, head and count
    asleep,    \* the threads that wait on its condition variable
    made,      \* events pushed on each queue so far
    got,       \* events popped from each queue so far
    tox,       \* the tox thread: where it is, how many events it has still to
               \* push and where it goes then
    ui,        \* where the consumer is
    stop,      \* t->stop
    pass,      \* the passphrase: none yet, given or cancelled
    dialog,    \* the passphrase dialog is open
    spent,     \* how much of each bound is used up
    setup      \* the kind of client and of use, which do not change

vars == <<ring, asleep, made, got, tox, ui, stop, pass, dialog, spent, setup>>

Event == [n : Nat, kind : {"plain", "passphrase", "shutdown", "command"}]

NoEvent == [n |-> 0, kind |-> "plain"]

-----------------------------------------------------------------------------
(* The queue                                                               *)

\* tt_queue_init
tt_queue_init == [items |-> [i \in 0..(Cap - 1) |-> NoEvent], head |-> 0, count |-> 0]

Full(q) == ring[q].count = Cap
Empty(q) == ring[q].count = 0
First(q) == ring[q].items[ring[q].head]

\* pthread_cond_signal wakes one of the threads that wait, if there is one
Signal(q) ==
    IF asleep[q] = {} THEN UNCHANGED asleep
    ELSE \E t \in asleep[q] : asleep' = [asleep EXCEPT ![q] = @ \ {t}]

Enqueued(r, ev) ==
    [items |-> [r.items EXCEPT ![(r.head + r.count) % Cap] = ev],
     head |-> r.head, count |-> r.count + 1]

Dequeued(r) == [items |-> r.items, head |-> (r.head + 1) % Cap, count |-> r.count - 1]

\* tt_queue_push by thread t: waits while the queue is full
Sleep(t, q) ==
    /\ Full(q)
    /\ asleep' = [asleep EXCEPT ![q] = @ \cup {t}]
    /\ UNCHANGED <<ring, made, got>>

Put(q, kind) ==
    /\ ~Full(q)
    /\ ring' = [ring EXCEPT ![q] = Enqueued(@, [n |-> made[q] + 1, kind |-> kind])]
    /\ made' = [made EXCEPT ![q] = @ + 1]
    /\ Signal(q)
    /\ UNCHANGED got

\* mutant: the consumer does not signal that there is room
Take_silent(q) ==
    /\ ~Empty(q)
    /\ ring' = [ring EXCEPT ![q] = Dequeued(@)]
    /\ got' = [got EXCEPT ![q] = @ + 1]
    /\ UNCHANGED <<made, asleep>>

\* tt_queue_pop_timed of a queue that is not empty
Take(q) ==
    /\ ~Empty(q)
    /\ ring' = [ring EXCEPT ![q] = Dequeued(@)]
    /\ got' = [got EXCEPT ![q] = @ + 1]
    /\ Signal(q)
    /\ UNCHANGED made

Awake(t) == \A q \in Q : t \notin asleep[q]

NoQueue == UNCHANGED <<ring, asleep, made, got>>

-----------------------------------------------------------------------------
(* The tox thread                                                          *)

Init ==
    /\ ring = [q \in Q |-> tt_queue_init]
    /\ asleep = [q \in Q |-> {}]
    /\ made = [q \in Q |-> 0]
    /\ got = [q \in Q |-> 0]
    /\ setup \in Setups
    /\ tox = [pc |-> IF setup.gui THEN "ask" ELSE "boot", push |-> 0, then |-> "loop"]
    /\ ui = "idle"
    /\ stop = FALSE
    /\ pass = "none"
    /\ dialog = FALSE
    /\ spent = [events |-> 0, commands |-> 0, replies |-> 0]

\* tt_passphrase_acquire: post the request, the first event of all
Ask ==
    /\ tox.pc = "ask"
    /\ Put("out", "passphrase")
    /\ tox' = [tox EXCEPT !.pc = "await"]
    /\ UNCHANGED <<ui, stop, pass, dialog, spent, setup>>

\* mutant: only a passphrase ends the wait
Answered_if_given ==
    /\ tox.pc = "await"
    /\ pass = "given"
    /\ tox' = [tox EXCEPT !.pc = "boot"]
    /\ NoQueue
    /\ UNCHANGED <<ui, stop, pass, dialog, spent, setup>>

\* the answer: start the engine, or give up
Answered ==
    /\ tox.pc = "await"
    /\ pass # "none"
    /\ tox' = [tox EXCEPT !.pc = IF pass = "given" THEN "boot" ELSE "refuse"]
    /\ NoQueue
    /\ UNCHANGED <<ui, stop, pass, dialog, spent, setup>>

\* a proxy that is no address, a key that cannot be derived, a profile that the
\* passphrase does not open, tox_new without a Tox
BootFails ==
    /\ setup.canFail
    /\ tox.pc \in {"ask", "boot"}
    /\ tox' = [tox EXCEPT !.pc = "refuse"]
    /\ NoQueue
    /\ UNCHANGED <<ui, stop, pass, dialog, spent, setup>>

\* "refusing to start": TT_EV_SHUTDOWN is the only event since the request for
\* the passphrase, and the thread returns
Refuse ==
    /\ tox.pc = "refuse"
    /\ Put("out", "shutdown")
    /\ tox' = [tox EXCEPT !.pc = "done"]
    /\ UNCHANGED <<ui, stop, pass, dialog, spent, setup>>

\* up to k events more, then on to pc
Events(k, pc) ==
    /\ spent.events + k <= setup.events
    /\ spent' = [spent EXCEPT !.events = @ + k]
    /\ tox' = [pc |-> "push", push |-> k, then |-> pc]

\* the events of a new engine: the Tox ID, the name, the friends
Boot ==
    /\ tox.pc = "boot"
    /\ \E k \in 0..setup.burst : Events(k, "loop")
    /\ NoQueue
    /\ UNCHANGED <<ui, stop, pass, dialog, setup>>

\* while (!t->stop): leave, or tox_iterate, whose callbacks push events
Iterate ==
    /\ tox.pc = "loop"
    /\ \/ /\ stop
          /\ tox' = [tox EXCEPT !.pc = "done"]
          /\ UNCHANGED spent
       \/ /\ ~stop
          /\ \E k \in 0..setup.burst : Events(k, "drain")
    /\ NoQueue
    /\ UNCHANGED <<ui, stop, pass, dialog, setup>>

\* tt_queue_push of the next event
PushEvent ==
    /\ tox.pc = "push"
    /\ Awake("tox")
    /\ \/ /\ tox.push = 0
          /\ tox' = [tox EXCEPT !.pc = tox.then]
          /\ NoQueue
       \/ /\ tox.push > 0
          /\ Put("out", "plain")
          /\ tox' = [tox EXCEPT !.push = @ - 1]
       \/ tox.push > 0 /\ Sleep("tox", "out") /\ UNCHANGED tox
    /\ UNCHANGED <<ui, stop, pass, dialog, spent, setup>>

\* mutant: the last command is left in the queue
Drain_leaves_one ==
    /\ tox.pc = "drain"
    /\ \/ /\ ring["in"].count <= 1
          /\ tox' = [tox EXCEPT !.pc = "loop"]
          /\ NoQueue
          /\ UNCHANGED spent
       \/ /\ ring["in"].count > 1
          /\ Take("in")
          /\ \E k \in 0..setup.burst : Events(k, "drain")
    /\ UNCHANGED <<ui, stop, pass, dialog, setup>>

\* tt_queue_pop_timed(in, 0) and handle_cmd, which may push events, until empty
Drain ==
    /\ tox.pc = "drain"
    /\ \/ /\ Empty("in")
          /\ tox' = [tox EXCEPT !.pc = "loop"]
          /\ NoQueue
          /\ UNCHANGED spent
       \/ /\ Take("in")
          /\ \E k \in 0..setup.burst : Events(k, "drain")
    /\ UNCHANGED <<ui, stop, pass, dialog, setup>>

-----------------------------------------------------------------------------
(* The consumer                                                            *)

\* poll_events: pop until empty.  The headless modes wait up to half a second.
Poll ==
    /\ ui = "idle"
    /\ Awake("ui")
    /\ Empty("out")
    /\ ~setup.gui
    /\ asleep' = [asleep EXCEPT !["out"] = @ \cup {"ui"}]
    /\ UNCHANGED <<ring, made, got, tox, ui, stop, pass, dialog, spent, setup>>

\* handle_event: the passphrase dialog, the shutdown, or a display that may
\* post a command (GROUP_SYNC for a group that gained a peer)
HandleEvent ==
    /\ ui = "idle"
    /\ Awake("ui")
    /\ Take("out")
    /\ LET kind == First("out").kind IN
       \/ /\ kind = "passphrase"
          /\ dialog' = TRUE
          /\ UNCHANGED <<ui, spent>>
       \/ /\ kind = "shutdown"
          /\ ui' = "leave"
          /\ UNCHANGED <<dialog, spent>>
       \/ /\ kind = "plain"
          /\ UNCHANGED <<ui, dialog, spent>>
       \/ /\ kind = "plain"
          /\ spent.replies < setup.replies
          /\ spent' = [spent EXCEPT !.replies = @ + 1]
          /\ ui' = "post"
          /\ UNCHANGED dialog
    /\ UNCHANGED <<tox, stop, pass, setup>>

\* the user gives a command
Command ==
    /\ ui = "idle"
    /\ Awake("ui")
    /\ spent.commands < setup.commands
    /\ spent' = [spent EXCEPT !.commands = @ + 1]
    /\ ui' = "post"
    /\ NoQueue
    /\ UNCHANGED <<tox, stop, pass, dialog, setup>>

\* tt_queue_post on "in"
Post ==
    /\ ui = "post"
    /\ Awake("ui")
    /\ \/ Put("in", "command") /\ ui' = "idle"
       \/ Sleep("ui", "in") /\ UNCHANGED ui
    /\ UNCHANGED <<tox, stop, pass, dialog, spent, setup>>

\* cc_pass_ok, cc_pass_cancel: the answer, the signal, and the dialog closes
AnswerDialog ==
    /\ ui = "idle"
    /\ dialog
    /\ pass' \in {"given", "cancelled"}
    /\ dialog' = FALSE
    /\ NoQueue
    /\ UNCHANGED <<tox, ui, stop, spent, setup>>

\* the window is closed, or Ctrl-C sets g_stop
Close ==
    /\ setup.canClose
    /\ ui = "idle"
    /\ Awake("ui")
    /\ ui' = "leave"
    /\ dialog' = FALSE
    /\ NoQueue
    /\ UNCHANGED <<tox, stop, pass, spent, setup>>

\* mutant: the thread is joined without being told to stop
Leave_untold ==
    /\ ui = "leave"
    /\ ui' = "join"
    /\ NoQueue
    /\ UNCHANGED <<tox, stop, pass, dialog, spent, setup>>

\* tt_tox_thread_stop: raise stop, then join
Leave ==
    /\ ui = "leave"
    /\ stop' = TRUE
    /\ ui' = "join"
    /\ NoQueue
    /\ UNCHANGED <<tox, pass, dialog, spent, setup>>

Join ==
    /\ ui = "join"
    /\ tox.pc = "done"
    /\ ui' = "exit"
    /\ NoQueue
    /\ UNCHANGED <<tox, stop, pass, dialog, spent, setup>>

\* a wait ends without a signal: its time is over, or for no reason
WakeUp(t) ==
    /\ \E q \in Q : t \in asleep[q] /\ asleep' = [asleep EXCEPT ![q] = @ \ {t}]
    /\ UNCHANGED <<ring, made, got, tox, ui, stop, pass, dialog, spent, setup>>

ToxStep ==
    \/ Ask \/ Answered \/ BootFails \/ Refuse \/ Boot
    \/ Iterate \/ PushEvent \/ Drain

UiStep == Poll \/ HandleEvent \/ Post \/ Leave \/ Join

Next ==
    \/ ToxStep
    \/ UiStep
    \/ Command
    \/ AnswerDialog
    \/ Close
    \/ \E t \in Thread : WakeUp(t)

\* both threads run; nothing is assumed of the user, nor of the wake-ups
\* without a signal
Fairness == WF_vars(ToxStep) /\ WF_vars(UiStep)

Spec == Init /\ [][Next]_vars /\ Fairness

-----------------------------------------------------------------------------
(* Properties                                                              *)

\* The ring stays inside its array, and what a queue holds is exactly what was
\* pushed and not yet popped, oldest first: no event is lost, repeated or
\* overtaken.
InOrder ==
    \A q \in Q :
        /\ ring[q].head < Cap /\ ring[q].count <= Cap
        /\ got[q] + ring[q].count = made[q]
        /\ \A i \in 0..(ring[q].count - 1) :
              ring[q].items[(ring[q].head + i) % Cap].n = got[q] + 1 + i

\* One condition variable and one signal at a time serve producers and
\* consumers: no thread sleeps once it could go on.
SleepsForCause ==
    /\ "tox" \in asleep["out"] => Full("out")
    /\ "ui" \in asleep["in"] => Full("in")
    /\ "ui" \in asleep["out"] => Empty("out")

\* A thread that waits for room in a queue gets it: the back-pressure ends.
Backpressure ==
    /\ "tox" \in asleep["out"] ~> "tox" \notin asleep["out"]
    /\ "ui" \in asleep["in"] ~> "ui" \notin asleep["in"]

MaxPosted == Max({x.commands + x.replies : x \in Setups})

\* Each thread waits for room in the queue that the other one should empty.
Jammed ==
    /\ tox.pc = "push" /\ tox.push > 0 /\ Full("out")
    /\ ui = "post" /\ Full("in")

\* Every command is taken by the tox thread, once the passphrase is settled and
\* until the client is told to stop, unless the threads come to wait for each other:
\* both push with a blocking tt_queue_push, so two full queues stop them for good.
CommandsServed ==
    \A n \in 1..MaxPosted :
        (made["in"] >= n /\ tox.pc \notin {"ask", "await"})
            ~> (got["in"] >= n \/ stop \/ Jammed)

\* The thread that is joined waits for something only its joiner could do: answer the
\* passphrase dialog, or take an event.
JoinedWaiting ==
    /\ ui = "join"
    /\ \/ tox.pc = "await" /\ pass = "none"
       \/ tox.pc = "push" /\ tox.push > 0 /\ Full("out")

\* When the consumer leaves its loop the program ends, unless it joins a tox thread that
\* waits for it: tt_tox_thread_stop raises stop, but neither answers the passphrase
\* (pass_cancel is not set) nor empties the queue, and the tox thread looks at stop at the
\* top of its loop only, although tox_thread.h:346 has that wait end with the UI thread.
Terminates == (ui = "leave") ~> (ui = "exit" \/ JoinedWaiting)

\* Once the passphrase dialog is answered, with a passphrase or a refusal, the engine
\* comes to run or the program ends, unless it is being left as above.
Unlocked == (pass # "none") ~> (tox.pc = "loop" \/ ui = "exit" \/ JoinedWaiting)
=============================================================================
