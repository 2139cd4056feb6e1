---------------------------- MODULE MCEventLoop ----------------------------
(* The clients and their use that the runs of EventLoop look at.           *)
EXTENDS EventLoop

\* a headless client whose events overflow the queue, and which may not start
Bot == [gui |-> FALSE, canFail |-> TRUE, canClose |-> FALSE, burst |-> 3,
        events |-> 6, commands |-> 1, replies |-> 1]

\* a client that is stopped while its commands overflow the queue
Stopped == [gui |-> FALSE, canFail |-> FALSE, canClose |-> TRUE, burst |-> 2,
            events |-> 2, commands |-> 5, replies |-> 0]

\* the window with its passphrase dialog, a wrong passphrase included
Window == [gui |-> TRUE, canFail |-> TRUE, canClose |-> FALSE, burst |-> 2,
           events |-> 3, commands |-> 1, replies |-> 1]

\* events whose handling posts more commands than the queue holds
Chatty == [Bot EXCEPT !.canFail = FALSE, !.burst = 4, !.events = 8, !.replies = 4]

\* a client that is stopped while its events overflow the queue
StoppedBusy == [Stopped EXCEPT !.burst = 3, !.events = 5, !.commands = 1]

\* the window is closed while the dialog is open
ClosedLocked == [Window EXCEPT !.canFail = FALSE, !.canClose = TRUE, !.commands = 0, !.replies = 0]

Clients == {Bot, Stopped, Window, Chatty, StoppedBusy, ClosedLocked}
=============================================================================
