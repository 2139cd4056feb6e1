-------------------------- MODULE MCFileTransfer --------------------------
(* The transfers and failures that the runs of FileTransfer look at.       *)
EXTENDS FileTransfer

Calm == [files |-> 1, offers |-> 2, avatars |-> 0, busy |-> 0, cancels |-> FALSE,
         alt |-> FALSE, twice |-> FALSE, drops |-> 0, restarts |-> 0, crashes |-> 0,
         errors |-> 0, full |-> 0, refused |-> 0]

\* a file sent three times, with cancellations and a lost connection, and with a
\* restart, files that cannot be opened and a choice of places; two files and one
\* free slot; two files and an index of one; a picture that changes; a picture
\* and a file; a crash and a failing write
Transfers == {[Calm EXCEPT !.offers = 3, !.cancels = TRUE, !.drops = 1],
              [Calm EXCEPT !.offers = 3, !.alt = TRUE, !.restarts = 1, !.errors = 2],
              [Calm EXCEPT !.files = 2, !.busy = 1, !.cancels = TRUE, !.errors = 1],
              [Calm EXCEPT !.files = 2, !.offers = 3, !.drops = 1],
              [Calm EXCEPT !.offers = 0, !.avatars = 3],
              [Calm EXCEPT !.offers = 1, !.avatars = 2, !.drops = 1, !.restarts = 1,
                           !.refused = 1],
              [Calm EXCEPT !.crashes = 1, !.full = 1, !.restarts = 1]}

\* a receiver that crashes
Crashing == {[Calm EXCEPT !.crashes = 1]}

\* a file that is sent again while it is still on the way
Twice == {[Calm EXCEPT !.twice = TRUE]}

\* a receiver whose disk is full for a while
DiskFull == {[Calm EXCEPT !.full = 1]}

\* a chunk that toxcore refuses, and a picture
Mixed == {[Calm EXCEPT !.avatars = 1, !.drops = 1, !.refused = 1]}
=============================================================================
