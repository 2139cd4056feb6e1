---------------------------- MODULE MCChatE2EE ----------------------------
(* The histories of a chat that the runs look at.                          *)
EXTENDS ChatE2EE

Calm == [texts |-> 2, folds |-> 0, drops |-> 0, restarts |-> 0, crashes |-> 0,
         toggles |-> 0, prompt |-> TRUE]

\* two friends meet for the first time and type
FirstMeeting == {[Calm EXCEPT !.texts = 3, !.folds = 1]}

\* the network is slow, or a friend goes away and comes back, in an orderly way
\* or not
Disturbed == {[Calm EXCEPT !.prompt = FALSE],
              [Calm EXCEPT !.restarts = 1, !.crashes = 1, !.toggles = 1],
              [Calm EXCEPT !.drops = 1, !.restarts = 1, !.toggles = 1],
              [Calm EXCEPT !.drops = 1, !.restarts = 1, !.folds = 1]}

\* the connection is lost while the handshake is under way
LostReply == {[Calm EXCEPT !.texts = 0, !.drops = 1]}

\* a crash after an orderly restart
RestartThenCrash == {[Calm EXCEPT !.texts = 3, !.restarts = 1, !.crashes = 1]}

\* one lost connection, without and with a re-key
OneDrop == {[Calm EXCEPT !.drops = 1], [Calm EXCEPT !.drops = 1, !.folds = 1]}
=============================================================================
