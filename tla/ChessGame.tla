------------------------------ MODULE ChessGame -----------------------------
(***************************************************************************)
(* Games of chess between friends: for every peer the engine's game per    *)
(* friend (tox_thread.c, TTChessGame), the one board window of the Tk      *)
(* front end with its mirror of the board (ui_tk.c), the command and event *)
(* queues between the two, and the lossless packets between the peers.     *)
(* A packet is lost when the link goes down, and a send is refused while   *)
(* it is down.  The rules are those of module Chess.                       *)
(***************************************************************************)
EXTENDS Chess, Sequences, SequencesExt

CONSTANTS
    Peers,
    None,       \* no friend, no game, no square
    Setups,     \* [friends: pairs of peers, moves: <<from, to>> pairs the players
                \*  try, games: invites, cuts: link failures, line: moves already
                \*  played when the model starts (<<>>: no game is on)]
    MaxCmds     \* commands a front end has waiting

ASSUME ChessAssumption ==
    /\ None \notin Peers
    /\ \A s \in Setups : /\ \A f \in s.friends : f \subseteq Peers /\ Cardinality(f) = 2
                         /\ s.games \in Nat /\ s.cuts \in Nat
                         /\ s.moves \subseteq Squares \X Squares
    /\ MaxCmds \in Nat \ {0}

VARIABLES
    setup,
    chess,      \* chess[p][q]: p's game with q, or None (TTToxThread.chess)
    ui,         \* p's chess_fn, board, chess_self, chess_started, invite dialog,
                \* board window
    cmds, evs,  \* queues front end -> engine and back
    draining,   \* the peers whose tox thread is taking commands: it takes them
                \* all before it looks at the network again
    wire,       \* wire[p][q]: packets from p to q
    down,       \* pairs whose link is down
    games,      \* invites posted so far; the no of a game, which the code's
                \* commands, packets and events do not carry (mixed: a move
                \* command of another game was played in this one)
    cuts,
    told        \* [no, won]: verdicts the engines have announced

vars == <<setup, chess, ui, cmds, evs, draining, wire, down, games, cuts, told>>
engineVars == <<chess, wire, told, draining>>

Friends(p) == {q \in Peers : {p, q} \in setup.friends}
Game(g, self, pending, started, no) ==
    [g |-> g, self |-> self, pending |-> pending, started |-> started, no |-> no,
     mixed |-> FALSE]
IdleUi == [fn |-> None, g |-> tt_chess_init, self |-> "white", started |-> FALSE,
           no |-> 0, invite |-> FALSE, window |-> FALSE]

\* The position after a line of moves.
Play(line) == FoldLeft(LAMBDA g, m : tt_chess_move(g, m[1], m[2]), tt_chess_init, line)

\* Either no game is on, or two friends are in the middle of one.
Init ==
    /\ setup \in Setups
    /\ LET pair == CHOOSE f \in setup.friends : TRUE
           white == CHOOSE p \in pair : TRUE
           g == Play(setup.line)
           live == setup.line # <<>>
           color(p) == IF p = white THEN "white" ELSE "black"
           at(p, q) == live /\ {p, q} = pair
       IN  /\ chess = [p \in Peers |-> [q \in Peers |->
                        IF at(p, q) THEN Game(g, color(p), FALSE, TRUE, 0) ELSE None]]
           /\ ui = [p \in Peers |->
                        IF live /\ p \in pair
                        THEN [IdleUi EXCEPT !.fn = CHOOSE q \in pair : q # p, !.g = g,
                                            !.self = color(p), !.started = TRUE,
                                            !.window = TRUE]
                        ELSE IdleUi]
    /\ cmds = [p \in Peers |-> <<>>]
    /\ evs = [p \in Peers |-> <<>>]
    /\ wire = [p \in Peers |-> [q \in Peers |-> <<>>]]
    /\ draining = {} /\ down = {} /\ games = 0 /\ cuts = 0 /\ told = [p \in Peers |-> {}]

-----------------------------------------------------------------------------
(* The players, through the front end.                                     *)

Post(p, c) == Len(cmds[p]) < MaxCmds /\ cmds' = [cmds EXCEPT ![p] = Append(@, c)]
Cmd(kind, q) == [cmd |-> kind, fn |-> q]

cc_chess_invite(p, q) ==
    /\ q \in Friends(p) /\ games < setup.games
    /\ games' = games + 1
    /\ Post(p, [cmd |-> "invite", fn |-> q, no |-> games + 1])
    /\ UNCHANGED <<setup, ui, evs, engineVars, down, cuts>>

\* The dialog's buttons answer for chess_fn, whoever that is by now.
cc_chess_accept(p) ==
    /\ ui[p].invite /\ ui[p].fn # None
    /\ ui' = [ui EXCEPT ![p].invite = FALSE]
    /\ Post(p, Cmd("accept", ui[p].fn))
    /\ UNCHANGED <<setup, evs, engineVars, down, games, cuts>>

cc_chess_decline(p) ==
    /\ ui[p].invite /\ ui[p].fn # None
    /\ ui' = [ui EXCEPT ![p].invite = FALSE, ![p].fn = None]
    /\ Post(p, Cmd("decline", ui[p].fn))
    /\ UNCHANGED <<setup, evs, engineVars, down, games, cuts>>

\* A press on one of our pieces and the release on another square, as one step:
\* the move is tried on the mirror and posted if it is legal there.
cc_chess_drop(p, from, sq) ==
    /\ ui[p].window /\ ui[p].fn # None /\ ui[p].started
    /\ ui[p].g.board[from].type # "none" /\ ui[p].g.board[from].color = ui[p].self
    /\ Accepts(ui[p].g, from, sq)
    /\ ui' = [ui EXCEPT ![p].g = tt_chess_move(@, from, sq)]
    /\ Post(p, [cmd |-> "move", fn |-> ui[p].fn, mv |-> <<from, sq>>, no |-> ui[p].no])
    /\ UNCHANGED <<setup, evs, engineVars, down, games, cuts>>

cc_chess_resign(p) ==
    /\ ui[p].window /\ ui[p].fn # None
    /\ Post(p, Cmd("resign", ui[p].fn))
    /\ UNCHANGED <<setup, ui, evs, engineVars, down, games, cuts>>

\* Closing the window leaves the engine's game alone.
cc_chess_close(p) ==
    /\ ui[p].window
    /\ ui' = [ui EXCEPT ![p].window = FALSE, ![p].fn = None]
    /\ UNCHANGED <<setup, cmds, evs, engineVars, down, games, cuts>>

-----------------------------------------------------------------------------
(* The engine, on the tox thread.                                          *)

CanSend(p, q) == {p, q} \notin down
chess_send(p, q, pk) ==
    wire' = IF CanSend(p, q) THEN [wire EXCEPT ![p][q] = Append(@, pk)] ELSE wire
Push(p, es) == evs' = [evs EXCEPT ![p] = @ \o es]
Ev(kind, q) == [ev |-> kind, fn |-> q]
StartEv(q, x) == [ev |-> "start", fn |-> q, self |-> x.self, no |-> x.no]

\* chess_end: the verdict is announced and the game freed.
EndEv(q, won) == [ev |-> "end", fn |-> q, won |-> won]
Verdict(p, q, won) == told' = [told EXCEPT ![p] = @ \cup {[no |-> chess[p][q].no, won |-> won]}]
Over(g) == g.status \in {"checkmate", "stalemate"}
Won(g, self) == g.status = "checkmate" /\ g.winner = self

\* mutant: a second invite replaces the game that is on
handle_cmd_chess_invite_again(p, c) ==
    /\ c.cmd = "invite"
    /\ \E self \in {"white", "black"} :
        /\ chess' = IF CanSend(p, c.fn)
                    THEN [chess EXCEPT ![p][c.fn] =
                            Game(tt_chess_init, self, FALSE, FALSE, c.no)]
                    ELSE chess
        /\ chess_send(p, c.fn, [pkt |-> "invite", color |-> Opponent(self), no |-> c.no])
    /\ UNCHANGED <<evs, told>>

handle_cmd_chess_invite(p, c) ==
    /\ c.cmd = "invite" /\ chess[p][c.fn] = None
    /\ \E self \in {"white", "black"} :
        /\ chess' = IF CanSend(p, c.fn)
                    THEN [chess EXCEPT ![p][c.fn] =
                            Game(tt_chess_init, self, FALSE, FALSE, c.no)]
                    ELSE chess
        /\ chess_send(p, c.fn, [pkt |-> "invite", color |-> Opponent(self), no |-> c.no])
    /\ UNCHANGED <<evs, told>>

handle_cmd_chess_accept(p, c) ==
    LET q == c.fn IN
    /\ c.cmd = "accept" /\ chess[p][q] # None /\ chess[p][q].pending
    /\ chess_send(p, q, [pkt |-> "accept"])
    /\ IF CanSend(p, q)
       THEN /\ chess' = [chess EXCEPT ![p][q] =
                            Game(tt_chess_init, @.self, FALSE, TRUE, @.no)]
            /\ Push(p, <<StartEv(q, chess[p][q])>>)
       ELSE /\ chess' = [chess EXCEPT ![p][q] = None]
            /\ UNCHANGED evs
    /\ UNCHANGED told

\* The inviter is not told.
handle_cmd_chess_decline(p, c) ==
    /\ c.cmd = "decline" /\ chess[p][c.fn] # None /\ chess[p][c.fn].pending
    /\ chess' = [chess EXCEPT ![p][c.fn] = None]
    /\ UNCHANGED <<wire, evs, told>>

\* Our own move: a refused send ends the game as if we had resigned.
handle_cmd_chess_move(p, c) ==
    LET q == c.fn
        x == chess[p][q]
        g == tt_chess_move(x.g, c.mv[1], c.mv[2])
        end(won) == /\ chess' = [chess EXCEPT ![p][q] = None]
                    /\ Push(p, <<EndEv(q, won)>>)
                    /\ Verdict(p, q, won)
    IN  /\ c.cmd = "move" /\ x # None /\ x.started
        /\ x.g.to_move = x.self
        /\ Accepts(x.g, c.mv[1], c.mv[2])
        /\ chess_send(p, q, [pkt |-> "move", mv |-> c.mv])
        /\ IF ~CanSend(p, q) THEN end(FALSE)
           ELSE IF Over(g) THEN end(Won(g, x.self))
           ELSE /\ chess' = [chess EXCEPT ![p][q].g = g,
                                          ![p][q].mixed = @ \/ c.no # x.no]
                /\ UNCHANGED <<evs, told>>

\* mutant: the peer is not told of a resignation
handle_cmd_chess_resign_silent(p, c) ==
    LET q == c.fn IN
    /\ c.cmd = "resign" /\ chess[p][q] # None /\ chess[p][q].started
    /\ chess' = [chess EXCEPT ![p][q] = None]
    /\ Push(p, <<EndEv(q, FALSE)>>)
    /\ Verdict(p, q, FALSE)
    /\ UNCHANGED wire

handle_cmd_chess_resign(p, c) ==
    LET q == c.fn IN
    /\ c.cmd = "resign" /\ chess[p][q] # None /\ chess[p][q].started
    /\ chess_send(p, q, [pkt |-> "resign"])
    /\ chess' = [chess EXCEPT ![p][q] = None]
    /\ Push(p, <<EndEv(q, FALSE)>>)
    /\ Verdict(p, q, FALSE)

\* A command whose handler returns early.
Refused(p, c) ==
    LET x == chess[p][c.fn] IN
    /\ ~CASE c.cmd = "invite" -> x = None
          [] c.cmd \in {"accept", "decline"} -> x # None /\ x.pending
          [] c.cmd = "resign" -> x # None /\ x.started
          [] c.cmd = "move" -> /\ x # None /\ x.started
                               /\ x.g.to_move = x.self
                               /\ Accepts(x.g, c.mv[1], c.mv[2])
    /\ UNCHANGED <<chess, wire, evs, told>>

TakeCommand(p) ==
    /\ cmds[p] # <<>>
    /\ cmds' = [cmds EXCEPT ![p] = Tail(@)]
    /\ draining' = IF Len(cmds[p]) > 1 THEN draining \cup {p} ELSE draining \ {p}
    /\ LET c == Head(cmds[p]) IN
       \/ handle_cmd_chess_invite(p, c) \/ handle_cmd_chess_accept(p, c)
       \/ handle_cmd_chess_decline(p, c) \/ handle_cmd_chess_move(p, c)
       \/ handle_cmd_chess_resign(p, c) \/ Refused(p, c)
    /\ UNCHANGED <<setup, ui, down, games, cuts>>

\* chess_rx, one operator per packet.  The game id is on the wire and ignored.
RxInvite(p, q, pk) ==
    /\ pk.pkt = "invite" /\ chess[p][q] = None
    /\ chess' = [chess EXCEPT ![p][q] =
                    Game(tt_chess_init, pk.color, TRUE, FALSE, pk.no)]
    /\ Push(p, <<[ev |-> "invite", fn |-> q, self |-> pk.color]>>)
    /\ UNCHANGED told

RxAccept(p, q, pk) ==
    /\ pk.pkt = "accept" /\ chess[p][q] # None
    /\ ~chess[p][q].pending /\ ~chess[p][q].started
    /\ chess' = [chess EXCEPT ![p][q].started = TRUE]
    /\ Push(p, <<StartEv(q, chess[p][q])>>)
    /\ UNCHANGED told

\* The peer may move only when the engine's board says it is its turn.
TheirTurn(x) == x.g.to_move # x.self

RxMove(p, q, pk) ==
    LET x == chess[p][q]
        g == tt_chess_move(x.g, pk.mv[1], pk.mv[2])
        moved == [ev |-> "move", fn |-> q, mv |-> pk.mv]
    IN  /\ pk.pkt = "move" /\ x # None /\ x.started
        /\ TheirTurn(x)
        /\ Accepts(x.g, pk.mv[1], pk.mv[2])
        /\ IF Over(g)
           THEN /\ chess' = [chess EXCEPT ![p][q] = None]
                /\ Push(p, <<moved, EndEv(q, Won(g, x.self))>>)
                /\ Verdict(p, q, Won(g, x.self))
           ELSE /\ chess' = [chess EXCEPT ![p][q].g = g]
                /\ Push(p, <<moved>>)
                /\ UNCHANGED told

RxResign(p, q, pk) ==
    /\ pk.pkt = "resign" /\ chess[p][q] # None /\ chess[p][q].started
    /\ chess' = [chess EXCEPT ![p][q] = None]
    /\ Push(p, <<EndEv(q, TRUE)>>)
    /\ Verdict(p, q, TRUE)

RxIgnored(p, q, pk) ==
    LET x == chess[p][q] IN
    /\ ~CASE pk.pkt = "invite" -> x = None
          [] pk.pkt = "accept" -> x # None /\ ~x.pending /\ ~x.started
          [] pk.pkt = "resign" -> x # None /\ x.started
          [] pk.pkt = "move" -> /\ x # None /\ x.started /\ TheirTurn(x)
                                /\ Accepts(x.g, pk.mv[1], pk.mv[2])
    /\ UNCHANGED <<chess, evs, told>>

chess_rx(p, q) ==
    /\ p \notin draining /\ wire[q][p] # <<>>
    /\ wire' = [wire EXCEPT ![q][p] = Tail(@)]
    /\ LET pk == Head(wire[q][p]) IN
       \/ RxInvite(p, q, pk) \/ RxAccept(p, q, pk) \/ RxMove(p, q, pk)
       \/ RxResign(p, q, pk) \/ RxIgnored(p, q, pk)
    /\ UNCHANGED <<setup, ui, cmds, draining, down, games, cuts>>

-----------------------------------------------------------------------------
(* The front end's handler of the engine's events.                         *)

OnInvite(u, e) ==
    IF u.invite THEN u
    ELSE [u EXCEPT !.invite = TRUE, !.fn = e.fn, !.self = e.self,
                   !.started = FALSE]

\* mutant: the mirror of the invitee keeps the board it had
OnStart_kept(u, e) ==
    [u EXCEPT !.g = IF u.fn = e.fn THEN @ ELSE tt_chess_init,
              !.fn = e.fn, !.self = e.self, !.started = TRUE,
              !.no = e.no, !.invite = FALSE, !.window = TRUE]

\* The board starts anew, the dialog closes, the window opens.
OnStart(u, e) ==
    [u EXCEPT !.g = tt_chess_init, !.fn = e.fn, !.self = e.self, !.started = TRUE,
              !.no = e.no, !.invite = FALSE, !.window = TRUE]

OnMove(u, e) ==
    IF u.fn = e.fn /\ u.g.to_move # u.self /\ Accepts(u.g, e.mv[1], e.mv[2])
    THEN [u EXCEPT !.g = tt_chess_move(@, e.mv[1], e.mv[2])]
    ELSE u

OnEnd(u, e) ==
    IF u.fn = e.fn
    THEN [u EXCEPT !.invite = FALSE, !.window = FALSE, !.fn = None]
    ELSE u

handle_event(p) ==
    /\ evs[p] # <<>>
    /\ LET e == Head(evs[p]) IN
       ui' = [ui EXCEPT ![p] = CASE e.ev = "invite" -> OnInvite(@, e)
                                 [] e.ev = "start"  -> OnStart(@, e)
                                 [] e.ev = "move"   -> OnMove(@, e)
                                 [] e.ev = "end"    -> OnEnd(@, e)]
    /\ evs' = [evs EXCEPT ![p] = Tail(@)]
    /\ UNCHANGED <<setup, chess, cmds, draining, wire, down, games, cuts, told>>

-----------------------------------------------------------------------------
(* The link.                                                               *)

\* What is under way is lost, and no game hears of it.
Disconnect(f) ==
    /\ f \notin down /\ cuts < setup.cuts
    /\ down' = down \cup {f} /\ cuts' = cuts + 1
    /\ wire' = [p \in Peers |-> [q \in Peers |-> IF {p, q} = f THEN <<>> ELSE wire[p][q]]]
    /\ UNCHANGED <<setup, chess, ui, cmds, evs, draining, games, told>>

Reconnect(f) ==
    /\ f \in down
    /\ down' = down \ {f}
    /\ UNCHANGED <<setup, chess, ui, cmds, evs, draining, wire, games, cuts, told>>

Player(p) ==
    \/ \E q \in Peers : cc_chess_invite(p, q)
    \/ cc_chess_accept(p) \/ cc_chess_decline(p)
    \/ \E m \in setup.moves : cc_chess_drop(p, m[1], m[2])
    \/ cc_chess_resign(p) \/ cc_chess_close(p)

Next ==
    \/ \E p \in Peers : Player(p) \/ TakeCommand(p) \/ handle_event(p)
    \/ \E p, q \in Peers : chess_rx(p, q)
    \/ \E f \in setup.friends : Disconnect(f) \/ Reconnect(f)

Spec == Init /\ [][Next]_vars

-----------------------------------------------------------------------------
InGame(p, q) == chess[p][q] # None /\ chess[p][q].started

\* Boards one move apart: x is y, or y with one more of the players' moves.
Ahead1(x, y) == \E m \in setup.moves : /\ Accepts(y, m[1], m[2])
                                       /\ x = tt_chess_move(y, m[1], m[2])

\* Two engines that are both playing play one and the same game: opposite
\* colours, boards that are equal or one move apart, and never both of them to
\* move - although packets cross and are lost, invites cross, games are
\* resigned and begun again, and no packet is matched to its game by id.
OneGame ==
    \A p, q \in Peers : InGame(p, q) /\ InGame(q, p) =>
        LET x == chess[p][q]
            y == chess[q][p]
        IN  /\ x.no = y.no /\ x.self # y.self
            /\ x.g = y.g \/ Ahead1(x.g, y.g) \/ Ahead1(y.g, x.g)
            /\ ~(x.g.to_move = x.self /\ y.g.to_move = y.self)

MovesOf(q, no, queue) ==
    SelectSeq(queue, LAMBDA e : e.fn = q /\ "mv" \in DOMAIN e /\ ("no" \in DOMAIN e => e.no = no))
Replayed(g, queue) == FoldLeft(LAMBDA h, e : tt_chess_move(h, e.mv[1], e.mv[2]), g, queue)

\* The board in the window is the engine's once the moves on their way between
\* the two are played ("so the display stays in sync with the engine"): the
\* front end plays its own moves before the engine has seen them.  A command
\* names no game, so a move that was waiting while one game ended and the next
\* began is played in the wrong one; only those games are left out (there are none while
\* MaxCmds is 1).
MirrorTrue ==
    \A p, q \in Peers :
        /\ ui[p].fn = q /\ ui[p].started /\ InGame(p, q) /\ ~chess[p][q].mixed
        /\ ~\E i \in 1..Len(evs[p]) : evs[p][i].fn = q /\ evs[p][i].ev \in {"start", "end"}
        => Replayed(ui[p].g, MovesOf(q, ui[p].no, evs[p]))
             = Replayed(chess[p][q].g, MovesOf(q, ui[p].no, cmds[p]))

\* A move by the rules: one the engine accepts after which the mover's own king is
\* not attacked.
Legal(g, from, to) ==
    /\ Accepts(g, from, to)
    /\ ~tt_chess_in_check(BoardAfter(g, from, to), g.to_move)

EnPassantCapture(g, from, to) ==
    /\ g.board[from].type = "pawn" /\ g.board[to].type = "none"
    /\ from[2] # to[2]
    /\ Accepts(g, from, to)

\* The verdict on the side to move is right: a game goes on while there is a reply, and
\* one that is over has none.  En passant captures are left out on both sides.
VerdictRight(g) ==
    IF Over(g)
    THEN \A from, to \in Squares : Legal(g, from, to) => EnPassantCapture(g, from, to)
    ELSE \E from, to \in Squares : Legal(g, from, to) \/ EnPassantCapture(g, from, to)

\* p is to move, and nothing of the game is under way.
AtMove(p, q) ==
    /\ InGame(p, q) /\ chess[p][q].g.to_move = chess[p][q].self
    /\ ui[p].fn = q /\ ui[q].fn = p
    /\ {cmds[p], evs[p], cmds[q], evs[q], wire[p][q], wire[q][p]} = {<<>>}

\* The two generators of chess.c agree: whatever move the engine takes next, it calls
\* the game over exactly when the validation of tt_chess_move leaves the other side no
\* reply ("True if `color` has any legal move", chess.h:73).  Exempt is a side that can
\* take en passant: the trial board of move_leaves_self_in_check (chess.c:125) keeps the
\* pawn that is taken, so the search may miss such a reply, or see one that is none.
SearchAgrees ==
    \A p, q \in Peers : AtMove(p, q) =>
        \A from, to \in Squares :
            Accepts(chess[p][q].g, from, to) =>
                VerdictRight(tt_chess_move(chess[p][q].g, from, to))

\* What ends the game g when it arrives: a resignation, or the last move.
Ends(pk, g) ==
    \/ pk.pkt = "resign"
    \/ pk.pkt = "move" /\ Over(tt_chess_move(g, pk.mv[1], pk.mv[2]))

\* The players agree on the end, however resignations, mates and lost packets
\* cross: of one game at most one of them is told that it won, and while the link
\* holds, a game that has ended for one is ending for the other (what ends it
\* there is on its way).
EndAgreed ==
    \A p, q \in Peers : p # q => \A v \in told[p] :
        /\ v.won => ~\E w \in told[q] : w.no = v.no /\ w.won
        /\ cuts = 0 /\ chess[q][p] # None /\ chess[q][p].no = v.no
           => \E i \in 1..Len(wire[p][q]) : Ends(wire[p][q][i], chess[q][p].g)
=============================================================================
