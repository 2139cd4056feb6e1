------------------------------- MODULE Chess --------------------------------
(***************************************************************************)
(* The rules engine of chess.c as operators on a TTChess record.  The      *)
(* code holds two generators of moves that are written independently: the  *)
(* validation inside tt_chess_move and the search of has_any_legal_move,   *)
(* which decides mate.  They are kept apart here as well, so that they can *)
(* be compared.  A square is <<rank, file>>, 0-based as in the code.       *)
(***************************************************************************)
EXTENDS Integers, FiniteSets

Squares == (0..7) \X (0..7)
Opponent(c) == IF c = "white" THEN "black" ELSE "white"
Piece(t, c) == [type |-> t, color |-> c]
NoPiece == Piece("none", "white")

Back == [f \in 0..7 |-> CASE f \in {0, 7} -> "rook"   [] f \in {1, 6} -> "knight"
                          [] f \in {2, 5} -> "bishop" [] f = 3 -> "queen"
                          [] f = 4 -> "king"]

\* No piece has moved: white to play, every castling right, no en passant.
\* ep_file -1 means that no pawn has just made its double step.
tt_chess_init ==
    [board   |-> [s \in Squares |->
                    CASE s[1] = 0 -> Piece(Back[s[2]], "white")
                      [] s[1] = 1 -> Piece("pawn", "white")
                      [] s[1] = 6 -> Piece("pawn", "black")
                      [] s[1] = 7 -> Piece(Back[s[2]], "black")
                      [] OTHER -> NoPiece],
     to_move |-> "white", rights |-> {<<0, 0>>, <<0, 7>>, <<7, 0>>, <<7, 7>>},
     ep_file |-> -1, status |-> "playing", winner |-> "white"]

Sign(x) == IF x > 0 THEN 1 ELSE IF x < 0 THEN -1 ELSE 0
Abs(x) == IF x < 0 THEN -x ELSE x

Straight(s, t) == (s[1] = t[1]) # (s[2] = t[2])
Diagonal(s, t) == s # t /\ Abs(t[1] - s[1]) = Abs(t[2] - s[2])
KnightJump(s, t) == {Abs(t[1] - s[1]), Abs(t[2] - s[2])} = {1, 2}
KingStep(s, t) == s # t /\ Abs(t[1] - s[1]) <= 1 /\ Abs(t[2] - s[2]) <= 1

\* Nothing stands strictly between two squares of one line.
ClearPath(board, s, t) ==
    LET n == IF s[1] = t[1] THEN Abs(t[2] - s[2]) ELSE Abs(t[1] - s[1])
    IN  \A k \in 1..(n - 1) :
            board[<<s[1] + k * Sign(t[1] - s[1]), s[2] + k * Sign(t[2] - s[2])>>].type
                = "none"

tt_chess_square_attacked(board, sq, by) ==
    LET pawnRank == IF by = "white" THEN sq[1] - 1 ELSE sq[1] + 1
    IN  \E s \in Squares :
            /\ board[s].type # "none" /\ board[s].color = by
            /\ CASE board[s].type = "pawn" ->
                        s[1] = pawnRank /\ Abs(s[2] - sq[2]) = 1
                 [] board[s].type = "knight" -> KnightJump(s, sq)
                 [] board[s].type = "king"   -> KingStep(s, sq)
                 [] board[s].type = "rook"   -> Straight(s, sq) /\ ClearPath(board, s, sq)
                 [] board[s].type = "bishop" -> Diagonal(s, sq) /\ ClearPath(board, s, sq)
                 [] board[s].type = "queen"  ->
                        (Straight(s, sq) \/ Diagonal(s, sq)) /\ ClearPath(board, s, sq)

\* A board without the king is not in check.
tt_chess_in_check(board, color) ==
    \E s \in Squares : /\ board[s] = Piece("king", color)
                       /\ tt_chess_square_attacked(board, s, Opponent(color))

\* The trial board moves the one piece: a pawn taken en passant stays on it.
move_leaves_self_in_check(board, from, to) ==
    tt_chess_in_check([board EXCEPT ![to] = board[from], ![from] = NoPiece],
                      board[from].color)

Ahead(c) == IF c = "white" THEN 1 ELSE -1
PawnStart(c) == IF c = "white" THEN 1 ELSE 6
EpRank(c) == IF c = "white" THEN 5 ELSE 2

KnightJumps == {<<2, 1>>, <<2, -1>>, <<-2, 1>>, <<-2, -1>>,
                <<1, 2>>, <<1, -2>>, <<-1, 2>>, <<-1, -2>>}
Orthogonals == {<<1, 0>>, <<-1, 0>>, <<0, 1>>, <<0, -1>>}
Diagonals == {<<1, 1>>, <<1, -1>>, <<-1, 1>>, <<-1, -1>>}

\* The squares the search of has_any_legal_move tries for the piece on from.
\* It walks outwards from the piece; it knows nothing of castling.
Tried(g, from) ==
    LET b == g.board
        p == b[from]
        at(d, k) == <<from[1] + k * d[1], from[2] + k * d[2]>>
        free(t) == t \in Squares /\ b[t].type = "none"
        own(t) == b[t].type # "none" /\ b[t].color = p.color
        steps(dirs) == {t \in {at(d, 1) : d \in dirs} : t \in Squares /\ ~own(t)}
        rays(dirs) == {at(x[1], x[2]) : x \in
                        {y \in dirs \X (1..7) : /\ at(y[1], y[2]) \in Squares
                                                /\ ~own(at(y[1], y[2]))
                                                /\ \A k \in 1..(y[2] - 1) : free(at(y[1], k))}}
        fwd == <<Ahead(p.color), 0>>
        pushes == {at(fwd, k) : k \in {j \in 1..2 :
                      /\ j = 1 \/ from[1] = PawnStart(p.color)
                      /\ \A i \in 1..j : free(at(fwd, i))}}
        takes == {t \in {<<from[1] + fwd[1], from[2] + df>> : df \in {-1, 1}} :
                    /\ t \in Squares
                    /\ \/ b[t].type # "none" /\ ~own(t)
                       \/ /\ b[t].type = "none"
                          /\ t = <<EpRank(p.color), g.ep_file>>}
    IN  CASE p.type = "pawn"   -> pushes \cup takes
          [] p.type = "knight" -> steps(KnightJumps)
          [] p.type = "king"   -> steps(Orthogonals \cup Diagonals)
          [] p.type = "rook"   -> rays(Orthogonals)
          [] p.type = "bishop" -> rays(Diagonals)
          [] p.type = "queen"  -> rays(Orthogonals \cup Diagonals)

\* mutant: the search forgets that a pinned piece may not move
has_any_legal_move_unpinned(g, color) ==
    \E from \in Squares :
        /\ g.board[from].type # "none" /\ g.board[from].color = color
        /\ Tried(g, from) # {}

has_any_legal_move(g, color) ==
    \E from \in Squares :
        /\ g.board[from].type # "none" /\ g.board[from].color = color
        /\ \E to \in Tried(g, from) : ~move_leaves_self_in_check(g.board, from, to)

\* Castling with the rook of the given corner; the squares are the fixed ones
\* of the code, from_rank the king's.
CanCastle(g, from, rookFile, between, crossed) ==
    LET c == g.board[from].color IN
    /\ <<IF c = "white" THEN 0 ELSE 7, rookFile>> \in g.rights
    /\ \A f \in between : g.board[<<from[1], f>>].type = "none"
    /\ g.board[<<from[1], rookFile>>] = Piece("rook", c)
    /\ \A f \in crossed : ~tt_chess_square_attacked(g.board, <<from[1], f>>, Opponent(c))

\* The moves tt_chess_move accepts.  Whether the mover's own king is in check
\* afterwards is not among its conditions.
Accepts(g, from, to) ==
    LET p == g.board[from]
        t == g.board[to]
        dr == to[1] - from[1]
        df == to[2] - from[2]
    IN  /\ p.type # "none" /\ p.color = g.to_move
        /\ t.type = "none" \/ t.color # p.color
        /\ CASE p.type = "pawn" ->
                  \/ /\ df = 0 /\ t.type = "none"
                     /\ \/ dr = Ahead(p.color)
                        \/ /\ dr = 2 * Ahead(p.color) /\ from[1] = PawnStart(p.color)
                           /\ g.board[<<from[1] + Ahead(p.color), from[2]>>].type = "none"
                  \/ /\ Abs(df) = 1 /\ dr = Ahead(p.color)
                     /\ t.type # "none" \/ to = <<EpRank(p.color), g.ep_file>>
             [] p.type = "knight" -> KnightJump(from, to)
             [] p.type = "king" ->
                  \/ KingStep(from, to)
                  \/ dr = 0 /\ df = 2 /\ CanCastle(g, from, 7, {5, 6}, {4, 5, 6})
                  \/ dr = 0 /\ df = -2 /\ CanCastle(g, from, 0, {1, 2, 3}, {2, 3, 4})
             [] p.type = "rook" -> Straight(from, to) /\ ClearPath(g.board, from, to)
             [] p.type = "bishop" -> Diagonal(from, to) /\ ClearPath(g.board, from, to)
             [] p.type = "queen" -> /\ Straight(from, to) \/ Diagonal(from, to)
                                    /\ ClearPath(g.board, from, to)

\* The board after an accepted move: a castling moves its rook too, en passant
\* removes the pawn beside the mover, the last rank makes a queen.
BoardAfter(g, from, to) ==
    LET p == g.board[from]
        df == to[2] - from[2]
        passant == p.type = "pawn" /\ df # 0 /\ g.board[to].type = "none"
        castling == p.type = "king" /\ Abs(df) = 2
        corner == <<from[1], IF df = 2 THEN 7 ELSE 0>>
        beside == <<from[1], IF df = 2 THEN 5 ELSE 3>>
    IN  [s \in Squares |->
            CASE s = to -> IF p.type = "pawn" /\ to[1] \in {0, 7}
                           THEN Piece("queen", p.color) ELSE p
              [] s = from -> NoPiece
              [] passant /\ s = <<from[1], to[2]>> -> NoPiece
              [] castling /\ s = corner -> NoPiece
              [] castling /\ s = beside -> g.board[corner]
              [] OTHER -> g.board[s]]

RightsAfter(g, from, to) ==
    LET p == g.board[from]
        home == IF p.color = "white" THEN 0 ELSE 7
    IN  g.rights \ ((IF p.type = "king" THEN {<<home, 0>>, <<home, 7>>} ELSE {})
                    \cup (IF p.type = "rook" THEN {from} ELSE {})
                    \cup (IF g.board[to].type = "rook" THEN {to} ELSE {}))

\* tt_chess_move on an accepted move.  The status is that of the side that is
\* now to play; a game that has ended accepts moves like any other.
tt_chess_move(g, from, to) ==
    LET p == g.board[from]
        other == Opponent(p.color)
        moved == [g EXCEPT !.board = BoardAfter(g, from, to),
                           !.to_move = Opponent(g.to_move),
                           !.rights = RightsAfter(g, from, to),
                           !.ep_file = IF /\ p.type = "pawn"
                                          /\ to[1] - from[1] = 2 * Ahead(p.color)
                                       THEN from[2] ELSE -1]
    IN  IF has_any_legal_move(moved, other) THEN moved
        ELSE IF tt_chess_in_check(moved.board, other)
             THEN [moved EXCEPT !.status = "checkmate", !.winner = p.color]
             ELSE [moved EXCEPT !.status = "stalemate"]
=============================================================================
