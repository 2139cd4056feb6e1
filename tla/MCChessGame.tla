---------------------------- MODULE MCChessGame -----------------------------
(***************************************************************************)
(* Small games for TLC.                                                    *)
(***************************************************************************)
EXTENDS ChessGame

CONSTANTS anna, ben

Sq(name) == CHOOSE s \in Squares :
    <<"a", "b", "c", "d", "e", "f", "g", "h">>[s[2] + 1] = name[1] /\ s[1] + 1 = name[2]
M(f1, r1, f2, r2) == <<Sq(<<f1, r1>>), Sq(<<f2, r2>>)>>

E4 == M("e", 2, "e", 4)
E5 == M("e", 7, "e", 5)

\* Two invites between two friends who have no game: they cross, are declined,
\* are answered late.
Invites == [friends |-> {{anna, ben}}, games |-> 2, cuts |-> 0, line |-> <<>>,
            moves |-> {E4}]
\* A game that is one move from the fool's mate, and an invite to the next.
Mate == [friends |-> {{anna, ben}}, games |-> 1, cuts |-> 0,
         line |-> <<M("f", 2, "f", 3), M("e", 7, "e", 6), M("g", 2, "g", 4)>>,
         moves |-> {M("d", 8, "h", 4), M("a", 2, "a", 3)}]
\* The link fails in a game.
Cut == [friends |-> {{anna, ben}}, games |-> 1, cuts |-> 1, line |-> <<E4>>,
        moves |-> {E5}]
\* A game of thirteen moves (1.c3 e5 2.Na3 Ke7 3.Nb5 f5 4.Qb3 Kf6 5.Kd1 e4
\* 6.Qf7+ Ke5) before 7.d4+, which black can answer only by taking en passant.
EnPassant == [friends |-> {{anna, ben}}, games |-> 0, cuts |-> 0,
              line |-> <<M("c", 2, "c", 3), E5, M("b", 1, "a", 3), M("e", 8, "e", 7),
                         M("a", 3, "b", 5), M("f", 7, "f", 5), M("d", 1, "b", 3),
                         M("e", 7, "f", 6), M("e", 1, "d", 1), M("e", 5, "e", 4),
                         M("b", 3, "f", 7), M("f", 6, "e", 5)>>,
              moves |-> {M("d", 2, "d", 4), M("e", 4, "d", 3)}]

\* Sam Loyd's game of nineteen moves before the last of them, 10.Qe6 stalemate.
Stalemate == [friends |-> {{anna, ben}}, games |-> 0, cuts |-> 0,
              line |-> <<M("e", 2, "e", 3), M("a", 7, "a", 5), M("d", 1, "h", 5),
                         M("a", 8, "a", 6), M("h", 5, "a", 5), M("h", 7, "h", 5),
                         M("h", 2, "h", 4), M("a", 6, "h", 6), M("a", 5, "c", 7),
                         M("f", 7, "f", 6), M("c", 7, "d", 7), M("e", 8, "f", 7),
                         M("d", 7, "b", 7), M("d", 8, "d", 3), M("b", 7, "b", 8),
                         M("d", 3, "h", 7), M("b", 8, "c", 8), M("f", 7, "g", 6)>>,
              moves |-> {M("c", 8, "e", 6), M("c", 8, "h", 8)}]
\* An open game with a pinned knight, both sides about to castle.
Open == [friends |-> {{anna, ben}}, games |-> 0, cuts |-> 0,
         line |-> <<E4, E5, M("g", 1, "f", 3), M("b", 8, "c", 6), M("f", 1, "b", 5),
                    M("d", 7, "d", 6), M("b", 1, "c", 3), M("g", 8, "f", 6)>>,
         moves |-> {M("e", 1, "g", 1), M("b", 5, "c", 6), M("b", 7, "c", 6),
                    M("f", 6, "e", 4), M("c", 3, "e", 4), M("f", 3, "e", 5),
                    M("d", 6, "e", 5), M("d", 2, "d", 4), M("e", 5, "d", 4)}]

GameSetups == {Invites, Mate, Cut, EnPassant, Stalemate, Open}
=============================================================================
