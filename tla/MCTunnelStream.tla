-------------------------- MODULE MCTunnelStream --------------------------
(* The links and sockets that the runs of TunnelStream look at.            *)
EXTENDS TunnelStream

Plain == [e2ee |-> FALSE, flight |-> 4, slow |-> FALSE, full |-> FALSE,
          ids |-> 1, chunks |-> 4, drops |-> 0]

\* a link with room, one that refuses packets, one with two connections, an
\* encrypted one that the friend leaves, and one with a slow server and a
\* program that does not read
Links == {Plain,
          [Plain EXCEPT !.flight = 1, !.chunks = 3],
          [Plain EXCEPT !.chunks = 1, !.ids = 2],
          [Plain EXCEPT !.chunks = 2, !.drops = 1],
          [Plain EXCEPT !.chunks = 2, !.e2ee = TRUE, !.flight = 2, !.drops = 1],
          [Plain EXCEPT !.chunks = 2, !.slow = TRUE, !.full = TRUE]}

Roomy == {Plain}
=============================================================================
