------------------------------ MODULE MCRekey ------------------------------
(* The sessions and the traffic that the runs of Rekey look at.            *)
EXTENDS Rekey

Tunnel == [lossy |-> TRUE, longTexts |-> FALSE, flight |-> 1, window |-> 1,
           payload |-> 3, datagram |-> 1]

Chat == [lossy |-> FALSE, longTexts |-> FALSE, flight |-> 2, window |-> 2,
         payload |-> 7, datagram |-> 0]

\* a tunnel whose queue is full after one packet, and a chat
Sessions == {Tunnel, Chat}

\* a tunnel that sends several packets per packet it hears
Refused == {[Tunnel EXCEPT !.window = 4, !.payload = 6, !.datagram = 0]}

\* a chat with texts that fill their frame
LongTexts == {[Chat EXCEPT !.payload = 4, !.longTexts = TRUE]}
=============================================================================
