---------------------------- MODULE MCTunnelShare ---------------------------
(***************************************************************************)
(* Small instances of TunnelShare for TLC.                                 *)
(***************************************************************************)
EXTENDS TunnelShare, TLC

CONSTANTS anna, ben, cleo

\* One friend is invited twice: late answers, time-outs, failed binds, a cut.
Again == [shares |-> <<anna, ben>> :> 2, cuts |-> 1, binds |-> BOOLEAN,
          stops |-> {anna, ben}, datagrams |-> 1]
\* Two friends, each invited to a service of its own.
TwoFriends == [shares |-> <<anna, ben>> :> 1 @@ <<anna, cleo>> :> 1, cuts |-> 0, binds |-> {TRUE},
               stops |-> {anna}, datagrams |-> 2]
\* Two friends share with each other.
Mutual == [shares |-> <<anna, ben>> :> 1 @@ <<ben, anna>> :> 1, cuts |-> 0, binds |-> {TRUE},
           stops |-> {}, datagrams |-> 2]

ShareSetups == {Again, TwoFriends, Mutual}
=============================================================================
