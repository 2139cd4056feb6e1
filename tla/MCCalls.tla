------------------------------- MODULE MCCalls ------------------------------
(***************************************************************************)
(* Small instances of Calls for TLC.                                       *)
(***************************************************************************)
EXTENDS Calls

CONSTANTS f1, f2

Voice == {{}, {"A"}}
\* One friend: calls cross, are cancelled, refused and repeated.
Signalling == [friends |-> {f1}, clicks |-> 4, moves |-> 4, caps |-> {{"A"}},
               buttons |-> {"call", "answer", "decline", "mute"}, devices |-> BOOLEAN]
\* One friend: pauses of both sides and our camera.
Media == [friends |-> {f1}, clicks |-> 5, moves |-> 3, caps |-> Voice,
          buttons |-> {"call", "answer", "pause", "camera"}, devices |-> {TRUE}]
\* Two friends share the engine's record.
TwoFriends == [friends |-> {f1, f2}, clicks |-> 4, moves |-> 4, caps |-> {{"A"}},
               buttons |-> {"call", "answer", "decline", "mute"}, devices |-> {TRUE}]
\* Two calls at once: both mute buttons work one gate, pauses share one memory.
TwoCalls == [friends |-> {f1, f2}, clicks |-> 5, moves |-> 2, caps |-> {{"A"}},
             buttons |-> {"answer", "mute", "pause", "camera"}, devices |-> {TRUE}]
\* The peer offers video and is answered with it.
Video == [friends |-> {f1}, clicks |-> 3, moves |-> 2, caps |-> {{"A", "V"}},
          buttons |-> {"video", "decline", "pause"}, devices |-> {TRUE}]
\* A peer with a camera of its own is answered by voice, or called.
PeerCamera == [friends |-> {f1}, clicks |-> 3, moves |-> 3, caps |-> {{"A"}, {"A", "V"}},
               buttons |-> {"call", "answer", "pause", "camera"}, devices |-> {TRUE}]

CallSetups == {Signalling, Media, TwoFriends, TwoCalls, Video, PeerCamera}
=============================================================================
