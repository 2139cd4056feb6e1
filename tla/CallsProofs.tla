----------------------------- MODULE CallsProofs ----------------------------
(***************************************************************************)
(* The engine's one call record serves the call it names: theorems about   *)
(* Calls for any friends and any number of clicks and of moves of the      *)
(* peers.                                                                  *)
(***************************************************************************)
EXTENDS Calls, QueueLemmas, TLAPS

Cap == {"A", "V"}
Bits == Cap \cup {"finished", "error"}
CallType == [st : {"none", "ringing", "inviting", "active"}, self : SUBSET Cap,
             prev : SUBSET Cap, peer : SUBSET Cap, shared : BOOLEAN, filming : BOOLEAN,
             crossed : BOOLEAN]
RecordType == [state : SUBSET Bits, call_fn : Friends \cup {None},
               paused_state : SUBSET Bits, mic_muted : BOOLEAN,
               audio : BOOLEAN, video : BOOLEAN]

-----------------------------------------------------------------------------
(* What the sessions m and the record r have to do with each other         *)

\* Two calls at a time share the record; a call that never did is the one it names.
Named(m, r) ==
    \A f \in Friends : m[f].st # "none" =>
        /\ ~m[f].shared => r.call_fn = f
        /\ \A h \in Friends \ {f} : m[h].st # "none" => m[f].shared

\* A call that is not up yet: who calls offers audio, and nothing was paused.
Early(m) ==
    \A f \in Friends :
        /\ m[f].st = "ringing" => "A" \in m[f].peer /\ m[f].prev = {}
        /\ m[f].st = "inviting" => "A" \in m[f].self /\ m[f].prev = {}

\* The record's state is up while neither side of call c is paused, and in our own
\* pause it remembers the audio bit of the state before.
TellsAudio(c, r) ==
    /\ "A" \in r.state <=> "A" \in c.self /\ "A" \in c.peer
    /\ "A" \notin c.self => /\ "A" \in c.peer
                            /\ "A" \in r.paused_state <=> "A" \in c.prev
AudioTold(m, r) ==
    \A f \in Friends : m[f].st = "active" /\ ~m[f].shared => TellsAudio(m[f], r)

\* The microphone of DevicesOnlyInCall.
MicInCall(m, r) == r.audio => \E f \in Friends : m[f].st = "active"

Audio(m, r) ==
    /\ m \in [Friends -> CallType] /\ r \in RecordType
    /\ Named(m, r) /\ Early(m) /\ AudioTold(m, r) /\ MicInCall(m, r)

\* The calls whose camera the record does not tell: one that shared it, and one whose
\* peer was seen to send video.
Loose(c) == c.shared \/ c.filming

\* In other calls the video bit of the record, and of the state it remembers in a pause,
\* is ours.
TellsVideo(c, r) ==
    /\ "V" \in r.state => "V" \in c.self
    /\ c.prev # {} /\ "V" \in r.paused_state => "V" \in c.prev
VideoTold(m, r) ==
    \A f \in Friends : m[f].st = "active" /\ ~Loose(m[f]) => TellsVideo(m[f], r)

\* The camera of DevicesOnlyInCall.
Films(c) ==
    \/ Loose(c)
    \/ "V" \in IF "A" \in c.self THEN c.self ELSE c.self \cup c.prev
CameraInCall(m, r) == r.video => \E f \in Friends : m[f].st = "active" /\ Films(m[f])

Video(m, r) == VideoTold(m, r) /\ CameraInCall(m, r)

-----------------------------------------------------------------------------
(* The steps of one call, whoever takes them                               *)

\* what Open makes of the session of a friend who was in a call
Joined(c, d) ==
    /\ d.st = c.st /\ d.self = c.self /\ d.peer = c.peer /\ d.prev = c.prev
    /\ d.st # "none" => d.shared

\* Open in terms of the sessions m, of which those in O are in a call.
Opening(m, O, f, st, self, peer) ==
    [h \in Friends |-> CASE h = f -> [NoCall EXCEPT !.st = st, !.self = self, !.peer = peer,
                                                    !.shared = O # {}]
                         [] h \in O -> [m[h] EXCEPT !.shared = TRUE]
                         [] OTHER -> m[h]]

InCalls(m, f) == {x \in Friends \ {f} : m[x].st # "none"}
Begun(m, f, st, self, peer, n) ==
    /\ n \in [Friends -> CallType]
    /\ n[f].st = st /\ n[f].self = self /\ n[f].peer = peer /\ n[f].prev = {}
    /\ \A h \in Friends \ {f} : Joined(m[h], n[h])
    /\ \A h \in Friends \ {f} : m[h].st # "none" => n[f].shared

\* Open makes one new session, and every other call one that shared the record.
LEMMA OpenSessions ==
    ASSUME NEW m \in [Friends -> CallType], NEW f \in Friends, NEW st \in {"ringing", "inviting"},
           NEW self \in SUBSET Cap, NEW peer \in SUBSET Cap
    PROVE  Begun(m, f, st, self, peer, Opening(m, InCalls(m, f), f, st, self, peer))
  <1> DEFINE O == InCalls(m, f)
  <1> DEFINE n == Opening(m, O, f, st, self, peer)
  <1>0. O = {x \in Friends \ {f} : m[x].st # "none"} /\ n = Opening(m, O, f, st, self, peer)
    BY DEF InCalls
  <1> HIDE DEF O, n
  <1>1. /\ n[f].st = st /\ n[f].self = self /\ n[f].peer = peer /\ n[f].prev = {}
        /\ n[f].shared = (O # {}) /\ n[f] \in CallType
    BY <1>0 DEF Opening, NoCall, CallType
  <1>2. ASSUME NEW h \in Friends \ {f}
        PROVE  n[h] \in CallType /\ Joined(m[h], n[h])
    <2>1. CASE h \in O
      <3> DEFINE c == m[h]
      <3>1. n[h] = [c EXCEPT !.shared = TRUE] /\ c \in CallType
        BY <1>0, <2>1 DEF Opening
      <3> HIDE DEF c
      <3>2. n[h] \in CallType /\ Joined(c, n[h])
        BY <3>1 DEF CallType, Joined
      <3> QED BY <3>2 DEF c
    <2>2. CASE h \notin O
      <3>1. n[h] = m[h] /\ m[h].st = "none"
        BY <1>0, <2>2 DEF Opening
      <3> QED BY <3>1 DEF Joined
    <2> QED BY <2>1, <2>2
  <1>3. n \in [Friends -> CallType]
    BY <1>0, <1>1, <1>2 DEF Opening
  <1>4. \A h \in Friends \ {f} : m[h].st # "none" => n[f].shared
    BY <1>0, <1>1
  <1>5. Begun(m, f, st, self, peer, n)
    BY <1>1, <1>2, <1>3, <1>4 DEF Begun
  <1> QED BY <1>5 DEF O, n

\* A call begins: Open and NewCall.
LEMMA Begins ==
    ASSUME NEW m, NEW r, Audio(m, r), NEW f \in Friends, m[f].st = "none",
           NEW n, NEW q, n \in [Friends -> CallType], q \in RecordType,
           n[f].st \in {"ringing", "inviting"}, n[f].prev = {},
           n[f].st = "ringing" => "A" \in n[f].peer, n[f].st = "inviting" => "A" \in n[f].self,
           \A h \in Friends \ {f} : Joined(m[h], n[h]),
           \A h \in Friends \ {f} : m[h].st # "none" => n[f].shared,
           q.call_fn = f, q.audio = r.audio, q.video = r.video
    PROVE  Audio(n, q) /\ (Video(m, r) => Video(n, q))
  <1>1. ASSUME NEW h \in Friends, h # f
        PROVE  /\ n[h].st = m[h].st /\ n[h].self = m[h].self
               /\ n[h].peer = m[h].peer /\ n[h].prev = m[h].prev
               /\ n[h].st # "none" => n[h].shared /\ n[f].shared
    <2>1. h \in Friends \ {f}
      BY <1>1
    <2>2. Joined(m[h], n[h]) /\ (m[h].st # "none" => n[f].shared)
      BY <2>1
    <2> QED BY <2>2 DEF Joined
  <1>2. m \in [Friends -> CallType] /\ Early(m) /\ MicInCall(m, r)
    BY DEF Audio
  <1>3. n[f].st # "active" /\ n[f].st # "none" /\ m[f].st # "active"
    OBVIOUS
  <1>4. Named(n, q)
    <2> SUFFICES ASSUME NEW h \in Friends, n[h].st # "none"
                 PROVE  /\ ~n[h].shared => q.call_fn = h
                        /\ \A x \in Friends \ {h} : n[x].st # "none" => n[h].shared
      BY DEF Named
    <2>1. CASE h = f
      <3>1. ASSUME NEW x \in Friends \ {h}, n[x].st # "none" PROVE n[h].shared
        BY <1>1, <2>1, <3>1
      <3> QED BY <2>1, <3>1
    <2>2. CASE h # f
      BY <1>1, <2>2
    <2> QED BY <2>1, <2>2
  <1>5. Early(n)
    <2> SUFFICES ASSUME NEW h \in Friends
                 PROVE  /\ n[h].st = "ringing" => "A" \in n[h].peer /\ n[h].prev = {}
                        /\ n[h].st = "inviting" => "A" \in n[h].self /\ n[h].prev = {}
      BY DEF Early
    <2>1. CASE h = f
      BY <2>1
    <2>2. CASE h # f
      <3>1. /\ m[h].st = "ringing" => "A" \in m[h].peer /\ m[h].prev = {}
            /\ m[h].st = "inviting" => "A" \in m[h].self /\ m[h].prev = {}
        BY <1>2 DEF Early
      <3> QED BY <1>1, <2>2, <3>1
    <2> QED BY <2>1, <2>2
  <1>6. AudioTold(n, q) /\ VideoTold(n, q)
    <2>1. ASSUME NEW h \in Friends, n[h].st = "active" PROVE n[h].shared
      <3>1. h # f
        BY <1>3, <2>1
      <3> QED BY <1>1, <2>1, <3>1
    <2> QED BY <2>1 DEF AudioTold, VideoTold, Loose
  <1>7. ASSUME NEW h \in Friends, m[h].st = "active" PROVE n[h].st = "active" /\ n[h].shared
    <2>1. h # f
      BY <1>3, <1>7
    <2> QED BY <1>1, <1>7, <2>1
  <1>8. MicInCall(n, q)
    BY <1>2, <1>7 DEF MicInCall
  <1>9. CameraInCall(m, r) => CameraInCall(n, q)
    BY <1>7 DEF CameraInCall, Films, Loose
  <1> QED BY <1>4, <1>5, <1>6, <1>8, <1>9 DEF Audio, Video

\* A call ends, and with it the devices stop.
LEMMA Ends ==
    ASSUME NEW m, NEW r, Audio(m, r), NEW f \in Friends, m[f].st # "none",
           NEW n, NEW q, n = [m EXCEPT ![f] = NoCall],
           q \in RecordType, ~q.audio, ~q.video
    PROVE  Audio(n, q) /\ (Video(m, r) => Video(n, q))
  <1>1. m \in [Friends -> CallType]
    BY DEF Audio
  <1>2. NoCall \in CallType
    BY DEF NoCall, CallType
  <1>3. n \in [Friends -> CallType] /\ n[f].st = "none" /\ \A h \in Friends \ {f} : n[h] = m[h]
    BY <1>1, <1>2 DEF NoCall
  <1>4. \A h \in Friends \ {f} : m[h].st # "none" => m[h].shared
    BY DEF Audio, Named
  <1>5. Named(n, q)
    BY <1>3, <1>4 DEF Named
  <1>6. Early(n)
    BY <1>3 DEF Early, Audio
  <1>7. AudioTold(n, q) /\ VideoTold(n, q)
    BY <1>3, <1>4 DEF AudioTold, VideoTold, Loose
  <1> QED BY <1>3, <1>5, <1>6, <1>7 DEF Audio, Video, MicInCall, CameraInCall

\* A call goes on, or comes up: it is the only one that the record must tell of.
LEMMA GoesOn ==
    ASSUME NEW m, NEW r, Audio(m, r), NEW f \in Friends, m[f].st # "none",
           NEW n, NEW q, n \in [Friends -> CallType], q \in RecordType,
           \A h \in Friends \ {f} : n[h] = m[h],
           n[f].st = "active", m[f].shared => n[f].shared, m[f].filming => n[f].filming,
           q.call_fn = r.call_fn,
           ~n[f].shared => TellsAudio(n[f], q)
    PROVE  /\ Audio(n, q)
           /\ Video(m, r) /\ (~Loose(n[f]) => TellsVideo(n[f], q))
              /\ (q.video => Films(n[f]) \/ (r.video /\ (Films(m[f]) /\ m[f].st = "active" => Films(n[f]))))
                => Video(n, q)
  <1>1. \A h \in Friends \ {f} : m[h].st # "none" => m[h].shared
    BY DEF Audio, Named
  <1>2. Named(n, q)
    BY <1>1 DEF Audio, Named
  <1>3. Early(n)
    BY DEF Early, Audio
  <1>4. AudioTold(n, q)
    BY <1>1 DEF AudioTold
  <1>5. MicInCall(n, q)
    BY DEF MicInCall
  <1>6. ASSUME Video(m, r), ~Loose(n[f]) => TellsVideo(n[f], q),
               q.video => Films(n[f])
                          \/ (r.video /\ (Films(m[f]) /\ m[f].st = "active" => Films(n[f])))
        PROVE  Video(n, q)
    <2>1. VideoTold(n, q)
      BY <1>1, <1>6 DEF VideoTold, Loose, Video
    <2>2. ASSUME q.video PROVE \E h \in Friends : n[h].st = "active" /\ Films(n[h])
      <3>1. CASE Films(n[f])
        BY <3>1
      <3>2. CASE ~Films(n[f])
        <4>1. PICK h \in Friends : m[h].st = "active" /\ Films(m[h])
          BY <1>6, <2>2, <3>2 DEF Video, CameraInCall
        <4>2. h # f
          BY <1>6, <2>2, <3>2, <4>1
        <4> QED BY <4>1, <4>2
      <3> QED BY <3>1, <3>2
    <2> QED BY <2>1, <2>2 DEF Video, CameraInCall
  <1> QED BY <1>2, <1>3, <1>4, <1>5, <1>6 DEF Audio

\* Nothing changes that the record tells of: crossed, or the microphone's gate.
LEMMA Unmoved ==
    ASSUME NEW m, NEW r, Audio(m, r),
           NEW n, NEW q, n \in [Friends -> CallType], q \in RecordType,
           \A h \in Friends : /\ n[h].st = m[h].st /\ n[h].self = m[h].self
                              /\ n[h].peer = m[h].peer /\ n[h].prev = m[h].prev
                              /\ n[h].shared = m[h].shared /\ n[h].filming = m[h].filming,
           q.state = r.state, q.call_fn = r.call_fn, q.paused_state = r.paused_state,
           q.audio = r.audio, q.video = r.video
    PROVE  Audio(n, q) /\ (Video(m, r) => Video(n, q))
  <1>1. Named(n, q)
    BY DEF Named, Audio
  <1>2. Early(n)
    BY DEF Early, Audio
  <1>3. AudioTold(n, q)
    BY DEF AudioTold, TellsAudio, Audio
  <1>4. MicInCall(n, q)
    BY DEF MicInCall, Audio
  <1>5. Video(m, r) => Video(n, q)
    BY DEF Video, VideoTold, TellsVideo, CameraInCall, Films, Loose
  <1> QED BY <1>1, <1>2, <1>3, <1>4, <1>5 DEF Audio

-----------------------------------------------------------------------------
(* The actions.                                                            *)

Command == [cmd : {"call", "hangup", "pause", "resume"}, fn : Friends]
           \cup [cmd : {"answer"}, fn : Friends, video : BOOLEAN]
           \cup [cmd : {"mute", "camera"}, fn : Friends, on : BOOLEAN]
CallsTypeOK == setup \in Setups /\ cmds \in Seq(Command)
AInv == CallsTypeOK /\ Audio(msi, g)

\* What a step does to the sessions and the record.
Serves == Audio(msi', g') /\ (Video(msi, g) => Video(msi', g'))

\* cb_av_call_state for a change that does not end the call.
LEMMA CallbackRecord ==
    ASSUME g \in RecordType, NEW f \in Friends, NEW st \in SUBSET Cap, cb_av_call_state(f, st)
    PROVE  /\ g' \in RecordType
           /\ g'.state = st /\ g'.call_fn = g.call_fn /\ g'.paused_state = g.paused_state
           /\ g'.video => g.video \/ "V" \in st
  <1>1. st \cap {"finished", "error"} = {}
    BY DEF Cap
  <1>2. PICK ok \in setup.devices :
            g' = [g EXCEPT !.state = st, !.audio = Up(@, "A" \in st, ok),
                           !.video = Up(@, "V" \in st /\ g.call_fn = f, ok)]
    BY <1>1, Zenon DEF cb_av_call_state
  <1> QED BY <1>2 DEF RecordType, Up, Bits, Cap

\* cb_av_call_state at the end of a call.
LEMMA CallbackEnd ==
    ASSUME g \in RecordType, NEW f \in Friends, NEW how \in {"finished", "error"},
           cb_av_call_state(f, {how})
    PROVE  g' \in RecordType /\ ~g'.audio /\ ~g'.video
  <1>1. {how} \cap {"finished", "error"} # {}
    OBVIOUS
  <1>2. g' = Down([g EXCEPT !.state = {how}])
    BY <1>1, Zenon DEF cb_av_call_state
  <1> QED BY <1>2 DEF RecordType, Down, Bits, Cap

\* Open and NewCall begin a call.
LEMMA Opened ==
    ASSUME Audio(msi, g), NEW f \in Friends, ~InCall(f), NEW st \in {"ringing", "inviting"},
           NEW self \in SUBSET Cap, NEW peer \in SUBSET Cap,
           st = "ringing" => "A" \in peer, st = "inviting" => "A" \in self,
           Open(f, st, self, peer), NewCall(f)
    PROVE  Serves
  <1>1. msi \in [Friends -> CallType] /\ g \in RecordType /\ msi[f].st = "none"
    BY DEF Audio, InCall
  <1>2. Others(f) = InCalls(msi, f)
    BY DEF Others, InCall, InCalls
  <1>3. msi' = Opening(msi, Others(f), f, st, self, peer)
    BY Zenon DEF Open, Opening
  <1>4. /\ msi' \in [Friends -> CallType]
        /\ msi'[f].st = st /\ msi'[f].self = self /\ msi'[f].peer = peer /\ msi'[f].prev = {}
        /\ \A h \in Friends \ {f} : Joined(msi[h], msi'[h])
        /\ \A h \in Friends \ {f} : msi[h].st # "none" => msi'[f].shared
    <2>1. Begun(msi, f, st, self, peer, msi')
      BY <1>1, <1>2, <1>3, OpenSessions, Zenon
    <2> QED BY <2>1 DEF Begun
  <1>5. g' \in RecordType /\ g'.call_fn = f /\ g'.audio = g.audio /\ g'.video = g.video
    BY <1>1 DEF NewCall, RecordType
  <1>6. /\ msi'[f].st \in {"ringing", "inviting"}
        /\ msi'[f].st = "ringing" => "A" \in msi'[f].peer
        /\ msi'[f].st = "inviting" => "A" \in msi'[f].self
    BY <1>4
  <1>7. Audio(msi', g') /\ (Video(msi, g) => Video(msi', g'))
    BY <1>1, <1>4, <1>5, <1>6, Begins, Zenon
  <1> QED BY <1>7 DEF Serves

\* The peer calls: the record is the new call's.
LEMMA Call ==
    ASSUME AInv, NEW f \in Friends, NEW caps \in setup.caps, "A" \in caps, cb_av_call(f, caps)
    PROVE  Serves
  <1>1. caps \in SUBSET Cap
    BY CallsAssumption DEF AInv, CallsTypeOK, Cap
  <1>2. ~InCall(f) /\ Open(f, "ringing", {}, caps) /\ NewCall(f)
    BY Zenon DEF cb_av_call
  <1> QED BY <1>1, <1>2, Opened DEF AInv

\* The peer answers our call: it comes up.
LEMMA Answers ==
    ASSUME AInv, NEW f \in Friends, NEW caps \in setup.caps, "A" \in caps, PeerAnswers(f, caps)
    PROVE  Serves
  <1>1. caps \in SUBSET Cap
    BY CallsAssumption DEF AInv, CallsTypeOK, Cap
  <1>2. /\ msi[f].st = "inviting" /\ cb_av_call_state(f, caps)
        /\ msi' = [msi EXCEPT ![f].st = "active", ![f].peer = caps,
                              ![f].filming = @ \/ "V" \in caps]
    BY Zenon DEF PeerAnswers
  <1>3. msi \in [Friends -> CallType] /\ g \in RecordType /\ Audio(msi, g)
    BY DEF AInv, Audio
  <1>4. "A" \in msi[f].self /\ msi[f].prev = {}
    BY <1>2 DEF AInv, Audio, Early
  <1>5. /\ msi' \in [Friends -> CallType] /\ \A h \in Friends \ {f} : msi'[h] = msi[h]
        /\ msi'[f].st = "active" /\ msi'[f].peer = caps /\ msi'[f].self = msi[f].self
        /\ msi'[f].prev = {} /\ msi'[f].shared = msi[f].shared
        /\ msi'[f].filming <=> msi[f].filming \/ "V" \in caps
    BY <1>1, <1>2, <1>3, <1>4, ZenonT(30) DEF CallType
  <1>6. /\ g' \in RecordType /\ g'.state = caps /\ g'.call_fn = g.call_fn
        /\ g'.video => g.video \/ "V" \in caps
    BY <1>1, <1>2, <1>3, CallbackRecord
  <1>7. TellsAudio(msi'[f], g')
    BY <1>4, <1>5, <1>6 DEF TellsAudio
  <1>8. /\ ~Loose(msi'[f]) => TellsVideo(msi'[f], g')
        /\ g'.video => Films(msi'[f]) \/ g.video
    BY <1>5, <1>6 DEF TellsVideo, Loose, Films
  <1>9. /\ msi[f].st # "none" /\ (msi[f].shared => msi'[f].shared)
        /\ msi[f].filming => msi'[f].filming
        /\ ~msi'[f].shared => TellsAudio(msi'[f], g')
        /\ Films(msi[f]) /\ msi[f].st = "active" => Films(msi'[f])
    BY <1>2, <1>5, <1>7
  <1>10. /\ Audio(msi', g')
         /\ Video(msi, g) /\ (~Loose(msi'[f]) => TellsVideo(msi'[f], g'))
            /\ (g'.video => Films(msi'[f])
                  \/ (g.video /\ (Films(msi[f]) /\ msi[f].st = "active" => Films(msi'[f]))))
              => Video(msi', g')
    BY <1>3, <1>5, <1>6, <1>9, GoesOn, Zenon
  <1> QED BY <1>8, <1>9, <1>10 DEF Serves

\* The peer pauses, resumes or switches its camera.
LEMMA Changes ==
    ASSUME AInv, NEW f \in Friends, NEW caps \in setup.caps, PeerChanges(f, caps)
    PROVE  Serves
  <1>1. caps \in SUBSET Cap
    BY CallsAssumption DEF AInv, CallsTypeOK, Cap
  <1>2. /\ msi[f].st = "active" /\ cb_av_call_state(f, caps)
        /\ msi' = [msi EXCEPT ![f].peer = caps, ![f].shared = @ \/ "A" \notin msi[f].self,
                              ![f].filming = @ \/ "V" \in caps]
    BY Zenon DEF PeerChanges
  <1>3. msi \in [Friends -> CallType] /\ g \in RecordType /\ Audio(msi, g)
    BY DEF AInv, Audio
  <1>5. /\ msi' \in [Friends -> CallType] /\ \A h \in Friends \ {f} : msi'[h] = msi[h]
        /\ msi'[f].st = "active" /\ msi'[f].peer = caps /\ msi'[f].self = msi[f].self
        /\ msi'[f].prev = msi[f].prev
        /\ msi'[f].shared <=> msi[f].shared \/ "A" \notin msi[f].self
        /\ msi'[f].filming <=> msi[f].filming \/ "V" \in caps
    BY <1>1, <1>2, <1>3, ZenonT(30) DEF CallType
  <1>6. /\ g' \in RecordType /\ g'.state = caps /\ g'.call_fn = g.call_fn
        /\ g'.paused_state = g.paused_state
        /\ g'.video => g.video \/ "V" \in caps
    BY <1>1, <1>2, <1>3, CallbackRecord
  <1>7. ~msi'[f].shared => TellsAudio(msi'[f], g')
    BY <1>5, <1>6 DEF TellsAudio
  <1>8. Video(msi, g) =>
            /\ ~Loose(msi'[f]) => TellsVideo(msi'[f], g')
            /\ g'.video => Films(msi'[f]) \/ g.video
    BY <1>2, <1>5, <1>6 DEF TellsVideo, Loose, Films, Video, VideoTold
  <1>9. Films(msi[f]) => Films(msi'[f])
    BY <1>5 DEF Films, Loose
  <1>10. msi[f].st # "none" /\ (msi[f].shared => msi'[f].shared)
         /\ (msi[f].filming => msi'[f].filming)
    BY <1>2, <1>5
  <1>11. /\ Audio(msi', g')
         /\ Video(msi, g) /\ (~Loose(msi'[f]) => TellsVideo(msi'[f], g'))
            /\ (g'.video => Films(msi'[f])
                  \/ (g.video /\ (Films(msi[f]) /\ msi[f].st = "active" => Films(msi'[f]))))
              => Video(msi', g')
    BY <1>3, <1>5, <1>6, <1>7, <1>10, GoesOn, Zenon
  <1> QED BY <1>8, <1>9, <1>11 DEF Serves

\* The peer hangs up or is gone: the devices stop.
LEMMA PeerLeaves ==
    ASSUME AInv, NEW f \in Friends, NEW how \in {"finished", "error"}, PeerEnds(f, how)
    PROVE  Serves
  <1>1. msi[f].st # "none" /\ msi' = [msi EXCEPT ![f] = NoCall] /\ cb_av_call_state(f, {how})
    BY Zenon DEF PeerEnds, InCall
  <1>2. Audio(msi, g) /\ g \in RecordType
    BY DEF AInv, Audio
  <1>3. g' \in RecordType /\ ~g'.audio /\ ~g'.video
    BY <1>1, <1>2, CallbackEnd
  <1> QED BY <1>1, <1>2, <1>3, Ends DEF Serves

\* tt_av_cmd_call: a call begins, or ToxAV refuses it.
LEMMA CmdCall ==
    ASSUME AInv, NEW c \in Command, c.fn \in Friends, tt_av_cmd_call(c)
    PROVE  Serves
  <1>1. msi \in [Friends -> CallType] /\ g \in RecordType /\ Audio(msi, g)
    BY DEF AInv, Audio
  <1>2. CASE ~InCall(c.fn) /\ Open(c.fn, "inviting", {"A"}, {}) /\ NewCall(c.fn)
    <2>1. {"A"} \in SUBSET Cap /\ {} \in SUBSET Cap
      BY DEF Cap
    <2> QED BY <1>1, <1>2, <2>1, Opened
  <1>3. CASE msi' = [msi EXCEPT ![c.fn].crossed = InCall(c.fn)] /\ g' = g
    <2>1. InCall(c.fn) \in BOOLEAN
      BY DEF InCall
    <2>2. /\ msi' \in [Friends -> CallType] /\ g' \in RecordType
          /\ \A h \in Friends : /\ msi'[h].st = msi[h].st /\ msi'[h].self = msi[h].self
                                /\ msi'[h].peer = msi[h].peer /\ msi'[h].prev = msi[h].prev
                                /\ msi'[h].shared = msi[h].shared
                                /\ msi'[h].filming = msi[h].filming
      BY <1>1, <1>3, <2>1 DEF CallType
    <2> QED BY <1>1, <1>3, <2>2, Unmoved, ZenonT(30) DEF Serves
  <1> QED BY <1>2, <1>3, Zenon DEF tt_av_cmd_call

\* tt_av_cmd_answer: the call comes up, with or without our camera.
LEMMA CmdAnswer ==
    ASSUME AInv, NEW c \in Command, c.fn \in Friends, c.cmd = "answer", tt_av_cmd_answer(c),
           msi[c.fn].st = "ringing"
    PROVE  Serves
  <1> DEFINE f == c.fn
             st == IF c.video THEN {"A", "V"} ELSE {"A"}
  <1>1. msi \in [Friends -> CallType] /\ g \in RecordType /\ Audio(msi, g) /\ f \in Friends
    BY DEF AInv, Audio
  <1>2. /\ msi' = [msi EXCEPT ![f].st = "active", ![f].self = st]
        /\ \E ok \in setup.devices : g' = [g EXCEPT !.state = st, !.audio = Up(@, TRUE, ok),
                                                    !.video = Up(@, c.video, ok)]
    BY Zenon DEF tt_av_cmd_answer
  <1>0. msi' = [msi EXCEPT ![f].st = "active", ![f].self = st] /\ msi[f] \in CallType
    BY <1>1, <1>2
  <1>3. "A" \in msi[f].peer /\ msi[f].prev = {}
    BY <1>1 DEF Audio, Early
  <1>4. c.video \in BOOLEAN
    BY DEF Command
  <1>5. st \in SUBSET Cap /\ st \in SUBSET Bits /\ "A" \in st /\ ("V" \in st <=> c.video)
    BY <1>4 DEF Cap, Bits
  <1> HIDE DEF f, st
  <1>6. /\ msi' \in [Friends -> CallType] /\ \A h \in Friends \ {f} : msi'[h] = msi[h]
        /\ msi'[f].st = "active" /\ msi'[f].peer = msi[f].peer /\ msi'[f].self = st
        /\ msi'[f].prev = {} /\ msi'[f].shared = msi[f].shared
        /\ msi'[f].filming = msi[f].filming
    BY <1>0, <1>1, <1>3, <1>5 DEF CallType
  <1>7. /\ g' \in RecordType /\ g'.state = st /\ g'.call_fn = g.call_fn
        /\ g'.video => g.video \/ "V" \in st
    BY <1>1, <1>2, <1>4, <1>5 DEF RecordType, Up
  <1>8. TellsAudio(msi'[f], g') /\ TellsVideo(msi'[f], g')
    BY <1>3, <1>5, <1>6, <1>7 DEF TellsAudio, TellsVideo
  <1>9. /\ msi[f].st # "none" /\ (msi[f].shared => msi'[f].shared)
         /\ (msi[f].filming => msi'[f].filming)
        /\ Films(msi[f]) /\ msi[f].st = "active" => Films(msi'[f])
        /\ g'.video => Films(msi'[f]) \/ g.video
    BY <1>5, <1>6, <1>7 DEF Films, f
  <1>10. /\ Audio(msi', g')
         /\ Video(msi, g) /\ (~Loose(msi'[f]) => TellsVideo(msi'[f], g'))
            /\ (g'.video => Films(msi'[f])
                  \/ (g.video /\ (Films(msi[f]) /\ msi[f].st = "active" => Films(msi'[f]))))
              => Video(msi', g')
    BY <1>1, <1>6, <1>7, <1>8, <1>9, GoesOn, Zenon
  <1> QED BY <1>8, <1>9, <1>10 DEF Serves

\* tt_av_cmd_hangup: the call ends and the devices stop.
LEMMA CmdHangup ==
    ASSUME AInv, NEW c \in Command, c.fn \in Friends, tt_av_cmd_hangup(c), InCall(c.fn)
    PROVE  Serves
  <1> DEFINE f == c.fn
  <1>1. g \in RecordType /\ Audio(msi, g) /\ f \in Friends
    BY DEF AInv, Audio
  <1>2. msi[f].st # "none" /\ msi' = [msi EXCEPT ![f] = NoCall]
    BY Zenon DEF tt_av_cmd_hangup, InCall
  <1> HIDE DEF f
  <1>3. g' = Down([g EXCEPT !.state = {}])
    BY Zenon DEF tt_av_cmd_hangup, push_av_local_ended
  <1>4. g' \in RecordType /\ ~g'.audio /\ ~g'.video
    BY <1>1, <1>3 DEF RecordType, Down
  <1>5. Audio(msi', g') /\ (Video(msi, g) => Video(msi', g'))
    BY <1>1, <1>2, <1>4, Ends
  <1> QED BY <1>5 DEF Serves

\* tt_av_cmd_pause: the record forgets its state and remembers it in paused_state.
LEMMA CmdPause ==
    ASSUME AInv, NEW c \in Command, c.fn \in Friends, tt_av_cmd_pause(c),
           msi[c.fn].st = "active", msi[c.fn].self # {}
    PROVE  Serves
  <1> DEFINE f == c.fn
  <1>1. msi \in [Friends -> CallType] /\ g \in RecordType /\ Audio(msi, g) /\ f \in Friends
    BY DEF AInv, Audio
  <1>2. /\ msi' = [msi EXCEPT ![f].prev = msi[f].self, ![f].self = {},
                              ![f].shared = @ \/ "A" \notin msi[f].peer]
        /\ g' = [g EXCEPT !.paused_state = g.state, !.state = {}]
    BY Zenon DEF tt_av_cmd_pause
  <1>3. msi[f].st = "active" /\ msi[f].self # {} /\ msi[f] \in CallType
    BY <1>1
  <1> HIDE DEF f
  <1>4. "A" \in msi[f].self \/ "V" \in msi[f].self
    BY <1>3 DEF CallType, Cap
  <1>5. ~msi[f].shared => TellsAudio(msi[f], g)
    BY <1>1, <1>3 DEF Audio, AudioTold
  <1>6. Video(msi, g) => (~Loose(msi[f]) => TellsVideo(msi[f], g))
    BY <1>1, <1>3 DEF Video, VideoTold
  <1>7. /\ msi' \in [Friends -> CallType] /\ \A h \in Friends \ {f} : msi'[h] = msi[h]
        /\ msi'[f].st = "active" /\ msi'[f].peer = msi[f].peer /\ msi'[f].self = {}
        /\ msi'[f].prev = msi[f].self
        /\ msi'[f].shared <=> msi[f].shared \/ "A" \notin msi[f].peer
        /\ msi'[f].filming = msi[f].filming
    BY <1>1, <1>2, <1>3 DEF CallType
  <1>8. /\ g' \in RecordType /\ g'.state = {} /\ g'.paused_state = g.state
        /\ g'.call_fn = g.call_fn /\ g'.video = g.video
    BY <1>1, <1>2 DEF RecordType
  <1>9. ~msi'[f].shared => TellsAudio(msi'[f], g')
    BY <1>5, <1>7, <1>8 DEF TellsAudio
  <1>10. Video(msi, g) => (~Loose(msi'[f]) => TellsVideo(msi'[f], g'))
    BY <1>6, <1>7, <1>8 DEF TellsVideo, Loose
  <1>11. /\ msi[f].st # "none" /\ (msi[f].shared => msi'[f].shared)
         /\ (msi[f].filming => msi'[f].filming)
         /\ Films(msi[f]) => Films(msi'[f])
         /\ g'.video => g.video
    BY <1>3, <1>4, <1>7, <1>8 DEF Films, Loose
  <1>12. /\ Audio(msi', g')
         /\ Video(msi, g) /\ (~Loose(msi'[f]) => TellsVideo(msi'[f], g'))
            /\ (g'.video => Films(msi'[f])
                  \/ (g.video /\ (Films(msi[f]) /\ msi[f].st = "active" => Films(msi'[f]))))
              => Video(msi', g')
    BY <1>1, <1>7, <1>8, <1>9, <1>11, GoesOn, Zenon
  <1> QED BY <1>10, <1>11, <1>12 DEF Serves

\* tt_av_cmd_resume: both sides of our pause are as they were.
LEMMA CmdResume ==
    ASSUME AInv, NEW c \in Command, c.fn \in Friends, tt_av_cmd_resume(c),
           msi[c.fn].st = "active", msi[c.fn].self = {}, msi[c.fn].prev # {}
    PROVE  Serves
  <1> DEFINE f == c.fn
  <1>1. msi \in [Friends -> CallType] /\ g \in RecordType /\ Audio(msi, g) /\ f \in Friends
    BY DEF AInv, Audio
  <1>2. /\ msi' = [msi EXCEPT ![f].self = msi[f].prev]
        /\ \E ok \in setup.devices :
               g' = [g EXCEPT !.state = g.paused_state, !.paused_state = {},
                              !.video = Up(@, "V" \in g.paused_state /\ g.call_fn = f, ok)]
    BY Zenon DEF tt_av_cmd_resume
  <1>3. msi[f].st = "active" /\ msi[f].self = {} /\ msi[f].prev # {} /\ msi[f] \in CallType
    BY <1>1
  <1> HIDE DEF f
  <1>5. ~msi[f].shared => TellsAudio(msi[f], g)
    BY <1>1, <1>3 DEF Audio, AudioTold
  <1>6. Video(msi, g) => (~Loose(msi[f]) => TellsVideo(msi[f], g))
    BY <1>1, <1>3 DEF Video, VideoTold
  <1>7. /\ msi' \in [Friends -> CallType] /\ \A h \in Friends \ {f} : msi'[h] = msi[h]
        /\ msi'[f].st = "active" /\ msi'[f].peer = msi[f].peer /\ msi'[f].self = msi[f].prev
        /\ msi'[f].prev = msi[f].prev /\ msi'[f].shared = msi[f].shared
        /\ msi'[f].filming = msi[f].filming
    BY <1>1, <1>2, <1>3 DEF CallType
  <1>8. /\ g' \in RecordType /\ g'.state = g.paused_state /\ g'.paused_state = {}
        /\ g'.call_fn = g.call_fn /\ (g'.video => g.video \/ "V" \in g.paused_state)
    BY <1>1, <1>2 DEF RecordType, Up
  <1>9. ~msi'[f].shared => TellsAudio(msi'[f], g')
    BY <1>3, <1>5, <1>7, <1>8 DEF TellsAudio
  <1>10. Video(msi, g) => /\ ~Loose(msi'[f]) => TellsVideo(msi'[f], g')
                          /\ g'.video => Films(msi'[f]) \/ g.video
    BY <1>3, <1>6, <1>7, <1>8 DEF TellsVideo, Films, Loose
  <1>11. /\ msi[f].st # "none" /\ (msi[f].shared => msi'[f].shared)
         /\ (msi[f].filming => msi'[f].filming)
         /\ Films(msi[f]) => Films(msi'[f])
    BY <1>3, <1>7 DEF Films, Loose
  <1>12. /\ Audio(msi', g')
         /\ Video(msi, g) /\ (~Loose(msi'[f]) => TellsVideo(msi'[f], g'))
            /\ (g'.video => Films(msi'[f])
                  \/ (g.video /\ (Films(msi[f]) /\ msi[f].st = "active" => Films(msi'[f]))))
              => Video(msi', g')
    BY <1>1, <1>7, <1>8, <1>9, <1>11, GoesOn, Zenon
  <1> QED BY <1>10, <1>11, <1>12 DEF Serves

\* tt_av_cmd_mute: the gate is no part of what the record tells.
LEMMA CmdMute ==
    ASSUME AInv, NEW c \in Command, c.cmd = "mute", tt_av_cmd_mute(c)
    PROVE  Serves
  <1>1. msi \in [Friends -> CallType] /\ g \in RecordType /\ Audio(msi, g)
    BY DEF AInv, Audio
  <1>2. g' = [g EXCEPT !.mic_muted = c.on] /\ msi' = msi /\ c.on \in BOOLEAN
    BY DEF tt_av_cmd_mute, Command
  <1>3. /\ g' \in RecordType /\ g'.state = g.state /\ g'.call_fn = g.call_fn
        /\ g'.paused_state = g.paused_state /\ g'.audio = g.audio /\ g'.video = g.video
    BY <1>1, <1>2 DEF RecordType
  <1> QED BY <1>1, <1>2, <1>3, Unmoved, ZenonT(30) DEF Serves

\* tt_av_cmd_camera: our video bit, in the session and in the record.
LEMMA CmdCamera ==
    ASSUME AInv, NEW c \in Command, c.fn \in Friends, c.cmd = "camera", tt_av_cmd_camera(c),
           g.call_fn = c.fn, c.on # ("V" \in g.state), msi[c.fn].st = "active"
    PROVE  Serves
  <1> DEFINE f == c.fn
             st == IF c.on THEN g.state \cup {"V"} ELSE g.state \ {"V"}
             self == IF c.on THEN msi[f].self \cup {"V"} ELSE msi[f].self \ {"V"}
  <1>1. msi \in [Friends -> CallType] /\ g \in RecordType /\ Audio(msi, g) /\ f \in Friends
    BY DEF AInv, Audio
  <1>2. /\ msi' = [msi EXCEPT ![f].self = IF c.on THEN @ \cup {"V"} ELSE @ \ {"V"}]
        /\ \E ok \in setup.devices :
               g' = [g EXCEPT !.state = st, !.video = c.on /\ Up(@, TRUE, ok)]
    BY Zenon DEF tt_av_cmd_camera
  <1>3. msi[f].st = "active" /\ msi[f] \in CallType
    BY <1>1
  <1>4. /\ self \in SUBSET Cap /\ ("A" \in self <=> "A" \in msi[f].self)
        /\ "V" \in self <=> c.on
    BY <1>3 DEF CallType, Cap, Command
  <1>5. /\ st \in SUBSET Bits /\ ("A" \in st <=> "A" \in g.state)
        /\ "V" \in st <=> c.on
    BY <1>1 DEF RecordType, Bits, Cap, Command
  <1>6. msi' = [msi EXCEPT ![f].self = self]
    BY <1>1, <1>2
  <1> HIDE DEF f, st, self
  <1>7. ~msi[f].shared => TellsAudio(msi[f], g)
    BY <1>1, <1>3 DEF Audio, AudioTold
  <1>8. Video(msi, g) => (~Loose(msi[f]) => TellsVideo(msi[f], g))
    BY <1>1, <1>3 DEF Video, VideoTold
  <1>9. /\ msi' \in [Friends -> CallType] /\ \A h \in Friends \ {f} : msi'[h] = msi[h]
        /\ msi'[f].st = "active" /\ msi'[f].peer = msi[f].peer /\ msi'[f].self = self
        /\ msi'[f].prev = msi[f].prev /\ msi'[f].shared = msi[f].shared
        /\ msi'[f].filming = msi[f].filming
    BY <1>1, <1>3, <1>4, <1>6 DEF CallType
  <1>10. /\ g' \in RecordType /\ g'.state = st /\ g'.paused_state = g.paused_state
         /\ g'.call_fn = g.call_fn /\ (g'.video => c.on)
    BY <1>1, <1>2, <1>5 DEF RecordType, Up
  <1>11. ~msi'[f].shared => TellsAudio(msi'[f], g')
    BY <1>4, <1>5, <1>7, <1>9, <1>10 DEF TellsAudio
  <1>12. Video(msi, g) => (~Loose(msi'[f]) => TellsVideo(msi'[f], g'))
    BY <1>4, <1>5, <1>8, <1>9, <1>10 DEF TellsVideo, Loose
  <1>13. /\ msi[f].st # "none" /\ (msi[f].shared => msi'[f].shared)
         /\ (msi[f].filming => msi'[f].filming)
         /\ g'.video => Films(msi'[f])
    BY <1>3, <1>4, <1>9, <1>10 DEF Films
  <1>14. /\ Audio(msi', g')
         /\ Video(msi, g) /\ (~Loose(msi'[f]) => TellsVideo(msi'[f], g'))
            /\ (g'.video => Films(msi'[f])
                  \/ (g.video /\ (Films(msi[f]) /\ msi[f].st = "active" => Films(msi'[f]))))
              => Video(msi', g')
    BY <1>1, <1>9, <1>10, <1>11, <1>13, GoesOn, Zenon
  <1> QED BY <1>12, <1>13, <1>14 DEF Serves

\* A step that touches neither the sessions nor the record.
LEMMA Untouched ==
    ASSUME AInv, msi' = msi, g' = g
    PROVE  Serves
  BY DEF AInv, Serves

\* The engine takes a command.
LEMMA Takes ==
    ASSUME AInv, TakeCommand
    PROVE  AInv' /\ (Video(msi, g) => Video(msi', g'))
  <1> DEFINE c == Head(cmds)
  <1>1. cmds \in Seq(Command) /\ cmds # <<>> /\ setup' = setup /\ cmds' = Tail(cmds)
    BY DEF AInv, CallsTypeOK, TakeCommand, engineRest
  <1>2. c \in Command /\ cmds' \in Seq(Command)
    BY <1>1
  <1>3. c.fn \in Friends
    BY <1>2 DEF Command
  <1>4. \/ c.cmd = "call" /\ tt_av_cmd_call(c)
        \/ c.cmd = "answer" /\ tt_av_cmd_answer(c)
        \/ c.cmd = "hangup" /\ tt_av_cmd_hangup(c)
        \/ c.cmd = "pause" /\ tt_av_cmd_pause(c)
        \/ c.cmd = "resume" /\ tt_av_cmd_resume(c)
        \/ c.cmd = "mute" /\ tt_av_cmd_mute(c)
        \/ c.cmd = "camera" /\ tt_av_cmd_camera(c)
    BY Zenon DEF TakeCommand
  <1> HIDE DEF c
  <1>5. Serves
    <2>1. CASE tt_av_cmd_call(c)
      BY <1>2, <1>3, <2>1, CmdCall
    <2>2. CASE c.cmd = "answer" /\ tt_av_cmd_answer(c)
      <3>1. CASE msi[c.fn].st = "ringing"
        BY <1>2, <1>3, <2>2, <3>1, CmdAnswer
      <3>2. CASE msi[c.fn].st # "ringing"
        <4>1. msi' = msi /\ g' = g
          BY <2>2, <3>2, Zenon DEF tt_av_cmd_answer
        <4> QED BY <4>1, Untouched
      <3> QED BY <3>1, <3>2
    <2>3. CASE tt_av_cmd_hangup(c)
      <3>1. CASE InCall(c.fn)
        BY <1>2, <1>3, <2>3, <3>1, CmdHangup
      <3>2. CASE ~InCall(c.fn)
        <4>1. msi' = msi /\ g' = g
          BY <2>3, <3>2, Zenon DEF tt_av_cmd_hangup
        <4> QED BY <4>1, Untouched
      <3> QED BY <3>1, <3>2
    <2>4. CASE tt_av_cmd_pause(c)
      <3>1. CASE msi[c.fn].st = "active" /\ msi[c.fn].self # {}
        BY <1>2, <1>3, <2>4, <3>1, CmdPause
      <3>2. CASE ~(msi[c.fn].st = "active" /\ msi[c.fn].self # {})
        <4>1. msi' = msi /\ g' = g
          BY <2>4, <3>2, Zenon DEF tt_av_cmd_pause
        <4> QED BY <4>1, Untouched
      <3> QED BY <3>1, <3>2
    <2>5. CASE tt_av_cmd_resume(c)
      <3>1. CASE msi[c.fn].st = "active" /\ msi[c.fn].self = {} /\ msi[c.fn].prev # {}
        BY <1>2, <1>3, <2>5, <3>1, CmdResume
      <3>2. CASE ~(msi[c.fn].st = "active" /\ msi[c.fn].self = {} /\ msi[c.fn].prev # {})
        <4>1. msi' = msi /\ g' = g
          BY <2>5, <3>2, Zenon DEF tt_av_cmd_resume
        <4> QED BY <4>1, Untouched
      <3> QED BY <3>1, <3>2
    <2>6. CASE c.cmd = "mute" /\ tt_av_cmd_mute(c)
      BY <1>2, <2>6, CmdMute
    <2>7. CASE c.cmd = "camera" /\ tt_av_cmd_camera(c)
      <3>1. CASE g.call_fn = c.fn /\ c.on # ("V" \in g.state) /\ msi[c.fn].st = "active"
        BY <1>2, <1>3, <2>7, <3>1, CmdCamera
      <3>2. CASE ~(g.call_fn = c.fn /\ c.on # ("V" \in g.state) /\ msi[c.fn].st = "active")
        <4>1. msi' = msi /\ g' = g
          BY <2>7, <3>2, Zenon DEF tt_av_cmd_camera
        <4> QED BY <4>1, Untouched
      <3> QED BY <3>1, <3>2
    <2> QED BY <1>4, <2>1, <2>2, <2>3, <2>4, <2>5, <2>6, <2>7
  <1> QED BY <1>1, <1>2, <1>5 DEF Serves, AInv, CallsTypeOK

\* The front end posts well-formed commands and leaves the rest to the engine.
LEMMA Clicks ==
    ASSUME AInv, NEW f \in Friends,
           \/ cc_av_call(f) \/ cc_av_answer(f) \/ cc_av_answer_video(f) \/ cc_av_decline(f)
           \/ cc_av_mute(f) \/ cc_av_pause(f) \/ cc_av_cam(f)
    PROVE  AInv' /\ msi' = msi /\ g' = g
  <1>1. cmds \in Seq(Command)
    BY DEF AInv, CallsTypeOK
  <1>2. msi' = msi /\ g' = g /\ setup' = setup
    BY DEF cc_av_call, cc_av_answer, cc_av_answer_video, cc_av_decline, cc_av_mute,
           cc_av_pause, cc_av_cam, Click
  <1>3. \E c \in Command : cmds' = Append(cmds, c)
    <2>1. \A kind \in {"call", "hangup", "pause", "resume"} : Cmd(kind, f) \in Command
      BY DEF Cmd, Command
    <2>2. CASE cc_av_call(f) \/ cc_av_decline(f) \/ cc_av_pause(f)
      BY <2>1, <2>2 DEF cc_av_call, cc_av_decline, cc_av_pause, Post
    <2>3. CASE cc_av_answer(f) \/ cc_av_answer_video(f)
      BY <2>3 DEF cc_av_answer, cc_av_answer_video, Post, Command
    <2>4. CASE cc_av_mute(f) \/ cc_av_cam(f)
      <3>1. \A kind \in {"mute", "camera"}, b \in BOOLEAN :
                [cmd |-> kind, fn |-> f, on |-> b] \in Command
        BY DEF Command
      <3>2. (~ui[f].muted) \in BOOLEAN /\ (~ui[f].cam) \in BOOLEAN
        OBVIOUS
      <3> QED BY <2>4, <3>1, <3>2 DEF cc_av_mute, cc_av_cam, Post
    <2> QED BY <2>2, <2>3, <2>4
  <1>4. cmds' \in Seq(Command)
    BY <1>1, <1>3
  <1> QED BY <1>2, <1>4 DEF AInv, CallsTypeOK

\* Every step keeps the invariant, and Video with it.
LEMMA StepServes ==
    ASSUME AInv, [Next]_vars
    PROVE  /\ AInv' /\ setup' = setup
           /\ Video(msi, g) => Video(msi', g')
  <1>1. ASSUME NEW f \in Friends, NEW caps \in setup.caps, "A" \in caps,
               cb_av_call(f, caps) \/ PeerAnswers(f, caps)
        PROVE  Serves /\ setup' = setup /\ cmds' = cmds
    BY <1>1, Call, Answers DEF cb_av_call, PeerAnswers
  <1>2. ASSUME NEW f \in Friends, NEW caps \in setup.caps, PeerChanges(f, caps)
        PROVE  Serves /\ setup' = setup /\ cmds' = cmds
    BY <1>2, Changes DEF PeerChanges
  <1>3. ASSUME NEW f \in Friends, NEW how \in {"finished", "error"}, PeerEnds(f, how)
        PROVE  Serves /\ setup' = setup /\ cmds' = cmds
    BY <1>3, PeerLeaves DEF PeerEnds
  <1>4. ASSUME Serves, setup' = setup, cmds' = cmds
        PROVE  AInv' /\ (Video(msi, g) => Video(msi', g'))
    BY <1>4 DEF Serves, AInv, CallsTypeOK
  <1>5. ASSUME NEW f \in Friends,
               \/ cc_av_call(f) \/ cc_av_answer(f) \/ cc_av_answer_video(f) \/ cc_av_decline(f)
               \/ cc_av_mute(f) \/ cc_av_pause(f) \/ cc_av_cam(f)
        PROVE  /\ AInv' /\ setup' = setup
               /\ Video(msi, g) => Video(msi', g')
    <2>1. AInv' /\ msi' = msi /\ g' = g
      BY <1>5, Clicks
    <2>2. setup' = setup
      BY <1>5 DEF cc_av_call, cc_av_answer, cc_av_answer_video, cc_av_decline, cc_av_mute,
                  cc_av_pause, cc_av_cam, Click
    <2> QED BY <2>1, <2>2
  <1>6. CASE TakeCommand
    <2>1. setup' = setup
      BY <1>6 DEF TakeCommand, engineRest
    <2> QED BY <1>6, <2>1, Takes
  <1>7. CASE TakeEvent \/ UNCHANGED vars
    <2>1. msi' = msi /\ g' = g /\ setup' = setup /\ cmds' = cmds
      BY <1>7 DEF TakeEvent, vars
    <2>2. Serves
      BY <2>1, Untouched
    <2> QED BY <1>4, <2>1, <2>2
  <1> QED BY <1>1, <1>2, <1>3, <1>4, <1>5, <1>6, <1>7, Zenon DEF Next

\* At the start there is no call and every device is off.
LEMMA InitServes ==
    ASSUME Init
    PROVE  AInv /\ Video(msi, g)
  <1>1. CallsTypeOK
    BY DEF Init, CallsTypeOK
  <1>2. /\ msi \in [Friends -> CallType] /\ \A f \in Friends : msi[f].st = "none"
        /\ g \in RecordType /\ ~g.audio /\ ~g.video
    BY DEF Init, NoCall, CallType, RecordType
  <1>3. Named(msi, g) /\ Early(msi) /\ AudioTold(msi, g) /\ MicInCall(msi, g)
    BY <1>2 DEF Named, Early, AudioTold, MicInCall
  <1>4. Video(msi, g)
    BY <1>2 DEF Video, VideoTold, CameraInCall
  <1> QED BY <1>1, <1>2, <1>3, <1>4 DEF AInv, Audio

-----------------------------------------------------------------------------
(* Theorems                                                                *)

\* The record's types, the sessions' types and what they have to do with each other,
\* in every reachable state: the inductive invariant.
THEOREM RecordServes == Spec => []AInv
  <1>1. Init => AInv
    BY InitServes
  <1>2. AInv /\ [Next]_vars => AInv'
    BY StepServes
  <1> QED BY <1>1, <1>2, PTL DEF Spec

\* Frames of a call that never shared the record reach its friend exactly while neither
\* side is paused (tt_av_iterate's use of call_fn and state), for any friends, any
\* capabilities of the peers and any number of clicks and moves.
THEOREM AudioReachesPeer == Spec => []AudioFlows
  <1>1. AInv => AudioFlows
    <2> SUFFICES ASSUME AInv, NEW f \in Friends, Active(f), ~msi[f].shared
                 PROVE  /\ g.call_fn = f
                        /\ "A" \in g.state <=> "A" \in msi[f].self /\ "A" \in msi[f].peer
      BY DEF AudioFlows
    <2>1. msi[f].st = "active"
      BY DEF Active
    <2>2. g.call_fn = f
      BY <2>1 DEF AInv, Audio, Named
    <2>3. TellsAudio(msi[f], g)
      BY <2>1 DEF AInv, Audio, AudioTold
    <2> QED BY <2>2, <2>3 DEF TellsAudio
  <1> QED BY <1>1, RecordServes, PTL

\* The microphone is open only while some call is up (audio_lifecycle), whatever the
\* peers send: the first half of DevicesOnlyInCall.
THEOREM MicrophoneOnlyInCall == Spec => [](g.audio => \E f \in Friends : Active(f))
  <1>1. AInv => (g.audio => \E f \in Friends : Active(f))
    BY DEF AInv, Audio, MicInCall, Active
  <1> QED BY <1>1, RecordServes, PTL

\* Both devices are open only in a call they belong to, or the camera in one that shared
\* the record or whose peer was seen to send video (cb_av_call_state): neither hang-ups,
\* pauses and resumes nor the calls of several friends leave a device on
\* (push_av_local_ended, tt_av_cmd_resume, tt_av_cmd_camera), whatever the peers send.
THEOREM DevicesFollowCalls == Spec => []DevicesOnlyInCall
  <1> DEFINE I == AInv /\ Video(msi, g)
  <1>1. Init => I
    BY InitServes
  <1>2. I /\ [Next]_vars => I'
    BY StepServes
  <1>3. I => DevicesOnlyInCall
    <2> SUFFICES ASSUME I PROVE DevicesOnlyInCall
      OBVIOUS
    <2>1. g.audio => \E f \in Friends : Active(f)
      BY DEF AInv, Audio, MicInCall, Active
    <2>2. g.video => \E f \in Friends :
                        Active(f) /\ (Filmed(f) \/ msi[f].shared \/ msi[f].filming)
      BY DEF Video, CameraInCall, Films, Loose, Filmed, Active
    <2> QED BY <2>1, <2>2 DEF DevicesOnlyInCall
  <1> HIDE DEF I
  <1> QED BY <1>1, <1>2, <1>3, PTL DEF Spec

-----------------------------------------------------------------------------
(* The call strip: what it will show when the events on their way are in.  *)

ContactType == [incoming : BOOLEAN, active : BOOLEAN, ringing : BOOLEAN, state : SUBSET Bits,
                video : BOOLEAN, cam : BOOLEAN, muted : BOOLEAN, paused_self : BOOLEAN]

IncomingOf(f) == [ev : {"incoming"}, fn : {f}, video : BOOLEAN]
StateOf(f) == [ev : {"state"}, fn : {f}, state : SUBSET Bits, echo : BOOLEAN]
EndedOf(f) == [ev : {"ended"}, fn : {f}]
UpOf(f) == {e \in StateOf(f) : "A" \in e.state}
Event == UNION {IncomingOf(f) \cup StateOf(f) \cup EndedOf(f) : f \in Friends}

WillShow(c, es, f) == Latch(c.active, es, UpOf(f), IncomingOf(f) \cup EndedOf(f))
WillOffer(c, es, f) == Latch(c.incoming, es, IncomingOf(f), UpOf(f) \cup EndedOf(f))
WillRing(c, es, f) == Latch(c.ringing, es, {}, IncomingOf(f) \cup UpOf(f) \cup EndedOf(f))

CallQueued(cs, f) == \E k \in 1..Len(cs) : cs[k].cmd = "call" /\ cs[k].fn = f

\* The strip c of friend f, once the events es are in and the commands cs done, against
\* the session d.  It may still ring for a call that the engine has not begun.
StripTells(d, c, es, cs, f) ==
    /\ WillShow(c, es, f) => d.st = "active"
    /\ d.st = "active" => WillShow(c, es, f) \/ d.crossed
    /\ WillOffer(c, es, f) => d.st = "ringing"
    /\ WillRing(c, es, f) => d.st = "inviting" \/ CallQueued(cs, f)

StripType == ui \in [Friends -> ContactType] /\ evs \in Seq(Event)
SInv == StripType /\ \A f \in Friends : StripTells(msi[f], ui[f], evs, cmds, f)

\* The events of two friends, and of two kinds, are different events.
LEMMA EventsApart ==
    ASSUME NEW f \in Friends, NEW h \in Friends
    PROVE  /\ \A e \in IncomingOf(f) : e \notin UpOf(h) \cup EndedOf(h) /\ (e \in IncomingOf(h) <=> f = h)
           /\ \A e \in StateOf(f) : /\ e \notin IncomingOf(h) \cup EndedOf(h)
                                    /\ e \in UpOf(h) <=> f = h /\ "A" \in e.state
           /\ \A e \in EndedOf(f) : e \notin UpOf(h) \cup IncomingOf(h) /\ (e \in EndedOf(h) <=> f = h)
  BY DEF IncomingOf, UpOf, StateOf, EndedOf

\* Every event is of one kind and of one friend.
LEMMA EventKinds ==
    ASSUME NEW e \in Event
    PROVE  \E f \in Friends : e.fn = f /\ (e \in IncomingOf(f) \/ e \in StateOf(f) \/ e \in EndedOf(f))
  BY DEF Event, IncomingOf, StateOf, EndedOf

\* What one more event does to what the strip c of friend h will show.
LEMMA StripAdd ==
    ASSUME NEW es \in Seq(Event), NEW e \in Event, NEW c, NEW h \in Friends
    PROVE  LET t == Append(es, e) IN
           /\ t \in Seq(Event)
           /\ WillShow(c, t, h) <=> \/ e \in UpOf(h)
                                    \/ e \notin IncomingOf(h) \cup EndedOf(h) /\ WillShow(c, es, h)
           /\ WillOffer(c, t, h) <=> \/ e \in IncomingOf(h)
                                     \/ e \notin UpOf(h) \cup EndedOf(h) /\ WillOffer(c, es, h)
           /\ WillRing(c, t, h) <=> /\ e \notin IncomingOf(h) \cup UpOf(h) \cup EndedOf(h)
                                    /\ WillRing(c, es, h)
  <1> DEFINE t == Append(es, e)
  <1>1. IsSeq(es) /\ t \in Seq(Event)
    BY ElementOfSeqIsSeq
  <1> HIDE DEF t
  <1>2. WillShow(c, t, h) <=> \/ e \in UpOf(h)
                              \/ e \notin IncomingOf(h) \cup EndedOf(h) /\ WillShow(c, es, h)
    BY <1>1, LatchAdd DEF WillShow, t
  <1>3. WillOffer(c, t, h) <=> \/ e \in IncomingOf(h)
                               \/ e \notin UpOf(h) \cup EndedOf(h) /\ WillOffer(c, es, h)
    BY <1>1, LatchAdd DEF WillOffer, t
  <1>4. WillRing(c, t, h) <=> \/ e \in {}
                              \/ /\ e \notin IncomingOf(h) \cup UpOf(h) \cup EndedOf(h)
                                 /\ WillRing(c, es, h)
    BY <1>1, LatchAdd DEF WillRing, t
  <1> QED BY <1>1, <1>2, <1>3, <1>4 DEF t

\* What the front end makes of an event is what was expected of it.
LEMMA StripTake ==
    ASSUME NEW es \in Seq(Event), es # <<>>, NEW c \in ContactType, NEW d \in ContactType,
           NEW h \in Friends,
           Head(es) \in IncomingOf(h) => d.incoming /\ ~d.active /\ ~d.ringing,
           Head(es) \in UpOf(h) => ~d.incoming /\ d.active /\ ~d.ringing,
           Head(es) \in EndedOf(h) => ~d.incoming /\ ~d.active /\ ~d.ringing,
           Head(es) \notin IncomingOf(h) \cup UpOf(h) \cup EndedOf(h) =>
               d.incoming = c.incoming /\ d.active = c.active /\ d.ringing = c.ringing
    PROVE  /\ WillShow(d, Tail(es), h) <=> WillShow(c, es, h)
           /\ WillOffer(d, Tail(es), h) <=> WillOffer(c, es, h)
           /\ WillRing(d, Tail(es), h) <=> WillRing(c, es, h)
  <1> DEFINE e == Head(es)
  <1>1. IsSeq(es) /\ e \in Event
    BY ElementOfSeqIsSeq
  <1>2. /\ e \in IncomingOf(h) => e \notin UpOf(h) \cup EndedOf(h)
        /\ e \in UpOf(h) => e \notin EndedOf(h)
    BY EventsApart DEF UpOf
  <1>3. /\ d.active <=> e \in UpOf(h) \/ (c.active /\ e \notin IncomingOf(h) \cup EndedOf(h))
        /\ d.incoming <=> e \in IncomingOf(h) \/ (c.incoming /\ e \notin UpOf(h) \cup EndedOf(h))
        /\ d.ringing <=> e \in {} \/ (c.ringing /\ e \notin IncomingOf(h) \cup UpOf(h) \cup EndedOf(h))
    BY <1>2
  <1> HIDE DEF e
  <1>4. /\ d.active <=> Head(es) \in UpOf(h) \/ (c.active /\ Head(es) \notin IncomingOf(h) \cup EndedOf(h))
        /\ d.incoming <=> Head(es) \in IncomingOf(h) \/ (c.incoming /\ Head(es) \notin UpOf(h) \cup EndedOf(h))
        /\ d.ringing <=> Head(es) \in {} \/ (c.ringing /\ Head(es) \notin IncomingOf(h) \cup UpOf(h) \cup EndedOf(h))
    BY <1>3, Zenon DEF e
  <1>5. WillShow(d, Tail(es), h) <=> WillShow(c, es, h)
    BY <1>1, <1>4, LatchTake, Zenon DEF WillShow
  <1>6. WillOffer(d, Tail(es), h) <=> WillOffer(c, es, h)
    BY <1>1, <1>4, LatchTake, Zenon DEF WillOffer
  <1>7. WillRing(d, Tail(es), h) <=> WillRing(c, es, h)
    BY <1>1, <1>4, LatchTake, Zenon DEF WillRing
  <1> QED BY <1>5, <1>6, <1>7

-----------------------------------------------------------------------------
(* The kinds of steps the engine takes, and what it says of each           *)

OthersStay(f) ==
    \A h \in Friends \ {f} : msi'[h].st = msi[h].st /\ msi'[h].crossed = msi[h].crossed
Says(e) == evs' = Append(evs, e)

\* A call begins: one of the peer's is announced, one of ours the front end knows of.
Starts(f) ==
    /\ msi[f].st = "none" /\ OthersStay(f) /\ g'.call_fn = f
    /\ \/ msi'[f].st = "inviting" /\ evs' = evs
       \/ msi'[f].st = "ringing" /\ \E e \in IncomingOf(f) : Says(e)
\* A call comes up, and is said to be up; or it goes on.
Continues(f) ==
    /\ msi[f].st # "none" /\ msi'[f].st = "active" /\ msi'[f].crossed = msi[f].crossed
    /\ OthersStay(f) /\ g'.call_fn = g.call_fn /\ g'.mic_muted = g.mic_muted
    /\ \E e \in StateOf(f) : Says(e) /\ (msi[f].st # "active" => "A" \in e.state)
\* A call ends; who ended it by a callback also gets the callback's state.
Stops(f) ==
    /\ msi[f].st # "none" /\ msi'[f].st = "none" /\ OthersStay(f) /\ g'.call_fn = None
    /\ \E e \in EndedOf(f) :
          \/ Says(e)
          \/ \E s \in StateOf(f) \ UpOf(f) : evs' = Append(Append(evs, e), s)
\* A call of ours is refused.
Refuses(f) ==
    /\ msi'[f].st = msi[f].st /\ (msi[f].st # "none" => msi'[f].crossed)
    /\ OthersStay(f) /\ g' = g
    /\ \E e \in EndedOf(f) : Says(e)
\* Nothing happens, but perhaps to the microphone's gate.
Idles == msi' = msi /\ evs' = evs /\ g'.call_fn = g.call_fn

\* Push of one event.
LEMMA PushOne ==
    ASSUME evs \in Seq(Event), NEW e, Push(<<e>>)
    PROVE  Says(e)
  BY ElementOfSeqIsSeq, ConcatOne DEF Push, Says

\* The events the engine builds.
LEMMA EventsBuilt ==
    ASSUME NEW f \in Friends
    PROVE  /\ \A caps : Incoming(f, caps) \in IncomingOf(f)
           /\ \A st \in SUBSET Bits, echo \in BOOLEAN :
                  State(f, st, echo) \in StateOf(f) /\ State(f, st, echo).state = st
           /\ Ended(f) \in EndedOf(f)
  BY DEF Incoming, IncomingOf, State, StateOf, Ended, EndedOf

\* cb_av_call_state of a call that goes on pushes its state.
LEMMA CallbackSays ==
    ASSUME evs \in Seq(Event), g \in RecordType, NEW f \in Friends, NEW st \in SUBSET Cap,
           cb_av_call_state(f, st)
    PROVE  /\ Says(State(f, st, FALSE))
           /\ g'.call_fn = g.call_fn /\ g'.mic_muted = g.mic_muted
  <1>1. st \cap {"finished", "error"} = {}
    BY DEF Cap
  <1>2. PICK ok \in setup.devices :
            /\ g' = [g EXCEPT !.state = st, !.audio = Up(@, "A" \in st, ok),
                              !.video = Up(@, "V" \in st /\ g.call_fn = f, ok)]
            /\ Push(<<>> \o <<State(f, st, FALSE)>>)
    BY <1>1, Zenon DEF cb_av_call_state
  <1>3. <<>> \o <<State(f, st, FALSE)>> = <<State(f, st, FALSE)>>
    OBVIOUS
  <1>4. Says(State(f, st, FALSE))
    BY <1>2, <1>3, PushOne
  <1>5. g'.call_fn = g.call_fn /\ g'.mic_muted = g.mic_muted
    BY <1>2 DEF RecordType
  <1> QED BY <1>4, <1>5

\* cb_av_call_state of a call that is over pushes that, and then its state.
LEMMA CallbackSaysEnd ==
    ASSUME evs \in Seq(Event), g \in RecordType, NEW f \in Friends,
           NEW how \in {"finished", "error"}, cb_av_call_state(f, {how})
    PROVE  /\ evs' = Append(Append(evs, Ended(f)), State(f, {how}, FALSE))
           /\ g'.call_fn = None
  <1>1. {how} \cap {"finished", "error"} # {}
    OBVIOUS
  <1>2. /\ g' = Down([g EXCEPT !.state = {how}])
        /\ evs' = evs \o (<<Ended(f)>> \o <<State(f, {how}, FALSE)>>)
    BY <1>1, Zenon DEF cb_av_call_state, Push
  <1>3. IsSeq(evs)
    BY ElementOfSeqIsSeq
  <1>4. \A x, y : evs \o (<<x>> \o <<y>>) = Append(Append(evs, x), y)
    BY <1>3, ConcatTwo, Zenon
  <1>5. evs' = Append(Append(evs, Ended(f)), State(f, {how}, FALSE))
    BY <1>2, <1>4, Zenon
  <1> QED BY <1>2, <1>5 DEF Down, RecordType

\* Open leaves the other sessions' phases alone.
LEMMA OpenStays ==
    ASSUME msi \in [Friends -> CallType], NEW f \in Friends, NEW st \in {"ringing", "inviting"},
           NEW self \in SUBSET Cap, NEW peer \in SUBSET Cap, Open(f, st, self, peer)
    PROVE  msi'[f].st = st /\ OthersStay(f)
  <1>1. \A h \in Friends :
            msi'[h] = CASE h = f -> [NoCall EXCEPT !.st = st, !.self = self, !.peer = peer,
                                                   !.shared = Others(f) # {}]
                        [] h \in Others(f) -> [msi[h] EXCEPT !.shared = TRUE]
                        [] OTHER -> msi[h]
    BY Zenon DEF Open
  <1>2. msi'[f].st = st
    <2>1. Others(f) = InCalls(msi, f)
      BY DEF Others, InCall, InCalls
    <2>2. msi' = Opening(msi, Others(f), f, st, self, peer)
      BY Zenon DEF Open, Opening
    <2>3. Begun(msi, f, st, self, peer, msi')
      BY <2>1, <2>2, OpenSessions, Zenon
    <2> QED BY <2>3 DEF Begun
  <1>3. ASSUME NEW h \in Friends \ {f}
        PROVE  msi'[h].st = msi[h].st /\ msi'[h].crossed = msi[h].crossed
    <2> DEFINE d == msi[h]
    <2>1. d \in CallType /\ (msi'[h] = d \/ msi'[h] = [d EXCEPT !.shared = TRUE])
      BY <1>1
    <2> HIDE DEF d
    <2>2. msi'[h].st = d.st /\ msi'[h].crossed = d.crossed
      BY <2>1 DEF CallType
    <2> QED BY <2>2 DEF d
  <1> QED BY <1>2, <1>3 DEF OthersStay

\* What the peers do.
LEMMA PeerSteps ==
    ASSUME AInv, StripType, NEW f \in Friends,
           \/ \E caps \in setup.caps : \/ "A" \in caps /\ cb_av_call(f, caps)
                                       \/ "A" \in caps /\ PeerAnswers(f, caps)
                                       \/ PeerChanges(f, caps)
           \/ \E how \in {"finished", "error"} : PeerEnds(f, how)
    PROVE  (Starts(f) \/ Continues(f) \/ Stops(f)) /\ cmds' = cmds /\ ui' = ui
  <1>1. /\ msi \in [Friends -> CallType] /\ g \in RecordType /\ evs \in Seq(Event)
        /\ \A caps \in setup.caps : caps \in SUBSET Cap
    BY CallsAssumption DEF AInv, CallsTypeOK, Audio, StripType, Cap
  <1>2. ASSUME NEW caps \in setup.caps, cb_av_call(f, caps)
        PROVE  Starts(f) /\ cmds' = cmds /\ ui' = ui
    <2>1. /\ ~InCall(f) /\ Open(f, "ringing", {}, caps) /\ NewCall(f)
          /\ Push(<<Incoming(f, caps)>>) /\ cmds' = cmds /\ ui' = ui
      BY <1>2, Zenon DEF cb_av_call
    <2>2. Says(Incoming(f, caps)) /\ Incoming(f, caps) \in IncomingOf(f)
      BY <1>1, <2>1, PushOne, EventsBuilt
    <2>3. msi[f].st = "none" /\ g'.call_fn = f
      BY <1>1, <2>1 DEF InCall, NewCall, RecordType
    <2>4. msi'[f].st = "ringing" /\ OthersStay(f)
      BY <1>1, <2>1, OpenStays, {} \in SUBSET Cap
    <2> QED BY <2>1, <2>2, <2>3, <2>4 DEF Starts
  <1>3. ASSUME NEW caps \in setup.caps, "A" \in caps, PeerAnswers(f, caps)
        PROVE  Continues(f) /\ cmds' = cmds /\ ui' = ui
    <2>1. /\ msi[f].st = "inviting" /\ cb_av_call_state(f, caps) /\ cmds' = cmds /\ ui' = ui
          /\ msi' = [msi EXCEPT ![f].st = "active", ![f].peer = caps,
                              ![f].filming = @ \/ "V" \in caps]
      BY <1>3, Zenon DEF PeerAnswers
    <2>2. Says(State(f, caps, FALSE)) /\ g'.call_fn = g.call_fn /\ g'.mic_muted = g.mic_muted
      BY <1>1, <2>1, CallbackSays
    <2>3. msi'[f].st = "active" /\ msi'[f].crossed = msi[f].crossed /\ OthersStay(f)
      BY <1>1, <2>1 DEF OthersStay, CallType
    <2>4. State(f, caps, FALSE) \in StateOf(f) /\ State(f, caps, FALSE).state = caps
      BY <1>1, EventsBuilt DEF Bits, Cap
    <2> QED BY <1>3, <2>1, <2>2, <2>3, <2>4 DEF Continues
  <1>4. ASSUME NEW caps \in setup.caps, PeerChanges(f, caps)
        PROVE  Continues(f) /\ cmds' = cmds /\ ui' = ui
    <2>1. /\ msi[f].st = "active" /\ cb_av_call_state(f, caps) /\ cmds' = cmds /\ ui' = ui
          /\ msi' = [msi EXCEPT ![f].peer = caps, ![f].shared = @ \/ "A" \notin msi[f].self,
                              ![f].filming = @ \/ "V" \in caps]
      BY <1>4, Zenon DEF PeerChanges
    <2>2. Says(State(f, caps, FALSE)) /\ g'.call_fn = g.call_fn /\ g'.mic_muted = g.mic_muted
      BY <1>1, <2>1, CallbackSays
    <2>3. msi'[f].st = "active" /\ msi'[f].crossed = msi[f].crossed /\ OthersStay(f)
      BY <1>1, <2>1 DEF OthersStay, CallType
    <2>4. State(f, caps, FALSE) \in StateOf(f) /\ State(f, caps, FALSE).state = caps
      BY <1>1, EventsBuilt DEF Bits, Cap
    <2> QED BY <2>1, <2>2, <2>3, <2>4 DEF Continues
  <1>5. ASSUME NEW how \in {"finished", "error"}, PeerEnds(f, how)
        PROVE  Stops(f) /\ cmds' = cmds /\ ui' = ui
    <2>1. /\ msi[f].st # "none" /\ msi' = [msi EXCEPT ![f] = NoCall]
          /\ cb_av_call_state(f, {how}) /\ cmds' = cmds /\ ui' = ui
      BY <1>5, Zenon DEF PeerEnds, InCall
    <2>2. /\ evs' = Append(Append(evs, Ended(f)), State(f, {how}, FALSE))
          /\ g'.call_fn = None
      BY <1>1, <2>1, CallbackSaysEnd
    <2>3. msi'[f].st = "none" /\ OthersStay(f)
      BY <1>1, <2>1 DEF OthersStay, NoCall
    <2>4. /\ Ended(f) \in EndedOf(f) /\ State(f, {how}, FALSE) \in StateOf(f)
          /\ State(f, {how}, FALSE).state = {how} /\ "A" \notin {how}
      BY EventsBuilt DEF Bits
    <2>5. State(f, {how}, FALSE) \in StateOf(f) \ UpOf(f)
      BY <2>4 DEF UpOf
    <2> QED BY <2>1, <2>2, <2>3, <2>4, <2>5 DEF Stops
  <1> QED BY <1>2, <1>3, <1>4, <1>5

\* An answer, a hang-up, a pause, a resume or the camera's button, done by the engine.
LEMMA CallSteps ==
    ASSUME AInv, StripType, NEW c \in Command, c.fn \in Friends,
           \/ c.cmd = "answer" /\ tt_av_cmd_answer(c)
           \/ c.cmd = "hangup" /\ tt_av_cmd_hangup(c)
           \/ c.cmd = "pause" /\ tt_av_cmd_pause(c)
           \/ c.cmd = "resume" /\ tt_av_cmd_resume(c)
           \/ c.cmd = "camera" /\ tt_av_cmd_camera(c)
    PROVE  Continues(c.fn) \/ Stops(c.fn) \/ (Idles /\ g' = g)
  <1> DEFINE f == c.fn
  <1>1. msi \in [Friends -> CallType] /\ g \in RecordType /\ evs \in Seq(Event) /\ f \in Friends
    BY DEF AInv, Audio, StripType
  <1>2. ASSUME NEW st \in SUBSET Bits, Push(<<State(f, st, TRUE)>>)
        PROVE  Says(State(f, st, TRUE)) /\ State(f, st, TRUE) \in StateOf(f)
               /\ State(f, st, TRUE).state = st
    BY <1>1, <1>2, PushOne, EventsBuilt
  <1>3. CASE msi' = msi /\ g' = g /\ evs' = evs
    BY <1>3 DEF Idles
  <1>4. CASE /\ c.cmd = "answer" /\ tt_av_cmd_answer(c)
             /\ ~(msi' = msi /\ g' = g /\ evs' = evs)
    <2> DEFINE st == IF c.video THEN {"A", "V"} ELSE {"A"}
    <2>1. /\ msi[f].st = "ringing" /\ msi' = [msi EXCEPT ![f].st = "active", ![f].self = st]
          /\ \E ok \in setup.devices : g' = [g EXCEPT !.state = st, !.audio = Up(@, TRUE, ok),
                                                      !.video = Up(@, c.video, ok)]
          /\ Push(<<State(f, st, TRUE)>>)
      BY <1>4, Zenon DEF tt_av_cmd_answer
    <2>2. st \in SUBSET Bits /\ "A" \in st
      BY DEF Bits, Cap
    <2> HIDE DEF st, f
    <2>3. msi'[f].st = "active" /\ msi'[f].crossed = msi[f].crossed /\ OthersStay(f)
      BY <1>1, <2>1 DEF OthersStay, CallType
    <2>4. g'.call_fn = g.call_fn /\ g'.mic_muted = g.mic_muted
      BY <1>1, <2>1 DEF RecordType
    <2> DEFINE e == State(f, st, TRUE)
    <2>5. Says(e) /\ e \in StateOf(f) /\ e.state = st
      BY <1>2, <2>1, <2>2
    <2> HIDE DEF e
    <2>6. Continues(f)
      BY <2>1, <2>2, <2>3, <2>4, <2>5 DEF Continues
    <2> QED BY <2>6 DEF f
  <1>5. CASE /\ c.cmd = "hangup" /\ tt_av_cmd_hangup(c)
             /\ ~(msi' = msi /\ g' = g /\ evs' = evs)
    <2>1. /\ msi[f].st # "none" /\ msi' = [msi EXCEPT ![f] = NoCall]
          /\ g' = Down([g EXCEPT !.state = {}]) /\ Push(<<Ended(f)>>)
      BY <1>5, Zenon DEF tt_av_cmd_hangup, push_av_local_ended, InCall
    <2> HIDE DEF f
    <2>2. msi'[f].st = "none" /\ OthersStay(f)
      BY <1>1, <2>1 DEF OthersStay, NoCall
    <2>3. g'.call_fn = None
      BY <1>1, <2>1 DEF Down, RecordType
    <2>4. Says(Ended(f)) /\ Ended(f) \in EndedOf(f)
      BY <1>1, <2>1, PushOne, EventsBuilt
    <2>5. Stops(f)
      BY <2>1, <2>2, <2>3, <2>4 DEF Stops
    <2> QED BY <2>5 DEF f
  <1>6. CASE /\ c.cmd = "pause" /\ tt_av_cmd_pause(c)
             /\ ~(msi' = msi /\ g' = g /\ evs' = evs)
    <2>1. /\ msi[f].st = "active"
          /\ msi' = [msi EXCEPT ![f].prev = msi[f].self, ![f].self = {},
                                ![f].shared = @ \/ "A" \notin msi[f].peer]
          /\ g' = [g EXCEPT !.paused_state = g.state, !.state = {}]
          /\ Push(<<State(f, {}, TRUE)>>)
      BY <1>6, Zenon DEF tt_av_cmd_pause
    <2> HIDE DEF f
    <2>3. msi'[f].st = "active" /\ msi'[f].crossed = msi[f].crossed /\ OthersStay(f)
      BY <1>1, <2>1 DEF OthersStay, CallType
    <2>4. g'.call_fn = g.call_fn /\ g'.mic_muted = g.mic_muted
      BY <1>1, <2>1 DEF RecordType
    <2>5. {} \in SUBSET Bits
      OBVIOUS
    <2>6. Continues(f)
      BY <1>2, <2>1, <2>3, <2>4, <2>5 DEF Continues
    <2> QED BY <2>6 DEF f
  <1>7. CASE /\ c.cmd = "resume" /\ tt_av_cmd_resume(c)
             /\ ~(msi' = msi /\ g' = g /\ evs' = evs)
    <2>1. /\ msi[f].st = "active" /\ msi' = [msi EXCEPT ![f].self = msi[f].prev]
          /\ \E ok \in setup.devices :
                 g' = [g EXCEPT !.state = g.paused_state, !.paused_state = {},
                                !.video = Up(@, "V" \in g.paused_state /\ g.call_fn = f, ok)]
          /\ Push(<<State(f, g.paused_state, TRUE)>>)
      BY <1>7, Zenon DEF tt_av_cmd_resume
    <2> HIDE DEF f
    <2>3. msi'[f].st = "active" /\ msi'[f].crossed = msi[f].crossed /\ OthersStay(f)
      BY <1>1, <2>1 DEF OthersStay, CallType
    <2>4. g'.call_fn = g.call_fn /\ g'.mic_muted = g.mic_muted
      BY <1>1, <2>1 DEF RecordType
    <2>5. g.paused_state \in SUBSET Bits
      BY <1>1 DEF RecordType
    <2>6. Continues(f)
      BY <1>2, <2>1, <2>3, <2>4, <2>5 DEF Continues
    <2> QED BY <2>6 DEF f
  <1>8. CASE /\ c.cmd = "camera" /\ tt_av_cmd_camera(c)
             /\ ~(msi' = msi /\ g' = g /\ evs' = evs)
    <2> DEFINE st == IF c.on THEN g.state \cup {"V"} ELSE g.state \ {"V"}
               self == IF c.on THEN msi[f].self \cup {"V"} ELSE msi[f].self \ {"V"}
    <2>1. /\ msi[f].st = "active"
          /\ msi' = [msi EXCEPT ![f].self = IF c.on THEN @ \cup {"V"} ELSE @ \ {"V"}]
          /\ \E ok \in setup.devices :
                 g' = [g EXCEPT !.state = st, !.video = c.on /\ Up(@, TRUE, ok)]
          /\ Push(<<State(f, st, TRUE)>>)
      BY <1>8, Zenon DEF tt_av_cmd_camera
    <2>2. st \in SUBSET Bits
      BY <1>1 DEF RecordType, Bits, Cap
    <2>0. msi' = [msi EXCEPT ![f].self = self]
      BY <1>1, <2>1
    <2> HIDE DEF f, st, self
    <2>3. msi'[f].st = "active" /\ msi'[f].crossed = msi[f].crossed /\ OthersStay(f)
      BY <1>1, <2>0, <2>1 DEF OthersStay, CallType
    <2>4. g'.call_fn = g.call_fn /\ g'.mic_muted = g.mic_muted
      BY <1>1, <2>1 DEF RecordType
    <2>5. Continues(f)
      BY <1>2, <2>1, <2>2, <2>3, <2>4 DEF Continues
    <2> QED BY <2>5 DEF f
  <1> QED BY <1>3, <1>4, <1>5, <1>6, <1>7, <1>8, Zenon

\* What the engine makes of the next command.
LEMMA CommandSteps ==
    ASSUME AInv, StripType, TakeCommand
    PROVE  LET c == Head(cmds) IN
           /\ cmds # <<>> /\ cmds' = Tail(cmds) /\ ui' = ui /\ c \in Command /\ c.fn \in Friends
           /\ \/ /\ c.cmd = "call"
                 /\ (Starts(c.fn) /\ msi'[c.fn].st = "inviting") \/ Refuses(c.fn)
              \/ /\ c.cmd \notin {"call", "mute"}
                 /\ Continues(c.fn) \/ Stops(c.fn) \/ (Idles /\ g' = g)
              \/ c.cmd = "mute" /\ Idles /\ g'.mic_muted = c.on
  <1> DEFINE c == Head(cmds)
  <1>1. /\ msi \in [Friends -> CallType] /\ g \in RecordType /\ evs \in Seq(Event)
        /\ cmds \in Seq(Command) /\ cmds # <<>> /\ cmds' = Tail(cmds) /\ ui' = ui
    BY DEF AInv, CallsTypeOK, Audio, StripType, TakeCommand, engineRest
  <1>2. c \in Command
    BY <1>1
  <1>3. c.fn \in Friends
    BY <1>2 DEF Command
  <1>4. \/ c.cmd = "call" /\ tt_av_cmd_call(c)
        \/ c.cmd = "answer" /\ tt_av_cmd_answer(c)
        \/ c.cmd = "hangup" /\ tt_av_cmd_hangup(c)
        \/ c.cmd = "pause" /\ tt_av_cmd_pause(c)
        \/ c.cmd = "resume" /\ tt_av_cmd_resume(c)
        \/ c.cmd = "mute" /\ tt_av_cmd_mute(c)
        \/ c.cmd = "camera" /\ tt_av_cmd_camera(c)
    BY Zenon DEF TakeCommand
  <1> HIDE DEF c
  <1>5. ASSUME tt_av_cmd_call(c)
        PROVE  (Starts(c.fn) /\ msi'[c.fn].st = "inviting") \/ Refuses(c.fn)
    <2> DEFINE f == c.fn
    <2>0. f \in Friends
      BY <1>3
    <2>1. CASE ~InCall(f) /\ Open(f, "inviting", {"A"}, {}) /\ NewCall(f) /\ evs' = evs
      <3> HIDE DEF f
      <3>1. {"A"} \in SUBSET Cap /\ {} \in SUBSET Cap
        BY DEF Cap
      <3>2. msi'[f].st = "inviting" /\ OthersStay(f)
        BY <1>1, <2>0, <2>1, <3>1, OpenStays
      <3>3. msi[f].st = "none" /\ g'.call_fn = f
        BY <1>1, <2>1 DEF InCall, NewCall, RecordType
      <3>4. Starts(f) /\ msi'[f].st = "inviting"
        BY <2>1, <3>2, <3>3 DEF Starts
      <3> QED BY <3>4 DEF f
    <2>2. CASE Push(<<Ended(f)>>) /\ msi' = [msi EXCEPT ![f].crossed = InCall(f)] /\ g' = g
      <3> DEFINE b == InCall(f)
      <3>1. msi' = [msi EXCEPT ![f].crossed = b] /\ (b <=> msi[f].st # "none") /\ b \in BOOLEAN
        BY <2>2 DEF InCall
      <3> HIDE DEF f, b
      <3>2. /\ msi'[f].st = msi[f].st /\ (msi[f].st # "none" => msi'[f].crossed)
            /\ OthersStay(f)
        BY <1>1, <2>0, <3>1 DEF OthersStay, CallType
      <3>3. Says(Ended(f)) /\ Ended(f) \in EndedOf(f)
        BY <1>1, <2>0, <2>2, PushOne, EventsBuilt
      <3>4. Refuses(f)
        BY <2>2, <3>2, <3>3 DEF Refuses
      <3> QED BY <3>4 DEF f
    <2> QED BY <1>5, <2>1, <2>2, Zenon DEF tt_av_cmd_call
  <1>6. ASSUME tt_av_cmd_mute(c), c.cmd = "mute"
        PROVE  Idles /\ g'.mic_muted = c.on
    <2>1. g' = [g EXCEPT !.mic_muted = c.on] /\ msi' = msi /\ evs' = evs
      BY <1>6 DEF tt_av_cmd_mute
    <2>2. g'.call_fn = g.call_fn /\ g'.mic_muted = c.on
      BY <1>1, <2>1 DEF RecordType
    <2> QED BY <2>1, <2>2 DEF Idles
  <1>7. CASE c.cmd = "call" /\ tt_av_cmd_call(c)
    BY <1>1, <1>2, <1>3, <1>5, <1>7, Zenon DEF c
  <1>8. CASE c.cmd = "mute" /\ tt_av_cmd_mute(c)
    BY <1>1, <1>2, <1>3, <1>6, <1>8, Zenon DEF c
  <1>9. CASE \/ c.cmd = "answer" /\ tt_av_cmd_answer(c)
             \/ c.cmd = "hangup" /\ tt_av_cmd_hangup(c)
             \/ c.cmd = "pause" /\ tt_av_cmd_pause(c)
             \/ c.cmd = "resume" /\ tt_av_cmd_resume(c)
             \/ c.cmd = "camera" /\ tt_av_cmd_camera(c)
    <2>1. Continues(c.fn) \/ Stops(c.fn) \/ (Idles /\ g' = g)
      BY <1>2, <1>3, <1>9, CallSteps, Zenon
    <2>2. c.cmd \notin {"call", "mute"}
      BY <1>9
    <2> QED BY <1>1, <1>2, <1>3, <2>1, <2>2, Zenon DEF c
  <1> QED BY <1>4, <1>7, <1>8, <1>9, Zenon

-----------------------------------------------------------------------------
(* Every step keeps the strips true                                        *)

\* No call but f's is taken from the queue of commands.
QueueKeeps(f) == \A h \in Friends \ {f} : CallQueued(cmds, h) => CallQueued(cmds', h)

\* An event of friend f changes nothing for the strip of another.
LEMMA NotForOthers ==
    ASSUME NEW es \in Seq(Event), NEW f \in Friends, NEW h \in Friends \ {f}, NEW c,
           NEW e, e \in IncomingOf(f) \/ e \in StateOf(f) \/ e \in EndedOf(f)
    PROVE  /\ Append(es, e) \in Seq(Event)
           /\ WillShow(c, Append(es, e), h) <=> WillShow(c, es, h)
           /\ WillOffer(c, Append(es, e), h) <=> WillOffer(c, es, h)
           /\ WillRing(c, Append(es, e), h) <=> WillRing(c, es, h)
  <1>1. e \in Event
    BY DEF Event
  <1>2. e \notin IncomingOf(h) \cup UpOf(h) \cup EndedOf(h)
    BY EventsApart
  <1> QED BY <1>1, <1>2, StripAdd

\* So the strips of the others stay true whatever the engine says of f.
LEMMA OthersTell ==
    ASSUME SInv, NEW f \in Friends, OthersStay(f), QueueKeeps(f),
           NEW h \in Friends \ {f},
           \/ evs' = evs
           \/ \E e \in IncomingOf(f) \cup StateOf(f) \cup EndedOf(f) : Says(e)
           \/ \E e \in EndedOf(f), s \in StateOf(f) : evs' = Append(Append(evs, e), s)
    PROVE  StripTells(msi'[h], ui[h], evs', cmds', h)
  <1>1. evs \in Seq(Event) /\ StripTells(msi[h], ui[h], evs, cmds, h)
    BY DEF SInv, StripType
  <1>2. /\ WillShow(ui[h], evs', h) <=> WillShow(ui[h], evs, h)
        /\ WillOffer(ui[h], evs', h) <=> WillOffer(ui[h], evs, h)
        /\ WillRing(ui[h], evs', h) <=> WillRing(ui[h], evs, h)
    <2>1. CASE evs' = evs
      BY <2>1
    <2>2. CASE \E e \in IncomingOf(f) \cup StateOf(f) \cup EndedOf(f) : Says(e)
      BY <1>1, <2>2, NotForOthers DEF Says
    <2>3. CASE \E e \in EndedOf(f), s \in StateOf(f) : evs' = Append(Append(evs, e), s)
      <3>1. PICK e \in EndedOf(f), s \in StateOf(f) : evs' = Append(Append(evs, e), s)
        BY <2>3
      <3> DEFINE t == Append(evs, e)
      <3>2. /\ t \in Seq(Event)
            /\ WillShow(ui[h], t, h) <=> WillShow(ui[h], evs, h)
            /\ WillOffer(ui[h], t, h) <=> WillOffer(ui[h], evs, h)
            /\ WillRing(ui[h], t, h) <=> WillRing(ui[h], evs, h)
        BY <1>1, NotForOthers
      <3>3. evs' = Append(t, s)
        BY <3>1
      <3> HIDE DEF t
      <3> QED BY <3>2, <3>3, NotForOthers
    <2> QED BY <2>1, <2>2, <2>3
  <1>3. msi'[h].st = msi[h].st /\ msi'[h].crossed = msi[h].crossed
    BY DEF OthersStay
  <1>4. CallQueued(cmds, h) => CallQueued(cmds', h)
    BY DEF QueueKeeps
  <1> QED BY <1>1, <1>2, <1>3, <1>4 DEF StripTells

\* A step of one of the kinds leaves every strip true.
LEMMA KindsTell ==
    ASSUME SInv, NEW f \in Friends, ui' = ui, QueueKeeps(f),
           \/ Starts(f) \/ Stops(f) \/ Refuses(f)
           \/ Continues(f) /\ (CallQueued(cmds, f) => CallQueued(cmds', f))
    PROVE  SInv'
  <1>1. evs \in Seq(Event) /\ StripTells(msi[f], ui[f], evs, cmds, f) /\ ui \in [Friends -> ContactType]
    BY DEF SInv, StripType
  <1> DEFINE Good == evs' \in Seq(Event) /\ StripTells(msi'[f], ui[f], evs', cmds', f)
  <1>2. ASSUME Starts(f)
        PROVE  Good
    <2>1. CASE msi'[f].st = "inviting" /\ evs' = evs
      BY <1>1, <1>2, <2>1 DEF Starts, StripTells
    <2>2. CASE msi'[f].st = "ringing" /\ \E e \in IncomingOf(f) : Says(e)
      <3>1. PICK e \in IncomingOf(f) : evs' = Append(evs, e)
        BY <2>2 DEF Says
      <3>2. e \in Event /\ e \notin UpOf(f)
        BY EventsApart DEF Event
      <3>3. evs' \in Seq(Event) /\ ~WillShow(ui[f], evs', f) /\ ~WillRing(ui[f], evs', f)
        BY <1>1, <3>1, <3>2, StripAdd
      <3> QED BY <2>2, <3>3 DEF StripTells
    <2> QED BY <1>2, <2>1, <2>2 DEF Starts
  <1>3. ASSUME Stops(f)
        PROVE  Good
    <2>1. PICK e \in EndedOf(f) :
              Says(e) \/ \E s \in StateOf(f) \ UpOf(f) : evs' = Append(Append(evs, e), s)
      BY <1>3 DEF Stops
    <2> DEFINE t == Append(evs, e)
    <2>2. e \in Event /\ e \notin UpOf(f) /\ e \notin IncomingOf(f)
      BY EventsApart DEF Event
    <2>3. /\ t \in Seq(Event) /\ ~WillShow(ui[f], t, f) /\ ~WillOffer(ui[f], t, f)
          /\ ~WillRing(ui[f], t, f)
      BY <1>1, <2>2, StripAdd
    <2>4. evs' = t \/ \E s \in StateOf(f) \ UpOf(f) : evs' = Append(t, s)
      BY <2>1 DEF Says
    <2> HIDE DEF t
    <2>5. /\ evs' \in Seq(Event) /\ ~WillShow(ui[f], evs', f) /\ ~WillOffer(ui[f], evs', f)
          /\ ~WillRing(ui[f], evs', f)
      <3>1. CASE evs' = t
        BY <2>3, <3>1
      <3>2. CASE \E s \in StateOf(f) \ UpOf(f) : evs' = Append(t, s)
        <4>1. PICK s \in StateOf(f) \ UpOf(f) : evs' = Append(t, s)
          BY <3>2
        <4>2. s \in Event /\ s \notin UpOf(f) /\ s \notin IncomingOf(f) /\ s \notin EndedOf(f)
          BY EventsApart DEF Event
        <4> QED BY <2>3, <4>1, <4>2, StripAdd
      <3> QED BY <2>4, <3>1, <3>2
    <2> QED BY <1>3, <2>5 DEF Stops, StripTells
  <1>4. ASSUME Refuses(f)
        PROVE  Good
    <2>1. PICK e \in EndedOf(f) : evs' = Append(evs, e)
      BY <1>4 DEF Refuses, Says
    <2>2. e \in Event /\ e \notin UpOf(f) /\ e \notin IncomingOf(f)
      BY EventsApart DEF Event
    <2>3. /\ evs' \in Seq(Event) /\ ~WillShow(ui[f], evs', f) /\ ~WillOffer(ui[f], evs', f)
          /\ ~WillRing(ui[f], evs', f)
      BY <1>1, <2>1, <2>2, StripAdd
    <2> QED BY <1>4, <2>3 DEF Refuses, StripTells
  <1>5. ASSUME Continues(f) /\ (CallQueued(cmds, f) => CallQueued(cmds', f))
        PROVE  Good
    <2>1. PICK e \in StateOf(f) : evs' = Append(evs, e) /\ (msi[f].st # "active" => "A" \in e.state)
      BY <1>5 DEF Continues, Says
    <2>2. /\ e \in Event /\ e \notin IncomingOf(f) /\ e \notin EndedOf(f)
          /\ msi[f].st # "active" => e \in UpOf(f)
      BY <2>1, EventsApart DEF Event
    <2>3. /\ evs' \in Seq(Event)
          /\ WillShow(ui[f], evs', f) <=> e \in UpOf(f) \/ WillShow(ui[f], evs, f)
          /\ WillOffer(ui[f], evs', f) <=> e \notin UpOf(f) /\ WillOffer(ui[f], evs, f)
          /\ WillRing(ui[f], evs', f) <=> e \notin UpOf(f) /\ WillRing(ui[f], evs, f)
      BY <1>1, <2>1, <2>2, StripAdd
    <2>4. msi'[f].st = "active" /\ msi'[f].crossed = msi[f].crossed
      BY <1>5 DEF Continues
    <2> QED BY <1>1, <1>5, <2>2, <2>3, <2>4 DEF StripTells
  <1>6. Good
    BY <1>2, <1>3, <1>4, <1>5
  <1>7. ASSUME NEW h \in Friends \ {f}
        PROVE  StripTells(msi'[h], ui[h], evs', cmds', h)
    <2>1. OthersStay(f)
      BY DEF Starts, Stops, Refuses, Continues
    <2>2. \/ evs' = evs
          \/ \E e \in IncomingOf(f) \cup StateOf(f) \cup EndedOf(f) : Says(e)
          \/ \E e \in EndedOf(f), s \in StateOf(f) : evs' = Append(Append(evs, e), s)
      BY DEF Starts, Stops, Refuses, Continues
    <2> QED BY <2>1, <2>2, OthersTell
  <1>8. \A h \in Friends : StripTells(msi'[h], ui[h], evs', cmds', h)
    BY <1>6, <1>7
  <1> QED BY <1>1, <1>6, <1>8 DEF SInv, StripType

\* A command that is taken is gone from the queue; the others are still there.
LEMMA QueueTakes ==
    ASSUME cmds \in Seq(Command), cmds # <<>>, cmds' = Tail(cmds), NEW h \in Friends,
           CallQueued(cmds, h)
    PROVE  CallQueued(cmds', h) \/ (Head(cmds).cmd = "call" /\ Head(cmds).fn = h)
  <1>1. PICK k \in 1..Len(cmds) : cmds[k].cmd = "call" /\ cmds[k].fn = h
    BY DEF CallQueued
  <1>2. /\ Len(cmds) \in Nat \ {0} /\ Len(cmds') = Len(cmds) - 1 /\ Head(cmds) = cmds[1]
        /\ \A i \in 1..Len(cmds') : cmds'[i] = cmds[i + 1]
    BY ElementOfSeqIsSeq, TailIsSeq
  <1>3. CASE k = 1
    BY <1>1, <1>2, <1>3
  <1>4. CASE k # 1
    <2>1. k - 1 \in 1..Len(cmds') /\ (k - 1) + 1 = k
      BY <1>2, <1>4
    <2>2. cmds'[k - 1] = cmds[k]
      BY <1>2, <2>1
    <2> QED BY <1>1, <2>1, <2>2 DEF CallQueued
  <1> QED BY <1>3, <1>4

\* A command that is posted is in the queue, and so are the others.
LEMMA QueueAdds ==
    ASSUME cmds \in Seq(Command), NEW c \in Command, cmds' = Append(cmds, c), NEW h \in Friends
    PROVE  CallQueued(cmds', h) <=> CallQueued(cmds, h) \/ (c.cmd = "call" /\ c.fn = h)
  <1>1. /\ Len(cmds) \in Nat /\ Len(cmds') = Len(cmds) + 1 /\ cmds'[Len(cmds) + 1] = c
        /\ \A i \in 1..Len(cmds) : cmds'[i] = cmds[i]
    <2>1. IsSeq(cmds)
      BY ElementOfSeqIsSeq
    <2> QED BY <2>1, AppendIsSeq DEF IsSeq
  <1>2. ASSUME CallQueued(cmds', h), ~(c.cmd = "call" /\ c.fn = h)
        PROVE  CallQueued(cmds, h)
    <2>1. PICK k \in 1..Len(cmds') : cmds'[k].cmd = "call" /\ cmds'[k].fn = h
      BY <1>2 DEF CallQueued
    <2>2. k \in 1..Len(cmds)
      BY <1>1, <1>2, <2>1
    <2> QED BY <1>1, <2>1, <2>2 DEF CallQueued
  <1>3. ASSUME CallQueued(cmds, h) PROVE CallQueued(cmds', h)
    <2>1. PICK k \in 1..Len(cmds) : cmds[k].cmd = "call" /\ cmds[k].fn = h
      BY <1>3 DEF CallQueued
    <2>2. k \in 1..Len(cmds') /\ cmds'[k] = cmds[k]
      BY <1>1
    <2> QED BY <2>1, <2>2 DEF CallQueued
  <1>4. ASSUME c.cmd = "call", c.fn = h PROVE CallQueued(cmds', h)
    <2>1. Len(cmds) + 1 \in 1..Len(cmds')
      BY <1>1
    <2> QED BY <1>1, <1>4, <2>1 DEF CallQueued
  <1> QED BY <1>2, <1>3, <1>4

\* A flag that is down, and nothing that would raise it.
LEMMA NeverRings ==
    ASSUME NEW c, NEW es, NEW f, ~c.ringing
    PROVE  ~WillRing(c, es, f)
  BY DEF WillRing, Latch

\* What the front end makes of an event, strip by strip.
LEMMA EventTaken ==
    ASSUME StripType, TakeEvent, NEW h \in Friends
    PROVE  LET e == Head(evs)
               c == ui[h]
               d == ui'[h]
           IN  /\ evs # <<>> /\ evs' = Tail(evs) /\ e \in Event /\ evs' \in Seq(Event)
               /\ msi' = msi /\ g' = g /\ cmds' = cmds
               /\ c \in ContactType /\ d \in ContactType
               /\ e \in IncomingOf(h) =>
                      d.incoming /\ ~d.active /\ ~d.ringing /\ d.muted = c.muted
               /\ e \in UpOf(h) =>
                      ~d.incoming /\ d.active /\ ~d.ringing /\ d.muted = c.muted
               /\ e \in EndedOf(h) =>
                      ~d.incoming /\ ~d.active /\ ~d.ringing /\ ~d.muted
               /\ e \notin IncomingOf(h) \cup UpOf(h) \cup EndedOf(h) =>
                      /\ d.incoming = c.incoming /\ d.active = c.active
                      /\ d.ringing = c.ringing /\ d.muted = c.muted
  <1> DEFINE e == Head(evs)
             c == ui[h]
             d == ui'[h]
  <1>1. /\ evs \in Seq(Event) /\ evs # <<>> /\ evs' = Tail(evs) /\ ui \in [Friends -> ContactType]
        /\ msi' = msi /\ g' = g /\ cmds' = cmds
    BY DEF StripType, TakeEvent
  <1>2. e \in Event /\ evs' \in Seq(Event)
    BY <1>1
  <1>3. PICK f \in Friends : e.fn = f /\ (e \in IncomingOf(f) \/ e \in StateOf(f) \/ e \in EndedOf(f))
    BY <1>2, EventKinds
  <1>4. ui' = [ui EXCEPT ![e.fn] = CASE e.ev = "incoming" -> OnIncoming(@, e)
                                     [] e.ev = "state"    -> OnState(@, e)
                                     [] e.ev = "ended"    -> OnEnded(@)]
    BY Zenon DEF TakeEvent
  <1> HIDE DEF e
  <1>5. c \in ContactType
    BY <1>1
  <1> DEFINE Result ==
               /\ d \in ContactType
               /\ e \in IncomingOf(h) =>
                      d.incoming /\ ~d.active /\ ~d.ringing /\ d.muted = c.muted
               /\ e \in UpOf(h) =>
                      ~d.incoming /\ d.active /\ ~d.ringing /\ d.muted = c.muted
               /\ e \in EndedOf(h) =>
                      ~d.incoming /\ ~d.active /\ ~d.ringing /\ ~d.muted
               /\ e \notin IncomingOf(h) \cup UpOf(h) \cup EndedOf(h) =>
                      /\ d.incoming = c.incoming /\ d.active = c.active
                      /\ d.ringing = c.ringing /\ d.muted = c.muted
  <1>6. ASSUME h # f PROVE Result
    <2>1. d = c
      BY <1>1, <1>3, <1>4, <1>6
    <2>2. e \notin IncomingOf(h) \cup UpOf(h) \cup EndedOf(h)
      BY <1>3, <1>6, EventsApart
    <2> QED BY <1>5, <2>1, <2>2
  <1>7. ASSUME h = f PROVE Result
    <2>1. d = CASE e.ev = "incoming" -> OnIncoming(c, e)
                [] e.ev = "state"    -> OnState(c, e)
                [] e.ev = "ended"    -> OnEnded(c)
      BY <1>1, <1>3, <1>4, <1>7
    <2> HIDE DEF c, d
    <2>2. ASSUME e \in IncomingOf(f) PROVE Result
      <3>1. e.ev = "incoming" /\ e.video \in BOOLEAN
        BY <2>2 DEF IncomingOf
      <3>2. d = OnIncoming(c, e)
        BY <2>1, <3>1
      <3>3. d \in ContactType /\ d.incoming /\ ~d.active /\ ~d.ringing /\ d.muted = c.muted
        BY <1>5, <3>1, <3>2 DEF OnIncoming, ContactType
      <3>4. e \notin UpOf(h) /\ e \notin EndedOf(h) /\ e \in IncomingOf(h)
        BY <1>7, <2>2, EventsApart
      <3> QED BY <3>3, <3>4
    <2>3. ASSUME e \in EndedOf(f) PROVE Result
      <3>1. e.ev = "ended"
        BY <2>3 DEF EndedOf
      <3>2. d = IdleContact
        BY <2>1, <3>1 DEF OnEnded
      <3>3. d \in ContactType /\ ~d.incoming /\ ~d.active /\ ~d.ringing /\ ~d.muted
        BY <3>2 DEF IdleContact, ContactType
      <3>4. e \notin UpOf(h) /\ e \notin IncomingOf(h) /\ e \in EndedOf(h)
        BY <1>7, <2>3, EventsApart
      <3> QED BY <3>3, <3>4
    <2>4. ASSUME e \in StateOf(f) PROVE Result
      <3>1. e.ev = "state" /\ e.state \in SUBSET Bits /\ e.echo \in BOOLEAN
        BY <2>4 DEF StateOf
      <3>2. d = OnState(c, e)
        BY <2>1, <3>1
      <3> DEFINE up == "A" \in e.state
                 cam == "V" \in e.state
                 p == IF e.echo THEN e.state = {} ELSE c.paused_self
                 inc == c.incoming /\ ~up
                 act == c.active \/ up
                 rin == c.ringing /\ ~up
      <3>3. d = [c EXCEPT !.state = e.state, !.cam = cam, !.incoming = inc,
                          !.active = act, !.ringing = rin, !.paused_self = p]
        BY <1>5, <3>2 DEF OnState, ContactType
      <3>4. cam \in BOOLEAN /\ inc \in BOOLEAN /\ act \in BOOLEAN /\ rin \in BOOLEAN
        OBVIOUS
      <3>5. p \in BOOLEAN
        <4>1. c.paused_self \in BOOLEAN
          BY <1>5 DEF ContactType
        <4>2. CASE e.echo
          BY <4>2
        <4>3. CASE ~e.echo
          BY <4>1, <4>3
        <4> QED BY <4>2, <4>3
      <3>6. e \notin IncomingOf(h) /\ e \notin EndedOf(h) /\ (e \in UpOf(h) <=> up)
        BY <1>7, <2>4, EventsApart
      <3>7. c.incoming \in BOOLEAN /\ c.active \in BOOLEAN /\ c.ringing \in BOOLEAN
        BY <1>5 DEF ContactType
      <3>8. /\ up => ~inc /\ act /\ ~rin
            /\ ~up => inc = c.incoming /\ act = c.active /\ rin = c.ringing
        BY <3>7
      <3> HIDE DEF up, cam, p, inc, act, rin
      <3>9. /\ d \in ContactType /\ d.muted = c.muted
            /\ d.incoming = inc /\ d.active = act /\ d.ringing = rin
        <4> DEFINE s == e.state
        <4>1. d = [c EXCEPT !.state = s, !.cam = cam, !.incoming = inc, !.active = act,
                            !.ringing = rin, !.paused_self = p]
              /\ s \in SUBSET Bits
          BY <3>1, <3>3
        <4> HIDE DEF s
        <4>2. /\ c.video \in BOOLEAN /\ c.muted \in BOOLEAN
              /\ c = [incoming |-> c.incoming, active |-> c.active, ringing |-> c.ringing,
                      state |-> c.state, video |-> c.video, cam |-> c.cam, muted |-> c.muted,
                      paused_self |-> c.paused_self]
          BY <1>5 DEF ContactType
        <4>3. d = [incoming |-> inc, active |-> act, ringing |-> rin, state |-> s,
                   video |-> c.video, cam |-> cam, muted |-> c.muted, paused_self |-> p]
          BY <4>1, <4>2
        <4>4. d \in ContactType
          BY <3>4, <3>5, <4>1, <4>2, <4>3, Zenon DEF ContactType
        <4>5. d.muted = c.muted /\ d.incoming = inc /\ d.active = act /\ d.ringing = rin
          BY <4>3, Zenon
        <4> QED BY <4>4, <4>5
      <3> QED BY <3>6, <3>8, <3>9
    <2> QED BY <1>3, <2>2, <2>3, <2>4
  <1>8. Result
    BY <1>6, <1>7
  <1> QED BY <1>1, <1>2, <1>5, <1>8 DEF e

\* Taking an event keeps the strips true.
LEMMA EventTells ==
    ASSUME SInv, TakeEvent
    PROVE  SInv'
  <1>1. StripType /\ evs \in Seq(Event) /\ ui \in [Friends -> ContactType]
    BY DEF SInv, StripType
  <1>2. ASSUME NEW h \in Friends
        PROVE  /\ evs' \in Seq(Event) /\ ui'[h] \in ContactType
               /\ StripTells(msi'[h], ui'[h], evs', cmds', h)
    <2> DEFINE c == ui[h]
               d == ui'[h]
    <2>1. /\ evs # <<>> /\ evs' = Tail(evs) /\ evs' \in Seq(Event) /\ msi' = msi /\ cmds' = cmds
          /\ c \in ContactType /\ d \in ContactType
          /\ Head(evs) \in IncomingOf(h) => d.incoming /\ ~d.active /\ ~d.ringing
          /\ Head(evs) \in UpOf(h) => ~d.incoming /\ d.active /\ ~d.ringing
          /\ Head(evs) \in EndedOf(h) => ~d.incoming /\ ~d.active /\ ~d.ringing
          /\ Head(evs) \notin IncomingOf(h) \cup UpOf(h) \cup EndedOf(h) =>
                 d.incoming = c.incoming /\ d.active = c.active /\ d.ringing = c.ringing
      BY <1>1, EventTaken, Zenon
    <2>2. StripTells(msi[h], c, evs, cmds, h)
      BY DEF SInv
    <2> HIDE DEF c, d
    <2>3. /\ WillShow(d, evs', h) <=> WillShow(c, evs, h)
          /\ WillOffer(d, evs', h) <=> WillOffer(c, evs, h)
          /\ WillRing(d, evs', h) <=> WillRing(c, evs, h)
      BY <1>1, <2>1, StripTake
    <2>4. StripTells(msi'[h], d, evs', cmds', h)
      BY <2>1, <2>2, <2>3 DEF StripTells
    <2> QED BY <2>1, <2>4 DEF d
  <1>3. evs' \in Seq(Event) /\ DOMAIN ui' = Friends /\ ui' = [h \in Friends |-> ui'[h]]
    <2>1. evs # <<>> /\ evs' = Tail(evs) /\ \E x : ui' = [ui EXCEPT ![Head(evs).fn] = x]
      BY Zenon DEF TakeEvent
    <2>2. PICK x : ui' = [ui EXCEPT ![Head(evs).fn] = x]
      BY <2>1, Zenon
    <2>3. DOMAIN ui' = Friends /\ ui' = [h \in Friends |-> ui'[h]]
      BY <1>1, <2>2
    <2> QED BY <1>1, <2>1, <2>3
  <1>4. ui' \in [Friends -> ContactType]
    BY <1>2, <1>3
  <1> QED BY <1>2, <1>3, <1>4 DEF SInv, StripType

\* What a click does to the strip it is made in, and the command it posts.
Clicked(f, c) ==
    /\ ui' \in [Friends -> ContactType] /\ \A h \in Friends \ {f} : ui'[h] = ui[h]
    /\ ui'[f].active = ui[f].active /\ ui'[f].incoming = ui[f].incoming
    /\ ui'[f].ringing => ui[f].ringing \/ (c.cmd = "call" /\ c.fn = f)
    /\ \/ c.cmd # "mute" /\ ui'[f].muted = ui[f].muted
       \/ c.cmd = "mute" /\ ui[f].active /\ c.on = ~ui[f].muted /\ ui'[f].muted = ~ui[f].muted

\* A flag of a contact is set: the others are as they were.
FlagIs(c, d, ringing, muted) ==
    /\ d \in ContactType /\ d.active = c.active /\ d.incoming = c.incoming
    /\ d.ringing = ringing /\ d.muted = muted

\* The flags a click may set.
LEMMA FlagsSet ==
    ASSUME NEW c \in ContactType, NEW b \in BOOLEAN
    PROVE  /\ FlagIs(c, [c EXCEPT !.ringing = b], b, c.muted)
           /\ FlagIs(c, [c EXCEPT !.muted = b], c.ringing, b)
           /\ FlagIs(c, [c EXCEPT !.cam = b], c.ringing, c.muted)
           /\ FlagIs(c, [c EXCEPT !.paused_self = b], c.ringing, c.muted)
  <1>1. CASE b = TRUE
    <2>1. FlagIs(c, [c EXCEPT !.ringing = TRUE], TRUE, c.muted)
      BY DEF ContactType, FlagIs
    <2>2. FlagIs(c, [c EXCEPT !.muted = TRUE], c.ringing, TRUE)
      BY DEF ContactType, FlagIs
    <2>3. FlagIs(c, [c EXCEPT !.cam = TRUE], c.ringing, c.muted)
      BY DEF ContactType, FlagIs
    <2>4. FlagIs(c, [c EXCEPT !.paused_self = TRUE], c.ringing, c.muted)
      BY DEF ContactType, FlagIs
    <2> QED BY <1>1, <2>1, <2>2, <2>3, <2>4, Zenon
  <1>2. CASE b = FALSE
    <2>1. FlagIs(c, [c EXCEPT !.ringing = FALSE], FALSE, c.muted)
      BY DEF ContactType, FlagIs
    <2>2. FlagIs(c, [c EXCEPT !.muted = FALSE], c.ringing, FALSE)
      BY DEF ContactType, FlagIs
    <2>3. FlagIs(c, [c EXCEPT !.cam = FALSE], c.ringing, c.muted)
      BY DEF ContactType, FlagIs
    <2>4. FlagIs(c, [c EXCEPT !.paused_self = FALSE], c.ringing, c.muted)
      BY DEF ContactType, FlagIs
    <2> QED BY <1>2, <2>1, <2>2, <2>3, <2>4, Zenon
  <1>3. b = TRUE \/ b = FALSE
    OBVIOUS
  <1> QED BY <1>1, <1>2, <1>3, Zenon

\* What a click does.
LEMMA ClickSteps ==
    ASSUME AInv, StripType, NEW f \in Friends,
           \/ cc_av_call(f) \/ cc_av_answer(f) \/ cc_av_answer_video(f) \/ cc_av_decline(f)
           \/ cc_av_mute(f) \/ cc_av_pause(f) \/ cc_av_cam(f)
    PROVE  /\ msi' = msi /\ g' = g /\ evs' = evs
           /\ \E c \in Command : cmds' = Append(cmds, c) /\ Clicked(f, c)
  <1>1. ui \in [Friends -> ContactType] /\ ui[f] \in ContactType
    BY DEF StripType
  <1>2. msi' = msi /\ g' = g /\ evs' = evs
    BY DEF cc_av_call, cc_av_answer, cc_av_answer_video, cc_av_decline, cc_av_mute,
           cc_av_pause, cc_av_cam, Click
  <1>3. ASSUME NEW d, ui' = [ui EXCEPT ![f] = d], d \in ContactType
        PROVE  /\ ui' \in [Friends -> ContactType] /\ ui'[f] = d
               /\ \A h \in Friends \ {f} : ui'[h] = ui[h]
    BY <1>1, <1>3
  <1>4. /\ \A kind \in {"call", "hangup", "pause", "resume"} :
               Cmd(kind, f) \in Command /\ Cmd(kind, f).cmd = kind /\ Cmd(kind, f).fn = f
        /\ \A kind \in {"mute", "camera"}, b \in BOOLEAN :
               [cmd |-> kind, fn |-> f, on |-> b] \in Command
        /\ \A b \in BOOLEAN : [cmd |-> "answer", fn |-> f, video |-> b] \in Command
    BY DEF Cmd, Command
  <1> DEFINE Goal == \E c \in Command : cmds' = Append(cmds, c) /\ Clicked(f, c)
  <1>5. ASSUME ui' = ui, NEW c \in Command, c.cmd # "mute", cmds' = Append(cmds, c)
        PROVE  Goal
    <2>1. Clicked(f, c)
      BY <1>1, <1>5 DEF Clicked
    <2> QED BY <1>5, <2>1
  <1>6. ASSUME cc_av_call(f) PROVE Goal
    <2> DEFINE on == ui[f].active \/ ui[f].ringing
               b == ~on
               c == Cmd(IF on THEN "hangup" ELSE "call", f)
    <2>1. ui' = [ui EXCEPT ![f].ringing = b] /\ cmds' = Append(cmds, c)
      BY <1>6, Zenon DEF cc_av_call, Post
    <2>2. c \in Command /\ c.fn = f /\ (b => c.cmd = "call") /\ c.cmd # "mute" /\ b \in BOOLEAN
      BY <1>4
    <2> HIDE DEF on, b, c
    <2> DEFINE d == [ui[f] EXCEPT !.ringing = b]
    <2>3. ui' = [ui EXCEPT ![f] = d]
      BY <1>1, <2>1
    <2>4. FlagIs(ui[f], d, b, ui[f].muted)
      BY <1>1, <2>2, FlagsSet
    <2> HIDE DEF d
    <2>5. Clicked(f, c)
      BY <1>3, <2>2, <2>3, <2>4 DEF Clicked, FlagIs
    <2> QED BY <2>1, <2>2, <2>5
  <1>7. ASSUME cc_av_mute(f) PROVE Goal
    <2> DEFINE b == ~ui[f].muted
               c == [cmd |-> "mute", fn |-> f, on |-> b]
    <2>1. ui' = [ui EXCEPT ![f].muted = b] /\ cmds' = Append(cmds, c)
      BY <1>7 DEF cc_av_mute, Post
    <2>2. c \in Command /\ c.cmd = "mute" /\ c.on = b /\ b \in BOOLEAN
      BY <1>4
    <2>0. ui[f].active
      BY <1>7 DEF cc_av_mute, Click, Shown
    <2>6. b = ~ui[f].muted
      OBVIOUS
    <2> HIDE DEF b, c
    <2> DEFINE d == [ui[f] EXCEPT !.muted = b]
    <2>3. ui' = [ui EXCEPT ![f] = d]
      BY <1>1, <2>1
    <2>4. FlagIs(ui[f], d, ui[f].ringing, b)
      BY <1>1, <2>2, FlagsSet
    <2> HIDE DEF d
    <2>5. Clicked(f, c)
      BY <1>3, <2>0, <2>2, <2>3, <2>4, <2>6 DEF Clicked, FlagIs
    <2> QED BY <2>1, <2>2, <2>5
  <1>8. ASSUME cc_av_pause(f) PROVE Goal
    <2> DEFINE b == ~ui[f].paused_self
               c == Cmd(IF ui[f].paused_self THEN "resume" ELSE "pause", f)
    <2>1. ui' = [ui EXCEPT ![f].paused_self = b] /\ cmds' = Append(cmds, c)
      BY <1>8 DEF cc_av_pause, Post
    <2>2. c \in Command /\ c.cmd # "mute" /\ b \in BOOLEAN
      BY <1>4
    <2> HIDE DEF b, c
    <2> DEFINE d == [ui[f] EXCEPT !.paused_self = b]
    <2>3. ui' = [ui EXCEPT ![f] = d]
      BY <1>1, <2>1
    <2>4. FlagIs(ui[f], d, ui[f].ringing, ui[f].muted)
      BY <1>1, <2>2, FlagsSet
    <2> HIDE DEF d
    <2>5. Clicked(f, c)
      BY <1>3, <2>2, <2>3, <2>4 DEF Clicked, FlagIs
    <2> QED BY <2>1, <2>2, <2>5
  <1>9. ASSUME cc_av_cam(f) PROVE Goal
    <2> DEFINE b == ~ui[f].cam
               c == [cmd |-> "camera", fn |-> f, on |-> b]
    <2>1. ui' = [ui EXCEPT ![f].cam = b] /\ cmds' = Append(cmds, c)
      BY <1>9 DEF cc_av_cam, Post
    <2>2. c \in Command /\ c.cmd # "mute" /\ b \in BOOLEAN
      BY <1>4
    <2> HIDE DEF b, c
    <2> DEFINE d == [ui[f] EXCEPT !.cam = b]
    <2>3. ui' = [ui EXCEPT ![f] = d]
      BY <1>1, <2>1
    <2>4. FlagIs(ui[f], d, ui[f].ringing, ui[f].muted)
      BY <1>1, <2>2, FlagsSet
    <2> HIDE DEF d
    <2>5. Clicked(f, c)
      BY <1>3, <2>2, <2>3, <2>4 DEF Clicked, FlagIs
    <2> QED BY <2>1, <2>2, <2>5
  <1>10. ASSUME cc_av_answer(f) \/ cc_av_answer_video(f) \/ cc_av_decline(f) PROVE Goal
    <2>1. \E c \in Command : c.cmd # "mute" /\ cmds' = Append(cmds, c)
      BY <1>4, <1>10 DEF cc_av_answer, cc_av_answer_video, cc_av_decline, Post
    <2>2. ui' = ui
      BY <1>10 DEF cc_av_answer, cc_av_answer_video, cc_av_decline
    <2> QED BY <1>5, <2>1, <2>2
  <1>11. Goal
    BY <1>6, <1>7, <1>8, <1>9, <1>10
  <1> QED BY <1>2, <1>11

\* A click keeps the strips true: a strip that begins to ring has its call queued.
LEMMA ClickTells ==
    ASSUME SInv, NEW f \in Friends, NEW c \in Command, cmds \in Seq(Command),
           msi' = msi, evs' = evs, cmds' = Append(cmds, c), Clicked(f, c)
    PROVE  SInv'
  <1>1. ASSUME NEW h \in Friends
        PROVE  StripTells(msi'[h], ui'[h], evs', cmds', h)
    <2>1. StripTells(msi[h], ui[h], evs, cmds, h)
      BY DEF SInv
    <2>2. CallQueued(cmds', h) <=> CallQueued(cmds, h) \/ (c.cmd = "call" /\ c.fn = h)
      BY QueueAdds
    <2>3. CASE h # f
      <3>1. ui'[h] = ui[h]
        BY <2>3 DEF Clicked
      <3> QED BY <2>1, <2>2, <3>1 DEF StripTells
    <2>4. CASE h = f
      <3>1. /\ ui'[h].active = ui[h].active /\ ui'[h].incoming = ui[h].incoming
            /\ ui'[h].ringing => ui[h].ringing \/ (c.cmd = "call" /\ c.fn = h)
        BY <2>4 DEF Clicked
      <3>2. /\ WillShow(ui'[h], evs', h) <=> WillShow(ui[h], evs, h)
            /\ WillOffer(ui'[h], evs', h) <=> WillOffer(ui[h], evs, h)
        BY <3>1 DEF WillShow, WillOffer
      <3>3. WillRing(ui'[h], evs', h) => WillRing(ui[h], evs, h) \/ (c.cmd = "call" /\ c.fn = h)
        <4>1. CASE ui[h].ringing
          BY <4>1 DEF WillRing, Latch
        <4>2. CASE ~ui[h].ringing
          BY <3>1, <4>2, NeverRings
        <4> QED BY <4>1, <4>2
      <3> QED BY <2>1, <2>2, <3>2, <3>3 DEF StripTells
    <2> QED BY <2>3, <2>4
  <1> QED BY <1>1 DEF SInv, StripType, Clicked

\* Every step keeps the strips true.
LEMMA StepTells ==
    ASSUME AInv, SInv, [Next]_vars
    PROVE  SInv'
  <1>1. StripType /\ cmds \in Seq(Command)
    BY DEF SInv, AInv, CallsTypeOK
  <1>2. ASSUME NEW f \in Friends,
               \/ \E caps \in setup.caps : \/ "A" \in caps /\ cb_av_call(f, caps)
                                           \/ "A" \in caps /\ PeerAnswers(f, caps)
                                           \/ PeerChanges(f, caps)
               \/ \E how \in {"finished", "error"} : PeerEnds(f, how)
        PROVE  SInv'
    <2>1. (Starts(f) \/ Continues(f) \/ Stops(f)) /\ cmds' = cmds /\ ui' = ui
      BY <1>1, <1>2, PeerSteps
    <2>2. QueueKeeps(f) /\ (CallQueued(cmds, f) => CallQueued(cmds', f))
      BY <2>1 DEF QueueKeeps
    <2> QED BY <2>1, <2>2, KindsTell
  <1>3. ASSUME NEW f \in Friends,
               \/ cc_av_call(f) \/ cc_av_answer(f) \/ cc_av_answer_video(f) \/ cc_av_decline(f)
               \/ cc_av_mute(f) \/ cc_av_pause(f) \/ cc_av_cam(f)
        PROVE  SInv'
    BY <1>1, <1>3, ClickSteps, ClickTells
  <1>4. ASSUME TakeCommand
        PROVE  SInv'
    <2> DEFINE c == Head(cmds)
    <2>1. /\ cmds # <<>> /\ cmds' = Tail(cmds) /\ ui' = ui /\ c \in Command /\ c.fn \in Friends
          /\ \/ c.cmd = "call" /\ (Starts(c.fn) \/ Refuses(c.fn))
             \/ c.cmd # "call" /\ (Continues(c.fn) \/ Stops(c.fn) \/ Idles)
      BY <1>1, <1>4, CommandSteps
    <2>2. \A h \in Friends : CallQueued(cmds, h) => CallQueued(cmds', h) \/ (c.cmd = "call" /\ c.fn = h)
      BY <1>1, <2>1, QueueTakes
    <2> HIDE DEF c
    <2>3. QueueKeeps(c.fn)
      BY <2>2 DEF QueueKeeps
    <2>4. CASE Starts(c.fn) \/ Refuses(c.fn) \/ Stops(c.fn)
      BY <2>1, <2>3, <2>4, KindsTell
    <2>5. CASE c.cmd # "call" /\ Continues(c.fn)
      BY <2>1, <2>2, <2>3, <2>5, KindsTell
    <2>6. CASE c.cmd # "call" /\ Idles
      <3>1. msi' = msi /\ evs' = evs
        BY <2>6 DEF Idles
      <3>2. \A h \in Friends : CallQueued(cmds, h) => CallQueued(cmds', h)
        BY <2>2, <2>6
      <3>3. ASSUME NEW h \in Friends
            PROVE  StripTells(msi'[h], ui'[h], evs', cmds', h)
        <4>1. StripTells(msi[h], ui[h], evs, cmds, h)
          BY DEF SInv
        <4> QED BY <2>1, <3>1, <3>2, <4>1 DEF StripTells
      <3> QED BY <2>1, <3>1, <3>3 DEF SInv, StripType
    <2> QED BY <2>1, <2>4, <2>5, <2>6
  <1>5. CASE UNCHANGED vars
    BY <1>5 DEF vars, SInv, StripType
  <1> QED BY <1>2, <1>3, <1>4, <1>5, EventTells, Zenon DEF Next

\* At the start no call is shown and none is on.
LEMMA InitTells ==
    ASSUME Init
    PROVE  SInv
  <1>1. evs = <<>> /\ evs \in Seq(Event)
    BY DEF Init
  <1>2. /\ ui \in [Friends -> ContactType]
        /\ \A f \in Friends : ~ui[f].active /\ ~ui[f].incoming /\ ~ui[f].ringing
        /\ \A f \in Friends : msi[f].st = "none"
    BY DEF Init, IdleContact, ContactType, NoCall
  <1>3. ASSUME NEW f \in Friends
        PROVE  StripTells(msi[f], ui[f], evs, cmds, f)
    <2>1. ~WillShow(ui[f], evs, f) /\ ~WillOffer(ui[f], evs, f) /\ ~WillRing(ui[f], evs, f)
      BY <1>1, <1>2, LatchEmpty DEF WillShow, WillOffer, WillRing
    <2> QED BY <1>2, <2>1 DEF StripTells
  <1> QED BY <1>1, <1>2, <1>3 DEF SInv, StripType

\* Sessions, record and strips together, in every reachable state.
THEOREM StripsServe == Spec => [](AInv /\ SInv)
  <1>1. Init => AInv /\ SInv
    BY InitServes, InitTells
  <1>2. (AInv /\ SInv) /\ [Next]_vars => (AInv /\ SInv)'
    BY StepServes, StepTells
  <1> QED BY <1>1, <1>2, PTL DEF Spec

\* Once both queues are empty the call strip tells the truth (chead_call_render against
\* ToxAV's sessions): refused commands, echoes, crossing calls and late callbacks all
\* end there, for any friends, capabilities and numbers of clicks and moves.
THEOREM StripsTrue == Spec => []StripTrue
  <1>1. AInv /\ SInv => StripTrue
    <2> SUFFICES ASSUME SInv, Quiet, NEW f \in Friends
                 PROVE  /\ ui[f].active => Active(f)
                        /\ Active(f) => ui[f].active \/ msi[f].crossed
                        /\ ui[f].ringing => msi[f].st = "inviting"
                        /\ ui[f].incoming => msi[f].st = "ringing"
      BY DEF StripTrue
    <2>1. cmds = <<>> /\ evs = <<>> /\ StripTells(msi[f], ui[f], evs, cmds, f)
      BY DEF Quiet, SInv
    <2>2. /\ WillShow(ui[f], evs, f) <=> ui[f].active
          /\ WillOffer(ui[f], evs, f) <=> ui[f].incoming
          /\ WillRing(ui[f], evs, f) <=> ui[f].ringing
      BY <2>1, LatchEmpty DEF WillShow, WillOffer, WillRing
    <2>3. ~CallQueued(cmds, f)
      BY <2>1, EmptyIsSeq DEF CallQueued
    <2> QED BY <2>1, <2>2, <2>3 DEF StripTells, Active
  <1> QED BY <1>1, StripsServe, PTL

-----------------------------------------------------------------------------
(* The mute button and the one gate of the microphone                      *)

\* The end of a call of f is among the events i..k.
EndedIn(es, f, i, k) == \E j \in i..k : es[j] \in EndedOf(f)

\* Before a new call of f is announced, the one that was shown is said to be over: the
\* strip c goes down in between (or the mute of the old call would be the new one's).
DownBetween(c, es, f) ==
    \A k \in 1..Len(es) : es[k] \in IncomingOf(f) =>
        /\ c.active => EndedIn(es, f, 1, k - 1)
        /\ \A i \in 1..(k - 1) : es[i] \in UpOf(f) => EndedIn(es, f, i + 1, k - 1)

\* The call of f began after the b-th of the events es: what was shown before is said to
\* be over by then, and afterwards only f's call is said to be up.
Since(u, es, f, b) ==
    \A x \in Friends :
        /\ u[x].active => (b = 0 /\ x = f) \/ EndedIn(es, x, 1, b)
        /\ \A i \in 1..b : es[i] \in UpOf(x) => EndedIn(es, x, i + 1, b)
        /\ \A i \in (b + 1)..Len(es) : es[i] \in UpOf(x) => x = f

\* The record names f, and f's is the only call.
Solo(m, r, f) ==
    r.call_fn = f /\ m[f].st # "none" /\ \A h \in Friends \ {f} : m[h].st = "none"

MuteCmd(b) == [cmd : {"mute"}, fn : Friends, on : {b}]
\* The gate is shut once the queued commands are done.
GateShut(r, cs) == Latch(r.mic_muted, cs, MuteCmd(TRUE), MuteCmd(FALSE))

MutedInCall == \A f \in Friends : DownBetween(ui[f], evs, f) /\ (ui[f].muted => ui[f].active)
SoloShown ==
    \A f \in Friends : Solo(msi, g, f) => \E b \in 0..Len(evs) : Since(ui, evs, f, b)
SoloMuted ==
    \A f \in Friends :
        /\ Solo(msi, g, f) /\ msi[f].st = "active"
        /\ ui[f].muted /\ ~EndedIn(evs, f, 1, Len(evs))
        => GateShut(g, cmds)
MInv == MutedInCall /\ SoloShown /\ SoloMuted

\* A strip that will show no call is told of the end of every call it shows before that.
LEMMA SaidOver ==
    ASSUME NEW es \in Seq(Event), NEW c, NEW f \in Friends, DownBetween(c, es, f), ~WillShow(c, es, f)
    PROVE  /\ c.active => EndedIn(es, f, 1, Len(es))
           /\ \A i \in 1..Len(es) : es[i] \in UpOf(f) => EndedIn(es, f, i + 1, Len(es))
  <1> DEFINE n == Len(es)
  <1>1. n \in Nat
    OBVIOUS
  <1>2. ASSUME c.active PROVE EndedIn(es, f, 1, n)
    <2>1. PICK k \in 1..n : es[k] \in IncomingOf(f) \cup EndedOf(f)
      BY <1>2 DEF WillShow, Latch
    <2>2. CASE es[k] \in EndedOf(f)
      BY <2>2 DEF EndedIn
    <2>3. CASE es[k] \in IncomingOf(f)
      <3>1. EndedIn(es, f, 1, k - 1)
        BY <1>2, <2>3 DEF DownBetween
      <3> QED BY <1>1, <3>1 DEF EndedIn
    <2> QED BY <2>1, <2>2, <2>3
  <1>3. ASSUME NEW i \in 1..n, es[i] \in UpOf(f) PROVE EndedIn(es, f, i + 1, n)
    <2>1. PICK k \in (i + 1)..n : es[k] \in IncomingOf(f) \cup EndedOf(f)
      BY <1>3 DEF WillShow, Latch
    <2>2. CASE es[k] \in EndedOf(f)
      BY <2>2 DEF EndedIn
    <2>3. CASE es[k] \in IncomingOf(f)
      <3>0. k \in 1..n /\ i \in 1..(k - 1)
        BY <1>1
      <3>1. EndedIn(es, f, i + 1, k - 1)
        BY <1>3, <2>3, <3>0 DEF DownBetween
      <3> QED BY <1>1, <3>1 DEF EndedIn
    <2> QED BY <2>1, <2>2, <2>3
  <1> QED BY <1>2, <1>3

\* One more event: a new call is announced only to a strip that will show none.
LEMMA DownAdd ==
    ASSUME NEW es \in Seq(Event), NEW e \in Event, NEW c, NEW f \in Friends, DownBetween(c, es, f),
           e \in IncomingOf(f) => ~WillShow(c, es, f)
    PROVE  DownBetween(c, Append(es, e), f)
  <1> DEFINE n == Len(es)
             t == Append(es, e)
  <1>1. n \in Nat /\ Len(t) = n + 1 /\ t[n + 1] = e /\ \A i \in 1..n : t[i] = es[i]
    BY ElementOfSeqIsSeq, AppendIsSeq
  <1> HIDE DEF t
  <1>0. ASSUME NEW i \in Nat, NEW k \in Nat, i >= 1, k <= n, EndedIn(es, f, i, k)
        PROVE  EndedIn(t, f, i, k)
    <2>1. PICK j \in i..k : es[j] \in EndedOf(f)
      BY <1>0 DEF EndedIn
    <2>2. j \in 1..n
      BY <1>0, <1>1
    <2> QED BY <1>1, <2>1, <2>2 DEF EndedIn
  <1>2. ASSUME NEW k \in 1..Len(t), t[k] \in IncomingOf(f)
        PROVE  /\ c.active => EndedIn(t, f, 1, k - 1)
               /\ \A i \in 1..(k - 1) : t[i] \in UpOf(f) => EndedIn(t, f, i + 1, k - 1)
    <2>1. CASE k = n + 1
      <3>1. /\ c.active => EndedIn(es, f, 1, n)
            /\ \A i \in 1..n : es[i] \in UpOf(f) => EndedIn(es, f, i + 1, n)
        BY <1>1, <1>2, <2>1, SaidOver
      <3> QED BY <1>0, <1>1, <2>1, <3>1
    <2>2. CASE k # n + 1
      <3>1. k \in 1..n /\ es[k] \in IncomingOf(f) /\ k - 1 \in Nat
        BY <1>1, <1>2, <2>2
      <3>2. /\ c.active => EndedIn(es, f, 1, k - 1)
            /\ \A i \in 1..(k - 1) : es[i] \in UpOf(f) => EndedIn(es, f, i + 1, k - 1)
        BY <3>1 DEF DownBetween
      <3> QED BY <1>0, <1>1, <3>1, <3>2
    <2> QED BY <2>1, <2>2
  <1>3. DownBetween(c, t, f)
    BY <1>2 DEF DownBetween
  <1> QED BY <1>3 DEF t

\* The indices of a queue whose first element is taken.
LEMMA EndedTake ==
    ASSUME NEW es \in Seq(Event), es # <<>>, NEW f \in Friends, NEW i \in Nat, NEW k \in Nat,
           i >= 1, k <= Len(es)
    PROVE  /\ Head(es) \notin EndedOf(f) /\ EndedIn(es, f, 1, k) => EndedIn(Tail(es), f, 1, k - 1)
           /\ EndedIn(es, f, i + 1, k) => EndedIn(Tail(es), f, i, k - 1)
  <1> DEFINE n == Len(es)
             t == Tail(es)
  <1>1. /\ n \in Nat \ {0} /\ Len(t) = n - 1 /\ Head(es) = es[1]
        /\ \A j \in 1..(n - 1) : t[j] = es[j + 1]
    BY ElementOfSeqIsSeq, TailIsSeq
  <1>2. ASSUME NEW a \in Nat, a >= 1, EndedIn(es, f, a + 1, k) PROVE EndedIn(t, f, a, k - 1)
    <2>1. PICK j \in (a + 1)..k : es[j] \in EndedOf(f)
      BY <1>2 DEF EndedIn
    <2>2. j - 1 \in 1..(n - 1) /\ j - 1 \in a..(k - 1) /\ (j - 1) + 1 = j
      BY <1>1, <1>2
    <2>3. t[j - 1] = es[j]
      BY <1>1, <2>2
    <2> QED BY <2>1, <2>2, <2>3 DEF EndedIn
  <1>3. ASSUME Head(es) \notin EndedOf(f), EndedIn(es, f, 1, k) PROVE EndedIn(es, f, 1 + 1, k)
    <2>1. PICK j \in 1..k : es[j] \in EndedOf(f)
      BY <1>3 DEF EndedIn
    <2>2. j \in (1 + 1)..k
      BY <1>1, <1>3, <2>1
    <2> QED BY <2>1, <2>2 DEF EndedIn
  <1> QED BY <1>2, <1>3

\* What taking event e does to the active flag of h's strip.
Turned(c, d, e, h) ==
    /\ e \in UpOf(h) => d.active
    /\ e \in IncomingOf(h) \cup EndedOf(h) => ~d.active
    /\ e \notin IncomingOf(h) \cup UpOf(h) \cup EndedOf(h) => d.active = c.active

\* A strip that shows a call after an event was taken was told so, or showed it before.
LEMMA StillShown ==
    ASSUME NEW es \in Seq(Event), es # <<>>, NEW c, NEW d, NEW f \in Friends,
           Turned(c, d, Head(es), f), d.active
    PROVE  Head(es) \in UpOf(f) \/ (Head(es) \notin EndedOf(f) /\ c.active)
  BY DEF Turned

\* The first event is taken.
LEMMA DownTake ==
    ASSUME NEW es \in Seq(Event), es # <<>>, NEW c, NEW d, NEW f \in Friends,
           DownBetween(c, es, f), Turned(c, d, Head(es), f)
    PROVE  DownBetween(d, Tail(es), f)
  <1> DEFINE n == Len(es)
             t == Tail(es)
  <1>1. /\ n \in Nat \ {0} /\ Len(t) = n - 1 /\ Head(es) = es[1]
        /\ \A j \in 1..(n - 1) : t[j] = es[j + 1]
    BY ElementOfSeqIsSeq, TailIsSeq
  <1>2. ASSUME NEW k \in 1..(n - 1), t[k] \in IncomingOf(f)
        PROVE  /\ d.active => EndedIn(t, f, 1, k - 1)
               /\ \A i \in 1..(k - 1) : t[i] \in UpOf(f) => EndedIn(t, f, i + 1, k - 1)
    <2>1. k + 1 \in 1..n /\ es[k + 1] \in IncomingOf(f) /\ (k + 1) - 1 = k /\ k \in Nat /\ k <= n
      BY <1>1, <1>2
    <2>2. /\ c.active => EndedIn(es, f, 1, k)
          /\ \A i \in 1..k : es[i] \in UpOf(f) => EndedIn(es, f, i + 1, k)
      BY <2>1 DEF DownBetween
    <2>3. ASSUME d.active PROVE EndedIn(t, f, 1, k - 1)
      <3>1. CASE Head(es) \in UpOf(f)
        <4>1. 1 \in 1..k
          BY <2>1
        <4>2. EndedIn(es, f, 1 + 1, k)
          BY <1>1, <2>2, <3>1, <4>1
        <4> QED BY <2>1, <4>2, EndedTake
      <3>2. CASE Head(es) \notin EndedOf(f) /\ c.active
        <4>1. EndedIn(es, f, 1, k) /\ 1 \in Nat
          BY <2>2, <3>2
        <4> QED BY <2>1, <3>2, <4>1, EndedTake
      <3> QED BY <2>3, <3>1, <3>2, StillShown
    <2>4. ASSUME NEW i \in 1..(k - 1), t[i] \in UpOf(f) PROVE EndedIn(t, f, i + 1, k - 1)
      <3>1. i \in 1..(n - 1) /\ i + 1 \in 1..k /\ i + 1 \in Nat /\ i + 1 >= 1
        BY <2>1
      <3>2. es[i + 1] \in UpOf(f)
        BY <1>1, <2>4, <3>1
      <3>3. EndedIn(es, f, (i + 1) + 1, k)
        BY <2>2, <3>1, <3>2
      <3> QED BY <2>1, <3>1, <3>3, EndedTake
    <2> QED BY <2>3, <2>4
  <1> QED BY <1>1, <1>2 DEF DownBetween

\* One more event, which says of no other call that it is up.
LEMMA SinceAdd ==
    ASSUME NEW es \in Seq(Event), NEW e \in Event, NEW u, NEW f \in Friends,
           NEW b \in 0..Len(es), Since(u, es, f, b), \A x \in Friends : e \in UpOf(x) => x = f
    PROVE  b \in 0..Len(Append(es, e)) /\ Since(u, Append(es, e), f, b)
  <1> DEFINE n == Len(es)
             t == Append(es, e)
  <1>1. n \in Nat /\ Len(t) = n + 1 /\ t[n + 1] = e /\ \A i \in 1..n : t[i] = es[i]
    BY ElementOfSeqIsSeq, AppendIsSeq
  <1> HIDE DEF t
  <1>2. ASSUME NEW x \in Friends, NEW i \in Nat, i >= 1, EndedIn(es, x, i, b)
        PROVE  EndedIn(t, x, i, b)
    <2>1. PICK j \in i..b : es[j] \in EndedOf(x)
      BY <1>2 DEF EndedIn
    <2>2. j \in 1..n
      BY <1>2, <1>1
    <2> QED BY <1>1, <2>1, <2>2 DEF EndedIn
  <1>3. ASSUME NEW x \in Friends
        PROVE  /\ u[x].active => (b = 0 /\ x = f) \/ EndedIn(t, x, 1, b)
               /\ \A i \in 1..b : t[i] \in UpOf(x) => EndedIn(t, x, i + 1, b)
               /\ \A i \in (b + 1)..Len(t) : t[i] \in UpOf(x) => x = f
    <2>1. /\ u[x].active => (b = 0 /\ x = f) \/ EndedIn(es, x, 1, b)
          /\ \A i \in 1..b : es[i] \in UpOf(x) => EndedIn(es, x, i + 1, b)
          /\ \A i \in (b + 1)..n : es[i] \in UpOf(x) => x = f
      BY DEF Since
    <2>2. u[x].active => (b = 0 /\ x = f) \/ EndedIn(t, x, 1, b)
      BY <1>2, <2>1
    <2>3. ASSUME NEW i \in 1..b, t[i] \in UpOf(x) PROVE EndedIn(t, x, i + 1, b)
      BY <1>1, <1>2, <2>1, <2>3
    <2>4. ASSUME NEW i \in (b + 1)..Len(t), t[i] \in UpOf(x) PROVE x = f
      <3>1. CASE i = n + 1
        BY <1>1, <2>4, <3>1
      <3>2. CASE i # n + 1
        <4>1. i \in (b + 1)..n /\ i \in 1..n
          BY <1>1, <3>2
        <4> QED BY <1>1, <2>1, <2>4, <4>1
      <3> QED BY <3>1, <3>2
    <2> QED BY <2>2, <2>3, <2>4
  <1>4. Since(u, t, f, b) /\ b \in 0..Len(t)
    BY <1>1, <1>3 DEF Since
  <1> QED BY <1>4 DEF t

\* The first event is taken.
LEMMA SinceTake ==
    ASSUME NEW es \in Seq(Event), es # <<>>, NEW u, NEW v, NEW f \in Friends,
           NEW b \in 0..Len(es), Since(u, es, f, b),
           \A x \in Friends : Turned(u[x], v[x], Head(es), x)
    PROVE  \E a \in 0..Len(Tail(es)) : Since(v, Tail(es), f, a)
  <1> DEFINE n == Len(es)
             t == Tail(es)
             a == IF b = 0 THEN 0 ELSE b - 1
  <1>1. /\ n \in Nat \ {0} /\ Len(t) = n - 1 /\ Head(es) = es[1]
        /\ \A j \in 1..(n - 1) : t[j] = es[j + 1]
    BY ElementOfSeqIsSeq, TailIsSeq
  <1>2. a \in 0..(n - 1) /\ b \in Nat /\ b <= n
    BY <1>1
  <1>3. ASSUME NEW x \in Friends
        PROVE  /\ v[x].active => (a = 0 /\ x = f) \/ EndedIn(t, x, 1, a)
               /\ \A i \in 1..a : t[i] \in UpOf(x) => EndedIn(t, x, i + 1, a)
               /\ \A i \in (a + 1)..(n - 1) : t[i] \in UpOf(x) => x = f
    <2>1. /\ u[x].active => (b = 0 /\ x = f) \/ EndedIn(es, x, 1, b)
          /\ \A i \in 1..b : es[i] \in UpOf(x) => EndedIn(es, x, i + 1, b)
          /\ \A i \in (b + 1)..n : es[i] \in UpOf(x) => x = f
      BY DEF Since
    <2>2. ASSUME v[x].active PROVE (a = 0 /\ x = f) \/ EndedIn(t, x, 1, a)
      <3>1. CASE Head(es) \in UpOf(x)
        <4>1. CASE b = 0
          <5>1. 1 \in (b + 1)..n
            BY <1>1, <4>1
          <5> QED BY <1>1, <2>1, <3>1, <4>1, <5>1
        <4>2. CASE b # 0
          <5>1. 1 \in 1..b /\ a = b - 1
            BY <1>2, <4>2
          <5>2. EndedIn(es, x, 1 + 1, b)
            BY <1>1, <2>1, <3>1, <5>1
          <5> QED BY <1>2, <5>1, <5>2, EndedTake
        <4> QED BY <4>1, <4>2
      <3>2. CASE Head(es) \notin EndedOf(x) /\ u[x].active
        <4>1. CASE b = 0 /\ x = f
          BY <4>1
        <4>2. CASE EndedIn(es, x, 1, b)
          <5>1. b # 0
            BY <4>2 DEF EndedIn
          <5>2. a = b - 1 /\ 1 \in Nat
            BY <5>1
          <5> QED BY <1>2, <3>2, <4>2, <5>2, EndedTake
        <4> QED BY <2>1, <3>2, <4>1, <4>2
      <3>3. Turned(u[x], v[x], Head(es), x)
        OBVIOUS
      <3> QED BY <2>2, <3>1, <3>2, <3>3, StillShown
    <2>3. ASSUME NEW i \in 1..a, t[i] \in UpOf(x) PROVE EndedIn(t, x, i + 1, a)
      <3>1. i \in 1..(n - 1) /\ i + 1 \in 1..b /\ a = b - 1 /\ i + 1 \in Nat /\ i + 1 >= 1
        BY <1>2
      <3>2. es[i + 1] \in UpOf(x)
        BY <1>1, <2>3, <3>1
      <3>3. EndedIn(es, x, (i + 1) + 1, b)
        BY <2>1, <3>1, <3>2
      <3> QED BY <1>2, <3>1, <3>3, EndedTake
    <2>4. ASSUME NEW i \in (a + 1)..(n - 1), t[i] \in UpOf(x) PROVE x = f
      <3>1. i \in 1..(n - 1) /\ i + 1 \in (b + 1)..n
        BY <1>1, <1>2
      <3> QED BY <1>1, <2>1, <2>4, <3>1
    <2> QED BY <2>2, <2>3, <2>4
  <1> HIDE DEF a
  <1>4. Since(v, t, f, a)
    BY <1>1, <1>3 DEF Since
  <1> QED BY <1>1, <1>2, <1>4

\* A call begins while there is no other.
LEMMA SinceNow ==
    ASSUME NEW es \in Seq(Event), NEW u, NEW f \in Friends,
           \A x \in Friends : DownBetween(u[x], es, x) /\ ~WillShow(u[x], es, x)
    PROVE  Len(es) \in 0..Len(es) /\ Since(u, es, f, Len(es))
  <1>1. ASSUME NEW x \in Friends
        PROVE  /\ u[x].active => EndedIn(es, x, 1, Len(es))
               /\ \A i \in 1..Len(es) : es[i] \in UpOf(x) => EndedIn(es, x, i + 1, Len(es))
    BY SaidOver
  <1>2. Len(es) \in Nat
    OBVIOUS
  <1> QED BY <1>1, <1>2 DEF Since

\* The gate once one more command is done.
LEMMA GateAdd ==
    ASSUME NEW cs \in Seq(Command), NEW c \in Command, NEW r
    PROVE  GateShut(r, Append(cs, c)) <=>
               (c.cmd = "mute" /\ c.on) \/ (~(c.cmd = "mute" /\ ~c.on) /\ GateShut(r, cs))
  <1>1. (c \in MuteCmd(TRUE) <=> c.cmd = "mute" /\ c.on) /\ (c \in MuteCmd(FALSE) <=> c.cmd = "mute" /\ ~c.on)
    BY DEF Command, MuteCmd
  <1>2. IsSeq(cs)
    BY ElementOfSeqIsSeq
  <1>3. GateShut(r, Append(cs, c)) <=>
            c \in MuteCmd(TRUE) \/ (c \notin MuteCmd(FALSE) /\ GateShut(r, cs))
    BY <1>2, LatchAdd DEF GateShut
  <1> QED BY <1>1, <1>3

\* The engine does the first command.
LEMMA GateTake ==
    ASSUME NEW cs \in Seq(Command), cs # <<>>, NEW r, NEW q,
           Head(cs).cmd = "mute" => q.mic_muted = Head(cs).on,
           Head(cs).cmd # "mute" => q.mic_muted = r.mic_muted
    PROVE  GateShut(q, Tail(cs)) <=> GateShut(r, cs)
  <1> DEFINE c == Head(cs)
  <1>0. IsSeq(cs) /\ c \in Command
    BY ElementOfSeqIsSeq
  <1>1. (c \in MuteCmd(TRUE) <=> c.cmd = "mute" /\ c.on) /\ (c \in MuteCmd(FALSE) <=> c.cmd = "mute" /\ ~c.on)
    BY <1>0 DEF Command, MuteCmd
  <1>2. q.mic_muted <=> c \in MuteCmd(TRUE) \/ (r.mic_muted /\ c \notin MuteCmd(FALSE))
    BY <1>1
  <1> QED BY <1>0, <1>2, LatchTake DEF GateShut

\* An end that is on its way stays so when one more event follows.
LEMMA EndedStays ==
    ASSUME NEW es \in Seq(Event), NEW e, NEW f \in Friends, EndedIn(es, f, 1, Len(es))
    PROVE  EndedIn(Append(es, e), f, 1, Len(Append(es, e)))
  <1> DEFINE n == Len(es)
             t == Append(es, e)
  <1>1. n \in Nat /\ Len(t) = n + 1 /\ \A i \in 1..n : t[i] = es[i]
    BY ElementOfSeqIsSeq, AppendIsSeq
  <1> HIDE DEF t
  <1>2. PICK j \in 1..n : es[j] \in EndedOf(f)
    BY DEF EndedIn
  <1>3. j \in 1..(n + 1) /\ t[j] \in EndedOf(f)
    BY <1>1, <1>2
  <1>4. EndedIn(t, f, 1, Len(t))
    BY <1>1, <1>3 DEF EndedIn
  <1> QED BY <1>4 DEF t

\* The engine's events, whatever they are, leave the strips' mute marks in order.
LEMMA MarksStay ==
    ASSUME SInv, MutedInCall, ui' = ui, NEW f \in Friends,
           \/ evs' = evs
           \/ \E e \in IncomingOf(f) : Says(e) /\ msi[f].st # "active"
           \/ \E e \in StateOf(f) \cup EndedOf(f) : Says(e)
           \/ \E e \in EndedOf(f), s \in StateOf(f) : evs' = Append(Append(evs, e), s)
    PROVE  MutedInCall'
  <1>1. evs \in Seq(Event) /\ \A h \in Friends : WillShow(ui[h], evs, h) => msi[h].st = "active"
    BY DEF SInv, StripType, StripTells
  <1>2. ASSUME NEW h \in Friends PROVE DownBetween(ui[h], evs', h)
    <2>0. DownBetween(ui[h], evs, h)
      BY DEF MutedInCall
    <2>1. CASE evs' = evs
      BY <2>0, <2>1
    <2>2. CASE \E e \in IncomingOf(f) : Says(e) /\ msi[f].st # "active"
      <3>1. PICK e \in IncomingOf(f) : evs' = Append(evs, e) /\ msi[f].st # "active"
        BY <2>2 DEF Says
      <3>2. e \in Event /\ (e \in IncomingOf(h) => h = f)
        BY EventsApart DEF Event
      <3>3. e \in IncomingOf(h) => ~WillShow(ui[h], evs, h)
        BY <1>1, <3>1, <3>2
      <3> QED BY <1>1, <2>0, <3>1, <3>2, <3>3, DownAdd
    <2>3. CASE \E e \in StateOf(f) \cup EndedOf(f) : Says(e)
      <3>1. PICK e \in StateOf(f) \cup EndedOf(f) : evs' = Append(evs, e)
        BY <2>3 DEF Says
      <3>2. e \in Event /\ e \notin IncomingOf(h)
        BY EventsApart DEF Event
      <3> QED BY <1>1, <2>0, <3>1, <3>2, DownAdd
    <2>4. CASE \E e \in EndedOf(f), s \in StateOf(f) : evs' = Append(Append(evs, e), s)
      <3>1. PICK e \in EndedOf(f), s \in StateOf(f) : evs' = Append(Append(evs, e), s)
        BY <2>4
      <3>2. e \in Event /\ e \notin IncomingOf(h) /\ s \in Event /\ s \notin IncomingOf(h)
        BY EventsApart DEF Event
      <3> DEFINE t == Append(evs, e)
      <3>3. t \in Seq(Event) /\ DownBetween(ui[h], t, h) /\ evs' = Append(t, s)
        BY <1>1, <2>0, <3>1, <3>2, DownAdd
      <3> HIDE DEF t
      <3> QED BY <3>2, <3>3, DownAdd
    <2> QED BY <2>1, <2>2, <2>3, <2>4
  <1> QED BY <1>2 DEF MutedInCall

\* A step of the engine keeps the gate shut for a call that is muted and the only one.
LEMMA KindsMute ==
    ASSUME SInv, MInv, NEW f \in Friends, ui' = ui,
           \/ Starts(f) \/ Stops(f)
           \/ (Refuses(f) \/ Continues(f)) /\ (GateShut(g, cmds) => GateShut(g', cmds'))
    PROVE  MInv'
  <1>1. /\ evs \in Seq(Event) /\ \A h \in Friends : WillShow(ui[h], evs, h) => msi[h].st = "active"
        /\ \A h \in Friends : DownBetween(ui[h], evs, h) /\ (ui[h].muted => ui[h].active)
    BY DEF SInv, StripType, StripTells, MInv, MutedInCall
  <1>2. MutedInCall'
    <2>1. CASE Starts(f)
      BY <2>1, MarksStay DEF Starts, MInv
    <2>2. CASE Stops(f)
      BY <2>2, MarksStay DEF Stops, MInv
    <2>3. CASE Refuses(f) \/ Continues(f)
      BY <2>3, MarksStay DEF Refuses, Continues, MInv
    <2> QED BY <2>1, <2>2, <2>3
  <1>3. CASE Stops(f)
    <2>1. \A h \in Friends : ~Solo(msi, g, h)'
      BY <1>3, CallsAssumption DEF Stops, Solo
    <2> QED BY <1>2, <2>1 DEF MInv, SoloShown, SoloMuted
  <1>4. CASE Starts(f)
    <2>1. ASSUME NEW h \in Friends, Solo(msi, g, h)'
          PROVE  h = f /\ msi'[h].st # "active" /\ \E b \in 0..Len(evs') : Since(ui', evs', h, b)
      <3>1. h = f /\ msi'[h].st # "active"
        BY <1>4, <2>1 DEF Starts, Solo
      <3>2. \A x \in Friends : msi[x].st = "none"
        BY <1>4, <2>1, <3>1 DEF Starts, Solo, OthersStay
      <3>3. Len(evs) \in 0..Len(evs) /\ Since(ui, evs, f, Len(evs))
        BY <1>1, <3>2, SinceNow
      <3>4. \E b \in 0..Len(evs') : Since(ui, evs', f, b)
        <4>1. CASE evs' = evs
          BY <3>3, <4>1
        <4>2. CASE \E e \in IncomingOf(f) : Says(e)
          <5>1. PICK e \in IncomingOf(f) : evs' = Append(evs, e)
            BY <4>2 DEF Says
          <5>2. e \in Event /\ \A x \in Friends : e \notin UpOf(x)
            BY EventsApart DEF Event
          <5> QED BY <1>1, <3>3, <5>1, <5>2, SinceAdd
        <4> QED BY <1>4, <4>1, <4>2 DEF Starts
      <3> QED BY <3>1, <3>4
    <2> QED BY <1>2, <2>1 DEF MInv, SoloShown, SoloMuted
  <1>5. CASE (Refuses(f) \/ Continues(f)) /\ (GateShut(g, cmds) => GateShut(g', cmds'))
    <2>1. PICK e \in StateOf(f) \cup EndedOf(f) : evs' = Append(evs, e)
      BY <1>5 DEF Refuses, Continues, Says
    <2>2. e \in Event /\ \A x \in Friends : e \in UpOf(x) => x = f /\ e \in StateOf(f)
      BY EventsApart DEF Event, UpOf
    <2>3. ASSUME NEW h \in Friends, Solo(msi, g, h)'
          PROVE  Solo(msi, g, h) /\ (Continues(f) => h = f)
      <3>1. CASE Continues(f)
        <4>1. h = f
          BY <2>3, <3>1 DEF Continues, Solo
        <4> QED BY <2>3, <3>1, <4>1 DEF Continues, Solo, OthersStay
      <3>2. CASE Refuses(f)
        <4>1. g' = g /\ \A x \in Friends : msi'[x].st = msi[x].st
          BY <3>2 DEF Refuses, OthersStay
        <4> QED BY <2>3, <3>2, <4>1, EventsApart DEF Solo, Refuses, Continues, Says
      <3> QED BY <1>5, <3>1, <3>2
    <2>4. SoloShown'
      <3> SUFFICES ASSUME NEW h \in Friends, Solo(msi, g, h)'
                   PROVE  \E b \in 0..Len(evs') : Since(ui', evs', h, b)
        BY DEF SoloShown
      <3>1. PICK b \in 0..Len(evs) : Since(ui, evs, h, b)
        BY <2>3 DEF MInv, SoloShown
      <3>2. \A x \in Friends : e \in UpOf(x) => x = h
        <4>1. CASE Continues(f)
          BY <2>2, <2>3, <4>1
        <4>2. CASE Refuses(f)
          <5>1. PICK d \in EndedOf(f) : evs' = Append(evs, d)
            BY <4>2 DEF Refuses, Says
          <5>2. e = d
            <6>1. IsSeq(evs)
              BY <1>1, ElementOfSeqIsSeq
            <6>2. Append(evs, e)[Len(evs) + 1] = e /\ Append(evs, d)[Len(evs) + 1] = d
              BY <6>1, AppendIsSeq
            <6> QED BY <2>1, <5>1, <6>2
          <5> QED BY <5>2, EventsApart
        <4> QED BY <1>5, <4>1, <4>2
      <3> QED BY <1>1, <2>1, <2>2, <3>1, <3>2, SinceAdd
    <2>5. SoloMuted'
      <3> SUFFICES ASSUME NEW h \in Friends, Solo(msi, g, h)', msi'[h].st = "active",
                          ui'[h].muted, ~EndedIn(evs', h, 1, Len(evs'))
                   PROVE  GateShut(g', cmds')
        BY DEF SoloMuted
      <3>1. Solo(msi, g, h) /\ ui[h].muted /\ ~EndedIn(evs, h, 1, Len(evs))
        BY <1>1, <2>1, <2>3, EndedStays
      <3>2. msi[h].st = "active"
        <4>1. CASE Refuses(f)
          BY <4>1 DEF Refuses, OthersStay
        <4>2. CASE Continues(f) /\ msi[h].st # "active"
          <5>1. ui[h].active /\ ~WillShow(ui[h], evs, h) /\ DownBetween(ui[h], evs, h)
            BY <1>1, <3>1, <4>2
          <5>2. EndedIn(evs, h, 1, Len(evs))
            BY <1>1, <5>1, SaidOver
          <5> QED BY <3>1, <5>2
        <4> QED BY <1>5, <4>1, <4>2
      <3>3. GateShut(g, cmds)
        BY <3>1, <3>2 DEF MInv, SoloMuted
      <3> QED BY <1>5, <3>3
    <2> QED BY <1>2, <2>4, <2>5 DEF MInv
  <1> QED BY <1>3, <1>4, <1>5

\* Taking an event keeps the marks in order and the gate as it is.
LEMMA EventMutes ==
    ASSUME SInv, MInv, TakeEvent
    PROVE  MInv'
  <1>1. StripType /\ evs \in Seq(Event)
    BY DEF SInv, StripType
  <1>0. evs # <<>> /\ evs' = Tail(evs) /\ msi' = msi /\ g' = g /\ cmds' = cmds
    BY DEF TakeEvent
  <1>2. ASSUME NEW h \in Friends
        PROVE  /\ Turned(ui[h], ui'[h], Head(evs), h)
               /\ Head(evs) \in EndedOf(h) => ~ui'[h].muted
               /\ Head(evs) \notin EndedOf(h) => ui'[h].muted = ui[h].muted
               /\ Head(evs) \notin IncomingOf(h) \cup UpOf(h) \cup EndedOf(h) =>
                      ui'[h].active = ui[h].active
    <2> DEFINE c == ui[h]
               d == ui'[h]
               e == Head(evs)
    <2>1. /\ e \in IncomingOf(h) => ~d.active /\ d.muted = c.muted
          /\ e \in UpOf(h) => d.active /\ d.muted = c.muted
          /\ e \in EndedOf(h) => ~d.active /\ ~d.muted
          /\ e \notin IncomingOf(h) \cup UpOf(h) \cup EndedOf(h) =>
                 d.active = c.active /\ d.muted = c.muted
      BY <1>1, EventTaken, Zenon
    <2> HIDE DEF c, d, e
    <2>2. Turned(c, d, e, h)
      BY <2>1 DEF Turned
    <2>3. /\ e \in EndedOf(h) => ~d.muted
          /\ e \notin EndedOf(h) => d.muted = c.muted
          /\ e \notin IncomingOf(h) \cup UpOf(h) \cup EndedOf(h) => d.active = c.active
      BY <2>1
    <2> QED BY <2>2, <2>3 DEF c, d, e
  <1>3. ASSUME NEW h \in Friends
        PROVE  DownBetween(ui'[h], evs', h) /\ (ui'[h].muted => ui'[h].active)
    <2>1. DownBetween(ui[h], evs, h) /\ (ui[h].muted => ui[h].active)
      BY DEF MInv, MutedInCall
    <2>2. DownBetween(ui'[h], evs', h)
      BY <1>0, <1>1, <1>2, <2>1, DownTake
    <2>3. Head(evs) \in IncomingOf(h) => ~ui[h].active
      <3>1. 1 \in 1..Len(evs) /\ Head(evs) = evs[1]
        BY <1>0, <1>1
      <3>2. ~EndedIn(evs, h, 1, 1 - 1)
        BY DEF EndedIn
      <3> QED BY <2>1, <3>1, <3>2 DEF DownBetween
    <2>4. ui'[h].muted => ui'[h].active
      BY <1>2, <2>1, <2>3 DEF Turned
    <2> QED BY <2>2, <2>4
  <1>4. MutedInCall'
    BY <1>3 DEF MutedInCall
  <1>5. SoloShown'
    <2> SUFFICES ASSUME NEW f \in Friends, Solo(msi, g, f)'
                 PROVE  \E b \in 0..Len(evs') : Since(ui', evs', f, b)
      BY DEF SoloShown
    <2>1. PICK b \in 0..Len(evs) : Since(ui, evs, f, b)
      BY <1>0 DEF MInv, SoloShown
    <2>2. \A x \in Friends : Turned(ui[x], ui'[x], Head(evs), x)
      BY <1>2
    <2> QED BY <1>0, <1>1, <2>1, <2>2, SinceTake
  <1>6. SoloMuted'
    <2> SUFFICES ASSUME NEW f \in Friends, Solo(msi, g, f)', msi'[f].st = "active",
                        ui'[f].muted, ~EndedIn(evs', f, 1, Len(evs'))
                 PROVE  GateShut(g', cmds')
      BY DEF SoloMuted
    <2>1. Head(evs) \notin EndedOf(f) /\ ui[f].muted
      BY <1>2
    <2>2. Len(evs) \in Nat /\ Len(evs') = Len(evs) - 1 /\ Len(evs) <= Len(evs) /\ 1 \in Nat
      BY <1>0, <1>1
    <2>3. ~EndedIn(evs, f, 1, Len(evs))
      BY <1>0, <1>1, <2>1, <2>2, EndedTake
    <2>4. Solo(msi, g, f) /\ msi[f].st = "active"
      BY <1>0
    <2> QED BY <1>0, <2>1, <2>3, <2>4 DEF MInv, SoloMuted
  <1> QED BY <1>4, <1>5, <1>6 DEF MInv

\* A click: only a strip that shows a call has a mute button, and next to a call that is
\* the only one and is shown no other strip shows one.
LEMMA ClickMutes ==
    ASSUME SInv, MInv, NEW f \in Friends, NEW c \in Command, cmds \in Seq(Command),
           msi' = msi, g' = g, evs' = evs, cmds' = Append(cmds, c), Clicked(f, c)
    PROVE  MInv'
  <1>1. ASSUME NEW h \in Friends PROVE ui'[h].active = ui[h].active
    BY DEF Clicked
  <1>2. MutedInCall'
    <2> SUFFICES ASSUME NEW h \in Friends
                 PROVE  DownBetween(ui'[h], evs', h) /\ (ui'[h].muted => ui'[h].active)
      BY DEF MutedInCall
    <2>1. DownBetween(ui[h], evs, h) /\ (ui[h].muted => ui[h].active)
      BY DEF MInv, MutedInCall
    <2>2. DownBetween(ui'[h], evs', h)
      BY <1>1, <2>1 DEF DownBetween
    <2>3. ui'[h].muted => ui'[h].active
      <3>1. CASE h = f
        BY <1>1, <2>1, <3>1 DEF Clicked
      <3>2. CASE h # f
        BY <2>1, <3>2 DEF Clicked
      <3> QED BY <3>1, <3>2
    <2> QED BY <2>2, <2>3
  <1>3. SoloShown'
    <2> SUFFICES ASSUME NEW h \in Friends, Solo(msi, g, h)'
                 PROVE  \E b \in 0..Len(evs') : Since(ui', evs', h, b)
      BY DEF SoloShown
    <2>1. PICK b \in 0..Len(evs) : Since(ui, evs, h, b)
      BY DEF MInv, SoloShown
    <2>2. Since(ui', evs, h, b)
      BY <1>1, <2>1 DEF Since
    <2> QED BY <2>2
  <1>4. SoloMuted'
    <2> SUFFICES ASSUME NEW h \in Friends, Solo(msi, g, h)', msi'[h].st = "active",
                        ui'[h].muted, ~EndedIn(evs', h, 1, Len(evs'))
                 PROVE  GateShut(g', cmds')
      BY DEF SoloMuted
    <2>1. GateShut(g, cmds') <=>
              (c.cmd = "mute" /\ c.on) \/ (~(c.cmd = "mute" /\ ~c.on) /\ GateShut(g, cmds))
      BY GateAdd
    <2>2. ui[h].muted => GateShut(g, cmds)
      BY DEF MInv, SoloMuted
    <2>3. CASE c.cmd # "mute"
      <3>1. ui'[h].muted = ui[h].muted
        BY <2>3 DEF Clicked
      <3> QED BY <2>1, <2>2, <2>3, <3>1
    <2>4. CASE c.cmd = "mute" /\ h = f
      <3>1. c.on
        BY <2>4 DEF Clicked
      <3> QED BY <2>1, <2>4, <3>1
    <2>5. CASE c.cmd = "mute" /\ h # f
      <3>1. ui[f].active /\ ui[h].muted /\ ui[h].active
        BY <2>5 DEF Clicked, MInv, MutedInCall
      <3>2. PICK b \in 0..Len(evs) : Since(ui, evs, h, b)
        BY DEF MInv, SoloShown
      <3>3. evs \in Seq(Event)
        BY DEF SInv, StripType
      <3>4. ~EndedIn(evs, h, 1, b)
        BY <3>3 DEF EndedIn
      <3>5. b = 0
        BY <3>1, <3>2, <3>4 DEF Since
      <3>6. ~EndedIn(evs, f, 1, b)
        BY <3>5 DEF EndedIn
      <3> QED BY <2>5, <3>1, <3>2, <3>6 DEF Since
    <2> QED BY <2>3, <2>4, <2>5
  <1> QED BY <1>2, <1>3, <1>4 DEF MInv

\* Every step keeps the invariant.
LEMMA StepMutes ==
    ASSUME AInv, SInv, MInv, [Next]_vars
    PROVE  MInv'
  <1>1. StripType /\ cmds \in Seq(Command)
    BY DEF SInv, AInv, CallsTypeOK
  <1>2. ASSUME NEW f \in Friends,
               \/ \E caps \in setup.caps : \/ "A" \in caps /\ cb_av_call(f, caps)
                                           \/ "A" \in caps /\ PeerAnswers(f, caps)
                                           \/ PeerChanges(f, caps)
               \/ \E how \in {"finished", "error"} : PeerEnds(f, how)
        PROVE  MInv'
    <2>1. (Starts(f) \/ Continues(f) \/ Stops(f)) /\ cmds' = cmds /\ ui' = ui
      BY <1>1, <1>2, PeerSteps
    <2>2. Continues(f) => (GateShut(g, cmds) => GateShut(g', cmds'))
      BY <2>1 DEF Continues, GateShut
    <2> QED BY <2>1, <2>2, KindsMute
  <1>3. ASSUME NEW f \in Friends,
               \/ cc_av_call(f) \/ cc_av_answer(f) \/ cc_av_answer_video(f) \/ cc_av_decline(f)
               \/ cc_av_mute(f) \/ cc_av_pause(f) \/ cc_av_cam(f)
        PROVE  MInv'
    BY <1>1, <1>3, ClickSteps, ClickMutes
  <1>4. ASSUME TakeCommand
        PROVE  MInv'
    <2> DEFINE c == Head(cmds)
    <2>1. /\ cmds # <<>> /\ cmds' = Tail(cmds) /\ ui' = ui /\ c \in Command /\ c.fn \in Friends
          /\ \/ c.cmd = "call" /\ (Starts(c.fn) \/ Refuses(c.fn))
             \/ /\ c.cmd \notin {"call", "mute"}
                /\ Continues(c.fn) \/ Stops(c.fn) \/ (Idles /\ g' = g)
             \/ c.cmd = "mute" /\ Idles /\ g'.mic_muted = c.on
      BY <1>1, <1>4, CommandSteps
    <2>2. /\ c.cmd = "mute" => g'.mic_muted = c.on
          /\ Continues(c.fn) \/ Refuses(c.fn) \/ Idles => (c.cmd # "mute" => g'.mic_muted = g.mic_muted)
      <3>1. c.cmd = "mute" => g'.mic_muted = c.on
        BY <2>1
      <3>2. Continues(c.fn) \/ Refuses(c.fn) => g'.mic_muted = g.mic_muted
        BY DEF Continues, Refuses
      <3>3. Idles /\ c.cmd # "mute" => g'.mic_muted = g.mic_muted \/ Continues(c.fn) \/ Refuses(c.fn)
                                       \/ Starts(c.fn) \/ Stops(c.fn)
        BY <2>1
      <3>4. Idles => ~Starts(c.fn) /\ ~Stops(c.fn)
        BY DEF Idles, Starts, Stops
      <3> QED BY <3>1, <3>2, <3>3, <3>4
    <2>3. ASSUME Continues(c.fn) \/ Refuses(c.fn) \/ Idles
          PROVE  GateShut(g', cmds') <=> GateShut(g, cmds)
      BY <1>1, <2>1, <2>2, <2>3, GateTake
    <2> HIDE DEF c
    <2>4. CASE Starts(c.fn) \/ Stops(c.fn) \/ Refuses(c.fn) \/ Continues(c.fn)
      BY <2>1, <2>3, <2>4, KindsMute
    <2>5. CASE Idles
      <3>1. msi' = msi /\ evs' = evs /\ g'.call_fn = g.call_fn
        BY <2>5 DEF Idles
      <3>2. \A h \in Friends : Solo(msi, g, h)' => Solo(msi, g, h)
        BY <3>1 DEF Solo
      <3>3. MutedInCall'
        BY <2>1, <3>1 DEF MInv, MutedInCall
      <3>4. SoloShown'
        BY <2>1, <3>1, <3>2 DEF MInv, SoloShown
      <3>5. SoloMuted'
        BY <2>1, <2>3, <2>5, <3>1, <3>2 DEF MInv, SoloMuted
      <3> QED BY <3>3, <3>4, <3>5 DEF MInv
    <2> QED BY <2>1, <2>4, <2>5
  <1>5. CASE UNCHANGED vars
    BY <1>5 DEF vars, MInv, MutedInCall, SoloShown, SoloMuted, Solo
  <1> QED BY <1>2, <1>3, <1>4, <1>5, EventMutes, Zenon DEF Next

\* At the start nothing is muted and there is no call.
LEMMA InitMutes ==
    ASSUME Init
    PROVE  MInv
  <1>1. /\ evs = <<>> /\ \A f \in Friends : ~ui[f].active /\ ~ui[f].muted /\ msi[f].st = "none"
    BY DEF Init, IdleContact, NoCall
  <1>2. MutedInCall
    BY <1>1, EmptyIsSeq DEF MutedInCall, DownBetween
  <1> QED BY <1>1, <1>2 DEF MInv, SoloShown, SoloMuted, Solo

\* Once both queues are empty, a contact whose strip shows a muted microphone does not
\* hear it, unless a second call, whose button works the same gate, is on (tt_av_cmd_mute,
\* cc_av_mute, cb_av_call's reset of mic_muted): for any friends, clicks and moves.
THEOREM MutedNotHeard == Spec => []MuteHonoured
  <1> DEFINE I == (AInv /\ SInv) /\ MInv
  <1>1. Init => I
    BY InitServes, InitTells, InitMutes
  <1>2. I /\ [Next]_vars => I'
    BY StepServes, StepTells, StepMutes
  <1>3. I => MuteHonoured
    <2> SUFFICES ASSUME I, Quiet, NEW f \in Friends, ui[f].active, ui[f].muted, Heard(f),
                        Others(f) = {}
                 PROVE  FALSE
      BY DEF MuteHonoured
    <2>1. cmds = <<>> /\ evs = <<>>
      BY DEF Quiet
    <2>2. /\ ~g.mic_muted /\ g.call_fn = f /\ msi[f].st = "active"
          /\ \A h \in Friends \ {f} : msi[h].st = "none"
      BY DEF Heard, Others, InCall
    <2>3. Solo(msi, g, f)
      BY <2>2 DEF Solo
    <2>4. ~EndedIn(evs, f, 1, Len(evs))
      BY <2>1, EmptyIsSeq DEF EndedIn
    <2>5. GateShut(g, cmds)
      BY <2>2, <2>3, <2>4 DEF MInv, SoloMuted
    <2>6. g.mic_muted
      <3>1. Latch(g.mic_muted, <<>>, MuteCmd(TRUE), MuteCmd(FALSE))
        BY <2>1, <2>5, Zenon DEF GateShut
      <3> QED BY <3>1, EmptyIsSeq DEF Latch
    <2> QED BY <2>2, <2>6
  <1> HIDE DEF I
  <1> QED BY <1>1, <1>2, <1>3, PTL DEF Spec
=============================================================================
