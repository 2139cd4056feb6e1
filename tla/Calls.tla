-------------------------------- MODULE Calls -------------------------------
(***************************************************************************)
(* Voice and video calls: the engine's one call record (av.c, TTAvg), the  *)
(* call strip the Tk front end keeps for every contact (ui_tk.c), the      *)
(* queues between them, and ToxAV, which is external: it keeps one session *)
(* per friend and calls back only for what the OTHER side does, so the     *)
(* engine echoes its own changes to the front end itself.                  *)
(*                                                                         *)
(* A call state is a set of capabilities: "A" for the audio bits, "V" for  *)
(* the video bits, "finished", "error"; {} is a paused (or idle) call.     *)
(***************************************************************************)
EXTENDS Integers, Sequences, FiniteSets

CONSTANTS
    Friends,
    None,       \* UINT32_MAX: no friend
    Setups      \* [friends: who may call and be called, clicks: the user's clicks,
                \*  buttons: the buttons in use, moves: what the peers do in all,
                \*  caps: the capabilities a peer may offer or change to,
                \*  devices: whether a device opens]

ASSUME CallsAssumption ==
    /\ None \notin Friends
    /\ \A s \in Setups : /\ s.friends \subseteq Friends
                         /\ s.clicks \in Nat /\ s.moves \in Nat
                         /\ s.caps \subseteq SUBSET {"A", "V"}
                         /\ s.devices \subseteq BOOLEAN /\ s.devices # {}

VARIABLES
    setup,
    msi,        \* ToxAV's session with each friend: its phase, what we send
                \* (self), what we sent before our pause (prev), what the peer
                \* sends (peer); and, for the properties only, whether the call
                \* shared the engine's one record (shared: with the call of
                \* another friend, or a side changed while the other was paused),
                \* whether the peer was seen to send video (filming) and whether a
                \* call of ours to this friend was refused because this one was
                \* running (crossed)
    g,          \* TTAvg: state, call_fn, paused_state, mic_muted, the devices
    ui,         \* Contact: call_incoming, call_active, call_ringing, call_state,
                \* call_video, call_cam, call_muted, call_paused_self
    cmds, evs,  \* queues front end -> engine and back
    clicks, moves

vars == <<setup, msi, g, ui, cmds, evs, clicks, moves>>

NoCall == [st |-> "none", self |-> {}, prev |-> {}, peer |-> {},
           shared |-> FALSE, filming |-> FALSE, crossed |-> FALSE]
IdleContact == [incoming |-> FALSE, active |-> FALSE, ringing |-> FALSE, state |-> {},
                video |-> FALSE, cam |-> FALSE, muted |-> FALSE, paused_self |-> FALSE]

Init ==
    /\ setup \in Setups
    /\ msi = [f \in Friends |-> NoCall]
    /\ g = [state |-> {}, call_fn |-> None, paused_state |-> {}, mic_muted |-> FALSE,
            audio |-> FALSE, video |-> FALSE]
    /\ ui = [f \in Friends |-> IdleContact]
    /\ cmds = <<>> /\ evs = <<>> /\ clicks = 0 /\ moves = 0

InCall(f) == msi[f].st # "none"
Others(f) == {h \in Friends \ {f} : InCall(h)}

-----------------------------------------------------------------------------
(* The engine's parts.                                                     *)

Push(es) == evs' = evs \o es
Incoming(f, caps) == [ev |-> "incoming", fn |-> f, video |-> "V" \in caps]
State(f, st, echo) == [ev |-> "state", fn |-> f, state |-> st, echo |-> echo]
Ended(f) == [ev |-> "ended", fn |-> f]

\* audio_lifecycle(true), video_lifecycle(true): a device that does not open is
\* logged and the call goes on without it.
Up(on, wanted, ok) == on \/ (wanted /\ ok)

\* A new call resets the record, whoever it was for; the devices stay as they are.
NewCall(f) == g' = [g EXCEPT !.state = {}, !.call_fn = f, !.mic_muted = FALSE]

\* The end of a call, of whichever friend, stops the devices.
Down(r) == [r EXCEPT !.call_fn = None, !.audio = FALSE, !.video = FALSE]

\* mutant: the hang-up leaves the devices to the peer's answer
push_av_local_ended_open(f) ==
    /\ g' = [g EXCEPT !.state = {}, !.call_fn = None]
    /\ Push(<<Ended(f)>>)
push_av_local_ended(f) ==
    /\ g' = Down([g EXCEPT !.state = {}])
    /\ Push(<<Ended(f)>>)

cb_av_call_state(f, st) ==
    \E ok \in setup.devices :
        LET end == st \cap {"finished", "error"} # {}
        IN  /\ g' = IF end THEN Down([g EXCEPT !.state = st])
                    ELSE [g EXCEPT !.state = st,
                                   !.audio = Up(@, "A" \in st, ok),
                                   !.video = Up(@, "V" \in st /\ g.call_fn = f, ok)]
            /\ Push((IF end THEN <<Ended(f)>> ELSE <<>>) \o <<State(f, st, FALSE)>>)

-----------------------------------------------------------------------------
(* The peers, through ToxAV's callbacks (toxav_iterate on the tox thread). *)

Move == moves < setup.moves /\ moves' = moves + 1
Open(f, st, self, peer) ==
    msi' = [h \in Friends |->
              CASE h = f -> [NoCall EXCEPT !.st = st, !.self = self, !.peer = peer,
                                           !.shared = Others(f) # {}]
                [] h \in Others(f) -> [msi[h] EXCEPT !.shared = TRUE]
                [] OTHER -> msi[h]]

cb_av_call(f, caps) ==
    /\ f \in setup.friends /\ ~InCall(f) /\ Move
    /\ Open(f, "ringing", {}, caps)
    /\ NewCall(f)
    /\ Push(<<Incoming(f, caps)>>)
    /\ UNCHANGED <<setup, ui, cmds, clicks>>

PeerAnswers(f, caps) ==
    /\ msi[f].st = "inviting" /\ Move
    /\ msi' = [msi EXCEPT ![f].st = "active", ![f].peer = caps,
                          ![f].filming = @ \/ "V" \in caps]
    /\ cb_av_call_state(f, caps)
    /\ UNCHANGED <<setup, ui, cmds, clicks>>

\* The peer pauses ({}), resumes, or switches its camera.
PeerChanges(f, caps) ==
    /\ msi[f].st = "active" /\ caps # msi[f].peer /\ Move
    /\ msi' = [msi EXCEPT ![f].peer = caps, ![f].shared = @ \/ "A" \notin msi[f].self,
                          ![f].filming = @ \/ "V" \in caps]
    /\ cb_av_call_state(f, caps)
    /\ UNCHANGED <<setup, ui, cmds, clicks>>

\* The peer hangs up, declines or cancels; or it goes offline.
PeerEnds(f, how) ==
    /\ InCall(f) /\ Move
    /\ msi' = [msi EXCEPT ![f] = NoCall]
    /\ cb_av_call_state(f, {how})
    /\ UNCHANGED <<setup, ui, cmds, clicks>>

-----------------------------------------------------------------------------
(* The engine's commands.                                                  *)

engineRest == <<setup, ui, clicks, moves>>

\* ToxAV refuses a call to a friend it has a session with, or who is offline.
\* mutant: a refused call is not reported
tt_av_cmd_call_quiet(c) ==
    \/ /\ ~InCall(c.fn)
       /\ Open(c.fn, "inviting", {"A"}, {})
       /\ NewCall(c.fn)
       /\ UNCHANGED evs
    \/ UNCHANGED <<msi, g, evs>>
tt_av_cmd_call(c) ==
    \/ /\ ~InCall(c.fn)
       /\ Open(c.fn, "inviting", {"A"}, {})
       /\ NewCall(c.fn)
       /\ UNCHANGED evs
    \/ /\ Push(<<Ended(c.fn)>>)
       /\ msi' = [msi EXCEPT ![c.fn].crossed = InCall(c.fn)]
       /\ UNCHANGED g

\* The callee gets no callback for its own answer: the state is echoed.  call_fn
\* is left as cb_av_call (or a later call) set it.
tt_av_cmd_answer(c) ==
    LET st == IF c.video THEN {"A", "V"} ELSE {"A"}
    IN  IF msi[c.fn].st = "ringing"
        THEN /\ msi' = [msi EXCEPT ![c.fn].st = "active", ![c.fn].self = st]
             /\ \E ok \in setup.devices :
                    g' = [g EXCEPT !.state = st, !.audio = Up(@, TRUE, ok),
                                   !.video = Up(@, c.video, ok)]
             /\ Push(<<State(c.fn, st, TRUE)>>)
        ELSE UNCHANGED <<msi, g, evs>>

tt_av_cmd_hangup(c) ==
    IF InCall(c.fn)
    THEN /\ msi' = [msi EXCEPT ![c.fn] = NoCall]
         /\ push_av_local_ended(c.fn)
    ELSE UNCHANGED <<msi, g, evs>>

\* A paused call keeps its devices; the state before the pause is remembered.
tt_av_cmd_pause(c) ==
    IF msi[c.fn].st = "active" /\ msi[c.fn].self # {}
    THEN /\ msi' = [msi EXCEPT ![c.fn].prev = msi[c.fn].self, ![c.fn].self = {},
                               ![c.fn].shared = @ \/ "A" \notin msi[c.fn].peer]
         /\ g' = [g EXCEPT !.paused_state = g.state, !.state = {}]
         /\ Push(<<State(c.fn, {}, TRUE)>>)
    ELSE UNCHANGED <<msi, g, evs>>

\* mutant: the state of the call is left to the peer's next callback
tt_av_cmd_resume_unrestored(c) ==
    IF msi[c.fn].st = "active" /\ msi[c.fn].self = {} /\ msi[c.fn].prev # {}
    THEN /\ msi' = [msi EXCEPT ![c.fn].self = msi[c.fn].prev]
         /\ g' = [g EXCEPT !.paused_state = {}]
         /\ Push(<<State(c.fn, g.paused_state, TRUE)>>)
    ELSE UNCHANGED <<msi, g, evs>>
tt_av_cmd_resume(c) ==
    IF msi[c.fn].st = "active" /\ msi[c.fn].self = {} /\ msi[c.fn].prev # {}
    THEN /\ msi' = [msi EXCEPT ![c.fn].self = msi[c.fn].prev]
         /\ \E ok \in setup.devices :
                g' = [g EXCEPT !.state = g.paused_state, !.paused_state = {},
                               !.video = Up(@, "V" \in g.paused_state /\ g.call_fn = c.fn, ok)]
         /\ Push(<<State(c.fn, g.paused_state, TRUE)>>)
    ELSE UNCHANGED <<msi, g, evs>>

\* The gate of the one microphone, whichever friend the command names.
tt_av_cmd_mute(c) ==
    g' = [g EXCEPT !.mic_muted = c.on] /\ UNCHANGED <<msi, evs>>

tt_av_cmd_camera(c) ==
    LET st == IF c.on THEN g.state \cup {"V"} ELSE g.state \ {"V"}
    IN  IF g.call_fn = c.fn /\ c.on # ("V" \in g.state) /\ msi[c.fn].st = "active"
        THEN /\ msi' = [msi EXCEPT ![c.fn].self = IF c.on THEN @ \cup {"V"} ELSE @ \ {"V"}]
             /\ \E ok \in setup.devices :
                    g' = [g EXCEPT !.state = st, !.video = c.on /\ Up(@, TRUE, ok)]
             /\ Push(<<State(c.fn, st, TRUE)>>)
        ELSE UNCHANGED <<msi, g, evs>>

TakeCommand ==
    /\ cmds # <<>> /\ cmds' = Tail(cmds)
    /\ LET c == Head(cmds) IN
        \/ c.cmd = "call" /\ tt_av_cmd_call(c)
        \/ c.cmd = "answer" /\ tt_av_cmd_answer(c)
        \/ c.cmd = "hangup" /\ tt_av_cmd_hangup(c)
        \/ c.cmd = "pause" /\ tt_av_cmd_pause(c)
        \/ c.cmd = "resume" /\ tt_av_cmd_resume(c)
        \/ c.cmd = "mute" /\ tt_av_cmd_mute(c)
        \/ c.cmd = "camera" /\ tt_av_cmd_camera(c)
    /\ UNCHANGED engineRest

-----------------------------------------------------------------------------
(* The front end: the buttons of the selected contact's call strip.        *)

\* chead_call_render: which buttons the strip shows.
Paused(c) == c.active /\ "A" \notin c.state
Shown(f, button) ==
    LET c == ui[f] IN
    CASE button \in {"answer", "decline"} -> c.incoming
      [] button = "video"  -> c.incoming /\ c.video
      [] button = "call"   -> ~c.incoming
      [] button = "mute"   -> ~c.incoming /\ c.active
      [] button = "pause"  -> ~c.incoming /\ c.active /\ (Paused(c) => c.paused_self)
      [] button = "camera" -> ~c.incoming /\ c.active /\ ~Paused(c)

Click(f, button) ==
    /\ f \in setup.friends /\ button \in setup.buttons /\ Shown(f, button)
    /\ clicks < setup.clicks /\ clicks' = clicks + 1
    /\ UNCHANGED <<setup, msi, g, evs, moves>>
\* cc_call
Post(c) == cmds' = Append(cmds, c)
Cmd(kind, f) == [cmd |-> kind, fn |-> f]

\* One button, three roles: call, cancel while it rings, hang up.
cc_av_call(f) ==
    /\ Click(f, "call")
    /\ LET on == ui[f].active \/ ui[f].ringing
       IN  /\ ui' = [ui EXCEPT ![f].ringing = ~on]
           /\ Post(Cmd(IF on THEN "hangup" ELSE "call", f))

cc_av_answer(f) ==
    /\ Click(f, "answer")
    /\ Post([cmd |-> "answer", fn |-> f, video |-> FALSE]) /\ UNCHANGED ui

\* The command tt_av_video, and the headless bot of the video test.
cc_av_answer_video(f) ==
    /\ Click(f, "video")
    /\ Post([cmd |-> "answer", fn |-> f, video |-> TRUE]) /\ UNCHANGED ui

cc_av_decline(f) ==
    /\ Click(f, "decline")
    /\ Post(Cmd("hangup", f)) /\ UNCHANGED ui

cc_av_mute(f) ==
    /\ Click(f, "mute")
    /\ ui' = [ui EXCEPT ![f].muted = ~@]
    /\ Post([cmd |-> "mute", fn |-> f, on |-> ~ui[f].muted])

cc_av_pause(f) ==
    /\ Click(f, "pause")
    /\ ui' = [ui EXCEPT ![f].paused_self = ~@]
    /\ Post(Cmd(IF ui[f].paused_self THEN "resume" ELSE "pause", f))

cc_av_cam(f) ==
    /\ Click(f, "camera")
    /\ ui' = [ui EXCEPT ![f].cam = ~@]
    /\ Post([cmd |-> "camera", fn |-> f, on |-> ~ui[f].cam])

-----------------------------------------------------------------------------
(* The front end: the engine's events.                                     *)

OnIncoming(c, e) ==
    [c EXCEPT !.incoming = TRUE, !.active = FALSE, !.state = {}, !.video = e.video,
              !.paused_self = FALSE, !.ringing = FALSE]

OnState(c, e) ==
    LET up == "A" \in e.state IN
    [c EXCEPT !.state = e.state, !.cam = "V" \in e.state,
              !.incoming = @ /\ ~up, !.active = @ \/ up, !.ringing = @ /\ ~up,
              !.paused_self = IF e.echo THEN e.state = {} ELSE @]

\* mutant: the mute button keeps its place for the next call
OnEnded_muted(c) == [IdleContact EXCEPT !.muted = c.muted]
OnEnded(c) == IdleContact

TakeEvent ==
    /\ evs # <<>> /\ evs' = Tail(evs)
    /\ LET e == Head(evs) IN
        ui' = [ui EXCEPT ![e.fn] =
                 CASE e.ev = "incoming" -> OnIncoming(@, e)
                   [] e.ev = "state"    -> OnState(@, e)
                   [] e.ev = "ended"    -> OnEnded(@)]
    /\ UNCHANGED <<setup, msi, g, cmds, clicks, moves>>

Next ==
    \/ \E f \in Friends :
        \/ \E caps \in setup.caps : \/ "A" \in caps /\ cb_av_call(f, caps)
                                    \/ "A" \in caps /\ PeerAnswers(f, caps)
                                    \/ PeerChanges(f, caps)
        \/ \E how \in {"finished", "error"} : PeerEnds(f, how)
        \/ cc_av_call(f) \/ cc_av_answer(f) \/ cc_av_answer_video(f) \/ cc_av_decline(f)
        \/ cc_av_mute(f) \/ cc_av_pause(f) \/ cc_av_cam(f)
    \/ TakeCommand
    \/ TakeEvent

Spec == Init /\ [][Next]_vars

-----------------------------------------------------------------------------
(* Properties.                                                             *)

\* tt_av_iterate and capture_worker: our microphone is heard by f (ToxAV takes
\* frames only for a session that sends audio).
Heard(f) ==
    /\ g.audio /\ ~g.mic_muted /\ "A" \in g.state /\ g.call_fn = f
    /\ msi[f].st = "active" /\ "A" \in msi[f].self

Quiet == cmds = <<>> /\ evs = <<>>
Active(f) == msi[f].st = "active"

\* Our camera belongs to the call with f: the user turned it on or answered with
\* video, perhaps before a pause.
Filmed(f) ==
    "V" \in IF "A" \in msi[f].self THEN msi[f].self ELSE msi[f].self \cup msi[f].prev

\* The microphone is open only while some call is up, the camera only in a call
\* that it belongs to: whatever calls of two friends, hang-ups from both sides and
\* pauses do to the one call record, no worker outlives the last call
\* (audio_lifecycle: "idle mic capture is ... a privacy footgun").  Two kinds of calls
\* are exempt from the camera's part: one that shared the record, where the state
\* remembered for the other call may turn the camera on, and one whose peer was seen
\* to send video: cb_av_call_state takes the bit of the PEER's video for "we accepted
\* video" (av.c:195) and opens our camera in a call that was answered by voice.
DevicesOnlyInCall ==
    /\ g.audio => \E f \in Friends : Active(f)
    /\ g.video => \E f \in Friends :
                      Active(f) /\ (Filmed(f) \/ msi[f].shared \/ msi[f].filming)

\* Once both queues are empty the call strip tells the truth: it shows a call
\* exactly when there is one, rings only while ToxAV rings, and offers to answer
\* only a call that waits.  Refused commands, echoes and late callbacks all end
\* there.  (A call of ours that ToxAV refused because that friend's was running
\* hides the running one: crossed.)
StripTrue ==
    Quiet => \A f \in Friends : /\ ui[f].active => Active(f)
                                /\ Active(f) => ui[f].active \/ msi[f].crossed
                                /\ ui[f].ringing => msi[f].st = "inviting"
                                /\ ui[f].incoming => msi[f].st = "ringing"

\* Frames of a call reach its friend exactly while neither side is paused: the
\* record names the friend of the call and its state is up, however pauses,
\* resumes, cancelled and refused calls went before.  Calls that shared the
\* record (shared) are left out: there the code fails.
AudioFlows ==
    \A f \in Friends : Active(f) /\ ~msi[f].shared =>
        /\ g.call_fn = f
        /\ "A" \in g.state <=> "A" \in msi[f].self /\ "A" \in msi[f].peer

\* A contact whose strip shows a muted microphone does not hear it, although the
\* gate is one for all calls and every new call opens it; but while a second call is
\* up, its mute button works the same gate.
MuteHonoured ==
    Quiet => \A f \in Friends :
                 ui[f].active /\ ui[f].muted /\ Heard(f) => Others(f) # {}

\* A call that waits to be answered is shown: "banner shown until answered/declined".
BannerShown == Quiet => \A f \in Friends : msi[f].st = "ringing" => ui[f].incoming
=============================================================================
