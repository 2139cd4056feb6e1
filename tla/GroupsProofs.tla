---------------------------- MODULE GroupsProofs ----------------------------
(***************************************************************************)
(* An answer to a group invitation finds that invitation, and the list of  *)
(* groups shows toxcore's groups, for any number of groups, peers,         *)
(* invitations and commands.  The first property speaks of the answers     *)
(* under way only and is not inductive: the slot of an invitation is named *)
(* first by the event, then by the dialog, then by the command, and what   *)
(* protects it is that it is named in one place only and that the tox      *)
(* thread frees a slot for the one answer that names it.  The second one   *)
(* speaks of quiet moments and needs what the events on their way will     *)
(* make of the list.                                                       *)
(***************************************************************************)
EXTENDS Groups, QueueLemmas, FiniteSetTheorems, TLAPS

-----------------------------------------------------------------------------
(* The inductive invariant                                                 *)

IsInvite(e) == e.ev = "invite"
IsAnswer(c) == c.cmd \in {"accept", "decline"}

Shape ==
    /\ IsSeq(cmds) /\ IsSeq(evs)
    /\ ginvites = [i \in InviteSlots |-> ginvites[i]]
    /\ setup \in Setups

\* r names a slot, and the slot of table g holds the invitation r speaks of
Holds(g, r) == r.idx \in InviteSlots /\ r.name # None /\ g[r.idx] = r.name

\* every place that names a slot
Held ==
    /\ \A i \in 1..Len(evs) : IsInvite(evs[i]) => Holds(ginvites, evs[i])
    /\ gi # None => Holds(ginvites, gi)
    /\ \A i \in 1..Len(cmds) : IsAnswer(cmds[i]) => Holds(ginvites, cmds[i])

\* no slot is named twice
Once ==
    /\ \A i, j \in 1..Len(evs) :
          IsInvite(evs[i]) /\ IsInvite(evs[j]) /\ i # j => evs[i].idx # evs[j].idx
    /\ \A i, j \in 1..Len(cmds) :
          IsAnswer(cmds[i]) /\ IsAnswer(cmds[j]) /\ i # j => cmds[i].idx # cmds[j].idx
    /\ \A i \in 1..Len(evs), j \in 1..Len(cmds) :
          IsInvite(evs[i]) /\ IsAnswer(cmds[j]) => evs[i].idx # cmds[j].idx
    /\ gi # None =>
          /\ \A i \in 1..Len(evs) : IsInvite(evs[i]) => evs[i].idx # gi.idx
          /\ \A i \in 1..Len(cmds) : IsAnswer(cmds[i]) => cmds[i].idx # gi.idx

IInv == Shape /\ (~overwritten => Held /\ Once)

-----------------------------------------------------------------------------
(* What a step does to the places that name a slot                         *)

EvsGrow == evs' = evs \/ \E e : ~IsInvite(e) /\ evs' = Append(evs, e)
CmdsGrow == cmds' = cmds \/ \E c : ~IsAnswer(c) /\ cmds' = Append(cmds, c)

\* nothing, apart from commands and events about other things
Elsewhere == EvsGrow /\ CmdsGrow /\ UNCHANGED <<setup, ginvites, overwritten, gi>>

\* the groups of the profile are announced
Announced ==
    /\ \E s : /\ IsSeq(s) /\ evs' = evs \o s
              /\ \A i \in 1..Len(s) : ~IsInvite(s[i])
    /\ UNCHANGED <<setup, ginvites, overwritten, gi, cmds>>

\* the tox thread takes a command
CommandTaken ==
    /\ cmds # <<>> /\ cmds' = Tail(cmds)
    /\ EvsGrow
    /\ \/ UNCHANGED ginvites
       \/ /\ IsAnswer(Head(cmds))
          /\ ginvites' = [ginvites EXCEPT ![Head(cmds).idx] = None]
    /\ UNCHANGED <<setup, overwritten, gi>>

\* an invitation arrives
InvitationStored ==
    /\ \E chat \in setup.invited, slot \in InviteSlots :
          /\ ginvites' = [ginvites EXCEPT ![slot] = chat]
          /\ overwritten' = (overwritten \/ ginvites[slot] # None)
          /\ evs' = Append(evs, [ev |-> "invite", idx |-> slot, name |-> chat])
    /\ UNCHANGED <<setup, gi, cmds>>

\* the user answers
DialogAnswered ==
    /\ gi # None /\ gi' = None
    /\ \E kind \in {"accept", "decline"} :
          cmds' = Append(cmds, [cmd |-> kind, idx |-> gi.idx, name |-> gi.name])
    /\ UNCHANGED <<setup, ginvites, overwritten, evs>>

\* the user closes the dialog
DialogClosed == gi' = None /\ UNCHANGED <<setup, ginvites, overwritten, evs, cmds>>

\* the front end takes an event
EventTaken ==
    /\ evs # <<>> /\ evs' = Tail(evs)
    /\ CmdsGrow
    /\ \/ UNCHANGED gi
       \/ /\ IsInvite(Head(evs)) /\ gi = None
          /\ gi' = [idx |-> Head(evs).idx, name |-> Head(evs).name]
    /\ UNCHANGED <<setup, ginvites, overwritten>>

Kinds ==
    \/ Elsewhere \/ Announced \/ CommandTaken \/ InvitationStored
    \/ DialogAnswered \/ DialogClosed \/ EventTaken

\* The least number of a set of slots is one of them.
LEMMA LeastSlot ==
    ASSUME NEW S \in SUBSET InviteSlots, S # {}
    PROVE  Least(S) \in S
  <1>1. S \in SUBSET Nat
    BY DEF InviteSlots
  <1> QED BY <1>1, LeastNumber DEF Least

\* A command of the queue frees a slot only as an answer.
LEMMA TakeCommandKind ==
    ASSUME IInv, TakeCommand
    PROVE  CommandTaken
  <1> DEFINE c == Head(cmds)
  <1>0. cmds # <<>> /\ cmds' = Tail(cmds) /\ UNCHANGED <<setup, overwritten, gi>>
    BY DEF TakeCommand, ui
  <1>1. EvsGrow
    BY ZenonT(60) DEF TakeCommand, EvsGrow, IsInvite, group_push, handle_cmd_group_create,
           handle_cmd_group_join, cmd_leave, handle_cmd_group_topic,
           handle_cmd_group_invite_accept, handle_cmd_group_invite_decline, cmd_option,
           cmd_role, cmd_kick, cmd_ignore, cmd_sync
  <1>2. \/ UNCHANGED ginvites
        \/ IsAnswer(c) /\ ginvites' = [ginvites EXCEPT ![c.idx] = None]
    BY ZenonT(60) DEF TakeCommand, IsAnswer, handle_cmd_group_create,
           handle_cmd_group_join, cmd_leave, handle_cmd_group_topic,
           handle_cmd_group_invite_accept, handle_cmd_group_invite_decline, cmd_option,
           cmd_role, cmd_kick, cmd_ignore, cmd_sync
  <1> QED BY <1>0, <1>1, <1>2 DEF CommandTaken

\* A callback of tox_iterate speaks of an invitation only when it stores one.
LEMMA CallbackKind ==
    ASSUME IInv, Callbacks
    PROVE  Elsewhere \/ InvitationStored
  <1>1. CASE \E chat \in setup.invited : cb_group_invite(chat)
    <2>1. PICK chat \in setup.invited : cb_group_invite(chat)
      BY <1>1
    <2> DEFINE free == {i \in InviteSlots : ginvites[i] = None}
               slot == IF free = {} THEN 0 ELSE Least(free)
    <2>2. /\ ginvites' = [ginvites EXCEPT ![slot] = chat]
          /\ overwritten' = (overwritten \/ free = {})
          /\ evs' = Append(evs, [ev |-> "invite", idx |-> slot, name |-> chat])
          /\ UNCHANGED <<setup, gi, cmds>>
      BY <2>1 DEF cb_group_invite, group_push, ui
    <2>3. 0 \in InviteSlots
      BY GroupsAssumption DEF InviteSlots
    <2>4. slot \in InviteSlots /\ (free = {} <=> ginvites[slot] # None)
      <3>1. CASE free = {}
        BY <3>1, <2>3
      <3>2. CASE free # {}
        BY <3>2, LeastSlot
      <3> QED BY <3>1, <3>2
    <2> HIDE DEF slot, free
    <2>5. overwritten' = (overwritten \/ ginvites[slot] # None)
      BY <2>2, <2>4
    <2> QED BY <2>2, <2>4, <2>5 DEF InvitationStored
  <1>2. CASE Sweep
    BY <1>2 DEF Sweep, coreRest, ui, Elsewhere, EvsGrow, CmdsGrow
  <1>3. CASE \E gn \in Numbers :
        \/ cb_group_self_join(gn) \/ cb_group_join_fail(gn) \/ SelfKicked(gn)
        \/ Active(gn) /\ \E role \in setup.roles : cb_group_peer_join(gn, role)
        \/ \E t \in {0, 1} : cb_group_topic(gn, t) \/ cb_group_option(gn, t)
        \/ \E pid \in Pids : \/ cb_group_peer_exit(gn, pid) \/ PeerKicked(gn, pid)
                             \/ cb_group_message(gn, pid)
                             \/ \E role \in setup.mods : cb_group_moderation(gn, pid, role)
    <2>1. UNCHANGED coreRest
      BY <1>3, ZenonT(60) DEF cb_group_self_join, cb_group_join_fail, SelfKicked, cb_group_peer_join,
                  cb_group_topic, cb_group_option, cb_group_peer_exit, PeerKicked,
                  cb_group_message, cb_group_moderation
    <2>2. EvsGrow
      <3>1. ASSUME NEW e, group_push(e), ~IsInvite(e)
            PROVE  EvsGrow
        BY <3>1 DEF group_push, EvsGrow
      <3>2. PICK gn \in Numbers :
              \/ cb_group_self_join(gn) \/ cb_group_join_fail(gn) \/ SelfKicked(gn)
              \/ \E role \in setup.roles : cb_group_peer_join(gn, role)
              \/ \E t \in {0, 1} : cb_group_topic(gn, t) \/ cb_group_option(gn, t)
              \/ \E pid \in Pids : \/ cb_group_peer_exit(gn, pid) \/ PeerKicked(gn, pid)
                                   \/ cb_group_message(gn, pid)
                                   \/ \E role \in setup.mods : cb_group_moderation(gn, pid, role)
        BY <1>3
      <3>3. CASE cb_group_self_join(gn) \/ cb_group_join_fail(gn) \/ SelfKicked(gn)
        BY <3>1, <3>3 DEF cb_group_self_join, cb_group_join_fail, SelfKicked, IsInvite
      <3>4. CASE \E role \in setup.roles : cb_group_peer_join(gn, role)
        BY <3>1, <3>4 DEF cb_group_peer_join, IsInvite
      <3>5. CASE \E t \in {0, 1} : cb_group_topic(gn, t) \/ cb_group_option(gn, t)
        BY <3>1, <3>5 DEF cb_group_topic, cb_group_option, IsInvite
      <3>6. CASE \E pid \in Pids : \/ cb_group_peer_exit(gn, pid) \/ PeerKicked(gn, pid)
                                   \/ cb_group_message(gn, pid)
        BY <3>1, <3>6 DEF cb_group_peer_exit, PeerKicked, cb_group_message, IsInvite
      <3>7. CASE \E pid \in Pids, role \in setup.mods : cb_group_moderation(gn, pid, role)
        BY <3>1, <3>7 DEF cb_group_moderation, IsInvite
      <3> QED BY <3>2, <3>3, <3>4, <3>5, <3>6, <3>7
    <2> QED BY <2>1, <2>2, SMTT(30) DEF coreRest, ui, Elsewhere, CmdsGrow
  <1> QED BY <1>1, <1>2, <1>3 DEF Callbacks

\* The user's acts, apart from the answer, name no slot.
LEMMA UserKind ==
    ASSUME IInv, UserActs
    PROVE  Elsewhere \/ DialogAnswered \/ DialogClosed
  <1>1. CASE cc_ginv_yes \/ cc_ginv_no
    BY <1>1 DEF cc_ginv_yes, cc_ginv_no, Answer, Post, uiRest, engine, DialogAnswered
  <1>2. CASE \/ \E chat \in setup.create : cc_gnew_ok(chat)
             \/ \E chat \in setup.ids : cc_gjoin_ok(chat)
    BY <1>2 DEF cc_gnew_ok, cc_gjoin_ok, Post, uiRest, engine, ui, Elsewhere, CmdsGrow,
                EvsGrow, IsAnswer
  <1>3. CASE \E gn \in Listed :
        \/ cc_gleave(gn) \/ cc_gmembers_open(gn)
        \/ \E t \in {0, 1} : cc_gtopic_ok(gn, t) \/ cc_gctl(gn, t)
        \/ \E pid \in Pids \ {0} : \/ cc_gkick(gn, pid) \/ cc_gignore(gn, pid)
                                   \/ \E role \in DOMAIN ModEvent : cc_grole(gn, pid, role)
    <2>1. UNCHANGED <<setup, ginvites, overwritten, evs, gi>>
      BY <1>3 DEF cc_gleave, cc_gmembers_open, cc_gtopic_ok, cc_gctl, cc_gkick, cc_gignore,
                  cc_grole, uiRest, engine, ui
    <2>2. CmdsGrow
      BY <1>3 DEF cc_gleave, cc_gmembers_open, cc_gtopic_ok, cc_gctl, cc_gkick, cc_gignore,
                  cc_grole, Post, CmdsGrow, IsAnswer
    <2> QED BY <2>1, <2>2 DEF Elsewhere, EvsGrow
  <1>4. CASE ginv_close
    BY <1>4 DEF ginv_close, uiRest, engine, DialogClosed
  <1> QED BY <1>1, <1>2, <1>3, <1>4 DEF UserActs

\* An event that names a slot is shown in the dialog or dropped.
LEMMA TakeEventKind ==
    ASSUME IInv, TakeEvent
    PROVE  EventTaken
  <1> DEFINE e == Head(evs)
  <1>0. evs # <<>> /\ evs' = Tail(evs) /\ UNCHANGED <<setup, ginvites, overwritten>>
    BY DEF TakeEvent, engine
  <1>1. /\ CmdsGrow
        /\ \/ UNCHANGED gi
           \/ IsInvite(e) /\ gi = None /\ gi' = [idx |-> e.idx, name |-> e.name]
    <2>1. CASE e.ev = "new"
      BY <2>1 DEF TakeEvent, OnListed, Sync, CmdsGrow, IsAnswer
    <2>2. CASE e.ev = "joined"
      BY <2>2 DEF TakeEvent, OnListed, Sync, CmdsGrow, IsAnswer
    <2>3. CASE e.ev \in {"left", "join_fail"}
      BY <2>3 DEF TakeEvent, OnGone, CmdsGrow
    <2>4. CASE e.ev = "invite"
      BY <2>4 DEF TakeEvent, OnInvite, CmdsGrow, IsInvite
    <2>5. CASE e.ev \notin {"new", "joined", "left", "join_fail", "invite"}
      <3>1. OnGroup(e)
        BY <2>5 DEF TakeEvent
      <3> QED BY <3>1 DEF OnGroup, Sync, CmdsGrow, IsAnswer
    <2> QED BY <2>1, <2>2, <2>3, <2>4, <2>5
  <1> QED BY <1>0, <1>1 DEF EventTaken

\* emit_initial_group_list announces groups, not invitations.
LEMMA AnnouncedKind ==
    ASSUME IInv, emit_initial_group_list
    PROVE  Announced
  <1> DEFINE alive == {gn \in Numbers : Active(gn)}
             n == 2 * Cardinality(alive)
             s == [i \in 1..n |->
                    LET gn == Nth(alive, (i + 1) \div 2) IN
                    IF i % 2 = 1 THEN [ev |-> "joined", gn |-> gn, name |-> core[gn].chat]
                    ELSE [ev |-> "topic", gn |-> gn, topic |-> core[gn].topic]]
  <1>1. evs' = evs \o s /\ UNCHANGED <<setup, ginvites, overwritten, gi, cmds>>
    BY DEF emit_initial_group_list, ui
  <1>2. n \in Nat
    <2>1. IsFiniteSet(Numbers)
      BY GroupsAssumption, FS_Interval DEF Numbers
    <2>2. IsFiniteSet(alive)
      BY <2>1, FS_Subset
    <2>3. Cardinality(alive) \in Nat
      BY <2>2, FS_CardinalityType
    <2> HIDE DEF alive
    <2> QED BY <2>3
  <1> HIDE DEF n
  <1>3. IsSeq(s) /\ Len(s) = n
    BY <1>2, IsSeqOf
  <1>4. \A i \in 1..Len(s) : ~IsInvite(s[i])
    BY <1>3 DEF IsInvite
  <1> HIDE DEF s
  <1> QED BY <1>1, <1>3, <1>4 DEF Announced

\* Every step is of one of these kinds.
LEMMA StepKinds ==
    ASSUME IInv, [Next]_vars
    PROVE  Kinds
  <1>1. CASE UNCHANGED vars
    BY <1>1 DEF vars, Kinds, Elsewhere, EvsGrow, CmdsGrow
  <1> QED BY <1>1, TakeCommandKind, CallbackKind, UserKind, TakeEventKind, AnnouncedKind
          DEF Next, Kinds

-----------------------------------------------------------------------------
(* The invariant                                                           *)

\* no event of the new queue names a slot unless it was there
EvsKept ==
    /\ IsSeq(evs')
    /\ \A i \in 1..Len(evs') : IsInvite(evs'[i]) => i \in 1..Len(evs) /\ evs'[i] = evs[i]
CmdsKept ==
    /\ IsSeq(cmds')
    /\ \A i \in 1..Len(cmds') : IsAnswer(cmds'[i]) => i \in 1..Len(cmds) /\ cmds'[i] = cmds[i]

\* Events about other things name no slot.
LEMMA EvsGrowKeeps ==
    ASSUME IsSeq(evs), EvsGrow
    PROVE  EvsKept
  <1>1. CASE evs' = evs
    BY <1>1 DEF EvsKept
  <1>2. CASE \E e : ~IsInvite(e) /\ evs' = Append(evs, e)
    <2>1. PICK e : ~IsInvite(e) /\ evs' = Append(evs, e)
      BY <1>2
    <2>2. /\ IsSeq(evs') /\ Len(evs') = Len(evs) + 1 /\ Len(evs) \in Nat
          /\ \A i \in 1..Len(evs) : evs'[i] = evs[i]
          /\ evs'[Len(evs) + 1] = e
      BY <2>1, AppendIsSeq DEF IsSeq
    <2> QED BY <2>1, <2>2 DEF EvsKept
  <1> QED BY <1>1, <1>2 DEF EvsGrow

\* Commands about other things name no slot.
LEMMA CmdsGrowKeeps ==
    ASSUME IsSeq(cmds), CmdsGrow
    PROVE  CmdsKept
  <1>1. CASE cmds' = cmds
    BY <1>1 DEF CmdsKept
  <1>2. CASE \E c : ~IsAnswer(c) /\ cmds' = Append(cmds, c)
    <2>1. PICK c : ~IsAnswer(c) /\ cmds' = Append(cmds, c)
      BY <1>2
    <2>2. /\ IsSeq(cmds') /\ Len(cmds') = Len(cmds) + 1 /\ Len(cmds) \in Nat
          /\ \A i \in 1..Len(cmds) : cmds'[i] = cmds[i]
          /\ cmds'[Len(cmds) + 1] = c
      BY <2>1, AppendIsSeq DEF IsSeq
    <2> QED BY <2>1, <2>2 DEF CmdsKept
  <1> QED BY <1>1, <1>2 DEF CmdsGrow

\* The client starts in the invariant.
LEMMA InitOK == Init => IInv
  <1> SUFFICES ASSUME Init PROVE IInv
    OBVIOUS
  <1>1. /\ cmds = <<>> /\ evs = <<>> /\ gi = None /\ setup \in Setups
        /\ ginvites = [i \in InviteSlots |-> None]
    BY DEF Init
  <1>2. Shape
    BY <1>1, EmptyIsSeq DEF Shape
  <1>3. Held /\ Once
    BY <1>1, EmptyIsSeq DEF Held, Once
  <1> QED BY <1>2, <1>3 DEF IInv

\* A step that names no new slot and changes none.
LEMMA KeptOK ==
    ASSUME IInv, EvsKept, CmdsKept, UNCHANGED <<setup, ginvites, overwritten, gi>>
    PROVE  IInv'
  <1>1. Shape'
    BY DEF IInv, Shape, EvsKept, CmdsKept
  <1>2. ASSUME ~overwritten' PROVE Held'
    BY <1>2 DEF IInv, Held, Holds, EvsKept, CmdsKept
  <1>3. ASSUME ~overwritten' PROVE Once'
    BY <1>3 DEF IInv, Once, EvsKept, CmdsKept
  <1> QED BY <1>1, <1>2, <1>3 DEF IInv

\* The groups of the profile name no slot.
LEMMA AnnouncedOK ==
    ASSUME IInv, Announced
    PROVE  IInv'
  <1>1. PICK s : /\ IsSeq(s) /\ evs' = evs \o s
                 /\ \A i \in 1..Len(s) : ~IsInvite(s[i])
    BY DEF Announced
  <1>2. IsSeq(evs) /\ IsSeq(cmds)
    BY DEF IInv, Shape
  <1>3. /\ IsSeq(evs') /\ Len(evs') = Len(evs) + Len(s)
        /\ Len(evs) \in Nat /\ Len(s) \in Nat
        /\ \A i \in 1..Len(evs) : evs'[i] = evs[i]
        /\ \A i \in (Len(evs) + 1)..(Len(evs) + Len(s)) : evs'[i] = s[i - Len(evs)]
    <2>1. Len(evs) \in Nat /\ Len(s) \in Nat
      BY <1>1, <1>2 DEF IsSeq
    <2> QED BY <1>1, <1>2, <2>1, ConcatIsSeq
  <1>4. EvsKept
    <2> SUFFICES ASSUME NEW i \in 1..Len(evs'), i \notin 1..Len(evs)
                 PROVE  ~IsInvite(evs'[i])
      BY <1>3 DEF EvsKept
    <2>1. i \in (Len(evs) + 1)..(Len(evs) + Len(s)) /\ i - Len(evs) \in 1..Len(s)
      BY <1>3
    <2> QED BY <2>1, <1>1, <1>3
  <1>5. CmdsKept
    BY <1>2 DEF CmdsKept, Announced
  <1> QED BY <1>4, <1>5, KeptOK DEF Announced

\* The one answer that names a slot frees it.
LEMMA CommandTakenOK ==
    ASSUME IInv, CommandTaken
    PROVE  IInv'
  <1>0. IsSeq(evs) /\ IsSeq(cmds) /\ setup \in Setups /\ UNCHANGED <<setup, overwritten, gi>>
    BY DEF IInv, Shape, CommandTaken
  <1>1. EvsKept
    BY <1>0, EvsGrowKeeps DEF CommandTaken
  <1>2. /\ IsSeq(cmds') /\ Len(cmds) \in Nat \ {0}
        /\ Len(cmds') = Len(cmds) - 1 /\ Head(cmds) = cmds[1]
        /\ \A i \in 1..Len(cmds') : i + 1 \in 2..Len(cmds) /\ cmds'[i] = cmds[i + 1]
    BY <1>0, TailIsSeq DEF CommandTaken
  <1>3. Shape'
    BY <1>0, <1>1, <1>2 DEF IInv, Shape, CommandTaken, EvsKept
  <1>4. ASSUME ~overwritten' PROVE Once'
    <2>1. Once
      BY <1>0, <1>4 DEF IInv
    <2>2. \A i, j \in 1..Len(cmds') :
             IsAnswer(cmds'[i]) /\ IsAnswer(cmds'[j]) /\ i # j => cmds'[i].idx # cmds'[j].idx
      <3> SUFFICES ASSUME NEW i \in 1..Len(cmds'), NEW j \in 1..Len(cmds'),
                          IsAnswer(cmds'[i]), IsAnswer(cmds'[j]), i # j
                   PROVE  cmds'[i].idx # cmds'[j].idx
        OBVIOUS
      <3>1. /\ i + 1 \in 1..Len(cmds) /\ j + 1 \in 1..Len(cmds) /\ i + 1 # j + 1
            /\ cmds'[i] = cmds[i + 1] /\ cmds'[j] = cmds[j + 1]
        BY <1>2
      <3> QED BY <2>1, <3>1 DEF Once
    <2>3. \A i \in 1..Len(cmds') : \E k \in 1..Len(cmds) : cmds'[i] = cmds[k]
      BY <1>2
    <2>4. \A i, j \in 1..Len(evs') :
             IsInvite(evs'[i]) /\ IsInvite(evs'[j]) /\ i # j => evs'[i].idx # evs'[j].idx
      BY <1>1, <2>1 DEF Once, EvsKept
    <2>5. \A i \in 1..Len(evs'), j \in 1..Len(cmds') :
             IsInvite(evs'[i]) /\ IsAnswer(cmds'[j]) => evs'[i].idx # cmds'[j].idx
      BY <1>1, <2>1, <2>3, SMTT(30) DEF Once, EvsKept
    <2>6. gi' # None =>
             /\ \A i \in 1..Len(evs') : IsInvite(evs'[i]) => evs'[i].idx # gi'.idx
             /\ \A i \in 1..Len(cmds') : IsAnswer(cmds'[i]) => cmds'[i].idx # gi'.idx
      BY <1>0, <1>1, <2>1, <2>3 DEF Once, EvsKept
    <2> QED BY <2>2, <2>4, <2>5, <2>6 DEF Once, IsInvite, IsAnswer
  <1>5. ASSUME ~overwritten' PROVE Held'
    <2>1. Held /\ Once
      BY <1>0, <1>5 DEF IInv
    <2>2. CASE UNCHANGED ginvites
      <3>1. \A i \in 1..Len(cmds') : \E k \in 1..Len(cmds) : cmds'[i] = cmds[k]
        BY <1>2
      <3> QED BY <1>0, <1>1, <2>1, <2>2, <3>1 DEF Held, EvsKept, Holds, IsInvite, IsAnswer
    <2>3. CASE /\ IsAnswer(cmds[1])
               /\ ginvites' = [ginvites EXCEPT ![cmds[1].idx] = None]
      <3>1. \A r : Holds(ginvites, r) /\ r.idx # cmds[1].idx => Holds(ginvites', r)
        BY <2>3 DEF Holds, IInv, Shape
      <3>2. 1 \in 1..Len(cmds)
        BY <1>2
      <3>3. \A i \in 1..Len(evs') : IsInvite(evs'[i]) => Holds(ginvites', evs'[i])
        BY <1>1, <2>1, <2>3, <3>1, <3>2 DEF EvsKept, Held, Once
      <3>4. gi # None => Holds(ginvites', gi)
        BY <2>1, <2>3, <3>1, <3>2 DEF Held, Once
      <3>5. \A i \in 1..Len(cmds') : IsAnswer(cmds'[i]) => Holds(ginvites', cmds'[i])
        <4> SUFFICES ASSUME NEW i \in 1..Len(cmds'), IsAnswer(cmds'[i])
                     PROVE  Holds(ginvites', cmds'[i])
          OBVIOUS
        <4>1. i + 1 \in 1..Len(cmds) /\ i + 1 # 1 /\ cmds'[i] = cmds[i + 1]
          BY <1>2
        <4>2. Holds(ginvites, cmds[i + 1]) /\ cmds[i + 1].idx # cmds[1].idx
          BY <2>1, <2>3, <3>2, <4>1 DEF Held, Once
        <4> QED BY <3>1, <4>1, <4>2
      <3> QED BY <1>0, <3>3, <3>4, <3>5 DEF Held
    <2> QED BY <2>2, <2>3, <1>2 DEF CommandTaken
  <1> QED BY <1>3, <1>4, <1>5 DEF IInv

\* The slot that a new invitation takes was free, so nobody names it.
LEMMA InvitationStoredOK ==
    ASSUME IInv, InvitationStored
    PROVE  IInv'
  <1>1. PICK chat \in setup.invited, slot \in InviteSlots :
          /\ ginvites' = [ginvites EXCEPT ![slot] = chat]
          /\ overwritten' = (overwritten \/ ginvites[slot] # None)
          /\ evs' = Append(evs, [ev |-> "invite", idx |-> slot, name |-> chat])
    BY DEF InvitationStored
  <1> DEFINE e == [ev |-> "invite", idx |-> slot, name |-> chat]
             n == Len(evs) + 1
  <1>0. /\ IsSeq(evs) /\ IsSeq(cmds) /\ setup \in Setups /\ Len(evs) \in Nat
        /\ UNCHANGED <<setup, gi, cmds>> /\ chat # None
    BY GroupsAssumption DEF IInv, Shape, InvitationStored, IsSeq
  <1>2. /\ IsSeq(evs') /\ Len(evs') = n
        /\ \A i \in 1..Len(evs) : evs'[i] = evs[i]
        /\ evs'[n] = e
    BY <1>0, <1>1, AppendIsSeq
  <1>3. Shape'
    BY <1>0, <1>1, <1>2 DEF IInv, Shape
  <1>4. ASSUME ~overwritten' PROVE Held' /\ Once'
    <2>1. Held /\ Once /\ ginvites[slot] = None
      BY <1>1, <1>4 DEF IInv
    <2>2. \A r : Holds(ginvites, r) => r.idx # slot /\ Holds(ginvites', r)
      BY <2>1, <1>1 DEF Holds, IInv, Shape
    <2>3. Holds(ginvites', e) /\ e.idx = slot
      BY <1>0, <1>1 DEF Holds, IInv, Shape
    <2>4. \A i \in 1..Len(evs') : i \in 1..Len(evs) \/ i = n
      BY <1>0, <1>2
    <2>5. \A i \in 1..Len(evs') : IsInvite(evs'[i]) => Holds(ginvites', evs'[i])
      BY <1>2, <2>1, <2>2, <2>3, <2>4 DEF Held
    <2>6. \A i \in 1..Len(cmds) : IsAnswer(cmds[i]) => Holds(ginvites', cmds[i])
      BY <2>1, <2>2 DEF Held
    <2>7. gi # None => Holds(ginvites', gi)
      BY <2>1, <2>2 DEF Held
    <2>8. Held'
      BY <1>0, <2>5, <2>6, <2>7 DEF Held, IsInvite, IsAnswer
    <2>9. \A i, j \in 1..Len(evs') :
             IsInvite(evs'[i]) /\ IsInvite(evs'[j]) /\ i # j => evs'[i].idx # evs'[j].idx
      <3> SUFFICES ASSUME NEW i \in 1..Len(evs'), NEW j \in 1..Len(evs'),
                          IsInvite(evs'[i]), IsInvite(evs'[j]), i # j
                   PROVE  evs'[i].idx # evs'[j].idx
        OBVIOUS
      <3>1. CASE i = n
        BY <3>1, <1>2, <2>1, <2>2, <2>3, <2>4 DEF Held
      <3>2. CASE j = n
        BY <3>2, <1>2, <2>1, <2>2, <2>3, <2>4 DEF Held
      <3>3. CASE i # n /\ j # n
        BY <3>3, <1>2, <2>1, <2>4 DEF Once
      <3> QED BY <3>1, <3>2, <3>3
    <2>10. \A i \in 1..Len(evs'), j \in 1..Len(cmds) :
             IsInvite(evs'[i]) /\ IsAnswer(cmds[j]) => evs'[i].idx # cmds[j].idx
      BY <1>2, <2>1, <2>2, <2>3, <2>4 DEF Held, Once
    <2>11. gi # None => \A i \in 1..Len(evs') : IsInvite(evs'[i]) => evs'[i].idx # gi.idx
      BY <1>2, <2>1, <2>2, <2>3, <2>4 DEF Held, Once
    <2>12. Once'
      BY <1>0, <2>1, <2>9, <2>10, <2>11 DEF Once, IsInvite, IsAnswer
    <2> QED BY <2>8, <2>12
  <1> QED BY <1>3, <1>4 DEF IInv

\* The answer takes the slot over from the dialog.
LEMMA DialogAnsweredOK ==
    ASSUME IInv, DialogAnswered
    PROVE  IInv'
  <1>1. PICK kind \in {"accept", "decline"} :
          cmds' = Append(cmds, [cmd |-> kind, idx |-> gi.idx, name |-> gi.name])
    BY DEF DialogAnswered
  <1> DEFINE c == [cmd |-> kind, idx |-> gi.idx, name |-> gi.name]
             n == Len(cmds) + 1
  <1>0. /\ IsSeq(evs) /\ IsSeq(cmds) /\ Len(cmds) \in Nat /\ gi # None /\ gi' = None
        /\ UNCHANGED <<setup, ginvites, overwritten, evs>>
    BY DEF IInv, Shape, DialogAnswered, IsSeq
  <1>2. /\ IsSeq(cmds') /\ Len(cmds') = n
        /\ \A i \in 1..Len(cmds) : cmds'[i] = cmds[i]
        /\ cmds'[n] = c
    BY <1>0, <1>1, AppendIsSeq
  <1>3. Shape'
    BY <1>0, <1>2 DEF IInv, Shape
  <1>4. ASSUME ~overwritten' PROVE Held' /\ Once'
    <2>1. Held /\ Once
      BY <1>0, <1>4 DEF IInv
    <2>2. Holds(ginvites, c) /\ c.idx = gi.idx
      BY <1>0, <2>1 DEF Held, Holds
    <2>4. \A i \in 1..Len(cmds') : i \in 1..Len(cmds) \/ i = n
      BY <1>0, <1>2
    <2>5. \A i \in 1..Len(cmds') : IsAnswer(cmds'[i]) => Holds(ginvites, cmds'[i])
      BY <1>2, <2>1, <2>2, <2>4 DEF Held
    <2>6. \A i \in 1..Len(evs) : IsInvite(evs[i]) => Holds(ginvites, evs[i])
      BY <2>1 DEF Held
    <2>7. Held'
      BY <1>0, <2>5, <2>6 DEF Held, IsInvite, IsAnswer
    <2>8. \A i, j \in 1..Len(cmds') :
             IsAnswer(cmds'[i]) /\ IsAnswer(cmds'[j]) /\ i # j => cmds'[i].idx # cmds'[j].idx
      <3> SUFFICES ASSUME NEW i \in 1..Len(cmds'), NEW j \in 1..Len(cmds'),
                          IsAnswer(cmds'[i]), IsAnswer(cmds'[j]), i # j
                   PROVE  cmds'[i].idx # cmds'[j].idx
        OBVIOUS
      <3>1. CASE i = n
        BY <3>1, <1>0, <1>2, <2>1, <2>2, <2>4 DEF Once
      <3>2. CASE j = n
        BY <3>2, <1>0, <1>2, <2>1, <2>2, <2>4 DEF Once
      <3>3. CASE i # n /\ j # n
        BY <3>3, <1>2, <2>1, <2>4 DEF Once
      <3> QED BY <3>1, <3>2, <3>3
    <2>9. \A i \in 1..Len(evs), j \in 1..Len(cmds') :
             IsInvite(evs[i]) /\ IsAnswer(cmds'[j]) => evs[i].idx # cmds'[j].idx
      BY <1>0, <1>2, <2>1, <2>2, <2>4 DEF Once
    <2>10. Once'
      BY <1>0, <2>1, <2>8, <2>9 DEF Once, IsInvite, IsAnswer
    <2> QED BY <2>7, <2>10
  <1> QED BY <1>3, <1>4 DEF IInv

\* A slot is named in one place less.
LEMMA DialogClosedOK ==
    ASSUME IInv, DialogClosed
    PROVE  IInv'
  BY DEF IInv, Shape, DialogClosed, Held, Once, IsInvite, IsAnswer

\* The dialog takes the slot over from the event.
LEMMA EventTakenOK ==
    ASSUME IInv, EventTaken
    PROVE  IInv'
  <1> DEFINE e == Head(evs)
  <1>0. IsSeq(evs) /\ IsSeq(cmds) /\ UNCHANGED <<setup, ginvites, overwritten>>
    BY DEF IInv, Shape, EventTaken
  <1>1. CmdsKept
    BY <1>0, CmdsGrowKeeps DEF EventTaken
  <1>2. /\ IsSeq(evs') /\ Len(evs) \in Nat \ {0}
        /\ Len(evs') = Len(evs) - 1 /\ e = evs[1]
        /\ \A i \in 1..Len(evs') : i + 1 \in 2..Len(evs) /\ evs'[i] = evs[i + 1]
    BY <1>0, TailIsSeq DEF EventTaken
  <1>3. Shape'
    BY <1>0, <1>1, <1>2 DEF IInv, Shape, CmdsKept
  <1>4. ASSUME ~overwritten' PROVE Held' /\ Once'
    <2>1. Held /\ Once /\ 1 \in 1..Len(evs)
      BY <1>0, <1>2, <1>4 DEF IInv
    <2>2. \A i \in 1..Len(evs') : /\ i + 1 \in 1..Len(evs) /\ i + 1 # 1
                                  /\ evs'[i] = evs[i + 1]
      BY <1>2
    <2>3. \A i \in 1..Len(evs') : \E k \in 1..Len(evs) : k # 1 /\ evs'[i] = evs[k]
      BY <2>2
    <2>4. \A i \in 1..Len(evs') : IsInvite(evs'[i]) => Holds(ginvites, evs'[i])
      BY <2>1, <2>3 DEF Held
    <2>5. \A i \in 1..Len(cmds') : IsAnswer(cmds'[i]) => Holds(ginvites, cmds'[i])
      BY <1>1, <2>1 DEF Held, CmdsKept
    <2>6. \A i, j \in 1..Len(evs') :
             IsInvite(evs'[i]) /\ IsInvite(evs'[j]) /\ i # j => evs'[i].idx # evs'[j].idx
      <3> SUFFICES ASSUME NEW i \in 1..Len(evs'), NEW j \in 1..Len(evs'),
                          IsInvite(evs'[i]), IsInvite(evs'[j]), i # j
                   PROVE  evs'[i].idx # evs'[j].idx
        OBVIOUS
      <3>1. i + 1 # j + 1
        BY <1>2
      <3> QED BY <2>1, <2>2, <3>1 DEF Once
    <2>7. \A i, j \in 1..Len(cmds') :
             IsAnswer(cmds'[i]) /\ IsAnswer(cmds'[j]) /\ i # j => cmds'[i].idx # cmds'[j].idx
      BY <1>1, <2>1 DEF Once, CmdsKept
    <2>8. \A i \in 1..Len(evs'), j \in 1..Len(cmds') :
             IsInvite(evs'[i]) /\ IsAnswer(cmds'[j]) => evs'[i].idx # cmds'[j].idx
      <3> SUFFICES ASSUME NEW i \in 1..Len(evs'), NEW j \in 1..Len(cmds'),
                          IsInvite(evs'[i]), IsAnswer(cmds'[j])
                   PROVE  evs'[i].idx # cmds'[j].idx
        OBVIOUS
      <3>1. j \in 1..Len(cmds) /\ cmds'[j] = cmds[j]
        BY <1>1 DEF CmdsKept
      <3>2. i + 1 \in 1..Len(evs) /\ evs'[i] = evs[i + 1]
        BY <2>2
      <3> QED BY <2>1, <3>1, <3>2 DEF Once
    <2>9. gi' # None =>
             /\ Holds(ginvites, gi')
             /\ \A i \in 1..Len(evs') : IsInvite(evs'[i]) => evs'[i].idx # gi'.idx
             /\ \A i \in 1..Len(cmds') : IsAnswer(cmds'[i]) => cmds'[i].idx # gi'.idx
      <3>1. CASE UNCHANGED gi
        BY <3>1, <1>1, <2>1, <2>3 DEF Held, Once, CmdsKept
      <3>2. CASE IsInvite(e) /\ gi' = [idx |-> e.idx, name |-> e.name]
        <4>1. IsInvite(evs[1]) /\ gi'.idx = evs[1].idx /\ gi'.name = evs[1].name
          BY <3>2, <1>2
        <4>2. Holds(ginvites, gi')
          BY <4>1, <2>1 DEF Held, Holds
        <4>3. \A i \in 1..Len(evs') : IsInvite(evs'[i]) => evs'[i].idx # gi'.idx
          BY <4>1, <2>1, <2>3 DEF Once
        <4>4. \A i \in 1..Len(cmds') : IsAnswer(cmds'[i]) => cmds'[i].idx # gi'.idx
          BY <4>1, <1>1, <2>1 DEF Once, CmdsKept
        <4> QED BY <4>2, <4>3, <4>4
      <3> QED BY <3>1, <3>2 DEF EventTaken
    <2>10. Held'
      BY <1>0, <2>4, <2>5, <2>9 DEF Held, IsInvite, IsAnswer
    <2>11. Once'
      BY <2>6, <2>7, <2>8, <2>9 DEF Once, IsInvite, IsAnswer
    <2> QED BY <2>10, <2>11
  <1> QED BY <1>3, <1>4 DEF IInv

\* The invariant holds for ever.
LEMMA Inductive == Spec => []IInv
  <1>1. ASSUME IInv, [Next]_vars
        PROVE  IInv'
    <2>1. CASE Elsewhere
      <3>1. EvsKept /\ CmdsKept
        BY <1>1, <2>1, EvsGrowKeeps, CmdsGrowKeeps DEF Elsewhere, IInv, Shape
      <3> QED BY <1>1, <2>1, <3>1, KeptOK DEF Elsewhere
    <2> QED BY <1>1, <2>1, StepKinds, AnnouncedOK, CommandTakenOK, InvitationStoredOK,
               DialogAnsweredOK, DialogClosedOK, EventTakenOK DEF Kinds
  <1> QED BY <1>1, InitOK, PTL DEF Spec

-----------------------------------------------------------------------------
(* The theorem                                                             *)

\* Until the table of invitations overflows, the accept or decline command that
\* the tox thread takes finds in its slot the invitation the dialog showed
\* (cc_ginv_yes, cc_ginv_no, handle_cmd_group_invite_accept).
THEOREM AnswersFindInvitation == Spec => []InviteHonest
  <1>1. IInv => InviteHonest
    BY DEF IInv, Held, Holds, InviteHonest, IsAnswer
  <1> QED BY <1>1, Inductive, PTL
-----------------------------------------------------------------------------
(* The list of groups: what is said of a number by an entry, or by an      *)
(* event on its way, holds unless a later event takes it back.             *)

\* None is told from every group of toxcore's table.
NoneIsNoGroup ==
    \A chat, state, peers, topic, opt :
        [chat |-> chat, state |-> state, peers |-> peers, topic |-> topic, opt |-> opt] # None

IsGroup(g) ==
    g = [chat |-> g.chat, state |-> g.state, peers |-> g.peers, topic |-> g.topic, opt |-> g.opt]

Tells(e) == e.ev \in {"new", "joined"}
Drops(e, gn) == e.ev \in {"left", "join_fail"} /\ e.gn = gn
Plain(e) == e.ev \in {"invite", "msg", "topic", "state", "peer_join", "peer_exit", "mod",
                      "mod_self", "ignore_self", "sync"}

\* no event of w after the j-th takes gn off the list
Stays(w, j, gn) == \A k \in (j + 1)..Len(w) : ~Drops(w[k], gn)

\* table c has the group of that name under gn, and it is not being left
Is(c, gn, name) ==
    /\ gn \in Numbers /\ c[gn] # None /\ c[gn].chat = name
    /\ c[gn].state \in {"connecting", "connected"}
Up(c, gn) == c[gn] # None /\ c[gn].state = "connected"

Shows(gs, gn) == \E i \in 1..Len(gs) : gs[i].gn = gn

\* what list gs shows, of numbers not in X, and events w tell, and is not taken back, is so
SaidTrue(c, w, gs, X) ==
    /\ \A i \in 1..Len(gs) :
          gs[i].gn \notin X /\ Stays(w, 0, gs[i].gn) => Is(c, gs[i].gn, gs[i].name)
    /\ \A j \in 1..Len(w) : Tells(w[j]) /\ Stays(w, j, w[j].gn) => Is(c, w[j].gn, w[j].name)

\* every connected group is shown or told of, and not taken back
UpSaid(c, w, gs) ==
    \A gn \in Numbers : Up(c, gn) =>
        \/ Shows(gs, gn) /\ Stays(w, 0, gn)
        \/ \E j \in 1..Len(w) : Tells(w[j]) /\ w[j].gn = gn /\ Stays(w, j, gn)

\* One event more.
LEMMA StaysAdd ==
    ASSUME NEW w, IsSeq(w), NEW e, NEW gn
    PROVE  /\ \A j \in 0..Len(w) : Stays(Append(w, e), j, gn) <=> Stays(w, j, gn) /\ ~Drops(e, gn)
           /\ Stays(Append(w, e), Len(w) + 1, gn)
  <1> DEFINE v == Append(w, e)
             n == Len(w)
  <1>1. /\ n \in Nat /\ Len(v) = n + 1 /\ v[n + 1] = e
        /\ \A i \in 1..n : v[i] = w[i]
    BY AppendIsSeq DEF IsSeq
  <1> HIDE DEF v
  <1>2. ASSUME NEW j \in 0..n
        PROVE  Stays(v, j, gn) <=> Stays(w, j, gn) /\ ~Drops(e, gn)
    <2>1. (j + 1)..Len(v) = ((j + 1)..n) \cup {n + 1}
      BY <1>1
    <2>2. \A k \in (j + 1)..n : v[k] = w[k]
      BY <1>1
    <2> QED BY <1>1, <2>1, <2>2 DEF Stays
  <1>3. Stays(v, n + 1, gn)
    BY <1>1 DEF Stays
  <1> QED BY <1>2, <1>3 DEF v

\* One event less.
LEMMA StaysTake ==
    ASSUME NEW w, IsSeq(w), w # <<>>, NEW gn
    PROVE  /\ \A j \in 0..(Len(w) - 1) : Stays(Tail(w), j, gn) <=> Stays(w, j + 1, gn)
           /\ Stays(w, 0, gn) <=> Stays(w, 1, gn) /\ ~Drops(Head(w), gn)
  <1> DEFINE v == Tail(w)
             n == Len(w)
             h == Head(w)
  <1>1. /\ n \in Nat \ {0} /\ Len(v) = n - 1 /\ h = w[1]
        /\ \A i \in 1..(n - 1) : v[i] = w[i + 1]
    BY TailIsSeq DEF IsSeq
  <1> HIDE DEF v, h
  <1>2. ASSUME NEW j \in 0..(n - 1)
        PROVE  Stays(v, j, gn) <=> Stays(w, j + 1, gn)
    <2>1. ASSUME Stays(v, j, gn), NEW k \in (j + 2)..n
          PROVE  ~Drops(w[k], gn)
      <3>1. k - 1 \in (j + 1)..Len(v) /\ k - 1 \in 1..(n - 1) /\ (k - 1) + 1 = k
        BY <1>1
      <3>2. v[k - 1] = w[k]
        BY <1>1, <3>1
      <3> QED BY <2>1, <3>1, <3>2 DEF Stays
    <2>2. ASSUME Stays(w, j + 1, gn), NEW k \in (j + 1)..Len(v)
          PROVE  ~Drops(v[k], gn)
      <3>1. k + 1 \in ((j + 1) + 1)..n /\ k \in 1..(n - 1)
        BY <1>1
      <3>2. v[k] = w[k + 1]
        BY <1>1, <3>1
      <3> QED BY <2>2, <3>1, <3>2 DEF Stays
    <2>3. (j + 1) + 1 = j + 2
      OBVIOUS
    <2> QED BY <2>1, <2>2, <2>3 DEF Stays
  <1>3. Stays(w, 0, gn) <=> Stays(w, 1, gn) /\ ~Drops(h, gn)
    <2>1. (0 + 1)..n = ((1 + 1)..n) \cup {1}
      BY <1>1
    <2> QED BY <1>1, <2>1 DEF Stays
  <1> QED BY <1>2, <1>3 DEF v, h

\* The table changes, and nothing is said.
LEMMA SaidKept ==
    ASSUME NEW c, NEW d, NEW w, NEW gs, NEW X, SaidTrue(c, w, gs, X),
           \A gn, name : Is(c, gn, name) => Is(d, gn, name)
    PROVE  SaidTrue(d, w, gs, X)
  BY DEF SaidTrue

\* The table changes, and one more event is sent.
LEMMA SaidMore ==
    ASSUME NEW c, NEW d, NEW w, IsSeq(w), NEW gs, NEW X, NEW e, SaidTrue(c, w, gs, X),
           \A gn, name : Is(c, gn, name) /\ ~Drops(e, gn) => Is(d, gn, name),
           Tells(e) => Is(d, e.gn, e.name)
    PROVE  SaidTrue(d, Append(w, e), gs, X)
  <1> DEFINE v == Append(w, e)
             n == Len(w)
  <1>1. /\ n \in Nat /\ Len(v) = n + 1 /\ v[n + 1] = e
        /\ \A i \in 1..n : v[i] = w[i]
    BY AppendIsSeq DEF IsSeq
  <1>2. \A gn : \A j \in 0..n : Stays(v, j, gn) <=> Stays(w, j, gn) /\ ~Drops(e, gn)
    BY StaysAdd
  <1> HIDE DEF v
  <1>3. ASSUME NEW i \in 1..Len(gs), gs[i].gn \notin X, Stays(v, 0, gs[i].gn)
        PROVE  Is(d, gs[i].gn, gs[i].name)
    <2>1. 0 \in 0..n
      BY <1>1
    <2> QED BY <1>2, <1>3, <2>1 DEF SaidTrue
  <1>4. ASSUME NEW j \in 1..Len(v), Tells(v[j]), Stays(v, j, v[j].gn)
        PROVE  Is(d, v[j].gn, v[j].name)
    <2>1. CASE j = n + 1
      BY <1>1, <1>4, <2>1
    <2>2. CASE j \in 1..n
      <3>1. v[j] = w[j] /\ j \in 0..n
        BY <1>1, <2>2
      <3>2. Stays(w, j, w[j].gn) /\ ~Drops(e, w[j].gn) /\ Tells(w[j])
        BY <1>2, <1>4, <3>1
      <3> QED BY <2>2, <3>1, <3>2 DEF SaidTrue
    <2> QED BY <1>1, <2>1, <2>2
  <1> QED BY <1>3, <1>4 DEF SaidTrue, v

\* An event is taken: an entry stays that is not taken back, or shows what was told.
LEMMA SaidTaken ==
    ASSUME NEW c, NEW w, IsSeq(w), w # <<>>, NEW gs, NEW hs, NEW X, NEW Y,
           SaidTrue(c, w, gs, X),
           \A gn : gn \notin Y => gn \notin X,
           \A i \in 1..Len(hs) : hs[i].gn \notin Y =>
              \/ \E k \in 1..Len(gs) : /\ gs[k].gn = hs[i].gn /\ gs[k].name = hs[i].name
                                       /\ ~Drops(Head(w), hs[i].gn)
              \/ Tells(Head(w)) /\ Head(w).gn = hs[i].gn /\ Head(w).name = hs[i].name
    PROVE  SaidTrue(c, Tail(w), hs, Y)
  <1> DEFINE v == Tail(w)
             n == Len(w)
             h == Head(w)
  <1>1. /\ n \in Nat \ {0} /\ Len(v) = n - 1 /\ h = w[1]
        /\ \A i \in 1..(n - 1) : v[i] = w[i + 1]
    BY TailIsSeq DEF IsSeq
  <1>2. \A gn : /\ \A j \in 0..(n - 1) : Stays(v, j, gn) <=> Stays(w, j + 1, gn)
                /\ Stays(w, 0, gn) <=> Stays(w, 1, gn) /\ ~Drops(h, gn)
    BY StaysTake
  <1>3. ASSUME NEW i \in 1..Len(hs), hs[i].gn \notin Y, Stays(v, 0, hs[i].gn)
        PROVE  Is(c, hs[i].gn, hs[i].name)
    <2>1. Stays(w, 1, hs[i].gn)
      <3>1. 0 \in 0..(n - 1) /\ 0 + 1 = 1
        BY <1>1
      <3>2. Stays(w, 0 + 1, hs[i].gn)
        BY <1>2, <1>3, <3>1
      <3> QED BY <3>1, <3>2
    <2>2. CASE \E k \in 1..Len(gs) : /\ gs[k].gn = hs[i].gn /\ gs[k].name = hs[i].name
                                     /\ ~Drops(h, hs[i].gn)
      <3>1. PICK k \in 1..Len(gs) : /\ gs[k].gn = hs[i].gn /\ gs[k].name = hs[i].name
                                    /\ ~Drops(h, hs[i].gn)
        BY <2>2
      <3>2. Stays(w, 0, gs[k].gn)
        BY <1>2, <2>1, <3>1
      <3> QED BY <1>3, <3>1, <3>2 DEF SaidTrue
    <2>3. CASE Tells(h) /\ h.gn = hs[i].gn /\ h.name = hs[i].name
      <3>1. 1 \in 1..n
        BY <1>1
      <3>2. w[1] = h
        BY <1>1
      <3> QED BY <2>1, <2>3, <3>1, <3>2 DEF SaidTrue
    <2> QED BY <1>3, <2>2, <2>3
  <1> HIDE DEF v, h
  <1>4. ASSUME NEW j \in 1..Len(v), Tells(v[j]), Stays(v, j, v[j].gn)
        PROVE  Is(c, v[j].gn, v[j].name)
    <2>1. j \in 0..(n - 1) /\ j \in 1..(n - 1) /\ j + 1 \in 1..n
      BY <1>1
    <2>2. v[j] = w[j + 1]
      BY <1>1, <2>1
    <2>3. Stays(w, j + 1, w[j + 1].gn) /\ Tells(w[j + 1])
      BY <1>2, <1>4, <2>1, <2>2
    <2> QED BY <2>1, <2>2, <2>3 DEF SaidTrue
  <1> QED BY <1>3, <1>4 DEF SaidTrue, v

\* No group comes up, and nothing is said.
LEMMA UpKept ==
    ASSUME NEW c, NEW d, NEW w, NEW gs, UpSaid(c, w, gs),
           \A gn \in Numbers : Up(d, gn) => Up(c, gn)
    PROVE  UpSaid(d, w, gs)
  BY DEF UpSaid

\* One more event is sent: it tells of the group that comes up.
LEMMA UpMore ==
    ASSUME NEW c, NEW d, NEW w, IsSeq(w), NEW gs, NEW e, UpSaid(c, w, gs),
           \A gn \in Numbers : Up(d, gn) => \/ Up(c, gn) /\ ~Drops(e, gn)
                                            \/ Tells(e) /\ e.gn = gn
    PROVE  UpSaid(d, Append(w, e), gs)
  <1> DEFINE v == Append(w, e)
             n == Len(w)
  <1>1. /\ n \in Nat /\ Len(v) = n + 1 /\ v[n + 1] = e
        /\ \A i \in 1..n : v[i] = w[i]
    BY AppendIsSeq DEF IsSeq
  <1>2. \A gn : /\ \A j \in 0..n : Stays(v, j, gn) <=> Stays(w, j, gn) /\ ~Drops(e, gn)
                /\ Stays(v, n + 1, gn)
    BY StaysAdd
  <1> HIDE DEF v
  <1>3. ASSUME NEW gn \in Numbers, Up(d, gn)
        PROVE  \/ Shows(gs, gn) /\ Stays(v, 0, gn)
               \/ \E j \in 1..Len(v) : Tells(v[j]) /\ v[j].gn = gn /\ Stays(v, j, gn)
    <2>1. CASE Tells(e) /\ e.gn = gn
      <3>1. n + 1 \in 1..Len(v)
        BY <1>1
      <3> QED BY <1>1, <1>2, <2>1, <3>1
    <2>2. CASE Up(c, gn) /\ ~Drops(e, gn)
      <3>1. CASE Shows(gs, gn) /\ Stays(w, 0, gn)
        <4>1. 0 \in 0..n
          BY <1>1
        <4> QED BY <1>2, <2>2, <3>1, <4>1
      <3>2. CASE \E j \in 1..n : Tells(w[j]) /\ w[j].gn = gn /\ Stays(w, j, gn)
        <4>1. PICK j \in 1..n : Tells(w[j]) /\ w[j].gn = gn /\ Stays(w, j, gn)
          BY <3>2
        <4>2. j \in 0..n /\ j \in 1..Len(v) /\ v[j] = w[j]
          BY <1>1
        <4> QED BY <1>2, <2>2, <4>1, <4>2
      <3> QED BY <2>2, <3>1, <3>2 DEF UpSaid
    <2> QED BY <1>3, <2>1, <2>2
  <1> QED BY <1>3 DEF UpSaid, v

\* An event is taken: what is not taken off stays shown, and what is told is shown.
LEMMA UpTaken ==
    ASSUME NEW c, NEW w, IsSeq(w), w # <<>>, NEW gs, NEW hs, UpSaid(c, w, gs),
           \A gn : Shows(gs, gn) /\ ~Drops(Head(w), gn) => Shows(hs, gn),
           Tells(Head(w)) => Shows(hs, Head(w).gn)
    PROVE  UpSaid(c, Tail(w), hs)
  <1> DEFINE v == Tail(w)
             n == Len(w)
             h == Head(w)
  <1>1. /\ n \in Nat \ {0} /\ Len(v) = n - 1 /\ h = w[1]
        /\ \A i \in 1..(n - 1) : v[i] = w[i + 1]
    BY TailIsSeq DEF IsSeq
  <1>2. \A gn : /\ \A j \in 0..(n - 1) : Stays(v, j, gn) <=> Stays(w, j + 1, gn)
                /\ Stays(w, 0, gn) <=> Stays(w, 1, gn) /\ ~Drops(h, gn)
    BY StaysTake
  <1>3. \A gn : Stays(w, 1, gn) => Stays(v, 0, gn)
    <2>1. 0 \in 0..(n - 1) /\ 0 + 1 = 1
      BY <1>1
    <2> QED BY <1>2, <2>1
  <1>4. /\ \A gn : Shows(gs, gn) /\ ~Drops(h, gn) => Shows(hs, gn)
        /\ Tells(h) => Shows(hs, h.gn)
    OBVIOUS
  <1> HIDE DEF v, h
  <1>5. ASSUME NEW gn \in Numbers, Up(c, gn)
        PROVE  \/ Shows(hs, gn) /\ Stays(v, 0, gn)
               \/ \E j \in 1..Len(v) : Tells(v[j]) /\ v[j].gn = gn /\ Stays(v, j, gn)
    <2>1. CASE Shows(gs, gn) /\ Stays(w, 0, gn)
      BY <1>2, <1>3, <1>4, <2>1
    <2>2. CASE \E j \in 1..n : Tells(w[j]) /\ w[j].gn = gn /\ Stays(w, j, gn)
      <3>1. PICK j \in 1..n : Tells(w[j]) /\ w[j].gn = gn /\ Stays(w, j, gn)
        BY <2>2
      <3>2. CASE j = 1
        BY <1>1, <1>3, <1>4, <3>1, <3>2
      <3>3. CASE j # 1
        <4>1. j - 1 \in 0..(n - 1) /\ j - 1 \in 1..(n - 1) /\ (j - 1) + 1 = j
              /\ j - 1 \in 1..Len(v)
          BY <1>1, <3>3
        <4>2. v[j - 1] = w[j]
          BY <1>1, <4>1
        <4>3. Stays(v, j - 1, gn)
          BY <1>2, <3>1, <4>1
        <4> QED BY <3>1, <4>1, <4>2, <4>3
      <3> QED BY <3>2, <3>3
    <2> QED BY <1>5, <2>1, <2>2 DEF UpSaid
  <1> QED BY <1>5 DEF UpSaid, v

-----------------------------------------------------------------------------
(* What a step does to the table and the list                              *)

IsEntry(g) ==
    g = [gn |-> g.gn, name |-> g.name, members |-> g.members, self_role |-> g.self_role,
         topic |-> g.topic, opt |-> g.opt]

Base ==
    /\ setup \in Setups /\ left \in [Happenings -> Nat]
    /\ left["selfkicks"] <= setup.left["selfkicks"]
    /\ IsSeq(cmds) /\ IsSeq(evs) /\ IsSeq(groups) /\ booted \in BOOLEAN
    /\ \A i \in 1..Len(groups) : IsEntry(groups[i])
    /\ \A i \in 1..Len(evs) : Tells(evs[i]) \/ Plain(evs[i]) \/ \E gn : Drops(evs[i], gn)
    /\ core = [gn \in Numbers |-> core[gn]]
    /\ \A gn \in Numbers : core[gn] # None => IsGroup(core[gn])
    /\ ~booted => /\ evs = <<>> /\ groups = <<>>
                  /\ \A gn \in Numbers : core[gn] # None => core[gn].state \in {"connecting", "dead"}

\* something that is counted may happen
Counts == left' = left \/ \E k \in Happenings : Spend(k)

\* the group of one number is another record
Becomes(gn, g) == gn \in Numbers /\ IsGroup(g) /\ core' = [core EXCEPT ![gn] = g]

\* nothing that concerns the list
Touched ==
    /\ core' = core \/ \E gn \in Numbers : \E g :
          Becomes(gn, g) /\ core[gn] # None /\ g.chat = core[gn].chat /\ g.state = core[gn].state
    /\ evs' = evs \/ \E e : Plain(e) /\ evs' = Append(evs, e)

\* a number gets a group, without a word
Founded ==
    /\ \E gn \in Numbers : \E g : Becomes(gn, g) /\ core[gn] = None /\ g.state = "connecting"
    /\ evs' = evs

\* a group is told of, as it gets its number or connects
Told ==
    \E gn \in Numbers : \E g, e :
        /\ Becomes(gn, g) /\ g.state \in {"connecting", "connected"}
        /\ core[gn] = None \/ (g.chat = core[gn].chat)
        /\ Tells(e) /\ e.gn = gn /\ e.name = g.chat /\ evs' = Append(evs, e)

\* a group is left: the list is told, except of a kick
Abandoned ==
    \E gn \in Numbers : \E g, e :
        /\ Becomes(gn, g) /\ g.state = "leaving" /\ ~Tells(e)
        /\ evs' = Append(evs, e)
        /\ Drops(e, gn) \/ (Plain(e) /\ Kicked')

\* groups that were left are deleted
Deleted ==
    /\ core' = [gn \in Numbers |-> IF core[gn] # None /\ core[gn].state = "leaving"
                                   THEN None ELSE core[gn]]
    /\ evs' = evs

EngineStep ==
    /\ \/ booted /\ (Touched \/ Founded \/ Told \/ Abandoned \/ Deleted)
       \/ UNCHANGED <<core, evs>>
    /\ UNCHANGED <<setup, booted, groups, leftover>>

\* One field of a group is changed.
LEMMA Retouch ==
    ASSUME NEW g, IsGroup(g), NEW x
    PROVE  /\ IsGroup([g EXCEPT !.peers = x]) /\ [g EXCEPT !.peers = x].chat = g.chat
           /\ [g EXCEPT !.peers = x].state = g.state
           /\ IsGroup([g EXCEPT !.topic = x]) /\ [g EXCEPT !.topic = x].chat = g.chat
           /\ [g EXCEPT !.topic = x].state = g.state
           /\ IsGroup([g EXCEPT !.opt = x]) /\ [g EXCEPT !.opt = x].chat = g.chat
           /\ [g EXCEPT !.opt = x].state = g.state
           /\ IsGroup([g EXCEPT !.state = x]) /\ [g EXCEPT !.state = x].chat = g.chat
           /\ [g EXCEPT !.state = x].state = x
  <1> DEFINE a == g.chat
             b == g.state
             p == g.peers
             t == g.topic
             o == g.opt
  <1>1. g = [chat |-> a, state |-> b, peers |-> p, topic |-> t, opt |-> o]
    BY DEF IsGroup
  <1> HIDE DEF a, b, p, t, o
  <1>2. g.chat = a /\ g.state = b
    BY <1>1
  <1>3. [g EXCEPT !.peers = x] = [chat |-> a, state |-> b, peers |-> x, topic |-> t, opt |-> o]
    BY <1>1
  <1>4. [g EXCEPT !.topic = x] = [chat |-> a, state |-> b, peers |-> p, topic |-> x, opt |-> o]
    BY <1>1
  <1>5. [g EXCEPT !.opt = x] = [chat |-> a, state |-> b, peers |-> p, topic |-> t, opt |-> x]
    BY <1>1
  <1>6. [g EXCEPT !.state = x] = [chat |-> a, state |-> x, peers |-> p, topic |-> t, opt |-> o]
    BY <1>1
  <1> QED BY <1>2, <1>3, <1>4, <1>5, <1>6 DEF IsGroup

\* A new group.
LEMMA NewIsGroup ==
    ASSUME NEW chat, NEW state, NEW self
    PROVE  /\ IsGroup(NewGroup(chat, state, self)) /\ NewGroup(chat, state, self).chat = chat
           /\ NewGroup(chat, state, self).state = state
  BY DEF NewGroup, IsGroup

\* Not even a change of its fields makes a group None.
LEMMA GroupIsSome ==
    ASSUME NoneIsNoGroup, NEW g, IsGroup(g)
    PROVE  g # None
  BY DEF NoneIsNoGroup, IsGroup

\* A number that is free.
LEMMA FreeNumber ==
    ASSUME NEW chat, CanJoin(chat)
    PROVE  Least(FreeNumbers) \in Numbers /\ core[Least(FreeNumbers)] = None
  <1>1. FreeNumbers \in SUBSET Nat /\ FreeNumbers # {}
    BY DEF FreeNumbers, Numbers, CanJoin
  <1>2. Least(FreeNumbers) \in FreeNumbers
    BY <1>1, LeastNumber DEF Least
  <1> QED BY <1>2 DEF FreeNumbers

\* A field other than the state of an existing group.
LEMMA TouchedField ==
    ASSUME Base, NEW gn, Exists(gn), NEW x,
           \/ core' = [core EXCEPT ![gn] = [core[gn] EXCEPT !.peers = x]]
           \/ core' = [core EXCEPT ![gn] = [core[gn] EXCEPT !.topic = x]]
           \/ core' = [core EXCEPT ![gn] = [core[gn] EXCEPT !.opt = x]],
           evs' = evs \/ \E e : Plain(e) /\ evs' = Append(evs, e)
    PROVE  Touched
  <1>1. gn \in Numbers /\ core[gn] # None /\ IsGroup(core[gn])
    BY DEF Exists, Base
  <1>2. CASE core' = [core EXCEPT ![gn] = [core[gn] EXCEPT !.peers = x]]
    <2> DEFINE g == [core[gn] EXCEPT !.peers = x]
    <2>1. IsGroup(g) /\ g.chat = core[gn].chat /\ g.state = core[gn].state
      BY <1>1, Retouch
    <2>2. core' = [core EXCEPT ![gn] = g]
      BY <1>2
    <2> HIDE DEF g
    <2> QED BY <1>1, <2>1, <2>2 DEF Touched, Becomes
  <1>3. CASE core' = [core EXCEPT ![gn] = [core[gn] EXCEPT !.topic = x]]
    <2> DEFINE g == [core[gn] EXCEPT !.topic = x]
    <2>1. IsGroup(g) /\ g.chat = core[gn].chat /\ g.state = core[gn].state
      BY <1>1, Retouch
    <2>2. core' = [core EXCEPT ![gn] = g]
      BY <1>3
    <2> HIDE DEF g
    <2> QED BY <1>1, <2>1, <2>2 DEF Touched, Becomes
  <1>4. CASE core' = [core EXCEPT ![gn] = [core[gn] EXCEPT !.opt = x]]
    <2> DEFINE g == [core[gn] EXCEPT !.opt = x]
    <2>1. IsGroup(g) /\ g.chat = core[gn].chat /\ g.state = core[gn].state
      BY <1>1, Retouch
    <2>2. core' = [core EXCEPT ![gn] = g]
      BY <1>4
    <2> HIDE DEF g
    <2> QED BY <1>1, <2>1, <2>2 DEF Touched, Becomes
  <1> QED BY <1>2, <1>3, <1>4

\* What the commands do.
LEMMA CommandSteps ==
    ASSUME Base, TakeCommand
    PROVE  EngineStep /\ Counts /\ IsSeq(cmds')
  <1> DEFINE c == Head(cmds)
  <1>0. /\ booted /\ cmds # <<>> /\ cmds' = Tail(cmds)
        /\ UNCHANGED <<setup, left, booted, groups, leftover>>
    BY DEF TakeCommand, ui
  <1>1. SUFFICES EngineStep
    <2>1. IsSeq(cmds')
      BY <1>0, TailIsSeq DEF Base
    <2> QED BY <1>0, <2>1 DEF Counts
  <1>2. CASE handle_cmd_group_create(c)
    <2>1. CASE CanJoin(c.chat)
      <3> DEFINE gn == Least(FreeNumbers)
                 g == NewGroup(c.chat, "connected", Founder)
                 e == [ev |-> "new", gn |-> gn, name |-> c.chat]
      <3>1. core' = [core EXCEPT ![gn] = g] /\ evs' = Append(evs, e)
        BY <1>2, <2>1 DEF handle_cmd_group_create, group_push
      <3>2. gn \in Numbers /\ core[gn] = None
        BY <2>1, FreeNumber
      <3>3. IsGroup(g) /\ g.chat = c.chat /\ g.state = "connected"
        BY NewIsGroup
      <3>4. Tells(e) /\ e.gn = gn /\ e.name = c.chat
        BY DEF Tells
      <3> HIDE DEF gn, g, e
      <3>5. Told
        BY <3>1, <3>2, <3>3, <3>4 DEF Told, Becomes
      <3> QED BY <1>0, <3>5 DEF EngineStep
    <2>2. CASE ~CanJoin(c.chat)
      BY <1>0, <1>2, <2>2 DEF handle_cmd_group_create, EngineStep
    <2> QED BY <2>1, <2>2
  <1>3. CASE handle_cmd_group_join(c)
    <2>1. CASE CanJoin(c.chat)
      <3> DEFINE gn == Least(FreeNumbers)
                 g == NewGroup(c.chat, "connecting", User)
      <3>1. core' = [core EXCEPT ![gn] = g] /\ evs' = evs
        BY <1>3, <2>1 DEF handle_cmd_group_join
      <3>2. gn \in Numbers /\ core[gn] = None
        BY <2>1, FreeNumber
      <3>3. IsGroup(g) /\ g.state = "connecting"
        BY NewIsGroup
      <3> HIDE DEF gn, g
      <3>4. Founded
        BY <3>1, <3>2, <3>3 DEF Founded, Becomes
      <3> QED BY <1>0, <3>4 DEF EngineStep
    <2>2. CASE ~CanJoin(c.chat)
      BY <1>0, <1>3, <2>2 DEF handle_cmd_group_join, EngineStep
    <2> QED BY <2>1, <2>2
  <1>4. CASE cmd_leave(c)
    <2>1. CASE Exists(c.gn)
      <3> DEFINE g == [core[c.gn] EXCEPT !.state = "leaving"]
                 e == [ev |-> "left", gn |-> c.gn]
      <3>1. core' = [core EXCEPT ![c.gn] = g] /\ evs' = Append(evs, e)
        BY <1>4, <2>1 DEF cmd_leave, group_push
      <3>2. c.gn \in Numbers /\ IsGroup(core[c.gn])
        BY <2>1 DEF Exists, Base
      <3>3. IsGroup(g) /\ g.state = "leaving"
        BY <3>2, Retouch
      <3>4. Drops(e, c.gn) /\ ~Tells(e)
        BY DEF Drops, Tells
      <3> HIDE DEF g, e
      <3>5. Abandoned
        BY <3>1, <3>2, <3>3, <3>4 DEF Abandoned, Becomes
      <3> QED BY <1>0, <3>5 DEF EngineStep
    <2>2. CASE ~Exists(c.gn)
      BY <1>0, <1>4, <2>2 DEF cmd_leave, EngineStep
    <2> QED BY <2>1, <2>2
  <1>5. CASE handle_cmd_group_topic(c)
    <2>1. CASE UNCHANGED <<core, evs>>
      BY <1>0, <2>1 DEF EngineStep
    <2>2. CASE /\ Exists(c.gn)
               /\ core' = [core EXCEPT ![c.gn] = [core[c.gn] EXCEPT !.topic = c.topic]]
               /\ evs' = Append(evs, [ev |-> "topic", gn |-> c.gn, topic |-> c.topic])
      <3>1. Plain([ev |-> "topic", gn |-> c.gn, topic |-> c.topic])
        BY DEF Plain
      <3>2. Touched
        BY <2>2, <3>1, TouchedField
      <3> QED BY <1>0, <3>2 DEF EngineStep
    <2> QED BY <1>5, <2>1, <2>2 DEF handle_cmd_group_topic, group_push
  <1>6. CASE handle_cmd_group_invite_accept(c)
    <2> DEFINE chat == ginvites[c.idx]
    <2>1. CASE chat # None /\ CanJoin(chat)
      <3> DEFINE gn == Least(FreeNumbers)
                 g == NewGroup(chat, "connecting", User)
                 e == [ev |-> "joined", gn |-> gn, name |-> chat]
      <3>1. core' = [core EXCEPT ![gn] = g] /\ evs' = Append(evs, e)
        BY <1>6, <2>1 DEF handle_cmd_group_invite_accept, group_push
      <3>2. gn \in Numbers /\ core[gn] = None
        BY <2>1, FreeNumber
      <3>3. IsGroup(g) /\ g.chat = chat /\ g.state = "connecting"
        BY NewIsGroup
      <3>4. Tells(e) /\ e.gn = gn /\ e.name = chat
        BY DEF Tells
      <3> HIDE DEF gn, g, e, chat
      <3>5. Told
        BY <3>1, <3>2, <3>3, <3>4 DEF Told, Becomes
      <3> QED BY <1>0, <3>5 DEF EngineStep
    <2>2. CASE ~(chat # None /\ CanJoin(chat))
      BY <1>0, <1>6, <2>2 DEF handle_cmd_group_invite_accept, EngineStep
    <2> QED BY <2>1, <2>2
  <1>7. CASE handle_cmd_group_invite_decline(c)
    BY <1>0, <1>7 DEF handle_cmd_group_invite_decline, EngineStep
  <1>8. CASE cmd_option(c)
    <2>1. CASE Exists(c.gn) /\ core[c.gn].peers[0].role = Founder
      <3>1. core' = [core EXCEPT ![c.gn] = [core[c.gn] EXCEPT !.opt = c.opt]] /\ evs' = evs
        BY <1>8, <2>1 DEF cmd_option
      <3>2. Touched
        BY <2>1, <3>1, TouchedField
      <3> QED BY <1>0, <3>2 DEF EngineStep
    <2>2. CASE ~(Exists(c.gn) /\ core[c.gn].peers[0].role = Founder)
      BY <1>0, <1>8, <2>2 DEF cmd_option, EngineStep
    <2> QED BY <2>1, <2>2
  <1>9. CASE cmd_role(c) \/ cmd_kick(c) \/ cmd_ignore(c)
    <2>1. \E e : Plain(e) /\ evs' = Append(evs, e)
      <3> HIDE DEF c
      <3>1. \A ok, what : Plain([ev |-> "mod_self", gn |-> c.gn, pid |-> c.pid, what |-> what, ok |-> ok])
        BY Zenon DEF Plain
      <3>2. \A ok, on : Plain([ev |-> "ignore_self", gn |-> c.gn, pid |-> c.pid, on |-> on, ok |-> ok])
        BY Zenon DEF Plain
      <3>3. CASE cmd_role(c)
        BY <3>1, <3>3, Zenon DEF cmd_role, group_push
      <3>4. CASE cmd_kick(c)
        BY <3>1, <3>4, Zenon DEF cmd_kick, group_push
      <3>5. CASE cmd_ignore(c)
        BY <3>2, <3>5, Zenon DEF cmd_ignore, group_push
      <3> QED BY <1>9, <3>3, <3>4, <3>5
    <2>2. CASE core' = core
      BY <1>0, <2>1, <2>2 DEF Touched, EngineStep
    <2>3. ASSUME core' # core
          PROVE  Exists(c.gn) /\ \E x : core' = [core EXCEPT ![c.gn] = [core[c.gn] EXCEPT !.peers = x]]
      <3> DEFINE ps == core[c.gn].peers
      <3> HIDE DEF c
      <3>1. CASE cmd_role(c)
        <4>1. Exists(c.gn) /\ core' = [core EXCEPT ![c.gn] =
                [core[c.gn] EXCEPT !.peers = [ps EXCEPT ![c.pid].role = c.role]]]
          BY <2>3, <3>1, Zenon DEF cmd_role, MayModerate
        <4> QED BY <4>1
      <3>2. CASE cmd_kick(c)
        <4>1. Exists(c.gn) /\ core' = [core EXCEPT ![c.gn] =
                [core[c.gn] EXCEPT !.peers = [ps EXCEPT ![c.pid].kicked = TRUE]]]
          BY <2>3, <3>2, Zenon DEF cmd_kick, MayModerate
        <4> QED BY <4>1
      <3>3. CASE cmd_ignore(c)
        <4>1. Exists(c.gn) /\ core' = [core EXCEPT ![c.gn] =
                [core[c.gn] EXCEPT !.peers = [ps EXCEPT ![c.pid].ignored = c.on]]]
          BY <2>3, <3>3, Zenon DEF cmd_ignore
        <4> QED BY <4>1
      <3> QED BY <1>9, <3>1, <3>2, <3>3
    <2>4. Touched
      BY <2>1, <2>3, TouchedField DEF Touched
    <2> QED BY <1>0, <2>4 DEF EngineStep
  <1>10. CASE cmd_sync(c)
    <2> DEFINE e == IF Exists(c.gn)
                    THEN [ev |-> "sync", gn |-> c.gn, self |-> core[c.gn].peers[0].role,
                          roles |-> [p \in Dense(c.gn) |-> core[c.gn].peers[p].role],
                          opt |-> core[c.gn].opt, topic |-> core[c.gn].topic]
                    ELSE [ev |-> "sync", gn |-> c.gn, self |-> -1, roles |-> <<>>,
                          opt |-> 0, topic |-> 0]
    <2>1. core' = core /\ evs' = Append(evs, e)
      BY <1>10 DEF cmd_sync, group_push
    <2>2. Plain(e)
      BY DEF Plain
    <2> HIDE DEF e
    <2>3. Touched
      BY <2>1, <2>2 DEF Touched
    <2> QED BY <1>0, <2>3 DEF EngineStep
  <1>11. \/ handle_cmd_group_create(c) \/ handle_cmd_group_join(c) \/ cmd_leave(c)
         \/ handle_cmd_group_topic(c) \/ handle_cmd_group_invite_accept(c)
         \/ handle_cmd_group_invite_decline(c) \/ cmd_option(c) \/ cmd_role(c) \/ cmd_kick(c)
         \/ cmd_ignore(c) \/ cmd_sync(c)
    BY DEF TakeCommand
  <1> QED BY <1>2, <1>3, <1>4, <1>5, <1>6, <1>7, <1>8, <1>9, <1>10, <1>11

\* A group that is up exists.
LEMMA ActiveGroup ==
    ASSUME Base, NEW gn, Active(gn)
    PROVE  Exists(gn) /\ gn \in Numbers /\ core[gn] # None /\ IsGroup(core[gn])
  BY DEF Active, Exists, Base

\* What the callbacks of tox_iterate do.
LEMMA CallbackSteps ==
    ASSUME Base, Callbacks
    PROVE  EngineStep /\ Counts /\ IsSeq(cmds')
  <1>1. CASE \E chat \in setup.invited : cb_group_invite(chat)
    <2>1. PICK chat \in setup.invited : cb_group_invite(chat)
      BY <1>1
    <2>2. /\ booted /\ Spend("invites") /\ UNCHANGED <<setup, booted, core, cmds, groups, leftover>>
          /\ \E i : evs' = Append(evs, [ev |-> "invite", idx |-> i, name |-> chat])
      BY <2>1 DEF cb_group_invite, group_push, ui
    <2>3. \A i : Plain([ev |-> "invite", idx |-> i, name |-> chat])
      BY DEF Plain
    <2>4. EngineStep
      BY <2>2, <2>3 DEF EngineStep, Touched
    <2>5. Counts
      BY <2>2 DEF Counts, Happenings
    <2> QED BY <2>2, <2>4, <2>5 DEF Base
  <1>2. CASE Sweep
    <2> DEFINE gone == {gn \in Numbers : Exists(gn) /\ core[gn].state = "leaving"}
    <2>1. /\ gone # {} /\ core' = [gn \in Numbers |-> IF gn \in gone THEN None ELSE core[gn]]
          /\ UNCHANGED <<setup, booted, cmds, groups, leftover, left, evs>>
      BY <1>2 DEF Sweep, coreRest, ui
    <2>2. booted
      <3>1. PICK gn \in Numbers : core[gn] # None /\ core[gn].state = "leaving"
        BY <2>1 DEF Exists
      <3> QED BY <3>1 DEF Base
    <2>3. core' = [gn \in Numbers |-> IF core[gn] # None /\ core[gn].state = "leaving"
                                      THEN None ELSE core[gn]]
      <3>1. \A gn \in Numbers : gn \in gone <=> core[gn] # None /\ core[gn].state = "leaving"
        BY DEF Exists
      <3> QED BY <2>1, <3>1
    <2>4. Deleted
      BY <2>1, <2>3 DEF Deleted
    <2> QED BY <2>1, <2>2, <2>4 DEF EngineStep, Counts, Base
  <1>3. ASSUME NEW gn \in Numbers,
               \/ cb_group_self_join(gn) \/ cb_group_join_fail(gn) \/ SelfKicked(gn)
        PROVE  EngineStep /\ Counts /\ IsSeq(cmds')
    <2>1. /\ booted /\ Active(gn) /\ UNCHANGED <<setup, booted, cmds, groups, leftover>>
      BY <1>3 DEF cb_group_self_join, cb_group_join_fail, SelfKicked, coreRest, ui
    <2>2. Counts
      BY <1>3 DEF cb_group_self_join, cb_group_join_fail, SelfKicked, Counts, Happenings
    <2>3. gn \in Numbers /\ core[gn] # None /\ IsGroup(core[gn])
      BY <2>1, ActiveGroup
    <2>4. CASE cb_group_self_join(gn)
      <3> DEFINE g == [core[gn] EXCEPT !.state = "connected"]
                 e == [ev |-> "joined", gn |-> gn, name |-> core[gn].chat]
      <3>1. core' = [core EXCEPT ![gn] = g] /\ evs' = Append(evs, e)
        BY <2>4 DEF cb_group_self_join, group_push
      <3>2. IsGroup(g) /\ g.state = "connected" /\ g.chat = core[gn].chat
        BY <2>3, Retouch
      <3>3. Tells(e) /\ e.gn = gn /\ e.name = core[gn].chat
        BY DEF Tells
      <3> HIDE DEF g, e
      <3>4. Told
        BY <2>3, <3>1, <3>2, <3>3 DEF Told, Becomes
      <3> QED BY <2>1, <2>2, <3>4 DEF EngineStep, Base
    <2> DEFINE g == [core[gn] EXCEPT !.state = "leaving"]
    <2>5. IsGroup(g) /\ g.state = "leaving"
      BY <2>3, Retouch
    <2>6. CASE cb_group_join_fail(gn)
      <3> DEFINE e == [ev |-> "join_fail", gn |-> gn]
      <3>1. core' = [core EXCEPT ![gn] = g] /\ evs' = Append(evs, e)
        BY <2>6 DEF cb_group_join_fail, group_push
      <3>2. Drops(e, gn) /\ ~Tells(e)
        BY DEF Drops, Tells
      <3> HIDE DEF g, e
      <3>3. Abandoned
        BY <2>3, <2>5, <3>1, <3>2 DEF Abandoned, Becomes
      <3> QED BY <2>1, <2>2, <3>3 DEF EngineStep, Base
    <2>7. CASE SelfKicked(gn)
      <3> DEFINE e == [ev |-> "mod", gn |-> gn, pid |-> 0, what |-> Kick]
      <3>1. core' = [core EXCEPT ![gn] = g] /\ evs' = Append(evs, e)
        BY <2>7 DEF SelfKicked, group_push
      <3>2. Plain(e) /\ ~Tells(e)
        BY DEF Plain, Tells
      <3>3. Kicked'
        <4> DEFINE a == left["selfkicks"]
                   b == setup.left["selfkicks"]
        <4>1. /\ a > 0 /\ left' = [left EXCEPT !["selfkicks"] = a - 1]
              /\ "selfkicks" \in Happenings
          BY <2>7 DEF SelfKicked, Spend, Happenings
        <4>2. left'["selfkicks"] = a - 1 /\ a \in Nat /\ b \in Nat /\ a <= b
          BY <4>1, GroupsAssumption DEF Base
        <4>3. setup'.left["selfkicks"] = b
          BY <2>1
        <4> HIDE DEF a, b
        <4>4. a - 1 # b
          BY <4>2
        <4> QED BY <4>2, <4>3, <4>4 DEF Kicked
      <3> HIDE DEF g, e
      <3>4. Abandoned
        BY <2>3, <2>5, <3>1, <3>2, <3>3 DEF Abandoned, Becomes
      <3> QED BY <2>1, <2>2, <3>4 DEF EngineStep, Base
    <2> QED BY <1>3, <2>4, <2>6, <2>7
  <1>4. ASSUME NEW gn \in Numbers,
               \/ \E role \in setup.roles : cb_group_peer_join(gn, role)
               \/ \E t \in {0, 1} : cb_group_topic(gn, t) \/ cb_group_option(gn, t)
               \/ \E pid \in Pids : \/ cb_group_peer_exit(gn, pid) \/ PeerKicked(gn, pid)
                                    \/ cb_group_message(gn, pid)
                                    \/ \E role \in setup.mods : cb_group_moderation(gn, pid, role)
        PROVE  EngineStep /\ Counts /\ IsSeq(cmds')
    <2>1. booted /\ Active(gn)
      BY <1>4 DEF cb_group_peer_join, cb_group_topic, cb_group_option, cb_group_peer_exit,
                  PeerKicked, cb_group_message, cb_group_moderation
    <2>2. UNCHANGED <<setup, booted, cmds, groups, leftover>>
      BY <1>4 DEF cb_group_peer_join, cb_group_topic, cb_group_option, cb_group_peer_exit,
                  PeerKicked, cb_group_message, cb_group_moderation, coreRest, ui
    <2>3. Counts
      BY <1>4 DEF cb_group_peer_join, cb_group_topic, cb_group_option, cb_group_peer_exit,
                  PeerKicked, cb_group_message, cb_group_moderation, Counts, Happenings
    <2>4. Exists(gn)
      BY <2>1, ActiveGroup
    <2> DEFINE ps == core[gn].peers
    <2>5. ASSUME NEW role, cb_group_peer_join(gn, role)
          PROVE  Touched
      <3> DEFINE pid == Least(Pids \ DOMAIN core[gn].peers)
                 new == [p \in DOMAIN ps \cup {pid} |-> IF p = pid THEN Peer(role) ELSE ps[p]]
                 e == [ev |-> "peer_join", gn |-> gn, pid |-> pid, role |-> role]
      <3>1. /\ core' = [core EXCEPT ![gn] = [core[gn] EXCEPT !.peers = new]]
            /\ evs' = Append(evs, e)
        BY <2>5 DEF cb_group_peer_join, group_push
      <3>2. Plain(e)
        BY DEF Plain
      <3> HIDE DEF e, new
      <3> QED BY <2>4, <3>1, <3>2, TouchedField
    <2>6. ASSUME NEW t, cb_group_topic(gn, t)
          PROVE  Touched
      <3>1. /\ core' = [core EXCEPT ![gn] = [core[gn] EXCEPT !.topic = t]]
            /\ evs' = Append(evs, [ev |-> "topic", gn |-> gn, topic |-> t])
        BY <2>6 DEF cb_group_topic, group_push
      <3>2. Plain([ev |-> "topic", gn |-> gn, topic |-> t])
        BY DEF Plain
      <3> QED BY <2>4, <3>1, <3>2, TouchedField
    <2>7. ASSUME NEW t, cb_group_option(gn, t)
          PROVE  Touched
      <3>1. /\ core' = [core EXCEPT ![gn] = [core[gn] EXCEPT !.opt = t]]
            /\ evs' = Append(evs, [ev |-> "state", gn |-> gn, opt |-> t])
        BY <2>7 DEF cb_group_option, group_push
      <3>2. Plain([ev |-> "state", gn |-> gn, opt |-> t])
        BY DEF Plain
      <3> QED BY <2>4, <3>1, <3>2, TouchedField
    <2>8. ASSUME NEW pid, cb_group_peer_exit(gn, pid)
          PROVE  Touched
      <3>1. /\ core' = [core EXCEPT ![gn] = [core[gn] EXCEPT !.peers = Without(ps, pid)]]
            /\ evs' = Append(evs, [ev |-> "peer_exit", gn |-> gn, pid |-> pid])
        BY <2>8 DEF cb_group_peer_exit, group_push
      <3>2. Plain([ev |-> "peer_exit", gn |-> gn, pid |-> pid])
        BY DEF Plain
      <3> QED BY <2>4, <3>1, <3>2, TouchedField
    <2>9. ASSUME NEW pid, PeerKicked(gn, pid)
          PROVE  Touched
      <3>1. /\ core' = [core EXCEPT ![gn] =
                          [core[gn] EXCEPT !.peers = [ps EXCEPT ![pid].kicked = TRUE]]]
            /\ evs' = Append(evs, [ev |-> "mod", gn |-> gn, pid |-> pid, what |-> Kick])
        BY <2>9 DEF PeerKicked, group_push
      <3>2. Plain([ev |-> "mod", gn |-> gn, pid |-> pid, what |-> Kick])
        BY DEF Plain
      <3> QED BY <2>4, <3>1, <3>2, TouchedField
    <2>10. ASSUME NEW pid, cb_group_message(gn, pid)
           PROVE  Touched
      <3>1. core' = core /\ evs' = Append(evs, [ev |-> "msg", gn |-> gn, pid |-> pid])
        BY <2>10 DEF cb_group_message, group_push
      <3>2. Plain([ev |-> "msg", gn |-> gn, pid |-> pid])
        BY DEF Plain
      <3> QED BY <3>1, <3>2 DEF Touched
    <2>11. ASSUME NEW pid, NEW role, cb_group_moderation(gn, pid, role)
           PROVE  Touched
      <3>1. /\ core' = [core EXCEPT ![gn] =
                          [core[gn] EXCEPT !.peers = [ps EXCEPT ![pid].role = role]]]
            /\ evs' = Append(evs, [ev |-> "mod", gn |-> gn, pid |-> pid, what |-> ModEvent[role]])
        BY <2>11 DEF cb_group_moderation, group_push
      <3>2. Plain([ev |-> "mod", gn |-> gn, pid |-> pid, what |-> ModEvent[role]])
        BY DEF Plain
      <3> QED BY <2>4, <3>1, <3>2, TouchedField
    <2>12. Touched
      BY <1>4, <2>5, <2>6, <2>7, <2>8, <2>9, <2>10, <2>11
    <2> QED BY <2>1, <2>2, <2>3, <2>12 DEF EngineStep, Base
  <1> QED BY <1>1, <1>2, <1>3, <1>4 DEF Callbacks

\* What the user does to the list: nothing but commands.
LEMMA UserSteps ==
    ASSUME Base, UserActs
    PROVE  EngineStep /\ Counts /\ IsSeq(cmds')
  <1>1. ASSUME NEW c, Post(c) PROVE IsSeq(cmds')
    BY <1>1, AppendIsSeq DEF Post, Base
  <1>2. CASE cc_ginv_yes \/ cc_ginv_no
    <2>1. PICK kind : Answer(kind)
      BY <1>2 DEF cc_ginv_yes, cc_ginv_no
    <2>2. UNCHANGED <<core, evs, setup, booted, groups, leftover, left>>
      BY <2>1 DEF Answer, uiRest, engine
    <2>3. IsSeq(cmds')
      BY <1>1, <2>1 DEF Answer
    <2> QED BY <2>2, <2>3 DEF EngineStep, Counts
  <1>3. CASE \/ \E chat \in setup.create : cc_gnew_ok(chat)
             \/ \E chat \in setup.ids : cc_gjoin_ok(chat)
    <2>1. UNCHANGED <<core, evs, setup, booted, groups, leftover>>
      BY <1>3 DEF cc_gnew_ok, cc_gjoin_ok, uiRest, engine, ui
    <2>2. Counts
      BY <1>3 DEF cc_gnew_ok, cc_gjoin_ok, Counts, Happenings
    <2>3. IsSeq(cmds')
      BY <1>1, <1>3 DEF cc_gnew_ok, cc_gjoin_ok
    <2> QED BY <2>1, <2>2, <2>3 DEF EngineStep
  <1>4. CASE \E gn \in Listed :
        \/ cc_gleave(gn) \/ cc_gmembers_open(gn)
        \/ \E t \in {0, 1} : cc_gtopic_ok(gn, t) \/ cc_gctl(gn, t)
        \/ \E pid \in Pids \ {0} : \/ cc_gkick(gn, pid) \/ cc_gignore(gn, pid)
                                   \/ \E role \in DOMAIN ModEvent : cc_grole(gn, pid, role)
    <2>1. UNCHANGED <<core, evs, setup, booted, groups, leftover>>
      BY <1>4 DEF cc_gleave, cc_gmembers_open, cc_gtopic_ok, cc_gctl, cc_gkick, cc_gignore,
                  cc_grole, uiRest, engine, ui
    <2>2. Counts
      BY <1>4 DEF cc_gleave, cc_gmembers_open, cc_gtopic_ok, cc_gctl, cc_gkick, cc_gignore,
                  cc_grole, Counts, Happenings
    <2>3. IsSeq(cmds')
      <3>1. UNCHANGED cmds \/ \E c : Post(c)
        BY <1>4 DEF cc_gleave, cc_gmembers_open, cc_gtopic_ok, cc_gctl, cc_gkick, cc_gignore,
                    cc_grole
      <3> QED BY <1>1, <3>1 DEF Base
    <2> QED BY <2>1, <2>2, <2>3 DEF EngineStep
  <1>5. CASE ginv_close
    BY <1>5 DEF ginv_close, uiRest, engine, EngineStep, Counts, Base
  <1> QED BY <1>2, <1>3, <1>4, <1>5 DEF UserActs

\* Taking one element out.
LEMMA RemoveOne ==
    ASSUME NEW s, IsSeq(s), NEW n \in 1..Len(s)
    PROVE  /\ IsSeq(RemoveAt(s, n)) /\ Len(RemoveAt(s, n)) = Len(s) - 1
           /\ \A i \in 1..(Len(s) - 1) :
                 RemoveAt(s, n)[i] = IF i < n THEN s[i] ELSE s[i + 1]
  <1> DEFINE S == {s[i] : i \in 1..Len(s)}
             a == SubSeq(s, 1, n - 1)
             b == SubSeq(s, n + 1, Len(s))
             m == Len(s)
  <1>1. s \in Seq(S) /\ m \in Nat
    BY SeqOfElements DEF IsSeq
  <1> HIDE DEF S
  <1>2. /\ a \in Seq(S) /\ Len(a) = n - 1
        /\ \A i \in 1..(n - 1) : a[i] = s[i]
    BY <1>1
  <1>3. /\ b \in Seq(S) /\ Len(b) = m - n
        /\ \A i \in 1..(m - n) : b[i] = s[i + n]
    BY <1>1
  <1> HIDE DEF a, b
  <1>4. IsSeq(a) /\ IsSeq(b)
    BY <1>2, <1>3, ElementOfSeqIsSeq
  <1> DEFINE t == a \o b
  <1>5. /\ IsSeq(t) /\ Len(t) = Len(a) + Len(b)
        /\ \A i \in 1..Len(a) : t[i] = a[i]
        /\ \A i \in (Len(a) + 1)..(Len(a) + Len(b)) : t[i] = b[i - Len(a)]
    BY <1>4, ConcatIsSeq
  <1>6. RemoveAt(s, n) = t
    BY DEF RemoveAt, a, b
  <1> HIDE DEF t
  <1>7. Len(t) = m - 1
    BY <1>1, <1>2, <1>3, <1>5
  <1>8. ASSUME NEW i \in 1..(m - 1)
        PROVE  t[i] = IF i < n THEN s[i] ELSE s[i + 1]
    <2>1. CASE i < n
      <3>1. i \in 1..(n - 1) /\ i \in 1..Len(a)
        BY <1>2, <2>1
      <3> QED BY <1>2, <1>5, <2>1, <3>1
    <2>2. CASE ~(i < n)
      <3> DEFINE k == i - n + 1
      <3>1. /\ i \in (Len(a) + 1)..(Len(a) + Len(b)) /\ i - Len(a) = k
            /\ k \in 1..(m - n) /\ k + n = i + 1
        BY <1>1, <1>2, <1>3, <2>2
      <3> HIDE DEF k
      <3>2. t[i] = b[k]
        BY <1>5, <3>1
      <3>3. b[k] = s[k + n]
        BY <1>3, <3>1
      <3> QED BY <2>2, <3>1, <3>2, <3>3
    <2> QED BY <2>1, <2>2
  <1> QED BY <1>5, <1>6, <1>7, <1>8

\* An event about a group changes neither number nor name of its entry.
LEMMA UpdatedEntry ==
    ASSUME NEW g, IsEntry(g), NEW e, Plain(e), ~IsInvite(e)
    PROVE  /\ IsEntry(Updated(g, e)) /\ Updated(g, e).gn = g.gn /\ Updated(g, e).name = g.name
  <1> DEFINE Kept(h) == IsEntry(h) /\ h.gn = g.gn /\ h.name = g.name
  <1>1. Kept(g)
    OBVIOUS
  <1>2. \A x : Kept([g EXCEPT !.members = x]) /\ Kept([g EXCEPT !.topic = x])
               /\ Kept([g EXCEPT !.opt = x])
    <2> TAKE x
    <2> DEFINE a == g.gn
               b == g.name
               m == g.members
               r == g.self_role
               t == g.topic
               o == g.opt
    <2>1. g = [gn |-> a, name |-> b, members |-> m, self_role |-> r, topic |-> t, opt |-> o]
      BY DEF IsEntry
    <2> HIDE DEF a, b, m, r, t, o
    <2>2. g.gn = a /\ g.name = b
      BY <2>1
    <2>3. [g EXCEPT !.members = x]
            = [gn |-> a, name |-> b, members |-> x, self_role |-> r, topic |-> t, opt |-> o]
      BY <2>1
    <2>4. [g EXCEPT !.topic = x]
            = [gn |-> a, name |-> b, members |-> m, self_role |-> r, topic |-> x, opt |-> o]
      BY <2>1
    <2>5. [g EXCEPT !.opt = x]
            = [gn |-> a, name |-> b, members |-> m, self_role |-> r, topic |-> t, opt |-> x]
      BY <2>1
    <2> QED BY <2>2, <2>3, <2>4, <2>5 DEF IsEntry
  <1>3. \A u, x, y, z : Kept([g EXCEPT !.self_role = u, !.opt = x, !.topic = y, !.members = z])
    <2> TAKE u, x, y, z
    <2> DEFINE a == g.gn
               b == g.name
               m == g.members
               r == g.self_role
               t == g.topic
               o == g.opt
    <2>1. g = [gn |-> a, name |-> b, members |-> m, self_role |-> r, topic |-> t, opt |-> o]
      BY DEF IsEntry
    <2> HIDE DEF a, b, m, r, t, o
    <2>2. g.gn = a /\ g.name = b
      BY <2>1
    <2> DEFINE h == [g EXCEPT !.self_role = u, !.opt = x, !.topic = y, !.members = z]
    <2>3. h = [gn |-> a, name |-> b, members |-> z, self_role |-> u, topic |-> y, opt |-> x]
      <3>1. DOMAIN g = {"gn", "name", "members", "self_role", "topic", "opt"}
        BY <2>1
      <3>2. DOMAIN h = {"gn", "name", "members", "self_role", "topic", "opt"}
        BY <3>1
      <3>3. /\ h.gn = a /\ h.name = b /\ h.members = z /\ h.self_role = u
            /\ h.topic = y /\ h.opt = x
        BY <2>1, <3>1
      <3>4. h = [k \in DOMAIN h |-> h[k]]
        OBVIOUS
      <3> HIDE DEF h
      <3> QED BY <3>2, <3>3, <3>4
    <2> QED BY <2>2, <2>3 DEF IsEntry
  <1>4. SUFFICES Kept(Updated(g, e))
    OBVIOUS
  <1> HIDE DEF Kept
  <1>5. CASE e.ev = "msg"
    BY <1>1, <1>2, <1>3, <1>5 DEF Updated
  <1>6. CASE e.ev = "topic"
    BY <1>1, <1>2, <1>3, <1>6 DEF Updated
  <1>7. CASE e.ev = "state"
    BY <1>1, <1>2, <1>3, <1>7 DEF Updated
  <1>8. CASE e.ev = "peer_join"
    BY <1>1, <1>2, <1>3, <1>8 DEF Updated
  <1>9. CASE e.ev = "peer_exit"
    BY <1>1, <1>2, <1>3, <1>9 DEF Updated
  <1>10. CASE e.ev = "mod"
    BY <1>1, <1>2, <1>3, <1>10 DEF Updated
  <1>11. CASE e.ev = "mod_self"
    BY <1>1, <1>2, <1>3, <1>11 DEF Updated
  <1>12. CASE e.ev = "ignore_self"
    BY <1>1, <1>2, <1>3, <1>12 DEF Updated
  <1>13. CASE e.ev = "sync"
    BY <1>1, <1>2, <1>3, <1>13 DEF Updated
  <1> QED BY <1>5, <1>6, <1>7, <1>8, <1>9, <1>10, <1>11, <1>12, <1>13 DEF Plain, IsInvite

\* The first entry of a listed number.
LEMMA AtFinds ==
    ASSUME IsSeq(groups), NEW gn, gn \in Listed
    PROVE  At(gn) \in 1..Len(groups) /\ groups[At(gn)].gn = gn
  <1> DEFINE S == {i \in 1..Len(groups) : groups[i].gn = gn}
  <1>1. S \in SUBSET Nat /\ S # {}
    BY DEF Listed
  <1>2. Least(S) \in S
    BY <1>1, LeastNumber DEF Least
  <1> QED BY <1>2 DEF At

\* What the front end makes of an event.
LEMMA EventSteps ==
    ASSUME Base, TakeEvent
    PROVE  /\ evs # <<>> /\ evs' = Tail(evs) /\ UNCHANGED <<setup, left, booted, core>>
           /\ IsSeq(cmds') /\ IsSeq(groups')
           /\ \A i \in 1..Len(groups') : IsEntry(groups'[i])
           /\ \A gn : Shows(groups, gn) /\ ~Drops(Head(evs), gn) => Shows(groups', gn)
           /\ Tells(Head(evs)) => Shows(groups', Head(evs).gn)
           /\ \A gn : gn \notin leftover' => gn \notin leftover
           /\ \A i \in 1..Len(groups') : groups'[i].gn \notin leftover' =>
                 \/ \E k \in 1..Len(groups) :
                       /\ groups[k].gn = groups'[i].gn /\ groups[k].name = groups'[i].name
                       /\ ~Drops(Head(evs), groups'[i].gn)
                 \/ /\ Tells(Head(evs)) /\ Head(evs).gn = groups'[i].gn
                    /\ Head(evs).name = groups'[i].name
  <1> DEFINE e == Head(evs)
             n == Len(groups)
  <1>0. evs # <<>> /\ evs' = Tail(evs) /\ UNCHANGED <<setup, left, booted, core>>
    BY DEF TakeEvent, engine
  <1>1. IsSeq(groups) /\ n \in Nat /\ \A i \in 1..n : IsEntry(groups[i])
    BY DEF Base, IsSeq
  <1>2. Tells(e) \/ Plain(e) \/ \E gn : Drops(e, gn)
    <2>1. 1 \in 1..Len(evs) /\ e = evs[1]
      BY <1>0, TailIsSeq DEF Base, IsSeq
    <2> QED BY <2>1 DEF Base
  <1>3. CASE Tells(e)
    <2>1. PICK self : OnListed(e, self)
      BY <1>3 DEF TakeEvent, Tells
    <2> DEFINE x == Entry(e, self)
    <2>2. groups' = Append(groups, x) /\ cmds' = Append(cmds, [cmd |-> "sync", gn |-> e.gn])
      BY <2>1 DEF OnListed, Sync
    <2>3. x.gn = e.gn /\ x.name = e.name /\ IsEntry(x)
      BY DEF Entry, IsEntry
    <2>4. \A gn : ~Drops(e, gn)
      BY <1>3 DEF Tells, Drops
    <2> HIDE DEF x, e
    <2>5. /\ IsSeq(groups') /\ Len(groups') = n + 1 /\ groups'[n + 1] = x
          /\ \A i \in 1..n : groups'[i] = groups[i]
      BY <1>1, <2>2, AppendIsSeq
    <2>6. IsSeq(cmds')
      BY <2>2, AppendIsSeq DEF Base
    <2>7. \A i \in 1..Len(groups') : i = n + 1 \/ i \in 1..n
      BY <1>1, <2>5
    <2>8. n + 1 \in 1..Len(groups') /\ \A i \in 1..n : i \in 1..Len(groups')
      BY <1>1, <2>5
    <2>9. \A i \in 1..Len(groups') : IsEntry(groups'[i])
      BY <1>1, <2>3, <2>5, <2>7
    <2>10. \A gn : Shows(groups, gn) => Shows(groups', gn)
      BY <2>5, <2>8 DEF Shows
    <2>11. Shows(groups', e.gn)
      BY <2>3, <2>5, <2>8 DEF Shows
    <2>12. \A i \in 1..Len(groups') :
              \/ \E k \in 1..n : groups[k].gn = groups'[i].gn /\ groups[k].name = groups'[i].name
              \/ e.gn = groups'[i].gn /\ e.name = groups'[i].name
      BY <2>3, <2>5, <2>7
    <2>13. leftover' = leftover
      BY <2>1 DEF OnListed
    <2> QED BY <1>0, <1>3, <2>4, <2>5, <2>6, <2>9, <2>10, <2>11, <2>12, <2>13 DEF e
  <1>4. CASE \E gn : Drops(e, gn)
    <2>1. e.ev \in {"left", "join_fail"} /\ OnGone(e) /\ ~Tells(e)
      BY <1>4 DEF TakeEvent, Drops, Tells
    <2>2. IsSeq(cmds')
      BY <2>1 DEF OnGone, Base
    <2>3. \A gn : Drops(e, gn) <=> gn = e.gn
      BY <2>1 DEF Drops
    <2>4. /\ \A gn : gn \notin leftover' => gn \notin leftover
          /\ Twin(e) => e.gn \in leftover'
      BY <2>1 DEF OnGone
    <2>5. CASE e.gn \notin Listed
      <3>1. groups' = groups
        BY <2>1, <2>5 DEF OnGone
      <3>2. \A i \in 1..n : groups[i].gn # e.gn
        BY <2>5 DEF Listed
      <3> HIDE DEF e
      <3> QED BY <1>0, <1>1, <2>1, <2>2, <2>3, <2>4, <3>1, <3>2 DEF e
    <2>6. CASE e.gn \in Listed
      <3> DEFINE a == At(e.gn)
      <3>1. groups' = RemoveAt(groups, a)
        BY <2>1, <2>6 DEF OnGone
      <3>2. a \in 1..n /\ groups[a].gn = e.gn
        BY <1>1, <2>6, AtFinds
      <3> HIDE DEF e, a
      <3>3. /\ IsSeq(groups') /\ Len(groups') = n - 1
            /\ \A i \in 1..(n - 1) : groups'[i] = IF i < a THEN groups[i] ELSE groups[i + 1]
        BY <1>1, <3>1, <3>2, RemoveOne
      <3>4. \A i \in 1..(n - 1) : \E k \in 1..n : groups'[i] = groups[k] /\ k # a
        <4> TAKE i \in 1..(n - 1)
        <4>1. CASE i < a
          <5>1. i \in 1..n /\ i # a /\ groups'[i] = groups[i]
            BY <1>1, <3>2, <3>3, <4>1
          <5> QED BY <5>1
        <4>2. CASE ~(i < a)
          <5>1. i + 1 \in 1..n /\ i + 1 # a /\ groups'[i] = groups[i + 1]
            BY <1>1, <3>2, <3>3, <4>2
          <5> QED BY <5>1
        <4> QED BY <4>1, <4>2
      <3>5. \A k \in 1..n : k # a => \E i \in 1..(n - 1) : groups'[i] = groups[k]
        <4> TAKE k \in 1..n
        <4> HAVE k # a
        <4>1. CASE k < a
          <5>1. k \in 1..(n - 1) /\ groups'[k] = groups[k]
            BY <1>1, <3>2, <3>3, <4>1
          <5> QED BY <5>1
        <4>2. CASE ~(k < a)
          <5>1. k - 1 \in 1..(n - 1) /\ ~(k - 1 < a) /\ (k - 1) + 1 = k
            BY <1>1, <3>2, <4>2
          <5>2. groups'[k - 1] = groups[k]
            BY <3>3, <5>1
          <5> QED BY <5>1, <5>2
        <4> QED BY <4>1, <4>2
      <3>6. \A i \in 1..Len(groups') : IsEntry(groups'[i])
        BY <1>1, <3>3, <3>4
      <3>7. \A gn : Shows(groups, gn) /\ ~Drops(e, gn) => Shows(groups', gn)
        <4> TAKE gn
        <4> HAVE Shows(groups, gn) /\ ~Drops(e, gn)
        <4>1. PICK k \in 1..n : groups[k].gn = gn
          BY DEF Shows
        <4>2. k # a
          BY <2>3, <3>2, <4>1
        <4> QED BY <3>3, <3>5, <4>1, <4>2 DEF Shows
      <3>8. ASSUME NEW i \in 1..Len(groups'), groups'[i].gn \notin leftover'
            PROVE  \E k \in 1..n :
                       /\ groups[k].gn = groups'[i].gn /\ groups[k].name = groups'[i].name
                       /\ ~Drops(e, groups'[i].gn)
        <4>1. PICK k \in 1..n : groups'[i] = groups[k] /\ k # a
          BY <3>3, <3>4
        <4>2. groups[k].gn # e.gn
          BY <2>4, <3>2, <3>8, <4>1 DEF Twin
        <4> QED BY <2>3, <4>1, <4>2
      <3> QED BY <1>0, <2>1, <2>2, <2>4, <3>3, <3>6, <3>7, <3>8 DEF e
    <2> QED BY <2>5, <2>6
  <1>5. CASE Plain(e)
    <2>1. ~Tells(e) /\ \A gn : ~Drops(e, gn)
      BY <1>5 DEF Plain, Tells, Drops
    <2>2. /\ IsSeq(cmds') /\ IsSeq(groups') /\ Len(groups') = n
          /\ \A i \in 1..n : /\ groups'[i].gn = groups[i].gn /\ groups'[i].name = groups[i].name
                             /\ IsEntry(groups'[i])
          /\ leftover' = leftover
      <3>1. CASE IsInvite(e)
        <4>1. OnInvite(e)
          BY <3>1 DEF TakeEvent, IsInvite
        <4> QED BY <1>1, <4>1 DEF OnInvite, Base
      <3>2. CASE ~IsInvite(e)
        <4>1. OnGroup(e)
          BY <1>5, <3>2 DEF TakeEvent, Plain, IsInvite
        <4>2. IsSeq(cmds') /\ leftover' = leftover
          <5>1. cmds' = cmds \/ \E c : cmds' = Append(cmds, c)
            BY <4>1 DEF OnGroup, Sync
          <5>2. IsSeq(cmds) /\ \A c : IsSeq(Append(cmds, c))
            BY AppendIsSeq DEF Base
          <5> QED BY <4>1, <5>1, <5>2 DEF OnGroup
        <4>3. CASE e.gn \notin Listed
          <5>1. groups' = groups
            BY <4>1, <4>3 DEF OnGroup
          <5> QED BY <1>1, <4>2, <5>1
        <4>4. CASE e.gn \in Listed
          <5> DEFINE a == At(e.gn)
                     u == Updated(groups[a], e)
          <5>1. groups' = [groups EXCEPT ![a] = u]
            BY <4>1, <4>4 DEF OnGroup
          <5>2. a \in 1..n
            BY <1>1, <4>4, AtFinds
          <5>3. IsEntry(u) /\ u.gn = groups[a].gn /\ u.name = groups[a].name
            BY <1>1, <1>5, <3>2, <5>2, UpdatedEntry
          <5> HIDE DEF e, a, u
          <5>4. groups = [i \in 1..n |-> groups[i]] /\ DOMAIN groups = 1..n
            BY <1>1 DEF IsSeq
          <5>5. /\ DOMAIN groups' = 1..n /\ groups' = [i \in 1..n |-> groups'[i]]
                /\ groups'[a] = u /\ \A i \in 1..n : i # a => groups'[i] = groups[i]
            BY <5>1, <5>2, <5>4
          <5>6. IsSeq(groups') /\ Len(groups') = n
            BY <1>1, <5>5, IsSeqOf
          <5> QED BY <1>1, <4>2, <5>3, <5>5, <5>6
        <4> QED BY <4>3, <4>4
      <3> QED BY <3>1, <3>2
    <2> HIDE DEF e
    <2>3. \A gn : Shows(groups, gn) => Shows(groups', gn)
      BY <2>2 DEF Shows
    <2> QED BY <1>0, <2>1, <2>2, <2>3 DEF e
  <1> QED BY <1>2, <1>3, <1>4, <1>5

-----------------------------------------------------------------------------
(* The invariant of the list                                               *)

ListInv ==
    /\ Base
    /\ UpSaid(core, evs, groups)

\* Counting leaves the counters counters, and a kick is not forgotten.
LEMMA CountsOK ==
    ASSUME Base, Counts, setup' = setup
    PROVE  /\ setup' \in Setups /\ left' \in [Happenings -> Nat]
           /\ left'["selfkicks"] <= setup'.left["selfkicks"]
           /\ Kicked => Kicked'
  <1> DEFINE b == setup.left["selfkicks"]
  <1>1. /\ setup \in Setups /\ left \in [Happenings -> Nat] /\ left["selfkicks"] <= b /\ b \in Nat
        /\ "selfkicks" \in Happenings /\ setup'.left["selfkicks"] = b
    BY GroupsAssumption DEF Base, Happenings
  <1> HIDE DEF b
  <1>2. CASE left' = left
    BY <1>1, <1>2 DEF Kicked, b
  <1>3. CASE \E k \in Happenings : Spend(k)
    <2>1. PICK k \in Happenings : left[k] > 0 /\ left' = [left EXCEPT ![k] = left[k] - 1]
      BY <1>3 DEF Spend
    <2>2. left[k] \in Nat /\ left[k] - 1 \in Nat
      BY <1>1, <2>1
    <2>3. left' \in [Happenings -> Nat]
      BY <1>1, <2>1, <2>2
    <2> DEFINE x == left["selfkicks"]
               y == left'["selfkicks"]
    <2>4. x \in Nat /\ y \in Nat /\ (y = x \/ y = x - 1)
      BY <1>1, <2>1, <2>3
    <2>5. x <= b
      BY <1>1
    <2> HIDE DEF x, y
    <2>6. y <= b /\ (x # b => y # b)
      BY <1>1, <2>4, <2>5
    <2> QED BY <1>1, <2>3, <2>6 DEF Kicked, x, y, b
  <1> QED BY <1>2, <1>3 DEF Counts

\* One record is changed.
LEMMA BecomesOK ==
    ASSUME NoneIsNoGroup, Base, NEW gn, NEW g, Becomes(gn, g)
    PROVE  /\ core' = [m \in Numbers |-> core'[m]]
           /\ \A m \in Numbers : core'[m] # None => IsGroup(core'[m])
           /\ gn \in Numbers /\ core'[gn] = g /\ g # None
           /\ \A m \in Numbers : m # gn => core'[m] = core[m]
  <1>1. /\ gn \in Numbers /\ IsGroup(g) /\ core' = [core EXCEPT ![gn] = g]
        /\ core = [m \in Numbers |-> core[m]]
        /\ \A m \in Numbers : core[m] # None => IsGroup(core[m])
    BY DEF Becomes, Base
  <1>2. g # None
    BY <1>1, GroupIsSome
  <1> QED BY <1>1, <1>2

\* One more event of a known kind.
LEMMA KnownMore ==
    ASSUME Base, NEW e, Tells(e) \/ Plain(e) \/ (\E gn : Drops(e, gn)), evs' = Append(evs, e)
    PROVE  /\ IsSeq(evs')
           /\ \A i \in 1..Len(evs') : Tells(evs'[i]) \/ Plain(evs'[i]) \/ \E gn : Drops(evs'[i], gn)
  <1> DEFINE n == Len(evs)
  <1>1. /\ n \in Nat /\ IsSeq(evs') /\ Len(evs') = n + 1 /\ evs'[n + 1] = e
        /\ \A i \in 1..n : evs'[i] = evs[i]
    <2>1. IsSeq(evs) /\ n \in Nat
      BY DEF Base, IsSeq
    <2> QED BY <2>1, AppendIsSeq
  <1>2. \A i \in 1..n : Tells(evs[i]) \/ Plain(evs[i]) \/ \E gn : Drops(evs[i], gn)
    BY DEF Base
  <1>3. \A i \in 1..Len(evs') : i = n + 1 \/ i \in 1..n
    BY <1>1
  <1> QED BY <1>1, <1>2, <1>3

\* An event that is of no concern to the list.
LEMMA PlainEvent ==
    ASSUME NEW e, Plain(e)
    PROVE  ~Tells(e) /\ \A gn : ~Drops(e, gn)
  BY DEF Plain, Tells, Drops

\* Steps of the tox thread and of the user.
LEMMA EngineStepOK ==
    ASSUME NoneIsNoGroup, ListInv, EngineStep, Counts, IsSeq(cmds')
    PROVE  /\ ListInv'
           /\ ~Kicked' /\ SaidTrue(core, evs, groups, leftover) => SaidTrue(core', evs', groups', leftover')
  <1>0. /\ UNCHANGED <<setup, booted, groups, leftover>> /\ IsSeq(evs) /\ Base /\ UpSaid(core, evs, groups)
    BY DEF EngineStep, ListInv, Base
  <1>1. /\ setup' \in Setups /\ left' \in [Happenings -> Nat]
        /\ left'["selfkicks"] <= setup'.left["selfkicks"]
    BY <1>0, CountsOK
  <1> DEFINE TableOK == /\ core' = [m \in Numbers |-> core'[m]]
                        /\ \A m \in Numbers : core'[m] # None => IsGroup(core'[m])
             EventsOK == /\ IsSeq(evs')
                         /\ \A i \in 1..Len(evs') :
                               Tells(evs'[i]) \/ Plain(evs'[i]) \/ \E gn : Drops(evs'[i], gn)
             Follows == /\ UpSaid(core', evs', groups)
                        /\ ~Kicked' /\ SaidTrue(core, evs, groups, leftover) => SaidTrue(core', evs', groups, leftover)
  <1>2. ASSUME booted, TableOK, EventsOK PROVE Base'
    BY <1>0, <1>1, <1>2 DEF Base
  <1>3. CASE UNCHANGED <<core, evs>>
    <2>1. Base'
      BY <1>0, <1>1, <1>3 DEF Base
    <2>2. UpSaid(core, evs, groups)'
      <3>1. UpSaid(core', evs', groups')
        BY <1>0, <1>3
      <3> QED BY <3>1
    <2> QED BY <1>0, <1>3, <2>1, <2>2 DEF ListInv
  <1>4. ASSUME booted, TableOK, EventsOK, Follows
        PROVE  /\ ListInv'
               /\ ~Kicked' /\ SaidTrue(core, evs, groups, leftover) => SaidTrue(core', evs', groups', leftover')
    <2>1. Base'
      BY <1>2, <1>4
    <2>2. UpSaid(core', evs', groups')
      BY <1>0, <1>4
    <2>3. UpSaid(core, evs, groups)'
      BY <2>2
    <2> QED BY <1>0, <1>4, <2>1, <2>3 DEF ListInv
  <1>5. ASSUME Touched PROVE TableOK /\ EventsOK /\ Follows
    <2>1. /\ TableOK
          /\ \A gn, name : Is(core, gn, name) => Is(core', gn, name)
          /\ \A gn \in Numbers : Up(core', gn) => Up(core, gn)
      <3>1. CASE core' = core
        BY <1>0, <3>1 DEF Base
      <3>2. CASE \E gn \in Numbers : \E g :
                    Becomes(gn, g) /\ core[gn] # None /\ g.chat = core[gn].chat
                    /\ g.state = core[gn].state
        <4>1. PICK gn, g :
                    gn \in Numbers /\ Becomes(gn, g) /\ core[gn] # None /\ g.chat = core[gn].chat
                    /\ g.state = core[gn].state
          BY <3>2
        <4>2. TableOK /\ core'[gn] = g /\ g # None
              /\ \A m \in Numbers : m # gn => core'[m] = core[m]
          BY <1>0, <4>1, BecomesOK
        <4> HIDE DEF TableOK
        <4> QED BY <4>1, <4>2 DEF Is, Up
      <3> QED BY <1>5, <3>1, <3>2 DEF Touched
    <2>2. CASE evs' = evs
      <3>1. EventsOK
        BY <1>0, <2>2 DEF Base
      <3>2. UpSaid(core', evs, groups)
        BY <1>0, <2>1, UpKept
      <3>3. SaidTrue(core, evs, groups, leftover) => SaidTrue(core', evs, groups, leftover)
        BY <2>1, SaidKept
      <3> QED BY <2>1, <2>2, <3>1, <3>2, <3>3
    <2>3. CASE \E e : Plain(e) /\ evs' = Append(evs, e)
      <3>1. PICK e : Plain(e) /\ evs' = Append(evs, e)
        BY <2>3
      <3>2. EventsOK
        BY <1>0, <3>1, KnownMore
      <3>3. ~Tells(e) /\ \A gn : ~Drops(e, gn)
        BY <3>1, PlainEvent
      <3>4. UpSaid(core', Append(evs, e), groups)
        BY <1>0, <2>1, <3>3, UpMore
      <3>5. SaidTrue(core, evs, groups, leftover) => SaidTrue(core', Append(evs, e), groups, leftover)
        BY <1>0, <2>1, <3>3, SaidMore
      <3> QED BY <2>1, <3>1, <3>2, <3>4, <3>5
    <2> QED BY <1>5, <2>2, <2>3 DEF Touched
  <1>6. ASSUME Founded PROVE TableOK /\ EventsOK /\ Follows
    <2>1. PICK gn, g : gn \in Numbers /\ Becomes(gn, g) /\ core[gn] = None /\ g.state = "connecting"
      BY <1>6 DEF Founded
    <2>2. TableOK /\ core'[gn] = g /\ g # None
          /\ \A m \in Numbers : m # gn => core'[m] = core[m]
      BY <1>0, <2>1, BecomesOK
    <2>3. evs' = evs /\ EventsOK
      BY <1>0, <1>6 DEF Founded, Base
    <2> HIDE DEF TableOK, EventsOK
    <2>4. /\ \A m, name : Is(core, m, name) => Is(core', m, name)
          /\ \A m \in Numbers : Up(core', m) => Up(core, m)
      BY <2>1, <2>2 DEF Is, Up
    <2>5. UpSaid(core', evs, groups)
      BY <1>0, <2>4, UpKept
    <2>6. SaidTrue(core, evs, groups, leftover) => SaidTrue(core', evs, groups, leftover)
      BY <2>4, SaidKept
    <2> QED BY <2>2, <2>3, <2>5, <2>6
  <1>7. ASSUME Told PROVE TableOK /\ EventsOK /\ Follows
    <2>1. PICK gn, g, e :
            /\ gn \in Numbers /\ Becomes(gn, g) /\ g.state \in {"connecting", "connected"}
            /\ core[gn] = None \/ (g.chat = core[gn].chat)
            /\ Tells(e) /\ e.gn = gn /\ e.name = g.chat /\ evs' = Append(evs, e)
      BY <1>7 DEF Told
    <2>2. TableOK /\ core'[gn] = g /\ g # None
          /\ \A m \in Numbers : m # gn => core'[m] = core[m]
      BY <1>0, <2>1, BecomesOK
    <2>3. EventsOK
      BY <1>0, <2>1, KnownMore
    <2> HIDE DEF TableOK, EventsOK
    <2>4. /\ \A m, name : Is(core, m, name) => Is(core', m, name)
          /\ Is(core', e.gn, e.name)
          /\ \A m \in Numbers : Up(core', m) => Up(core, m) \/ e.gn = m
      BY <2>1, <2>2 DEF Is, Up
    <2>5. \A m : ~Drops(e, m)
      BY <2>1 DEF Tells, Drops
    <2>6. UpSaid(core', Append(evs, e), groups)
      BY <1>0, <2>1, <2>4, <2>5, UpMore
    <2>7. SaidTrue(core, evs, groups, leftover) => SaidTrue(core', Append(evs, e), groups, leftover)
      BY <1>0, <2>4, <2>5, SaidMore
    <2> QED BY <2>1, <2>2, <2>3, <2>6, <2>7
  <1>8. ASSUME Abandoned PROVE TableOK /\ EventsOK /\ Follows
    <2>1. PICK gn, g, e :
            /\ gn \in Numbers /\ Becomes(gn, g) /\ g.state = "leaving" /\ ~Tells(e)
            /\ evs' = Append(evs, e)
            /\ Drops(e, gn) \/ (Plain(e) /\ Kicked')
      BY <1>8 DEF Abandoned
    <2>2. TableOK /\ core'[gn] = g /\ g # None
          /\ \A m \in Numbers : m # gn => core'[m] = core[m]
      BY <1>0, <2>1, BecomesOK
    <2>3. EventsOK
      BY <1>0, <2>1, KnownMore
    <2> HIDE DEF TableOK, EventsOK
    <2>4. \A m : Drops(e, m) => m = gn
      BY <2>1 DEF Plain, Drops
    <2>5. \A m \in Numbers : Up(core', m) => Up(core, m) /\ ~Drops(e, m)
      BY <2>1, <2>2, <2>4 DEF Up
    <2>6. UpSaid(core', Append(evs, e), groups)
      BY <1>0, <2>5, UpMore
    <2>7. ~Kicked' /\ SaidTrue(core, evs, groups, leftover) => SaidTrue(core', Append(evs, e), groups, leftover)
      <3> SUFFICES ASSUME ~Kicked', SaidTrue(core, evs, groups, leftover)
                   PROVE  SaidTrue(core', Append(evs, e), groups, leftover)
        OBVIOUS
      <3>1. Drops(e, gn)
        BY <2>1
      <3>2. \A m, name : Is(core, m, name) /\ ~Drops(e, m) => Is(core', m, name)
        BY <2>2, <3>1 DEF Is
      <3> QED BY <1>0, <2>1, <3>2, SaidMore
    <2> QED BY <2>1, <2>2, <2>3, <2>6, <2>7
  <1>9. ASSUME Deleted PROVE TableOK /\ EventsOK /\ Follows
    <2>1. evs' = evs /\ EventsOK
      BY <1>0, <1>9 DEF Deleted, Base
    <2>2. TableOK
      BY <1>0, <1>9 DEF Deleted, Base
    <2>3. /\ \A m, name : Is(core, m, name) => Is(core', m, name)
          /\ \A m \in Numbers : Up(core', m) => Up(core, m)
      BY <1>9 DEF Is, Up, Deleted
    <2>4. UpSaid(core', evs, groups)
      BY <1>0, <2>3, UpKept
    <2>5. SaidTrue(core, evs, groups, leftover) => SaidTrue(core', evs, groups, leftover)
      BY <2>3, SaidKept
    <2> HIDE DEF TableOK, EventsOK
    <2> QED BY <2>1, <2>2, <2>4, <2>5
  <1> HIDE DEF TableOK, EventsOK, Follows
  <1> QED BY <1>3, <1>4, <1>5, <1>6, <1>7, <1>8, <1>9 DEF EngineStep

\* The i-th number of a set of numbers is one of them.
LEMMA NthFinds ==
    ASSUME NEW N \in Nat, NEW S \in SUBSET (0..(N - 1)), NEW i \in 1..Cardinality(S)
    PROVE  Nth(S, i) \in S
  <1> DEFINE Below(n) == {m \in S : m < n}
             f(n) == Cardinality(Below(n))
             Good == {n \in 0..N : f(n) >= i}
  <1>1. IsFiniteSet(S)
    <2>1. IsFiniteSet(0..(N - 1))
      BY FS_Interval
    <2> QED BY <2>1, FS_Subset
  <1>2. \A n : IsFiniteSet(Below(n)) /\ f(n) \in Nat
    BY <1>1, FS_Subset, FS_CardinalityType
  <1>0. \A m \in S : m \in Nat /\ m < N
    OBVIOUS
  <1>3. Below(0) = {} /\ Below(N) = S
    <2>1. \A m \in S : ~(m < 0) /\ m < N
      BY <1>0
    <2> QED BY <2>1, Zenon
  <1>4. f(0) = 0 /\ f(N) = Cardinality(S) /\ Cardinality(S) \in Nat
    BY <1>1, <1>3, FS_EmptySet, FS_CardinalityType
  <1>5. \A n \in Nat : /\ n \in S => f(n + 1) = f(n) + 1
                       /\ n \notin S => f(n + 1) = f(n)
    <2> TAKE n \in Nat
    <2>1. ASSUME n \in S PROVE f(n + 1) = f(n) + 1
      <3>1. Below(n + 1) = Below(n) \cup {n} /\ n \notin Below(n)
        <4>1. ~(n < n) /\ \A m \in S : m < n + 1 <=> m < n \/ m = n
          BY <1>0
        <4> QED BY <2>1, <4>1, Zenon
      <3> QED BY <1>2, <3>1, FS_AddElement
    <2>2. ASSUME n \notin S PROVE f(n + 1) = f(n)
      <3>1. Below(n + 1) = Below(n)
        <4>1. \A m \in S : m < n + 1 <=> m < n
          BY <1>0, <2>2
        <4> QED BY <4>1, Zenon
      <3> QED BY <3>1
    <2> QED BY <2>1, <2>2
  <1> HIDE DEF f, Below
  <1>6. Good \in SUBSET Nat /\ N \in Good
    BY <1>4
  <1>7. PICK n \in Good : \A m \in Good : n <= m
    BY <1>6, LeastNumber
  <1>8. n \in Nat \ {0} /\ n \in 0..N /\ f(n) >= i
    BY <1>4, <1>7
  <1>9. n - 1 \in 0..N /\ n - 1 \in Nat /\ (n - 1) + 1 = n /\ n - 1 \notin Good
    BY <1>7, <1>8
  <1>10. f(n - 1) \in Nat /\ f(n) \in Nat /\ f(n - 1) < i
    BY <1>2, <1>9
  <1>11. n - 1 \in S /\ f(n) = f(n - 1) + 1
    BY <1>5, <1>8, <1>9, <1>10
  <1>12. f(n - 1) = i - 1
    BY <1>8, <1>10, <1>11
  <1>13. \E m \in S : Cardinality({k \in S : k < m}) = i - 1
    BY <1>11, <1>12 DEF f, Below
  <1> QED BY <1>13 DEF Nth

\* emit_initial_group_list tells of the groups it finds alive.
LEMMA BootOK ==
    ASSUME NoneIsNoGroup, ListInv, emit_initial_group_list
    PROVE  ListInv' /\ SaidTrue(core', evs', groups', leftover')
  <1> DEFINE alive == {gn \in Numbers : Active(gn)}
             n == 2 * Cardinality(alive)
             s == [i \in 1..n |->
                    LET gn == Nth(alive, (i + 1) \div 2) IN
                    IF i % 2 = 1 THEN [ev |-> "joined", gn |-> gn, name |-> core[gn].chat]
                    ELSE [ev |-> "topic", gn |-> gn, topic |-> core[gn].topic]]
  <1>1. /\ ~booted /\ booted' = TRUE /\ evs' = evs \o s
        /\ core' = [gn \in Numbers |-> IF gn \in alive THEN core[gn] ELSE None]
        /\ UNCHANGED <<setup, left, cmds, groups>>
    BY DEF emit_initial_group_list, ui
  <1>2. /\ Base /\ evs = <<>> /\ groups = <<>>
        /\ \A gn \in Numbers : core[gn] # None => core[gn].state \in {"connecting", "dead"}
    BY <1>1 DEF ListInv, Base
  <1>3. Cardinality(alive) \in Nat
    <2>1. IsFiniteSet(Numbers)
      BY GroupsAssumption, FS_Interval DEF Numbers
    <2>2. IsFiniteSet(alive)
      BY <2>1, FS_Subset
    <2> QED BY <2>2, FS_CardinalityType
  <1>4. alive \in SUBSET (0..(MaxGroups - 1)) /\ MaxGroups \in Nat
    BY GroupsAssumption DEF Numbers
  <1>5. \A gn \in alive : gn \in Numbers /\ core[gn] # None /\ core[gn].state = "connecting"
    BY <1>2 DEF Active, Exists
  <1> HIDE DEF alive
  <1>6. n \in Nat
    BY <1>3
  <1>7. \A i \in 1..n : Nth(alive, (i + 1) \div 2) \in alive
    <2> TAKE i \in 1..n
    <2>1. (i + 1) \div 2 \in 1..Cardinality(alive)
      BY <1>3
    <2> QED BY <1>4, <2>1, NthFinds
  <1>8. IsSeq(s) /\ Len(s) = n
    <2> HIDE DEF n
    <2> QED BY <1>6, IsSeqOf
  <1>9. \A i \in 1..n : \/ /\ s[i].ev = "joined" /\ s[i].gn \in alive
                           /\ s[i].name = core[s[i].gn].chat
                        \/ s[i].ev = "topic"
    <2> HIDE DEF n
    <2> QED BY <1>7
  <1> HIDE DEF s, n
  <1>10. /\ IsSeq(evs') /\ Len(evs') = n /\ \A i \in 1..n : evs'[i] = s[i]
    <2>1. /\ IsSeq(evs \o s) /\ Len(evs \o s) = Len(evs) + Len(s)
          /\ \A i \in (Len(evs) + 1)..(Len(evs) + Len(s)) : (evs \o s)[i] = s[i - Len(evs)]
      BY <1>2, <1>8, EmptyIsSeq, ConcatIsSeq
    <2>2. Len(evs) = 0
      BY <1>2
    <2>3. \A i \in 1..n : i \in (0 + 1)..(0 + n) /\ i - 0 = i
      BY <1>6
    <2> QED BY <1>1, <1>6, <1>8, <2>1, <2>2, <2>3
  <1>11. \A gn \in Numbers : /\ gn \in alive => core'[gn] = core[gn]
                             /\ gn \notin alive => core'[gn] = None
    BY <1>1
  <1>12. Base'
    <2>1. \A i \in 1..Len(evs') : Tells(evs'[i]) \/ Plain(evs'[i])
      BY <1>9, <1>10 DEF Tells, Plain
    <2>2. core' = [gn \in Numbers |-> core'[gn]]
      BY <1>1
    <2>3. \A gn \in Numbers : core'[gn] # None => IsGroup(core'[gn])
      BY <1>2, <1>5, <1>11 DEF Base
    <2> QED BY <1>1, <1>2, <1>10, <2>1, <2>2, <2>3 DEF Base
  <1>13. UpSaid(core', evs', groups')
    BY <1>5, <1>11 DEF UpSaid, Up
  <1>14. SaidTrue(core', evs', groups', leftover')
    <2>1. Len(groups') = 0
      BY <1>1, <1>2
    <2>2. \A j \in 1..Len(evs') : Tells(evs'[j]) => Is(core', evs'[j].gn, evs'[j].name)
      BY <1>5, <1>9, <1>10, <1>11 DEF Tells, Is
    <2> QED BY <2>1, <2>2 DEF SaidTrue
  <1>15. UpSaid(core, evs, groups)'
    BY <1>13
  <1> QED BY <1>12, <1>14, <1>15 DEF ListInv

\* Nothing is shown or told at the start.
LEMMA ListInit ==
    ASSUME Init
    PROVE  ListInv /\ SaidTrue(core, evs, groups, leftover)
  <1>1. /\ setup \in Setups /\ left = setup.left /\ booted = FALSE
        /\ core = Saved(setup.saved) /\ cmds = <<>> /\ evs = <<>> /\ groups = <<>>
    BY DEF Init
  <1>2. left \in [Happenings -> Nat] /\ left["selfkicks"] \in Nat
    BY <1>1, GroupsAssumption DEF Happenings
  <1>3. \A gn \in Numbers : core[gn] # None =>
            IsGroup(core[gn]) /\ core[gn].state \in {"connecting", "dead"}
    <2> TAKE gn \in Numbers
    <2> HAVE core[gn] # None
    <2> DEFINE old == setup.saved[gn + 1]
               state == IF old.dead THEN "dead" ELSE "connecting"
               g == NewGroup(old.chat, state, User)
    <2>1. core[gn] = [g EXCEPT !.topic = 1]
      BY <1>1 DEF Saved
    <2>2. IsGroup(g) /\ g.state = state
      BY NewIsGroup
    <2>3. state \in {"connecting", "dead"}
      OBVIOUS
    <2> HIDE DEF g, state
    <2>4. IsGroup([g EXCEPT !.topic = 1]) /\ [g EXCEPT !.topic = 1].state = g.state
      BY <2>2, Retouch
    <2> QED BY <2>1, <2>2, <2>3, <2>4
  <1>4. core = [gn \in Numbers |-> core[gn]]
    BY <1>1 DEF Saved
  <1>5. Base
    <2>1. left["selfkicks"] <= setup.left["selfkicks"]
      BY <1>1, <1>2
    <2>2. IsSeq(cmds) /\ IsSeq(evs) /\ IsSeq(groups) /\ Len(evs) = 0 /\ Len(groups) = 0
      BY <1>1, EmptyIsSeq
    <2>3. /\ \A i \in 1..Len(groups) : IsEntry(groups[i])
          /\ \A i \in 1..Len(evs) : Tells(evs[i]) \/ Plain(evs[i]) \/ \E gn : Drops(evs[i], gn)
      BY <2>2
    <2>4. \A gn \in Numbers : core[gn] # None => IsGroup(core[gn])
      BY <1>3
    <2>5. \A gn \in Numbers : core[gn] # None => core[gn].state \in {"connecting", "dead"}
      BY <1>3
    <2> QED BY <1>1, <1>2, <1>4, <2>1, <2>2, <2>3, <2>4, <2>5, Zenon DEF Base
  <1>6. UpSaid(core, evs, groups)
    BY <1>3 DEF UpSaid, Up
  <1>7. SaidTrue(core, evs, groups, leftover)
    BY <1>1, EmptyIsSeq DEF SaidTrue
  <1> QED BY <1>5, <1>6, <1>7 DEF ListInv

\* The front end takes an event.
LEMMA EventOK ==
    ASSUME ListInv, TakeEvent
    PROVE  /\ ListInv'
           /\ (Kicked' <=> Kicked)
           /\ SaidTrue(core, evs, groups, leftover) => SaidTrue(core', evs', groups', leftover')
  <1>1. Base /\ UpSaid(core, evs, groups) /\ IsSeq(evs)
    BY DEF ListInv, Base
  <1> DEFINE e == Head(evs)
  <1>2. /\ evs # <<>> /\ evs' = Tail(evs) /\ UNCHANGED <<setup, left, booted, core>>
        /\ IsSeq(cmds') /\ IsSeq(groups')
        /\ \A i \in 1..Len(groups') : IsEntry(groups'[i])
        /\ \A gn : Shows(groups, gn) /\ ~Drops(e, gn) => Shows(groups', gn)
        /\ Tells(e) => Shows(groups', e.gn)
        /\ \A gn : gn \notin leftover' => gn \notin leftover
    BY <1>1, EventSteps
  <1>3. Base'
    <2>1. booted
      BY <1>1, <1>2 DEF Base
    <2>2. /\ IsSeq(evs') /\ Len(evs') = Len(evs) - 1 /\ Len(evs) \in Nat
          /\ \A i \in 1..Len(evs') : evs'[i] = evs[i + 1]
      BY <1>1, <1>2, TailIsSeq DEF IsSeq
    <2>3. \A i \in 1..Len(evs') : i + 1 \in 1..Len(evs)
      BY <2>2
    <2>4. \A i \in 1..Len(evs') : Tells(evs'[i]) \/ Plain(evs'[i]) \/ \E gn : Drops(evs'[i], gn)
      BY <1>1, <2>2, <2>3 DEF Base
    <2> QED BY <1>1, <1>2, <2>1, <2>2, <2>4 DEF Base
  <1>4. UpSaid(core, Tail(evs), groups')
    BY <1>1, <1>2, UpTaken
  <1>5. UpSaid(core, evs, groups)'
    BY <1>2, <1>4
  <1>6. Kicked' <=> Kicked
    BY <1>2 DEF Kicked
  <1>7. ASSUME SaidTrue(core, evs, groups, leftover)
        PROVE  SaidTrue(core, Tail(evs), groups', leftover')
    <2>1. \A i \in 1..Len(groups') : groups'[i].gn \notin leftover' =>
             \/ \E k \in 1..Len(groups) :
                   /\ groups[k].gn = groups'[i].gn /\ groups[k].name = groups'[i].name
                   /\ ~Drops(e, groups'[i].gn)
             \/ Tells(e) /\ e.gn = groups'[i].gn /\ e.name = groups'[i].name
      BY <1>1, EventSteps
    <2> QED BY <1>1, <1>2, <1>7, <2>1, SaidTaken
  <1> QED BY <1>2, <1>3, <1>5, <1>6, <1>7 DEF ListInv

\* Every step keeps both parts.
LEMMA ListNext ==
    ASSUME NoneIsNoGroup, ListInv, [Next]_vars
    PROVE  /\ ListInv'
           /\ (~Kicked => SaidTrue(core, evs, groups, leftover))
                => (~Kicked' => SaidTrue(core', evs', groups', leftover'))
  <1>1. CASE UNCHANGED vars
    BY <1>1 DEF vars, ListInv, Base, UpSaid, Kicked
  <1>2. CASE emit_initial_group_list
    BY <1>2, BootOK
  <1>3. CASE TakeCommand \/ Callbacks \/ UserActs
    <2>1. Base
      BY DEF ListInv
    <2>2. EngineStep /\ Counts /\ IsSeq(cmds')
      BY <1>3, <2>1, CommandSteps, CallbackSteps, UserSteps
    <2>3. Kicked => Kicked'
      BY <2>1, <2>2, CountsOK DEF EngineStep
    <2> QED BY <2>2, <2>3, EngineStepOK
  <1>4. CASE TakeEvent
    BY <1>4, EventOK
  <1> QED BY <1>1, <1>2, <1>3, <1>4 DEF Next

\* What is left once nothing is under way.
LEMMA QuietStays ==
    ASSUME evs = <<>>
    PROVE  \A gn : Stays(evs, 0, gn)
  BY DEF Stays

\* Every group toxcore is connected to is listed once nothing is under way: through any
\* leaves, refusals, kicks, double entries and numbers that are used again.
THEOREM ConnectedListed ==
    ASSUME NoneIsNoGroup
    PROVE  Spec => [](Quiet => \A gn \in Numbers : Up(core, gn) => gn \in Listed)
  <1> DEFINE P == Quiet => \A gn \in Numbers : Up(core, gn) => gn \in Listed
  <1>1. ListInv => P
    <2> SUFFICES ASSUME ListInv, Quiet, NEW gn \in Numbers, Up(core, gn)
                 PROVE  gn \in Listed
      OBVIOUS
    <2>1. Len(evs) = 0 /\ UpSaid(core, evs, groups)
      BY DEF Quiet, ListInv
    <2>2. Shows(groups, gn)
      BY <2>1 DEF UpSaid
    <2> QED BY <2>2 DEF Shows, Listed
  <1>2. Init => ListInv
    BY ListInit
  <1>3. ListInv /\ [Next]_vars => ListInv'
    BY ListNext
  <1> HIDE DEF P
  <1>4. Spec => []P
    BY <1>1, <1>2, <1>3, PTL DEF Spec
  <1> QED BY <1>4 DEF P

\* The list is true once nothing is under way: every entry is a group of toxcore's table,
\* under its own name, and every connected group is there, for any groups, invitations,
\* refusals, leaves, double entries and numbers used again; the numbers of which a second
\* entry was left over are excepted by the property itself.
THEOREM ListTold ==
    ASSUME NoneIsNoGroup
    PROVE  Spec => []ListTrue
  <1> DEFINE SInv == ~Kicked => SaidTrue(core, evs, groups, leftover)
  <1>1. ListInv /\ SInv => ListTrue
    <2> SUFFICES ASSUME ListInv, SInv, Quiet
                 PROVE  /\ ~Kicked => \A i \in 1..Len(groups) : groups[i].gn \notin leftover =>
                              Active(groups[i].gn) /\ core[groups[i].gn].chat = groups[i].name
                        /\ \A gn \in Numbers :
                              Active(gn) /\ core[gn].state = "connected" => gn \in Listed
      BY DEF ListTrue
    <2>1. evs = <<>> /\ Len(evs) = 0 /\ UpSaid(core, evs, groups)
      BY DEF Quiet, ListInv
    <2>2. \A gn : Stays(evs, 0, gn)
      BY <2>1, QuietStays
    <2>3. ASSUME ~Kicked, NEW i \in 1..Len(groups), groups[i].gn \notin leftover
          PROVE  Active(groups[i].gn) /\ core[groups[i].gn].chat = groups[i].name
      <3>1. Is(core, groups[i].gn, groups[i].name)
        BY <2>2, <2>3 DEF SaidTrue
      <3> QED BY <3>1 DEF Is, Active, Exists
    <2>4. ASSUME NEW gn \in Numbers, Active(gn), core[gn].state = "connected"
          PROVE  gn \in Listed
      <3>1. Up(core, gn)
        BY <2>4 DEF Active, Exists, Up
      <3>2. Shows(groups, gn)
        BY <2>1, <3>1 DEF UpSaid
      <3> QED BY <3>2 DEF Shows, Listed
    <2> QED BY <2>3, <2>4
  <1>2. Init => ListInv /\ SInv
    BY ListInit
  <1>3. ListInv /\ SInv /\ [Next]_vars => ListInv' /\ SInv'
    <2> SUFFICES ASSUME ListInv, SInv, [Next]_vars
                 PROVE  ListInv' /\ SInv'
      OBVIOUS
    <2>1. ListInv' /\ (~Kicked' => SaidTrue(core', evs', groups', leftover'))
      BY ListNext
    <2> QED BY <2>1
  <1> HIDE DEF SInv
  <1> QED BY <1>1, <1>2, <1>3, PTL DEF Spec
=============================================================================
