------------------------------- MODULE Groups -------------------------------
(***************************************************************************)
(* Group chats of one client: what the tox thread makes of toxcore's       *)
(* groups (tox_thread.c) and what the Tk front end shows of them           *)
(* (ui_tk.c).  The two threads exchange commands and events through FIFO   *)
(* queues; toxcore's table of groups, the peers in them and the friends    *)
(* who invite are external and act on their own.  Groups are known by      *)
(* their number only, which toxcore gives to another group after a         *)
(* deletion.  A roster burst (names, roles, own role, settings, topic) is  *)
(* one event, and so are the events a joining peer causes.  Privacy, voice *)
(* state, topic lock and peer limit are one option.                        *)
(***************************************************************************)
EXTENDS Integers, Sequences, FiniteSets, SequencesExt

CONSTANTS
    None,
    MaxGroups,  \* toxcore's table of groups
    MaxPid,     \* largest peer id
    MaxInvites, \* TT_MAX_GROUP_INVITES
    MaxCmds,    \* commands the user has waiting
    MaxEvs,     \* events waiting before the tox thread blocks
    Setups      \* [saved: the groups of the profile, <<[chat, dead]>>; create, ids, invited:
                \*  chats the user creates, joins by id, is invited to; roles: roles peers
                \*  join with; mods: roles other peers give; left: how often each thing
                \*  may happen]

\* What is counted.
Happenings == {"creates", "joins", "invites", "leaves", "fail", "peers", "exits", "mods",
               "selfkicks", "says", "topics", "options", "opens", "ours"}

ASSUME GroupsAssumption ==
    /\ MaxGroups \in Nat \ {0} /\ MaxPid \in Nat /\ MaxInvites \in Nat \ {0}
    /\ MaxCmds \in Nat \ {0} /\ MaxEvs \in Nat \ {0}
    /\ \A s \in Setups : s.left \in [Happenings -> Nat] /\ None \notin s.invited

VARIABLES
    setup, left,
    booted,      \* emit_initial_group_list has run
    core,        \* toxcore's groups, by number
    ginvites,    \* pending invitations: the chat of each slot or None
    overwritten, \* an invitation still pending has been overwritten
    holed,       \* groups in which a roster burst met a gap in the peer ids
    cmds, evs,   \* queues front end -> engine and back
    groups,      \* ui->groups, in the order of the list
    leftover,    \* numbers that were listed twice when one of their entries was taken away
    gi,          \* the invitation dialog: the slot and the chat it shows, or None
    gm           \* the group selected while the members dialog is open, or None

vars == <<setup, left, booted, core, ginvites, overwritten, holed, cmds, evs, groups,
          leftover, gi, gm>>
ui == <<groups, leftover, gi, gm>>
engine == <<booted, core, ginvites, overwritten, holed>>

Numbers == 0..(MaxGroups - 1)
Pids == 0..MaxPid
InviteSlots == 0..(MaxInvites - 1)
Least(S) == CHOOSE n \in S : \A m \in S : n <= m
\* The i-th number of S.
Nth(S, i) == CHOOSE n \in S : Cardinality({m \in S : m < n}) = i - 1

\* Tox_Group_Role, and the Tox_Group_Mod_Event that reports a role.
Founder == 0
Moderator == 1
User == 2
Observer == 3
Kick == 0
ModEvent == [r \in {Moderator, User, Observer} |-> 4 - r]

Spend(k) == left[k] > 0 /\ left' = [left EXCEPT ![k] = @ - 1]

-----------------------------------------------------------------------------
(* toxcore.                                                                *)

Peer(role) == [role |-> role, ignored |-> FALSE, kicked |-> FALSE]
NewGroup(chat, state, self) ==
    [chat |-> chat, state |-> state, peers |-> [p \in {0} |-> Peer(self)],
     topic |-> 0, opt |-> 0]
Exists(gn) == gn \in Numbers /\ core[gn] # None
\* Groups whose callbacks fire: tox_group_leave marks a group, the next tox_iterate deletes it.
Active(gn) == Exists(gn) /\ core[gn].state \in {"connecting", "connected"}
FreeNumbers == {gn \in Numbers : core[gn] = None}
\* A group that is in the table is not joined twice.
CanJoin(chat) == FreeNumbers # {} /\ ~\E gn \in Numbers : Exists(gn) /\ core[gn].chat = chat
\* The peers queries find.
Peers(gn) == {p \in DOMAIN core[gn].peers : ~core[gn].peers[p].kicked}

Saved(s) == [gn \in Numbers |->
    IF gn < Len(s) THEN [NewGroup(s[gn + 1].chat, IF s[gn + 1].dead THEN "dead" ELSE "connecting",
                                  User) EXCEPT !.topic = 1]
    ELSE None]

Init ==
    /\ setup \in Setups /\ left = setup.left
    /\ booted = FALSE
    /\ core = Saved(setup.saved)
    /\ ginvites = [i \in InviteSlots |-> None] /\ overwritten = FALSE
    /\ holed = {}
    /\ cmds = <<>> /\ evs = <<>>
    /\ groups = <<>> /\ leftover = {} /\ gi = None /\ gm = None

-----------------------------------------------------------------------------
(* The tox thread: start, commands.                                        *)

\* An empty string is not sent: a topic of 0 tells the front end nothing.
group_push(e) == evs' = Append(evs, e)

\* Dead groups are left and swept before the numbers are shown to the front end.
emit_initial_group_list ==
    LET alive == {gn \in Numbers : Active(gn)}
    IN  /\ ~booted /\ booted' = TRUE
        /\ core' = [gn \in Numbers |-> IF gn \in alive THEN core[gn] ELSE None]
        /\ evs' = evs \o [i \in 1..(2 * Cardinality(alive)) |->
                            LET gn == Nth(alive, (i + 1) \div 2) IN
                            IF i % 2 = 1 THEN [ev |-> "joined", gn |-> gn, name |-> core[gn].chat]
                            ELSE [ev |-> "topic", gn |-> gn, topic |-> core[gn].topic]]
        /\ UNCHANGED <<setup, left, ginvites, overwritten, holed, cmds, ui>>

handle_cmd_group_create(c) ==
    /\ IF CanJoin(c.chat)
       THEN LET gn == Least(FreeNumbers) IN
            /\ core' = [core EXCEPT ![gn] = NewGroup(c.chat, "connected", Founder)]
            /\ group_push([ev |-> "new", gn |-> gn, name |-> c.chat])
       ELSE UNCHANGED <<core, evs>>
    /\ UNCHANGED <<ginvites, holed>>

\* Nothing is told to the front end until the group answers.
handle_cmd_group_join(c) ==
    /\ core' = IF CanJoin(c.chat)
               THEN [core EXCEPT ![Least(FreeNumbers)] = NewGroup(c.chat, "connecting", User)]
               ELSE core
    /\ UNCHANGED <<evs, ginvites, holed>>

cmd_leave(c) ==
    /\ IF Exists(c.gn) THEN /\ core' = [core EXCEPT ![c.gn].state = "leaving"]
                            /\ group_push([ev |-> "left", gn |-> c.gn])
                       ELSE UNCHANGED <<core, evs>>
    /\ UNCHANGED <<ginvites, holed>>

\* toxcore tells the others only: the engine echoes the new topic.  Observers set none, and
\* the topic lock stops users.
handle_cmd_group_topic(c) ==
    /\ \/ /\ Exists(c.gn) /\ core[c.gn].peers[0].role # Observer
          /\ core' = [core EXCEPT ![c.gn].topic = c.topic]
          /\ group_push([ev |-> "topic", gn |-> c.gn, topic |-> c.topic])
       \/ /\ Exists(c.gn) => core[c.gn].peers[0].role > Moderator
          /\ UNCHANGED <<core, evs>>
    /\ UNCHANGED <<ginvites, holed>>

\* The group is listed at once, and again by cb_group_self_join.
handle_cmd_group_invite_accept(c) ==
    /\ IF ginvites[c.idx] # None /\ CanJoin(ginvites[c.idx])
       THEN LET gn == Least(FreeNumbers) IN
            /\ core' = [core EXCEPT ![gn] = NewGroup(ginvites[c.idx], "connecting", User)]
            /\ group_push([ev |-> "joined", gn |-> gn, name |-> ginvites[c.idx]])
       ELSE UNCHANGED <<core, evs>>
    /\ ginvites' = [ginvites EXCEPT ![c.idx] = None]
    /\ UNCHANGED holed

handle_cmd_group_invite_decline(c) ==
    /\ ginvites' = [ginvites EXCEPT ![c.idx] = None]
    /\ UNCHANGED <<core, evs, holed>>

\* TT_CMD_GROUP_PRIVACY, _VOICE, _TOPIC_LOCK, _PEER_LIMIT: the founder's, without an echo.
cmd_option(c) ==
    /\ core' = IF Exists(c.gn) /\ core[c.gn].peers[0].role = Founder
               THEN [core EXCEPT ![c.gn].opt = c.opt] ELSE core
    /\ UNCHANGED <<evs, ginvites, holed>>

\* We may moderate as the founder; a moderator's rights are not modelled.
MayModerate(gn, pid) ==
    Exists(gn) /\ core[gn].peers[0].role = Founder /\ pid # 0 /\ pid \in Peers(gn)

cmd_role(c) ==
    LET ok == MayModerate(c.gn, c.pid) /\ core[c.gn].peers[c.pid].role # c.role IN
    /\ core' = IF ok THEN [core EXCEPT ![c.gn].peers[c.pid].role = c.role] ELSE core
    /\ group_push([ev |-> "mod_self", gn |-> c.gn, pid |-> c.pid, what |-> ModEvent[c.role],
                   ok |-> ok])
    /\ UNCHANGED <<ginvites, holed>>

\* The peer is marked; it exits at a later tox_iterate.
cmd_kick(c) ==
    LET ok == MayModerate(c.gn, c.pid) IN
    /\ core' = IF ok THEN [core EXCEPT ![c.gn].peers[c.pid].kicked = TRUE] ELSE core
    /\ group_push([ev |-> "mod_self", gn |-> c.gn, pid |-> c.pid, what |-> Kick, ok |-> ok])
    /\ UNCHANGED <<ginvites, holed>>

cmd_ignore(c) ==
    LET ok == Exists(c.gn) /\ c.pid # 0 /\ c.pid \in Peers(c.gn) IN
    /\ core' = IF ok THEN [core EXCEPT ![c.gn].peers[c.pid].ignored = c.on] ELSE core
    /\ group_push([ev |-> "ignore_self", gn |-> c.gn, pid |-> c.pid, on |-> c.on, ok |-> ok])
    /\ UNCHANGED <<ginvites, holed>>

\* The ids a roster burst reaches: it counts from 0 and stops at the first gap.
Dense(gn) == {p \in Peers(gn) : \A q \in 0..p : q \in Peers(gn)}

\* For a number without a group the queries fail and the burst carries their error values.
cmd_sync(c) ==
    /\ group_push(IF Exists(c.gn)
                  THEN [ev |-> "sync", gn |-> c.gn, self |-> core[c.gn].peers[0].role,
                        roles |-> [p \in Dense(c.gn) |-> core[c.gn].peers[p].role],
                        opt |-> core[c.gn].opt, topic |-> core[c.gn].topic]
                  ELSE [ev |-> "sync", gn |-> c.gn, self |-> -1, roles |-> <<>>,
                        opt |-> 0, topic |-> 0])
    /\ holed' = IF Exists(c.gn) /\ Dense(c.gn) # Peers(c.gn) THEN holed \cup {c.gn} ELSE holed
    /\ UNCHANGED <<core, ginvites>>

TakeCommand ==
    /\ booted /\ cmds # <<>> /\ cmds' = Tail(cmds)
    /\ LET c == Head(cmds) IN
       \/ c.cmd = "create"  /\ handle_cmd_group_create(c)
       \/ c.cmd = "join"    /\ handle_cmd_group_join(c)
       \/ c.cmd = "leave"   /\ cmd_leave(c)
       \/ c.cmd = "topic"   /\ handle_cmd_group_topic(c)
       \/ c.cmd = "accept"  /\ handle_cmd_group_invite_accept(c)
       \/ c.cmd = "decline" /\ handle_cmd_group_invite_decline(c)
       \/ c.cmd = "option"  /\ cmd_option(c)
       \/ c.cmd = "role"    /\ cmd_role(c)
       \/ c.cmd = "kick"    /\ cmd_kick(c)
       \/ c.cmd = "ignore"  /\ cmd_ignore(c)
       \/ c.cmd = "sync"    /\ cmd_sync(c)
    /\ UNCHANGED <<setup, left, booted, overwritten, ui>>

-----------------------------------------------------------------------------
(* The tox thread: callbacks of tox_iterate.                               *)

coreRest == <<setup, booted, ginvites, overwritten, cmds, ui>>

cb_group_self_join(gn) ==
    /\ booted /\ Active(gn) /\ core[gn].state = "connecting"
    /\ core' = [core EXCEPT ![gn].state = "connected"]
    /\ group_push([ev |-> "joined", gn |-> gn, name |-> core[gn].chat])
    /\ UNCHANGED <<coreRest, left, holed>>

\* mutant: the dead group is dropped without a word
cb_group_join_fail_silent(gn) ==
    /\ booted /\ Active(gn) /\ core[gn].state = "connecting" /\ Spend("fail")
    /\ core' = [core EXCEPT ![gn].state = "leaving"]
    /\ UNCHANGED <<coreRest, holed, evs>>
cb_group_join_fail(gn) ==
    /\ booted /\ Active(gn) /\ core[gn].state = "connecting" /\ Spend("fail")
    /\ group_push([ev |-> "join_fail", gn |-> gn])
    /\ core' = [core EXCEPT ![gn].state = "leaving"]
    /\ UNCHANGED <<coreRest, holed>>

\* do_gc deletes the groups that were left.
Sweep ==
    LET gone == {gn \in Numbers : Exists(gn) /\ core[gn].state = "leaving"} IN
    /\ gone # {}
    /\ core' = [gn \in Numbers |-> IF gn \in gone THEN None ELSE core[gn]]
    /\ holed' = holed \ gone
    /\ UNCHANGED <<coreRest, left, evs>>

cb_group_peer_join(gn, role) ==
    LET free == Pids \ DOMAIN core[gn].peers
        pid == Least(free)
    IN  /\ booted /\ Active(gn) /\ free # {} /\ Spend("peers")
        /\ core' = [core EXCEPT ![gn].peers =
                      [p \in DOMAIN @ \cup {pid} |-> IF p = pid THEN Peer(role) ELSE @[p]]]
        /\ group_push([ev |-> "peer_join", gn |-> gn, pid |-> pid, role |-> role])
        /\ UNCHANGED <<coreRest, holed>>

Without(f, p) == [q \in DOMAIN f \ {p} |-> f[q]]

\* A peer we kicked exits too.
cb_group_peer_exit(gn, pid) ==
    /\ booted /\ Active(gn) /\ pid \in DOMAIN core[gn].peers \ {0}
    /\ IF core[gn].peers[pid].kicked THEN UNCHANGED left ELSE Spend("exits")
    /\ core' = [core EXCEPT ![gn].peers = Without(@, pid)]
    /\ group_push([ev |-> "peer_exit", gn |-> gn, pid |-> pid])
    /\ UNCHANGED <<coreRest, holed>>

\* Another peer gives a role, or kicks a peer, who then exits.
cb_group_moderation(gn, pid, role) ==
    /\ booted /\ Active(gn) /\ pid \in Peers(gn) /\ core[gn].peers[0].role # Founder
    /\ core[gn].peers[pid].role \notin {Founder, role} /\ Spend("mods")
    /\ core' = [core EXCEPT ![gn].peers[pid].role = role]
    /\ group_push([ev |-> "mod", gn |-> gn, pid |-> pid, what |-> ModEvent[role]])
    /\ UNCHANGED <<coreRest, holed>>
PeerKicked(gn, pid) ==
    /\ booted /\ Active(gn) /\ pid \in Peers(gn) \ {0} /\ core[gn].peers[0].role # Founder
    /\ core[gn].peers[pid].role # Founder /\ Spend("mods")
    /\ core' = [core EXCEPT ![gn].peers[pid].kicked = TRUE]
    /\ group_push([ev |-> "mod", gn |-> gn, pid |-> pid, what |-> Kick])
    /\ UNCHANGED <<coreRest, holed>>
\* We are kicked: the dead group is left at once, so that it can be joined again.
SelfKicked(gn) ==
    /\ booted /\ Active(gn) /\ core[gn].peers[0].role # Founder /\ Spend("selfkicks")
    /\ core' = [core EXCEPT ![gn].state = "leaving"]
    /\ group_push([ev |-> "mod", gn |-> gn, pid |-> 0, what |-> Kick])
    /\ UNCHANGED <<coreRest, holed>>

cb_group_message(gn, pid) ==
    /\ booted /\ Active(gn) /\ pid \in Peers(gn) \ {0} /\ ~core[gn].peers[pid].ignored
    /\ Spend("says")
    /\ group_push([ev |-> "msg", gn |-> gn, pid |-> pid])
    /\ UNCHANGED <<coreRest, holed, core>>

cb_group_topic(gn, topic) ==
    /\ booted /\ Active(gn) /\ Peers(gn) # {0} /\ topic # core[gn].topic /\ Spend("topics")
    /\ core' = [core EXCEPT ![gn].topic = topic]
    /\ group_push([ev |-> "topic", gn |-> gn, topic |-> topic])
    /\ UNCHANGED <<coreRest, holed>>

\* cb_group_privacy_state, _voice_state, _topic_lock, _peer_limit
cb_group_option(gn, opt) ==
    /\ booted /\ Active(gn) /\ Peers(gn) # {0} /\ core[gn].peers[0].role # Founder
    /\ opt # core[gn].opt /\ Spend("options")
    /\ core' = [core EXCEPT ![gn].opt = opt]
    /\ group_push([ev |-> "state", gn |-> gn, opt |-> opt])
    /\ UNCHANGED <<coreRest, holed>>

\* toxcore drops invitations to groups it has.  A full table gives up its first slot.
cb_group_invite(chat) ==
    LET free == {i \in InviteSlots : ginvites[i] = None}
        slot == IF free = {} THEN 0 ELSE Least(free)
    IN  /\ booted /\ chat \in setup.invited /\ CanJoin(chat) /\ Spend("invites")
        /\ ginvites' = [ginvites EXCEPT ![slot] = chat]
        /\ overwritten' = (overwritten \/ free = {})
        /\ group_push([ev |-> "invite", idx |-> slot, name |-> chat])
        /\ UNCHANGED <<setup, booted, core, holed, cmds, ui>>

-----------------------------------------------------------------------------
(* The front end: the user.                                                *)

uiRest == <<setup, engine, evs>>
Post(c) == Len(cmds) < MaxCmds /\ cmds' = Append(cmds, c)
Listed == {groups[i].gn : i \in 1..Len(groups)}
\* The first entry of a number.
At(gn) == Least({i \in 1..Len(groups) : groups[i].gn = gn})
group_by_gn(gn) == groups[At(gn)]

cc_gnew_ok(chat) ==
    /\ chat \in setup.create /\ Spend("creates")
    /\ Post([cmd |-> "create", chat |-> chat]) /\ UNCHANGED <<uiRest, ui>>
cc_gjoin_ok(chat) ==
    /\ chat \in setup.ids /\ Spend("joins")
    /\ Post([cmd |-> "join", chat |-> chat]) /\ UNCHANGED <<uiRest, ui>>
cc_gleave(gn) ==
    /\ gn \in Listed /\ Spend("leaves")
    /\ Post([cmd |-> "leave", gn |-> gn]) /\ UNCHANGED <<uiRest, ui>>
cc_gtopic_ok(gn, topic) ==
    /\ gn \in Listed /\ topic # group_by_gn(gn).topic /\ Spend("topics")
    /\ Post([cmd |-> "topic", gn |-> gn, topic |-> topic]) /\ UNCHANGED <<uiRest, ui>>
cc_gctl(gn, opt) ==
    /\ gn \in Listed /\ group_by_gn(gn).self_role = Founder /\ Spend("options")
    /\ Post([cmd |-> "option", gn |-> gn, opt |-> opt]) /\ UNCHANGED <<uiRest, ui>>
cc_gmembers_open(gn) ==
    /\ gn \in Listed /\ gm # gn /\ Spend("opens") /\ gm' = gn
    /\ UNCHANGED <<uiRest, cmds, groups, leftover, gi>>
\* A row of the dialog may be older than the roster.
cc_grole(gn, pid, role) ==
    /\ gm = gn /\ gn \in Listed /\ group_by_gn(gn).self_role <= Moderator /\ Spend("ours")
    /\ Post([cmd |-> "role", gn |-> gn, pid |-> pid, role |-> role]) /\ UNCHANGED <<uiRest, ui>>
cc_gkick(gn, pid) ==
    /\ gm = gn /\ gn \in Listed /\ group_by_gn(gn).self_role <= Moderator /\ Spend("ours")
    /\ Post([cmd |-> "kick", gn |-> gn, pid |-> pid]) /\ UNCHANGED <<uiRest, ui>>
cc_gignore(gn, pid) ==
    /\ gm = gn /\ gn \in Listed /\ pid \in DOMAIN group_by_gn(gn).members \ {0} /\ Spend("ours")
    /\ Post([cmd |-> "ignore", gn |-> gn, pid |-> pid,
             on |-> ~group_by_gn(gn).members[pid].ignored])
    /\ UNCHANGED <<uiRest, ui>>

\* mutant: the dialog stays open after the answer
Answer_open(kind) ==
    /\ gi # None /\ Post([cmd |-> kind, idx |-> gi.idx, name |-> gi.name])
    /\ UNCHANGED <<uiRest, left, groups, leftover, gm, gi>>
Answer(kind) ==
    /\ gi # None /\ Post([cmd |-> kind, idx |-> gi.idx, name |-> gi.name])
    /\ gi' = None /\ UNCHANGED <<uiRest, left, groups, leftover, gm>>
cc_ginv_yes == Answer("accept")
cc_ginv_no == Answer("decline")
\* The window is closed without an answer: nobody frees the slot.
ginv_close ==
    gi # None /\ gi' = None /\ UNCHANGED <<uiRest, left, cmds, groups, leftover, gm>>

-----------------------------------------------------------------------------
(* The front end: events.                                                  *)

Sync(gn) == cmds' = Append(cmds, [cmd |-> "sync", gn |-> gn])
Entry(e, self) == [gn |-> e.gn, name |-> e.name, members |-> <<>>, self_role |-> self,
                   topic |-> 0, opt |-> 0]
Member(role) == [role |-> role, ignored |-> FALSE]
\* group_member_upsert
Upsert(ms, pid) == IF pid \in DOMAIN ms THEN ms
                   ELSE [p \in DOMAIN ms \cup {pid} |-> IF p = pid THEN Member(User) ELSE ms[p]]

\* mutant: no roster burst is asked for
OnListed_unsynced(e, self) ==
    groups' = Append(groups, Entry(e, self)) /\ UNCHANGED <<cmds, leftover, gi, gm>>
\* TT_EV_GROUP_NEW, _JOINED: group_add appends, whatever is listed already.
OnListed(e, self) ==
    groups' = Append(groups, Entry(e, self)) /\ Sync(e.gn) /\ UNCHANGED <<leftover, gi, gm>>

\* Another entry of the number stays.
Twin(e) == \E i, j \in 1..Len(groups) : i # j /\ groups[i].gn = e.gn /\ groups[j].gn = e.gn

\* TT_EV_GROUP_LEFT, _JOIN_FAIL
OnGone(e) ==
    /\ groups' = IF e.gn \in Listed THEN RemoveAt(groups, At(e.gn)) ELSE groups
    /\ leftover' = IF Twin(e) THEN leftover \cup {e.gn} ELSE leftover
    /\ gm' = IF gm = e.gn THEN None ELSE gm
    /\ UNCHANGED <<cmds, gi>>

OnInvite(e) ==
    /\ gi' = IF gi = None THEN [idx |-> e.idx, name |-> e.name] ELSE gi
    /\ UNCHANGED <<cmds, groups, leftover, gm>>

\* group_push sends no string for an empty topic, and the handler then keeps the old one.
Topic(old, new) == IF new = 0 THEN old ELSE new

\* What an event about a listed group does to its entry.
Updated(g, e) ==
    CASE e.ev = "msg"       -> [g EXCEPT !.members = Upsert(@, e.pid)]
      [] e.ev = "topic"     -> [g EXCEPT !.topic = Topic(@, e.topic)]
      [] e.ev = "state"     -> [g EXCEPT !.opt = e.opt]
      [] e.ev = "peer_join" -> [g EXCEPT !.members = [Upsert(@, e.pid) EXCEPT ![e.pid].role = e.role]]
      [] e.ev = "peer_exit" -> [g EXCEPT !.members = Without(@, e.pid)]
      \* the number of the moderation event is taken for a role
      [] e.ev = "mod"       -> IF e.pid \in DOMAIN g.members /\ e.what # Kick
                               THEN [g EXCEPT !.members[e.pid].role = e.what] ELSE g
      [] e.ev = "mod_self"  -> IF ~e.ok \/ e.pid \notin DOMAIN g.members THEN g
                               ELSE IF e.what = Kick THEN [g EXCEPT !.members = Without(@, e.pid)]
                               ELSE [g EXCEPT !.members[e.pid].role =
                                       CHOOSE r \in DOMAIN ModEvent : ModEvent[r] = e.what]
      [] e.ev = "ignore_self" -> IF e.ok /\ e.pid \in DOMAIN g.members
                                 THEN [g EXCEPT !.members[e.pid].ignored = e.on] ELSE g
      [] e.ev = "sync"      -> [g EXCEPT !.self_role = e.self, !.opt = e.opt,
                                         !.topic = Topic(@, e.topic),
                                         !.members = [p \in DOMAIN @ \cup DOMAIN e.roles |->
                                           IF p \notin DOMAIN e.roles THEN @[p]
                                           ELSE [Upsert(@, p)[p] EXCEPT !.role = e.roles[p]]]]

\* With the members dialog open, a join and a moderation of ours ask for a burst.
OnGroup(e) ==
    /\ groups' = IF e.gn \in Listed THEN [groups EXCEPT ![At(e.gn)] = Updated(@, e)] ELSE groups
    /\ IF e.gn \in Listed /\ gm = e.gn /\ (e.ev = "peer_join" \/ (e.ev = "mod_self" /\ e.ok))
       THEN Sync(e.gn) ELSE UNCHANGED cmds
    /\ UNCHANGED <<leftover, gi, gm>>

TakeEvent ==
    /\ evs # <<>> /\ evs' = Tail(evs)
    /\ LET e == Head(evs) IN
       CASE e.ev = "new"    -> OnListed(e, Founder)
         [] e.ev = "joined" -> OnListed(e, User)
         [] e.ev \in {"left", "join_fail"} -> OnGone(e)
         [] e.ev = "invite" -> OnInvite(e)
         [] OTHER           -> OnGroup(e)
    /\ UNCHANGED <<setup, left, engine>>

-----------------------------------------------------------------------------
Callbacks ==
    \/ Sweep
    \/ \E chat \in setup.invited : cb_group_invite(chat)
    \/ \E gn \in Numbers :
        \/ cb_group_self_join(gn) \/ cb_group_join_fail(gn) \/ SelfKicked(gn)
        \/ Active(gn) /\ \E role \in setup.roles : cb_group_peer_join(gn, role)
        \/ \E t \in {0, 1} : cb_group_topic(gn, t) \/ cb_group_option(gn, t)
        \/ \E pid \in Pids : \/ cb_group_peer_exit(gn, pid) \/ PeerKicked(gn, pid)
                             \/ cb_group_message(gn, pid)
                             \/ \E role \in setup.mods : cb_group_moderation(gn, pid, role)

UserActs ==
    \/ \E chat \in setup.create : cc_gnew_ok(chat)
    \/ \E chat \in setup.ids : cc_gjoin_ok(chat)
    \/ cc_ginv_yes \/ cc_ginv_no \/ ginv_close
    \/ \E gn \in Listed :
        \/ cc_gleave(gn) \/ cc_gmembers_open(gn)
        \/ \E t \in {0, 1} : cc_gtopic_ok(gn, t) \/ cc_gctl(gn, t)
        \/ \E pid \in Pids \ {0} : \/ cc_gkick(gn, pid) \/ cc_gignore(gn, pid)
                                   \/ \E role \in DOMAIN ModEvent : cc_grole(gn, pid, role)

\* tt_queue_push: the tox thread waits while the queue of events is full.
Room == Len(evs) < MaxEvs

Next ==
    \/ emit_initial_group_list
    \/ Room /\ (TakeCommand \/ Callbacks)
    \/ UserActs \/ TakeEvent

Spec == Init /\ [][Next]_vars

-----------------------------------------------------------------------------
(* Properties.                                                             *)

\* An answer to an invitation finds that invitation: between the dialog and the tox thread
\* its slot is neither freed nor given to another group (ui_tk.c cc_ginv_yes,
\* handle_cmd_group_invite_accept), as long as the table has not overflowed.
InviteHonest ==
    ~overwritten => \A i \in 1..Len(cmds) :
        cmds[i].cmd \in {"accept", "decline"} => ginvites[cmds[i].idx] = cmds[i].name

Quiet == booted /\ cmds = <<>> /\ evs = <<>>

\* We were kicked from a group: its entry is not taken away.
Kicked == left["selfkicks"] # setup.left["selfkicks"]

\* When no command and no event is on the way, the list shows every group toxcore is
\* connected to and, as long as we were not kicked, none toxcore has not, each under its own
\* name: after leaves, failed joins, joins by id and by invitation, and numbers given to
\* another group (TT_EV_GROUP_NEW, _JOINED, _LEFT, _JOIN_FAIL).  A restored group and an
\* accepted invitation are listed twice once they connect (group_add is not idempotent, as
\* emit_initial_group_list has it); numbers of which one entry was taken away and the other
\* stayed are excepted.
ListTrue ==
    Quiet => /\ ~Kicked => \A i \in 1..Len(groups) : groups[i].gn \notin leftover =>
                    Active(groups[i].gn) /\ core[groups[i].gn].chat = groups[i].name
             /\ \A gn \in Numbers : Active(gn) /\ core[gn].state = "connected" => gn \in Listed

\* The role r as the roster may show it: once others have moderated, the number of the event
\* that gave it is possible too.
ShownRoles(r) ==
    {r} \cup IF left["mods"] = setup.left["mods"] \/ r = Founder THEN {} ELSE {ModEvent[r]}

\* When no command and no event is on the way, the entry of a group shows who is in it, with
\* their roles and who is ignored, its topic unless that was cleared, and its settings unless
\* we changed them: though joins, exits, moderation and bursts cross, peers come before the
\* group is listed and peer ids are used again (TT_CMD_GROUP_SYNC, TT_EV_GROUP_PEER_*, _MOD,
\* _MOD_SELF).  A role that another peer gave is shown as the number of the moderation event
\* until the next burst.  A burst stops at a gap in the ids; groups where one did are
\* excepted, as are the numbers ListTrue excepts.
RosterTrue ==
    Quiet /\ ~Kicked => \A gn \in (Listed \ holed) \ leftover :
        LET g == group_by_gn(gn) IN
        Active(gn) /\ Peers(gn) = DOMAIN core[gn].peers =>
        /\ DOMAIN g.members = Peers(gn)
        /\ \A p \in Peers(gn) : /\ g.members[p].role \in ShownRoles(core[gn].peers[p].role)
                                /\ g.members[p].ignored = core[gn].peers[p].ignored
        /\ core[gn].topic # 0 => g.topic = core[gn].topic
        /\ g.self_role # Founder => g.opt = core[gn].opt
=============================================================================
