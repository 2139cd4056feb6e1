------------------------------ MODULE MCGroups ------------------------------
(***************************************************************************)
(* Small instances of Groups for TLC.                                      *)
(***************************************************************************)
EXTENDS Groups, TLC

CONSTANTS c1, c2

Nothing == [k \in Happenings |-> 0]
Quietly == [saved |-> <<>>, create |-> {}, ids |-> {}, invited |-> {}, roles |-> {User},
            mods |-> {User}, left |-> Nothing]

\* Groups created, joined by id, refused and left, whose numbers are used again.
ById == [Quietly EXCEPT !.create = {c1}, !.ids = {c1, c2},
           !.left = "creates" :> 1 @@ "joins" :> 2 @@ "leaves" :> 2 @@ "fail" :> 1
                    @@ "peers" :> 2 @@ "exits" :> 1 @@ @]
\* More invitations than slots.
Invited == [Quietly EXCEPT !.invited = {c1, c2},
              !.left = "invites" :> 4 @@ "fail" :> 1 @@ @]
\* Our own group: we moderate and ignore peers who come and go.
Owner == [Quietly EXCEPT !.create = {c1},
            !.left = "creates" :> 1 @@ "peers" :> 3 @@ "exits" :> 1 @@ "ours" :> 2
                     @@ "opens" :> 1 @@ @]
\* ... and change what all see of it.
Topical == [Quietly EXCEPT !.create = {c1},
              !.left = "creates" :> 1 @@ "peers" :> 2 @@ "says" :> 1 @@ "topics" :> 2
                       @@ "options" :> 1 @@ @]
\* A group of the profile reconnects, another one died: others moderate.
Restored == [Quietly EXCEPT !.saved = <<[chat |-> c2, dead |-> TRUE], [chat |-> c1, dead |-> FALSE]>>,
               !.roles = {User, Moderator},
               !.left = "peers" :> 2 @@ "exits" :> 1 @@ "mods" :> 1 @@ "says" :> 1
                        @@ "opens" :> 1 @@ @]
Reset == [Restored EXCEPT !.left = "peers" :> 2 @@ "says" :> 1 @@ "topics" :> 1 @@ "options" :> 1 @@ Nothing]

\* We are kicked and invited again.
Expelled == [Quietly EXCEPT !.invited = {c1}, !.left = "invites" :> 2 @@ "selfkicks" :> 1
                                                       @@ "peers" :> 1 @@ @]

\* A restored group is left, and an invited one gets its number: both are listed twice.
RestoredLeft == [Restored EXCEPT !.saved = <<[chat |-> c1, dead |-> FALSE]>>, !.invited = {c2},
                   !.left = "leaves" :> 2 @@ "invites" :> 1 @@ "peers" :> 1 @@ Nothing]
\* Another peer promotes and demotes.
Promoted == [Restored EXCEPT !.mods = {Moderator, Observer},
               !.left = "peers" :> 1 @@ "mods" :> 2 @@ "opens" :> 1 @@ "topics" :> 1 @@ Nothing]

GroupSetups == {ById, Invited, Owner, Topical, Restored, Reset, Expelled, RestoredLeft, Promoted}
=============================================================================
