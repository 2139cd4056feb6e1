---------------------------- MODULE FileTransfer ----------------------------
(***************************************************************************)
(* File transfers from a sender to a receiver: the transfer table and its  *)
(* handlers in src/tox_thread.c, the index of partial downloads of         *)
(* src/resume.c, and the avatars, which ride on the same callbacks.        *)
(*                                                                         *)
(* A file is Size chunks, each what one chunk request asks for, and a cell *)
(* of a file on disk says which chunk of what it is.  fwrite fills a       *)
(* buffer of the C library that is written when it is full, at fflush and  *)
(* at fclose; a crash loses it.                                            *)
(*                                                                         *)
(* toxcore keeps a transfer at each end, delivers packets in order while   *)
(* the friend is connected and drops both when it is not.  It asks the     *)
(* sender for chunks one after the other and, when all have arrived, for a *)
(* chunk of length 0.  Transfers are numbered and no number is used again. *)
(***************************************************************************)
EXTENDS Integers, Sequences, FiniteSets, SequencesExt

CONSTANTS
    Size,        \* chunks of a file
    Step,        \* chunks between two progress events (256 KiB)
    BufCap,      \* chunks the C library's buffer holds
    MaxXfers,    \* TT_MAX_XFERS
    MaxResume,   \* TT_RESUME_MAX
    Setups       \* the transfers and failures to look at, see Setup

\* files: how many files there are; offers: how often one is sent; avatars: how
\* often the sender's picture is changed; busy: slots of the receiver that other
\* transfers occupy; cancels: the users may cancel and reject; alt: the user may
\* save a file in a second place; twice: a file may be sent again while it is
\* still being sent; drops, restarts, crashes, errors, full, refused: bounds on
\* disconnections, orderly restarts, crashes of the receiver, files that cannot
\* be opened or read, writes that fail and chunks that toxcore refuses
Setup == [files : Nat, offers : Nat, avatars : Nat, busy : Nat, cancels : BOOLEAN,
          alt : BOOLEAN, twice : BOOLEAN, drops : Nat, restarts : Nat, crashes : Nat,
          errors : Nat, full : Nat, refused : Nat]

ASSUME TransferAssumption ==
    /\ {Size, Step, BufCap, MaxXfers, MaxResume} \subseteq Nat \ {0}
    /\ \A x \in Setups : x \in Setup

File == 1..Max({x.files : x \in Setups})
Alt(f) == Cardinality(File) + f
Path == 1..(2 * Cardinality(File))
Picture == {1, 2}

\* transfers: those of files, and up to two offers per change of the picture,
\* one more per reconnection
Id == 1..Max({x.offers + x.avatars + x.drops + x.restarts + x.crashes : x \in Setups})

PictureSize(v) == v

Content(f) == [i \in 1..Size |-> <<"file", f, i>>]
Pixels(v) == [i \in 1..PictureSize(v) |-> <<"avatar", v, i>>]
Hole == <<"hole", 0, 0>>

VARIABLES
    tr,      \* the transfers, at both ends
    toR,     \* packets on the way to the receiver
    toS,     \* packets on the way to the sender
    up,      \* the two are connected
    disk,    \* the receiver's files
    told,    \* for a path, the file that the user was told is complete there
    idx,     \* the receiver's resume_idx
    saved,   \* the receiver's .rsum file
    mine,    \* the sender's avatar and the one it has offered (sent_hash)
    his,     \* the receiver's TTAvatar of the sender
    face,    \* the picture the receiver displays
    spent,   \* how much of each bound is used up
    setup

vars == <<tr, toR, toS, up, disk, told, idx, saved, mine, his, face, spent, setup>>

-----------------------------------------------------------------------------
(* Transfers                                                               *)

\* kind and id: what is transferred, tx: the sender has a TTXfer for it, cs and
\* cr: toxcore's transfer at the sender and at the receiver, pos: chunks
\* requested, rx: the receiver's TTXfer, with its path, got, got_prev and what
\* is in the buffer of its FILE
NoTransfer ==
    [kind |-> "none", id |-> 0, size |-> 0, tx |-> FALSE, cs |-> "none", pos |-> 0,
     cr |-> FALSE, rx |-> "none", path |-> 0, got |-> 0, prev |-> 0, buf |-> <<>>]

NoAvatar == [has |-> FALSE, hash |-> 0, data |-> <<>>, rx |-> FALSE, k |-> 0]

Sending == {k \in Id : tr[k].tx}
Receiving == {k \in Id : tr[k].rx # "none"}
Unused == {k \in Id : tr[k].kind = "none"}
NextId == CHOOSE k \in Unused : \A j \in Unused : k <= j

Packet(op, k) == [op |-> op, k |-> k, n |-> 0, cell |-> Hole]

OnWay(w, op, k) == \E i \in 1..Len(w) : w[i].op = op /\ w[i].k = k

\* tox_file_send of transfer k
Offered(k, kind, id, size) ==
    [NoTransfer EXCEPT !.kind = kind, !.id = id, !.size = size,
                       !.tx = (kind = "file"), !.cs = "waiting"]

\* xfer_alloc: the receiver has no slot for another transfer
TableFull == Cardinality(Receiving) + setup.busy >= MaxXfers

-----------------------------------------------------------------------------
(* src/resume.c                                                            *)

Entry(ix, f) == {i \in 1..Len(ix) : ix[i].id = f}
Bytes(ix, f) == IF Entry(ix, f) = {} THEN 0 ELSE ix[CHOOSE i \in Entry(ix, f) : TRUE].bytes

\* tt_resume_put: an index that is full drops the new entry
tt_resume_put(ix, f, path, bytes) ==
    LET e == [id |-> f, path |-> path, bytes |-> bytes]
    IN  IF Entry(ix, f) # {} THEN [i \in 1..Len(ix) |-> IF ix[i].id = f THEN e ELSE ix[i]]
        ELSE IF Len(ix) >= MaxResume THEN ix
        ELSE Append(ix, e)

\* the count of an entry that is there
SetBytes(ix, f, bytes) ==
    [i \in 1..Len(ix) |-> IF ix[i].id = f THEN [ix[i] EXCEPT !.bytes = bytes] ELSE ix[i]]

\* tt_resume_del: the last entry moves into the hole
tt_resume_del(ix, f) ==
    IF Entry(ix, f) = {} THEN ix
    ELSE LET h == CHOOSE i \in Entry(ix, f) : TRUE
         IN  [i \in 1..(Len(ix) - 1) |-> IF i = h THEN ix[Len(ix)] ELSE ix[i]]

\* the .rsum file: TTRS1 and the entries, written beside the old file and renamed
Mark == [id |-> 0, path |-> 0, bytes |-> 0]

tt_resume_save(ix) == <<Mark>> \o ix

\* as many entries as there is room for, after the mark
tt_resume_load(file) ==
    LET body == SelectSeq(file, LAMBDA e : e # Mark)
    IN  SubSeq(body, 1, Min({Len(body), MaxResume}))

-----------------------------------------------------------------------------
(* Files                                                                   *)

\* the file d after buf was written so that it ends at position end
Written(d, end, buf) ==
    LET from == end - Len(buf)
    IN  [i \in 1..(IF end > Len(d) /\ buf # <<>> THEN end ELSE Len(d)) |->
            IF i > from /\ i <= end THEN buf[i - from]
            ELSE IF i <= Len(d) THEN d[i] ELSE Hole]

\* fclose, fflush
Closed(d, x) == Written(d[x.path], x.got, x.buf)

\* xfer_free of the transfers of ks
AllClosed(ks) ==
    FoldLeft(LAMBDA d, k : IF k \in ks /\ tr[k].rx = "open"
                           THEN [d EXCEPT ![tr[k].path] = Closed(d, tr[k])] ELSE d,
             disk, [i \in Id |-> i])

\* a partial download is worth saving the index for
Partial(x) == x.rx = "open" /\ x.got > 0 /\ x.got < x.size

\* xfer_failed at the receiver, for the transfers of ks
Failed(ks) ==
    /\ disk' = AllClosed(ks)
    /\ saved' = IF \E k \in ks : Partial(tr[k]) THEN tt_resume_save(idx) ELSE saved

Gone(x) == [x EXCEPT !.rx = "none", !.cr = FALSE, !.buf = <<>>]

-----------------------------------------------------------------------------
(* The sender                                                              *)

\* handle_cmd_send_file: without a slot or a connection nothing comes of it
SendFile(f) ==
    /\ spent.offers < setup.offers /\ f <= setup.files
    /\ up /\ Cardinality(Sending) < MaxXfers
    /\ setup.twice \/ \A k \in Sending : tr[k].id # f
    /\ spent' = [spent EXCEPT !.offers = @ + 1]
    /\ tr' = [tr EXCEPT ![NextId] = Offered(NextId, "file", f, Size)]
    /\ toR' = Append(toR, Packet("OFFER", NextId))
    /\ UNCHANGED <<toS, up, disk, told, idx, saved, mine, his, face, setup>>

\* avatar_push_to_friend, once the connection is as in conn
avatar_push_to_friend(m, conn) ==
    IF conn /\ m.has # 0 /\ m.sent # m.has
    THEN /\ tr' = [tr EXCEPT ![NextId] = Offered(NextId, "avatar", m.has, PictureSize(m.has))]
         /\ toR' = Append(toR, Packet("OFFER", NextId))
         /\ mine' = [m EXCEPT !.sent = m.has]
    ELSE mine' = m /\ UNCHANGED <<tr, toR>>

\* TT_CMD_SET_AVATAR
SetAvatar(v) ==
    /\ spent.avatars < setup.avatars
    /\ spent' = [spent EXCEPT !.avatars = @ + 1]
    /\ avatar_push_to_friend([has |-> v, sent |-> 0], up)
    /\ UNCHANGED <<toS, up, disk, told, idx, saved, his, face, setup>>

\* TT_CMD_CLEAR_AVATAR: an offer of length 0, if the friend is there
ClearAvatar ==
    /\ spent.avatars < setup.avatars
    /\ spent' = [spent EXCEPT !.avatars = @ + 1]
    /\ mine' = [has |-> 0, sent |-> 0]
    /\ IF up THEN /\ tr' = [tr EXCEPT ![NextId] = Offered(NextId, "avatar", 0, 0)]
                  /\ toR' = Append(toR, Packet("OFFER", NextId))
       ELSE UNCHANGED <<tr, toR>>
    /\ UNCHANGED <<toS, up, disk, told, idx, saved, his, face, setup>>

\* a chunk that toxcore takes
Serve(k, cell) ==
    /\ tr' = [tr EXCEPT ![k].pos = @ + 1]
    /\ toR' = Append(toR, [Packet("CHUNK", k) EXCEPT !.cell = cell])

\* toxcore asks for the next chunk, one at a time
Asked(k) ==
    tr[k].cs = "flowing" /\ tr[k].pos < tr[k].size /\ ~OnWay(toR, "CHUNK", k)

\* cb_file_chunk_request: the chunk is read and sent; a request that belongs to
\* no TTXfer is answered from the avatar, if there is one of that length
ChunkSent(k) ==
    /\ Asked(k)
    /\ \/ tr[k].tx /\ Serve(k, Content(tr[k].id)[tr[k].pos + 1])
       \/ /\ ~tr[k].tx
          /\ mine.has # 0 /\ tr[k].pos < PictureSize(mine.has)
          /\ Serve(k, Pixels(mine.has)[tr[k].pos + 1])
    /\ UNCHANGED <<toS, up, disk, told, idx, saved, mine, his, face, spent, setup>>

\* cb_file_chunk_request: the file cannot be read, and the transfer is cancelled
ReadFails(k) ==
    /\ Asked(k) /\ tr[k].tx
    /\ spent.errors < setup.errors
    /\ spent' = [spent EXCEPT !.errors = @ + 1]
    /\ tr' = [tr EXCEPT ![k].tx = FALSE, ![k].cs = "none"]
    /\ toR' = Append(toR, Packet("CANCEL", k))
    /\ UNCHANGED <<toS, up, disk, told, idx, saved, mine, his, face, setup>>

\* cb_file_chunk_request: toxcore does not take the chunk; the transfer is given
\* up without a word to the receiver, and toxcore goes on asking
ChunkRefused(k) ==
    /\ Asked(k) /\ tr[k].tx
    /\ spent.refused < setup.refused
    /\ spent' = [spent EXCEPT !.refused = @ + 1]
    /\ tr' = [tr EXCEPT ![k].tx = FALSE]
    /\ UNCHANGED <<toR, toS, up, disk, told, idx, saved, mine, his, face, setup>>

\* mutant: the last chunk is taken for the end
AllSent_early(k) == tr[k].pos + 1 >= tr[k].size

\* toxcore's request of length 0
AllSent(k) == tr[k].pos >= tr[k].size

\* the transfer is complete: xfer_done at the sender
Sent(k) ==
    /\ tr[k].cs = "flowing" /\ AllSent(k) /\ ~OnWay(toR, "CHUNK", k)
    /\ tr' = [tr EXCEPT ![k].tx = FALSE, ![k].cs = "none"]
    /\ UNCHANGED <<toR, toS, up, disk, told, idx, saved, mine, his, face, spent, setup>>

\* TT_CMD_FILE_CANCEL at the sender
CancelSend(k) ==
    /\ setup.cancels /\ tr[k].tx
    /\ tr' = [tr EXCEPT ![k].tx = FALSE, ![k].cs = "none"]
    /\ toR' = Append(toR, Packet("CANCEL", k))
    /\ UNCHANGED <<toS, up, disk, told, idx, saved, mine, his, face, spent, setup>>

\* the receiver's controls: RESUME (with the position of a seek before it) and
\* CANCEL (cb_file_recv_control)
SenderHears ==
    /\ toS # <<>>
    /\ toS' = Tail(toS)
    /\ LET p == Head(toS)
           x == tr[p.k]
       IN  tr' = [tr EXCEPT ![p.k] =
                    CASE x.cs = "waiting" /\ p.op = "RESUME" ->
                            [x EXCEPT !.cs = "flowing", !.pos = p.n]
                      [] x.cs # "none" /\ p.op = "CANCEL" ->
                            [x EXCEPT !.cs = "none", !.tx = FALSE]
                      [] OTHER -> x]
    /\ UNCHANGED <<toR, up, disk, told, idx, saved, mine, his, face, spent, setup>>

-----------------------------------------------------------------------------
(* The receiver                                                            *)

\* mutant: the sender is not told where to go on
Resume_unsought(k, n) == Packet("RESUME", k)

\* tox_file_seek and TOX_FILE_CONTROL_RESUME
Resume(k, n) == [Packet("RESUME", k) EXCEPT !.n = n]

\* xfer_on_offer: a partial download of the file goes on, unless its file cannot
\* be opened any more, and any other is announced
xfer_on_offer(k) ==
    LET x == tr[k]
        n == Bytes(idx, x.id)
        p == idx[CHOOSE i \in Entry(idx, x.id) : TRUE].path
    IN  /\ IF TableFull THEN /\ toS' = Append(toS, Packet("CANCEL", k))
                             /\ UNCHANGED tr
                             /\ UNCHANGED spent
           ELSE IF n > 0 /\ n < x.size
           THEN \/ /\ tr' = [tr EXCEPT ![k].cr = TRUE, ![k].rx = "open", ![k].path = p,
                                       ![k].got = n, ![k].prev = n]
                   /\ toS' = Append(toS, Resume(k, n))
                   /\ UNCHANGED spent
                \/ /\ spent.errors < setup.errors
                   /\ spent' = [spent EXCEPT !.errors = @ + 1]
                   /\ tr' = [tr EXCEPT ![k].cr = TRUE, ![k].rx = "offered"]
                   /\ UNCHANGED toS
           ELSE /\ tr' = [tr EXCEPT ![k].cr = TRUE, ![k].rx = "offered"]
                /\ UNCHANGED <<toS, spent>>
        /\ UNCHANGED <<disk, told, idx, saved, his, face>>

\* mutant: an offer that comes during a transfer is passed over
avatar_on_offer_waits(k) ==
    LET x == tr[k]
    IN  /\ IF his.rx THEN UNCHANGED <<tr, toS, his, face>>
           ELSE IF x.size = 0
           THEN his' = NoAvatar /\ face' = 0 /\ toS' = Append(toS, Packet("CANCEL", k))
                /\ UNCHANGED tr
           ELSE /\ his' = [his EXCEPT !.rx = TRUE, !.k = k, !.data = <<>>, !.hash = x.id]
                /\ tr' = [tr EXCEPT ![k].cr = TRUE]
                /\ toS' = Append(toS, Resume(k, 0))
                /\ UNCHANGED face
        /\ UNCHANGED <<disk, told, idx, saved>>

\* avatar_on_offer: the offer of nothing removes the picture, a known one is
\* refused, any other replaces what is being received
avatar_on_offer(k) ==
    LET x == tr[k]
    IN  /\ IF x.size = 0
           THEN his' = NoAvatar /\ face' = 0 /\ toS' = Append(toS, Packet("CANCEL", k))
                /\ UNCHANGED tr
           ELSE IF his.has /\ his.hash = x.id
           THEN toS' = Append(toS, Packet("CANCEL", k)) /\ UNCHANGED <<tr, his, face>>
           ELSE /\ his' = [his EXCEPT !.rx = TRUE, !.k = k, !.data = <<>>, !.hash = x.id]
                /\ tr' = [tr EXCEPT ![k].cr = TRUE]
                /\ toS' = Append(toS, Resume(k, 0))
                /\ UNCHANGED face
        /\ UNCHANGED <<disk, told, idx, saved>>

\* fwrite of one chunk: the buffer is written when it is full
Put(x, cell) ==
    [x EXCEPT !.got = @ + 1,
              !.buf = IF Len(@) + 1 >= BufCap THEN <<>> ELSE Append(@, cell)]

PutDisk(x, cell) ==
    IF Len(x.buf) + 1 >= BufCap
    THEN [disk EXCEPT ![x.path] = Written(@, x.got + 1, Append(x.buf, cell))]
    ELSE disk

\* xfer_progress, without the last chunk: a step was crossed
Due(got, prev) == got \div Step # prev \div Step

\* cb_file_recv_chunk of a file that is not yet complete
ChunkWritten(k, cell) ==
    LET x   == tr[k]
        y   == Put(x, cell)
        ix  == SetBytes(idx, x.id, y.got)
        due == Due(y.got, x.prev)
    IN  /\ x.got + 1 < x.size
        /\ tr' = [tr EXCEPT ![k] = IF due THEN [y EXCEPT !.prev = y.got] ELSE y]
        /\ disk' = PutDisk(x, cell)
        /\ idx' = ix
        /\ saved' = IF due THEN tt_resume_save(ix) ELSE saved
        /\ UNCHANGED <<toS, told, his, face, spent>>

\* cb_file_recv_chunk of the last chunk: xfer_done
LastChunk(k, cell) ==
    LET x == tr[k]
        y == [x EXCEPT !.got = @ + 1, !.buf = Append(@, cell)]
    IN  /\ x.got + 1 = x.size
        /\ disk' = [disk EXCEPT ![x.path] = Closed(disk, y)]
        /\ idx' = tt_resume_del(idx, x.id)
        /\ saved' = tt_resume_save(tt_resume_del(idx, x.id))
        /\ told' = [told EXCEPT ![x.path] = x.id]
        /\ tr' = [tr EXCEPT ![k] = [Gone(y) EXCEPT !.got = y.got]]
        /\ UNCHANGED <<toS, his, face, spent>>

\* the chunk cannot be written and the transfer is cancelled; what was in the
\* buffer may be written when the file is closed, or is lost as well
WriteFails(k) ==
    /\ spent.full < setup.full
    /\ spent' = [spent EXCEPT !.full = @ + 1]
    /\ disk' \in {AllClosed({k}), disk}
    /\ saved' = IF Partial(tr[k]) THEN tt_resume_save(idx) ELSE saved
    /\ tr' = [tr EXCEPT ![k] = Gone(tr[k])]
    /\ toS' = Append(toS, Packet("CANCEL", k))
    /\ UNCHANGED <<told, idx, his, face>>

\* the last chunk is taken and the final fflush fails: the transfer has failed,
\* and the sender is not told
FlushFails(k) ==
    /\ tr[k].got + 1 = tr[k].size
    /\ spent.full < setup.full
    /\ spent' = [spent EXCEPT !.full = @ + 1]
    /\ disk' \in {AllClosed({k}), disk}
    /\ idx' = SetBytes(idx, tr[k].id, tr[k].size)
    /\ tr' = [tr EXCEPT ![k] = Gone(tr[k])]
    /\ UNCHANGED <<toS, told, saved, his, face>>

\* a chunk of the picture that is being received; the last one is verified
PixelChunk(k, cell) ==
    LET data == Append(his.data, cell)
        last == Len(data) = tr[k].size
    IN  /\ IF ~(his.rx /\ his.k = k) THEN UNCHANGED <<his, face>>
           ELSE IF ~last THEN his' = [his EXCEPT !.data = data] /\ UNCHANGED face
           ELSE IF data = Pixels(his.hash)
           THEN his' = [his EXCEPT !.data = data, !.rx = FALSE, !.has = TRUE] /\ face' = his.hash
           ELSE his' = NoAvatar /\ face' = 0
        /\ tr' = [tr EXCEPT ![k].got = @ + 1, ![k].cr = (tr[k].got + 1 < tr[k].size)]
        /\ UNCHANGED <<toS, disk, told, idx, saved, spent>>

\* cb_file_recv_chunk
Chunk(k, cell) ==
    /\ tr[k].cr
    /\ IF tr[k].kind = "avatar" THEN PixelChunk(k, cell)
       ELSE /\ tr[k].rx = "open"
            /\ ChunkWritten(k, cell) \/ LastChunk(k, cell) \/ WriteFails(k) \/ FlushFails(k)

\* cb_file_recv_control: CANCEL
Cancelled(k) ==
    /\ tr[k].cr
    /\ IF tr[k].rx = "none" THEN UNCHANGED <<disk, saved>> ELSE Failed({k})
    /\ tr' = [tr EXCEPT ![k] = Gone(tr[k])]
    /\ his' = IF his.rx /\ his.k = k THEN [his EXCEPT !.rx = FALSE] ELSE his
    /\ UNCHANGED <<toS, told, idx, face, spent>>

ReceiverHears ==
    /\ toR # <<>>
    /\ toR' = Tail(toR)
    /\ LET p == Head(toR)
           ignored == p.op # "OFFER" /\ ~tr[p.k].cr
       IN  \/ p.op = "OFFER" /\ tr[p.k].kind = "file" /\ xfer_on_offer(p.k)
           \/ p.op = "OFFER" /\ tr[p.k].kind = "avatar" /\ avatar_on_offer(p.k) /\ UNCHANGED spent
           \/ p.op = "CHUNK" /\ Chunk(p.k, p.cell)
           \/ p.op = "CANCEL" /\ Cancelled(p.k)
           \/ ignored /\ UNCHANGED <<tr, toS, disk, told, idx, saved, his, face, spent>>
    /\ UNCHANGED <<up, mine, setup>>

\* handle_cmd_file_accept: what is already in the file is kept, unless it is
\* all of it or more
Accept(k, path) ==
    LET x == tr[k]
        n == IF Len(disk[path]) < x.size THEN Len(disk[path]) ELSE 0
    IN  /\ x.rx = "offered"
        /\ path \in {x.id} \cup (IF setup.alt THEN {Alt(x.id)} ELSE {})
        /\ disk' = IF n = 0 THEN [disk EXCEPT ![path] = <<>>] ELSE disk
        /\ told' = [told EXCEPT ![path] = 0]
        /\ idx' = tt_resume_put(idx, x.id, path, n)
        /\ tr' = [tr EXCEPT ![k].rx = "open", ![k].path = path, ![k].got = n, ![k].prev = n]
        /\ toS' = Append(toS, Resume(k, n))
        /\ UNCHANGED <<toR, up, saved, mine, his, face, spent, setup>>

\* mutant: the sender is not told
Stopped_silent(k) == toS

\* TOX_FILE_CONTROL_CANCEL
Stopped(k) == Append(toS, Packet("CANCEL", k))

\* handle_cmd_file_reject, TT_CMD_FILE_CANCEL, and an accept whose file cannot
\* be opened
CancelReceive(k) ==
    /\ tr[k].rx # "none"
    /\ \/ setup.cancels /\ UNCHANGED spent
       \/ /\ tr[k].rx = "offered" /\ spent.errors < setup.errors
          /\ spent' = [spent EXCEPT !.errors = @ + 1]
    /\ Failed({k})
    /\ tr' = [tr EXCEPT ![k] = Gone(tr[k])]
    /\ toS' = Stopped(k)
    /\ UNCHANGED <<toR, up, told, idx, mine, his, face, setup>>

-----------------------------------------------------------------------------
(* Connections and processes                                               *)

\* both ends have lost their transfers (toxcore, xfer_all_purge)
Purged == [k \in Id |-> [Gone(tr[k]) EXCEPT !.tx = FALSE, !.cs = "none"]]

LinkLost == up' = FALSE /\ toR' = <<>> /\ toS' = <<>> /\ tr' = Purged

\* cb_friend_connection, offline
Disconnect ==
    /\ up
    /\ spent.drops < setup.drops
    /\ spent' = [spent EXCEPT !.drops = @ + 1]
    /\ LinkLost /\ Failed(Receiving)
    /\ UNCHANGED <<told, idx, mine, his, face, setup>>

\* cb_friend_connection, online
Reconnect ==
    /\ ~up
    /\ up' = TRUE
    /\ avatar_push_to_friend(mine, TRUE)
    /\ UNCHANGED <<toS, disk, told, idx, saved, his, face, spent, setup>>

\* an orderly end of the receiver and its next start: the index is saved, the
\* files are closed; friends' pictures are kept in memory only
RestartReceiver ==
    /\ spent.restarts < setup.restarts
    /\ spent' = [spent EXCEPT !.restarts = @ + 1]
    /\ LinkLost
    /\ disk' = AllClosed(Receiving)
    /\ saved' = tt_resume_save(idx) /\ idx' = tt_resume_load(saved')
    /\ his' = NoAvatar /\ face' = 0
    /\ UNCHANGED <<told, mine, setup>>

\* the same at the sender, whose picture is read back; the receiver sees it go
RestartSender ==
    /\ spent.restarts < setup.restarts
    /\ spent' = [spent EXCEPT !.restarts = @ + 1]
    /\ LinkLost /\ Failed(Receiving)
    /\ mine' = [mine EXCEPT !.sent = 0]
    /\ UNCHANGED <<told, idx, his, face, setup>>

\* the receiver crashes: the buffers are lost, the index is what was saved
Crash ==
    /\ spent.crashes < setup.crashes
    /\ spent' = [spent EXCEPT !.crashes = @ + 1]
    /\ LinkLost
    /\ idx' = tt_resume_load(saved)
    /\ his' = NoAvatar /\ face' = 0
    /\ UNCHANGED <<disk, told, saved, mine, setup>>

Init ==
    /\ tr = [k \in Id |-> NoTransfer]
    /\ toR = <<>> /\ toS = <<>> /\ up = TRUE
    /\ disk = [p \in Path |-> <<>>] /\ told = [p \in Path |-> 0]
    /\ idx = <<>> /\ saved = <<>>
    /\ mine = [has |-> 0, sent |-> 0] /\ his = NoAvatar /\ face = 0
    /\ spent = [offers |-> 0, avatars |-> 0, drops |-> 0, restarts |-> 0,
                crashes |-> 0, errors |-> 0, full |-> 0, refused |-> 0]
    /\ setup \in Setups

Next ==
    \/ \E f \in File : SendFile(f)
    \/ \E v \in Picture : SetAvatar(v)
    \/ ClearAvatar
    \/ \E k \in Id : \/ ChunkSent(k) \/ ReadFails(k) \/ ChunkRefused(k) \/ Sent(k)
                     \/ CancelSend(k) \/ CancelReceive(k)
                     \/ \E p \in Path : Accept(k, p)
    \/ SenderHears \/ ReceiverHears
    \/ Disconnect \/ Reconnect \/ RestartReceiver \/ RestartSender \/ Crash

\* toxcore delivers, asks for chunks and reconnects; nothing is assumed of the
\* users
Fairness ==
    /\ WF_vars(SenderHears) /\ WF_vars(ReceiverHears) /\ WF_vars(Reconnect)
    /\ WF_vars(\E k \in Id : ChunkSent(k) \/ Sent(k))

Spec == Init /\ [][Next]_vars /\ Fairness

-----------------------------------------------------------------------------
(* Properties                                                              *)

\* The table and the index are within their arrays and no file is too long.
TypeOK ==
    /\ Cardinality(Sending) <= MaxXfers /\ Cardinality(Receiving) + setup.busy <= MaxXfers
    /\ Len(idx) <= MaxResume /\ Len(saved) <= MaxResume + 1
    /\ \A i, j \in 1..Len(idx) : idx[i].id = idx[j].id => i = j
    /\ \A p \in Path : Len(disk[p]) <= Size
    /\ \A k \in Id : tr[k].got <= tr[k].size /\ Len(tr[k].buf) < BufCap

\* A file that the user was told is complete is the file that was sent,
\* whatever interrupted its transfer before.
ToldTrueEver ==
    \A p \in Path : told[p] # 0 => disk[p] = Content(told[p])

\* what is handed to fwrite reaches the disk, and toxcore takes every chunk
NothingRefused == spent.crashes + spent.full + spent.refused = 0

Opened(f) == {k \in Receiving : tr[k].rx = "open" /\ tr[k].id = f}

\* The index that is there never claims more than the files hold: once the
\* transfers of a file are over, the bytes before the saved position are in the
\* file, and right.
PartialTrueEver ==
    \A r \in ToSet(tt_resume_load(saved)) :
        Opened(r.id) = {} =>
            /\ r.bytes <= Len(disk[r.path])
            /\ \A j \in 1..r.bytes : disk[r.path][j] = Content(r.id)[j]

\* Both, as long as no write and no chunk is refused: lost connections, orderly
\* restarts, cancelled transfers and files that cannot be opened or read leave
\* partial downloads that are what the index says and are continued at the right
\* place, and a file reported complete is the file that was sent.
ToldTrue == NothingRefused => ToldTrueEver /\ PartialTrueEver

\* No transfer is left behind: who still has one in its table is served by a
\* transfer of the other side, or its end is on the way.
NoOrphan ==
    \A k \in Id :
        /\ (tr[k].rx # "none" /\ spent.refused = 0) => tr[k].tx \/ OnWay(toR, "CANCEL", k)
        /\ tr[k].tx => \/ tr[k].cr \/ OnWay(toR, "OFFER", k) \/ OnWay(toS, "CANCEL", k)
                       \/ tr[k].pos = tr[k].size

\* A transfer that was accepted ends, as long as toxcore takes the chunks.
Completes == []<>(\A k \in Id : tr[k].rx # "open" \/ spent.refused > 0)

Undisturbed == spent.drops + spent.restarts + spent.crashes = 0

\* On a connection that lasts, the friend displays the picture that was set
\* last, however the changes overtake the transfers.
AvatarSettles == []<>(Undisturbed => face = mine.has)
=============================================================================
