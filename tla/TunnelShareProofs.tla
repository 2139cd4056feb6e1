-------------------------- MODULE TunnelShareProofs -------------------------
(***************************************************************************)
(* The tunnels window tells the truth and services do not mix: theorems    *)
(* about TunnelShare for any peers, tables and queues of any length and    *)
(* any number of shares, cuts and datagrams.                               *)
(***************************************************************************)
EXTENDS TunnelShare, QueueLemmas

Event == [ev : {"invite"}, fn : Peers] \cup [ev : {"add", "gone", "live"}, id : Nat]
Command == [cmd : {"share"}, fn : Peers, svc : Nat]
           \cup [cmd : {"accept", "decline"}, fn : Peers]
           \cup [cmd : {"stop"}, id : Nat]
Signal == [sig : {"invite"}, svc : Nat] \cup [sig : {"accept", "decline"}]
Screen == [invite : Peers \cup {None}, panel : SUBSET Nat]
Table == [Slots -> TunnelType \cup {None}]

-----------------------------------------------------------------------------
(* What holds of one peer p: its table tb, its screen u, its queues cs and *)
(* es; sh is the list of shares.                                           *)

\* tunnel tn of p is for the service that was shared with p or by p
OfService(p, tn, sh) ==
    /\ tn.svc \in 1..Len(sh)
    /\ sh[tn.svc] = IF tn.host THEN <<p, tn.fn>> ELSE <<tn.fn, p>>
    /\ tn.host => tn.allow = {tn.fn}
    /\ tn.socks \subseteq tn.allow /\ (~tn.host => tn.allow = {})

\* ids are given once, and a friend has one tunnel at most to us
TableOK(p, tb, n, sh) ==
    /\ \A i \in Slots : tb[i] # None => tb[i].id <= n /\ OfService(p, tb[i], sh)
    /\ \A i, j \in Slots : i # j /\ tb[i] # None /\ tb[j] # None =>
          /\ tb[i].id # tb[j].id
          /\ ~tb[i].host /\ ~tb[j].host => tb[i].fn # tb[j].fn

\* the rows that the panel owes, and the rows it shows once the events are taken
IsRow(tn) == tn # None /\ (tn.host \/ ~tn.pending)
Rows(tb) == {tb[i].id : i \in {j \in Slots : IsRow(tb[j])}}
Is(e, kind, id) == e.ev = kind /\ e.id = id
Showing(panel, es, id) ==
    \/ \E k \in 1..Len(es) : /\ Is(es[k], "add", id)
                             /\ \A j \in 1..Len(es) : j > k => ~Is(es[j], "gone", id)
    \/ id \in panel /\ \A k \in 1..Len(es) : ~Is(es[k], "gone", id)
RowsShown(tb, u, es) == \A id \in Nat : id \in Rows(tb) <=> Showing(u.panel, es, id)

\* invitations come from friends who share with p, shares go to friends of p
Known(p, u, cs, es, sh, pairs) ==
    /\ u.invite # None => <<u.invite, p>> \in pairs
    /\ \A k \in 1..Len(es) : es[k].ev = "invite" => <<es[k].fn, p>> \in pairs
    /\ \A k \in 1..Len(cs) : cs[k].cmd = "share" =>
          cs[k].svc \in 1..Len(sh) /\ sh[cs[k].svc] = <<p, cs[k].fn>>

\* p will see the invitation of q, sees it, or has answered
Asked(q, u, cs, es) ==
    \/ u.invite = q
    \/ \E k \in 1..Len(es) : es[k].ev = "invite" /\ es[k].fn = q
    \/ \E k \in 1..Len(cs) : cs[k].cmd \in {"accept", "decline"} /\ cs[k].fn = q
Waiting(tb, u, cs, es) ==
    \A i \in Slots : tb[i] # None /\ ~tb[i].host /\ tb[i].pending =>
        Asked(tb[i].fn, u, cs, es)

Typed(tb, n, u, cs, es) ==
    /\ tb \in Table /\ n \in Nat /\ u \in Screen /\ cs \in Seq(Command) /\ es \in Seq(Event)
Home(p, tb, n, u, cs, es, sh, pairs) ==
    /\ Typed(tb, n, u, cs, es)
    /\ TableOK(p, tb, n, sh) /\ RowsShown(tb, u, es) /\ Known(p, u, cs, es, sh, pairs)

-----------------------------------------------------------------------------
(* The inductive invariant                                                 *)

\* everybody is invited by one friend at most
OneInviter == \A p, q, r \in Peers : <<q, p>> \in Pairs /\ <<r, p>> \in Pairs => q = r

SignalsOK(w, sh) ==
    /\ w \in [Peers -> [Peers -> Seq(Signal)]]
    /\ \A p, q \in Peers : \A k \in 1..Len(w[q][p]) : w[q][p][k].sig = "invite" =>
          w[q][p][k].svc \in 1..Len(sh) /\ sh[w[q][p][k].svc] = <<q, p>>

SharedOK == setup \in Setups /\ shared \in Seq(Pairs)
Homes == \A p \in Peers :
    Home(p, tunnels[p], tunnel_seq[p], ui[p], cmds[p], evs[p], shared, Pairs)
Functions == /\ DOMAIN tunnels = Peers /\ DOMAIN tunnel_seq = Peers /\ DOMAIN ui = Peers
             /\ DOMAIN cmds = Peers /\ DOMAIN evs = Peers
WaitingOK == OneInviter => \A p \in Peers : Waiting(tunnels[p], ui[p], cmds[p], evs[p])

DatagramsOK ==
    \A d \in lossy : /\ d.from \in Peers /\ d.to \in Peers /\ d.svc \in 1..Len(shared)
                     /\ shared[d.svc] \in {<<d.from, d.to>>, <<d.to, d.from>>}
IInv == SharedOK /\ Functions /\ Homes /\ SignalsOK(wire, shared) /\ DatagramsOK

-----------------------------------------------------------------------------
(* Events and rows                                                         *)

\* A new event decides about its own row only.
LEMMA ShowAdd ==
    ASSUME NEW panel \in SUBSET Nat, NEW es \in Seq(Event), NEW e \in Event,
           NEW fs, fs = Append(es, e), NEW id
    PROVE  Showing(panel, fs, id) <=>
              Is(e, "add", id) \/ (Showing(panel, es, id) /\ ~Is(e, "gone", id))
  <1>1. /\ Len(es) \in Nat /\ Len(fs) = Len(es) + 1 /\ fs[Len(es) + 1] = e
        /\ \A k \in 1..Len(es) : fs[k] = es[k]
    OBVIOUS
  <1>2. ASSUME Is(e, "add", id) PROVE Showing(panel, fs, id)
    <2>1. Len(es) + 1 \in 1..Len(fs) /\ ~(\E j \in 1..Len(fs) : j > Len(es) + 1)
      BY <1>1
    <2> QED BY <1>1, <1>2, <2>1 DEF Showing
  <1>3. ASSUME Is(e, "gone", id) PROVE ~Showing(panel, fs, id)
    <2>1. ~Is(e, "add", id)
      BY <1>3 DEF Is
    <2>2. ASSUME NEW k \in 1..Len(fs), Is(fs[k], "add", id)
          PROVE  Len(es) + 1 \in 1..Len(fs) /\ Len(es) + 1 > k
      BY <1>1, <2>1, <2>2
    <2>3. Len(es) + 1 \in 1..Len(fs)
      BY <1>1
    <2> QED BY <1>1, <1>3, <2>2, <2>3 DEF Showing
  <1>4. ASSUME ~Is(e, "add", id), ~Is(e, "gone", id)
        PROVE  Showing(panel, fs, id) <=> Showing(panel, es, id)
    <2>1. \A k \in 1..Len(fs) : k \in 1..Len(es) \/ fs[k] = e
      BY <1>1
    <2>2. \A k \in 1..Len(es) : k \in 1..Len(fs)
      BY <1>1
    <2>3. (\A k \in 1..Len(fs) : ~Is(fs[k], "gone", id)) <=>
          (\A k \in 1..Len(es) : ~Is(es[k], "gone", id))
      BY <1>1, <1>4, <2>1, <2>2
    <2>4. ASSUME NEW k \in 1..Len(es)
          PROVE  (\A j \in 1..Len(fs) : j > k => ~Is(fs[j], "gone", id)) <=>
                 (\A j \in 1..Len(es) : j > k => ~Is(es[j], "gone", id))
      BY <1>1, <1>4, <2>1, <2>2
    <2> QED BY <1>1, <1>4, <2>1, <2>2, <2>3, <2>4 DEF Showing
  <1> QED BY <1>2, <1>3, <1>4 DEF Is

\* Taking the first event does what was foreseen.
LEMMA ShowTake ==
    ASSUME NEW panel \in SUBSET Nat, NEW es \in Seq(Event), es # <<>>, NEW id,
           NEW q, q \in SUBSET Nat,
           id \in q <=> \/ Is(Head(es), "add", id)
                        \/ id \in panel /\ ~Is(Head(es), "gone", id)
    PROVE  Showing(q, Tail(es), id) <=> Showing(panel, es, id)
  <1> DEFINE ts == Tail(es)
             n == Len(es)
  <1>1. /\ n \in Nat \ {0} /\ Len(ts) = n - 1 /\ Head(es) = es[1]
        /\ \A k \in 1..(n - 1) : ts[k] = es[k + 1]
    OBVIOUS
  <1> HIDE DEF ts, n
  <1>2. \A k \in 1..(n - 1) : k + 1 \in 1..n
    BY <1>1
  <1>3. \A k \in 1..n : k = 1 \/ (k - 1 \in 1..(n - 1) /\ es[k] = ts[k - 1])
    <2> SUFFICES ASSUME NEW k \in 1..n, k # 1 PROVE k - 1 \in 1..(n - 1) /\ es[k] = ts[k - 1]
      OBVIOUS
    <2>1. k - 1 \in 1..(n - 1) /\ (k - 1) + 1 = k
      BY <1>1
    <2> QED BY <1>1, <2>1
  <1>4. 1 \in 1..n
    BY <1>1
  <1>5. ASSUME Showing(q, ts, id) PROVE Showing(panel, es, id)
    <2>1. CASE \E k \in 1..(n - 1) : /\ Is(ts[k], "add", id)
                                     /\ \A j \in 1..(n - 1) : j > k => ~Is(ts[j], "gone", id)
      <3>1. PICK k \in 1..(n - 1) : /\ Is(ts[k], "add", id)
                                    /\ \A j \in 1..(n - 1) : j > k => ~Is(ts[j], "gone", id)
        BY <2>1
      <3>2. ASSUME NEW j \in 1..n, j > k + 1 PROVE ~Is(es[j], "gone", id)
        <4>1. j - 1 \in 1..(n - 1) /\ j - 1 > k /\ es[j] = ts[j - 1]
          BY <1>1, <1>3, <3>2
        <4> QED BY <3>1, <4>1
      <3>3. k + 1 \in 1..n /\ Is(es[k + 1], "add", id)
        BY <1>1, <1>2, <3>1
      <3> QED BY <3>2, <3>3 DEF Showing, n
    <2>2. CASE id \in q /\ \A k \in 1..(n - 1) : ~Is(ts[k], "gone", id)
      <3>1. \A j \in 1..n : j > 1 => ~Is(es[j], "gone", id)
        BY <1>1, <1>3, <2>2
      <3>2. CASE Is(es[1], "add", id)
        BY <1>4, <3>1, <3>2 DEF Showing, n
      <3>3. CASE id \in panel /\ ~Is(es[1], "gone", id)
        <4>1. \A j \in 1..n : ~Is(es[j], "gone", id)
          BY <1>1, <3>1, <3>3
        <4> QED BY <3>3, <4>1 DEF Showing, n
      <3> QED BY <1>1, <2>2, <3>2, <3>3
    <2> QED BY <1>1, <1>5, <2>1, <2>2 DEF Showing
  <1>6. ASSUME Showing(panel, es, id) PROVE Showing(q, ts, id)
    <2>1. CASE \E k \in 1..n : /\ Is(es[k], "add", id)
                               /\ \A j \in 1..n : j > k => ~Is(es[j], "gone", id)
      <3>1. PICK k \in 1..n : /\ Is(es[k], "add", id)
                              /\ \A j \in 1..n : j > k => ~Is(es[j], "gone", id)
        BY <2>1
      <3>2. ASSUME NEW j \in 1..(n - 1), j + 1 > k PROVE ~Is(ts[j], "gone", id)
        BY <1>1, <1>2, <3>1, <3>2
      <3>3. CASE k = 1
        <4>1. id \in q
          BY <1>1, <3>1, <3>3
        <4>2. \A j \in 1..(n - 1) : ~Is(ts[j], "gone", id)
          BY <1>1, <3>2, <3>3
        <4> QED BY <1>1, <4>1, <4>2 DEF Showing
      <3>4. CASE k # 1
        <4>1. k - 1 \in 1..(n - 1) /\ Is(ts[k - 1], "add", id)
          BY <1>3, <3>1, <3>4
        <4>2. \A j \in 1..(n - 1) : j > k - 1 => ~Is(ts[j], "gone", id)
          BY <1>1, <3>2
        <4> QED BY <1>1, <4>1, <4>2 DEF Showing
      <3> QED BY <3>3, <3>4
    <2>2. CASE id \in panel /\ \A k \in 1..n : ~Is(es[k], "gone", id)
      <3>1. id \in q
        BY <1>1, <1>4, <2>2
      <3>2. \A j \in 1..(n - 1) : ~Is(ts[j], "gone", id)
        BY <1>1, <1>2, <2>2
      <3> QED BY <1>1, <3>1, <3>2 DEF Showing
    <2> QED BY <1>6, <2>1, <2>2 DEF Showing, n
  <1> QED BY <1>5, <1>6 DEF ts

\* A change at one slot is a change of its own row only.
LEMMA RowsAt ==
    ASSUME NEW tb \in Table, NEW nb \in Table, NEW i \in Slots,
           \A j \in Slots \ {i} : nb[j] = tb[j], NEW id
    PROVE  /\ IsRow(nb[i]) => nb[i].id \in Rows(nb)
           /\ ~(IsRow(tb[i]) /\ tb[i].id = id) /\ ~(IsRow(nb[i]) /\ nb[i].id = id)
                => (id \in Rows(nb) <=> id \in Rows(tb))
           /\ ~IsRow(nb[i]) /\ (\A j \in Slots \ {i} : tb[j] # None => tb[j].id # id)
                => id \notin Rows(nb)
  <1>1. \A x \in Rows(nb) : \E j \in Slots : IsRow(nb[j]) /\ nb[j].id = x
    BY DEF Rows
  <1>2. \A x \in Rows(tb) : \E j \in Slots : IsRow(tb[j]) /\ tb[j].id = x
    BY DEF Rows
  <1>3. /\ \A j \in Slots : IsRow(nb[j]) => nb[j].id \in Rows(nb)
        /\ \A j \in Slots : IsRow(tb[j]) => tb[j].id \in Rows(tb)
    BY DEF Rows
  <1>4. ASSUME ~(IsRow(tb[i]) /\ tb[i].id = id), ~(IsRow(nb[i]) /\ nb[i].id = id)
        PROVE  id \in Rows(nb) <=> id \in Rows(tb)
    BY <1>1, <1>2, <1>3, <1>4
  <1>5. ASSUME ~IsRow(nb[i]), \A j \in Slots \ {i} : tb[j] # None => tb[j].id # id
        PROVE  id \notin Rows(nb)
    BY <1>1, <1>5 DEF IsRow
  <1> QED BY <1>3, <1>4, <1>5

-----------------------------------------------------------------------------
(* The steps of one peer                                                   *)

\* An event at the end of the queue.
LEMMA EventAdded ==
    ASSUME NEW p, NEW u, NEW cs, NEW es \in Seq(Event), NEW sh, NEW pairs,
           Known(p, u, cs, es, sh, pairs), NEW e \in Event,
           e.ev = "invite" => <<e.fn, p>> \in pairs
    PROVE  /\ Append(es, e) \in Seq(Event)
           /\ Known(p, u, cs, Append(es, e), sh, pairs)
  BY DEF Known

\* tunnel_alloc, with the row of a share or the invitation.
LEMMA HomeAlloc ==
    ASSUME NEW p, NEW tb, NEW n, NEW u, NEW cs, NEW es, NEW sh, NEW pairs,
           Home(p, tb, n, u, cs, es, sh, pairs),
           NEW i \in Slots, tb[i] = None, NEW tn \in TunnelType, tn.id = n + 1, tn.pending,
           OfService(p, tn, sh),
           ~tn.host => \A j \in Slots : tb[j] # None /\ ~tb[j].host => tb[j].fn # tn.fn,
           NEW e \in Event,
           tn.host => Is(e, "add", n + 1),
           ~tn.host => e.ev = "invite" /\ <<e.fn, p>> \in pairs
    PROVE  Home(p, [tb EXCEPT ![i] = tn], n + 1, u, cs, Append(es, e), sh, pairs)
  <1> DEFINE nb == [tb EXCEPT ![i] = tn]
             fs == Append(es, e)
  <1>1. /\ tb \in Table /\ n \in Nat /\ u \in Screen /\ cs \in Seq(Command) /\ es \in Seq(Event)
        /\ TableOK(p, tb, n, sh) /\ RowsShown(tb, u, es) /\ Known(p, u, cs, es, sh, pairs)
    BY DEF Home, Typed
  <1>2. /\ nb \in Table /\ n + 1 \in Nat /\ nb[i] = tn /\ tn # None
        /\ \A j \in Slots \ {i} : nb[j] = tb[j]
    BY <1>1, TunnelShareAssumption DEF Table
  <1>3. fs \in Seq(Event) /\ Known(p, u, cs, fs, sh, pairs)
    <2>1. e.ev = "invite" => <<e.fn, p>> \in pairs
      BY DEF Is
    <2> QED BY <1>1, <2>1, EventAdded
  <1>4. \A j \in Slots : tb[j] # None => tb[j] \in TunnelType /\ tb[j].id <= n
    BY <1>1 DEF TableOK, Table
  <1>5. TableOK(p, nb, n + 1, sh)
    <2>1. ASSUME NEW j \in Slots, nb[j] # None
          PROVE  nb[j].id <= n + 1 /\ OfService(p, nb[j], sh)
      <3>1. CASE j = i
        BY <1>1, <1>2, <3>1
      <3>2. CASE j # i
        <4>1. nb[j] = tb[j] /\ tb[j] # None /\ OfService(p, tb[j], sh) /\ tb[j].id \in Nat
          BY <1>1, <1>2, <1>4, <2>1, <3>2 DEF TableOK, TunnelType
        <4> QED BY <1>1, <1>4, <4>1
      <3> QED BY <3>1, <3>2
    <2>2. ASSUME NEW j \in Slots, tb[j] # None PROVE tb[j].id # n + 1
      <3>1. tb[j].id \in Nat /\ tb[j].id <= n
        BY <1>4, <2>2 DEF TunnelType
      <3> QED BY <1>1, <3>1
    <2>3. ASSUME NEW j \in Slots, NEW k \in Slots, j # k, nb[j] # None, nb[k] # None
          PROVE  nb[j].id # nb[k].id /\ (~nb[j].host /\ ~nb[k].host => nb[j].fn # nb[k].fn)
      <3>1. CASE j = i
        <4>1. nb[k] = tb[k] /\ nb[j] = tn
          BY <1>2, <2>3, <3>1
        <4> QED BY <2>2, <2>3, <4>1
      <3>2. CASE k = i
        <4>1. nb[j] = tb[j] /\ nb[k] = tn
          BY <1>2, <2>3, <3>2
        <4> QED BY <2>2, <2>3, <4>1
      <3>3. CASE j # i /\ k # i
        <4>1. nb[j] = tb[j] /\ nb[k] = tb[k]
          BY <1>2, <3>3
        <4> QED BY <1>1, <2>3, <4>1 DEF TableOK
      <3> QED BY <3>1, <3>2, <3>3
    <2> HIDE DEF nb
    <2> QED BY <2>1, <2>3 DEF TableOK
  <1> HIDE DEF nb
  <1>6. RowsShown(nb, u, fs)
    <2> SUFFICES ASSUME NEW id \in Nat PROVE id \in Rows(nb) <=> Showing(u.panel, fs, id)
      BY DEF RowsShown
    <2>1. u.panel \in SUBSET Nat
      BY <1>1 DEF Screen
    <2>2. Showing(u.panel, fs, id) <=>
              Is(e, "add", id) \/ (Showing(u.panel, es, id) /\ ~Is(e, "gone", id))
      BY <1>1, <2>1, ShowAdd
    <2>3. id \in Rows(tb) <=> Showing(u.panel, es, id)
      BY <1>1 DEF RowsShown
    <2>4. (IsRow(nb[i]) <=> tn.host) /\ ~IsRow(tb[i])
      BY <1>2 DEF IsRow
    <2>5. /\ tn.host => n + 1 \in Rows(nb)
          /\ ~(tn.host /\ n + 1 = id) => (id \in Rows(nb) <=> id \in Rows(tb))
      BY <1>1, <1>2, <2>4, RowsAt
    <2> QED BY <2>2, <2>3, <2>5 DEF Is
  <1> QED BY <1>1, <1>2, <1>3, <1>5, <1>6 DEF Home, Typed, nb

\* tunnel_free, with the row; without one if the tunnel had none.
LEMMA HomeFree ==
    ASSUME NEW p, NEW tb, NEW n, NEW u, NEW cs, NEW es, NEW sh, NEW pairs,
           Home(p, tb, n, u, cs, es, sh, pairs),
           NEW i \in Slots, tb[i] # None, NEW fs,
           \/ fs = Append(es, Row("gone", tb[i].id))
           \/ fs = es /\ ~IsRow(tb[i])
    PROVE  Home(p, [tb EXCEPT ![i] = None], n, u, cs, fs, sh, pairs)
  <1> DEFINE nb == [tb EXCEPT ![i] = None]
             e == Row("gone", tb[i].id)
  <1>1. /\ tb \in Table /\ n \in Nat /\ u \in Screen /\ cs \in Seq(Command) /\ es \in Seq(Event)
        /\ TableOK(p, tb, n, sh) /\ RowsShown(tb, u, es) /\ Known(p, u, cs, es, sh, pairs)
    BY DEF Home, Typed
  <1>2. nb \in Table /\ nb[i] = None /\ \A j \in Slots \ {i} : nb[j] = tb[j]
    BY <1>1 DEF Table
  <1>3. e \in Event /\ e.ev = "gone" /\ e.id = tb[i].id
    BY <1>1 DEF Event, Row, Table, TunnelType
  <1> HIDE DEF nb, e
  <1>4. fs \in Seq(Event) /\ Known(p, u, cs, fs, sh, pairs)
    <2>1. Append(es, e) \in Seq(Event) /\ Known(p, u, cs, Append(es, e), sh, pairs)
      BY <1>1, <1>3, EventAdded
    <2> QED BY <1>1, <2>1 DEF e
  <1>5. TableOK(p, nb, n, sh)
    <2>1. \A j \in Slots : nb[j] # None => nb[j] = tb[j] /\ tb[j] # None
      BY <1>2
    <2> QED BY <1>1, <2>1 DEF TableOK
  <1>6. \A j \in Slots \ {i} : tb[j] # None => tb[j].id # tb[i].id
    BY <1>1 DEF TableOK
  <1>7. RowsShown(nb, u, fs)
    <2> SUFFICES ASSUME NEW id \in Nat PROVE id \in Rows(nb) <=> Showing(u.panel, fs, id)
      BY DEF RowsShown
    <2>1. u.panel \in SUBSET Nat
      BY <1>1 DEF Screen
    <2>2. id \in Rows(tb) <=> Showing(u.panel, es, id)
      BY <1>1 DEF RowsShown
    <2>3. /\ ~(IsRow(tb[i]) /\ tb[i].id = id) => (id \in Rows(nb) <=> id \in Rows(tb))
          /\ id = tb[i].id => id \notin Rows(nb)
      <3>1. ~IsRow(nb[i])
        BY <1>2 DEF IsRow
      <3> QED BY <1>1, <1>2, <1>6, <3>1, RowsAt, SMTT(30)
    <2>4. CASE fs = Append(es, e)
      <3>1. Showing(u.panel, fs, id) <=>
                Is(e, "add", id) \/ (Showing(u.panel, es, id) /\ ~Is(e, "gone", id))
        BY <1>1, <1>3, <2>1, <2>4, ShowAdd
      <3> QED BY <1>3, <2>2, <2>3, <3>1 DEF Is
    <2>5. CASE fs = es /\ ~IsRow(tb[i])
      BY <2>2, <2>3, <2>5
    <2> QED BY <2>4, <2>5 DEF e
  <1> QED BY <1>1, <1>2, <1>4, <1>5, <1>7 DEF Home, Typed, nb

\* What a tunnel keeps as long as it lives.
Same(tn, tm) ==
    /\ tm \in TunnelType
    /\ tm.id = tn.id /\ tm.host = tn.host /\ tm.fn = tn.fn /\ tm.svc = tn.svc
    /\ tm.allow = tn.allow /\ tm.socks \subseteq tn.allow

\* Tunnels that go on.
LEMMA TableGoesOn ==
    ASSUME NEW p, NEW tb \in Table, NEW n, NEW sh, TableOK(p, tb, n, sh), NEW nb,
           nb \in Table,
           \A j \in Slots : IF tb[j] = None THEN nb[j] = None ELSE Same(tb[j], nb[j])
    PROVE  TableOK(p, nb, n, sh)
  <1>1. ASSUME NEW j \in Slots, nb[j] # None
        PROVE  /\ tb[j] # None /\ nb[j].id = tb[j].id /\ nb[j].fn = tb[j].fn
               /\ nb[j].host = tb[j].host /\ OfService(p, nb[j], sh) /\ nb[j].id <= n
    <2>1. tb[j] # None /\ Same(tb[j], nb[j])
      BY <1>1
    <2>2. OfService(p, tb[j], sh) /\ tb[j].id <= n
      BY <2>1 DEF TableOK
    <2> QED BY <2>1, <2>2 DEF Same, OfService
  <1> QED BY <1>1 DEF TableOK

\* Datagrams change neither ids nor rows.
LEMMA HomeSame ==
    ASSUME NEW p, NEW tb, NEW n, NEW u, NEW cs, NEW es, NEW sh, NEW pairs,
           Home(p, tb, n, u, cs, es, sh, pairs), NEW nb, nb \in Table,
           \A j \in Slots : IF tb[j] = None THEN nb[j] = None
                            ELSE Same(tb[j], nb[j]) /\ nb[j].pending = tb[j].pending
    PROVE  Home(p, nb, n, u, cs, es, sh, pairs)
  <1>1. Typed(tb, n, u, cs, es) /\ TableOK(p, tb, n, sh) /\ RowsShown(tb, u, es) /\ tb \in Table
    BY DEF Home, Typed
  <1>2. TableOK(p, nb, n, sh)
    BY <1>1, TableGoesOn
  <1>3. \A j \in Slots : /\ IsRow(nb[j]) <=> IsRow(tb[j])
                         /\ IsRow(tb[j]) => nb[j].id = tb[j].id
    BY TunnelShareAssumption DEF IsRow, Same
  <1>4. Rows(nb) = Rows(tb)
    BY <1>3 DEF Rows
  <1> QED BY <1>1, <1>2, <1>4 DEF Home, Typed, RowsShown

\* A tunnel comes up: the client's gets its row, the host's had it.
LEMMA HomeUp ==
    ASSUME NEW p, NEW tb, NEW n, NEW u, NEW cs, NEW es, NEW sh, NEW pairs,
           Home(p, tb, n, u, cs, es, sh, pairs),
           NEW i \in Slots, tb[i] # None,
           NEW e, e = Row(IF tb[i].host THEN "live" ELSE "add", tb[i].id)
    PROVE  Home(p, [tb EXCEPT ![i].pending = FALSE], n, u, cs, Append(es, e), sh, pairs)
  <1> DEFINE nb == [tb EXCEPT ![i].pending = FALSE]
             fs == Append(es, e)
             tn == tb[i]
  <1>1. /\ tb \in Table /\ n \in Nat /\ u \in Screen /\ cs \in Seq(Command) /\ es \in Seq(Event)
        /\ TableOK(p, tb, n, sh) /\ RowsShown(tb, u, es) /\ Known(p, u, cs, es, sh, pairs)
    BY DEF Home, Typed
  <1>2. tn \in TunnelType /\ OfService(p, tn, sh)
    BY <1>1 DEF Table, TableOK
  <1>3. nb = [tb EXCEPT ![i] = [tn EXCEPT !.pending = FALSE]]
    BY <1>1 DEF Table
  <1> HIDE DEF tn
  <1>4. /\ nb[i] = [tn EXCEPT !.pending = FALSE] /\ [tn EXCEPT !.pending = FALSE] \in TunnelType
        /\ \A j \in Slots \ {i} : nb[j] = tb[j]
    BY <1>1, <1>2, <1>3 DEF Table, TunnelType
  <1>5. nb \in Table
    BY <1>1, <1>3, <1>4 DEF Table
  <1>6. Same(tn, nb[i]) /\ ~nb[i].pending /\ nb[i] # None
    BY <1>2, <1>4, TunnelShareAssumption, ZenonT(30) DEF Same, TunnelType, OfService
  <1>7. \A j \in Slots : tb[j] # None => Same(tb[j], tb[j])
    BY <1>1, ZenonT(30) DEF Table, TableOK, OfService, Same
  <1> HIDE DEF nb
  <1>8. TableOK(p, nb, n, sh)
    <2>1. \A j \in Slots : IF tb[j] = None THEN nb[j] = None ELSE Same(tb[j], nb[j])
      BY <1>4, <1>6, <1>7 DEF tn
    <2> QED BY <1>1, <1>5, <2>1, TableGoesOn
  <1>9. /\ e \in Event /\ e.ev # "invite" /\ ~Is(e, "gone", tn.id) /\ e.id = tn.id
        /\ e.ev \in {"add", "live"} /\ (e.ev = "add" <=> ~tn.host)
    BY <1>2 DEF Row, Event, TunnelType, Is, tn
  <1>10. fs \in Seq(Event) /\ Known(p, u, cs, fs, sh, pairs)
    BY <1>1, <1>9, EventAdded
  <1>11. RowsShown(nb, u, fs)
    <2> SUFFICES ASSUME NEW id \in Nat PROVE id \in Rows(nb) <=> Showing(u.panel, fs, id)
      BY DEF RowsShown
    <2>1. u.panel \in SUBSET Nat
      BY <1>1 DEF Screen
    <2>2. Showing(u.panel, fs, id) <=>
              Is(e, "add", id) \/ (Showing(u.panel, es, id) /\ ~Is(e, "gone", id))
      BY <1>1, <1>9, <2>1, ShowAdd
    <2>3. id \in Rows(tb) <=> Showing(u.panel, es, id)
      BY <1>1 DEF RowsShown
    <2>4. IsRow(nb[i]) /\ nb[i].id = tn.id
      BY <1>6 DEF IsRow, Same
    <2>5. /\ tn.id \in Rows(nb)
          /\ id # tn.id => (id \in Rows(nb) <=> id \in Rows(tb))
      BY <1>1, <1>4, <1>5, <2>4, RowsAt DEF tn
    <2>6. tn.host => tn.id \in Rows(tb)
      BY DEF Rows, IsRow, tn
    <2> QED BY <1>9, <2>2, <2>3, <2>5, <2>6 DEF Is
  <1> QED BY <1>1, <1>5, <1>8, <1>10, <1>11 DEF Home, Typed, nb

\* The engine takes a command.
LEMMA HomeTake ==
    ASSUME NEW p, NEW tb, NEW n, NEW u, NEW cs, NEW es, NEW sh, NEW pairs,
           Home(p, tb, n, u, cs, es, sh, pairs), cs # <<>>
    PROVE  Home(p, tb, n, u, Tail(cs), es, sh, pairs)
  <1>1. cs \in Seq(Command) /\ Known(p, u, cs, es, sh, pairs)
    BY DEF Home, Typed
  <1>2. /\ Tail(cs) \in Seq(Command)
        /\ \A k \in 1..Len(Tail(cs)) : Tail(cs)[k] = cs[k + 1] /\ k + 1 \in 1..Len(cs)
    BY <1>1
  <1>3. Known(p, u, Tail(cs), es, sh, pairs)
    BY <1>1, <1>2 DEF Known
  <1> QED BY <1>2, <1>3 DEF Home, Typed

\* The front end posts a command; the dialog may close.
LEMMA HomePost ==
    ASSUME NEW p, NEW tb, NEW n, NEW u, NEW cs, NEW es, NEW sh, NEW pairs,
           Home(p, tb, n, u, cs, es, sh, pairs),
           NEW c \in Command,
           c.cmd = "share" => c.svc \in 1..Len(sh) /\ sh[c.svc] = <<p, c.fn>>,
           NEW v, v \in {u, [u EXCEPT !.invite = None]}
    PROVE  Home(p, tb, n, v, Append(cs, c), es, sh, pairs)
  <1>1. u \in Screen /\ cs \in Seq(Command) /\ Known(p, u, cs, es, sh, pairs)
    BY DEF Home, Typed
  <1>2. v \in Screen /\ v.panel = u.panel /\ v.invite \in {u.invite, None}
    BY <1>1 DEF Screen
  <1> DEFINE ds == Append(cs, c)
  <1>0. /\ ds \in Seq(Command) /\ Len(ds) = Len(cs) + 1 /\ Len(cs) \in Nat
        /\ ds[Len(cs) + 1] = c /\ \A k \in 1..Len(cs) : ds[k] = cs[k]
    BY <1>1
  <1> HIDE DEF ds
  <1>4. ASSUME NEW k \in 1..Len(ds), ds[k].cmd = "share"
        PROVE  ds[k].svc \in 1..Len(sh) /\ sh[ds[k].svc] = <<p, ds[k].fn>>
    <2>1. CASE k = Len(cs) + 1
      BY <1>0, <1>4, <2>1
    <2>2. CASE k \in 1..Len(cs)
      BY <1>0, <1>1, <1>4, <2>2 DEF Known
    <2> QED BY <1>0, <2>1, <2>2
  <1>5. Known(p, v, ds, es, sh, pairs)
    BY <1>1, <1>2, <1>4 DEF Known
  <1>3. Append(cs, c) \in Seq(Command) /\ Known(p, v, Append(cs, c), es, sh, pairs)
    BY <1>0, <1>5 DEF ds
  <1> QED BY <1>2, <1>3 DEF Home, Typed, RowsShown

\* The front end takes an event.
LEMMA HomeEvent ==
    ASSUME NEW p, NEW tb, NEW n, NEW u, NEW cs, NEW es, NEW sh, NEW pairs,
           Home(p, tb, n, u, cs, es, sh, pairs), es # <<>>,
           NEW e, e = Head(es), NEW v, v = Showed(u, e)
    PROVE  /\ Home(p, tb, n, v, cs, Tail(es), sh, pairs)
           /\ v.invite = IF e.ev = "invite" /\ u.invite = None THEN e.fn ELSE u.invite
  <1>1. /\ tb \in Table /\ u \in Screen /\ es \in Seq(Event) /\ RowsShown(tb, u, es)
        /\ Known(p, u, cs, es, sh, pairs)
    BY DEF Home, Typed
  <1>2. /\ Tail(es) \in Seq(Event) /\ e \in Event /\ e = es[1] /\ 1 \in 1..Len(es)
        /\ \A k \in 1..Len(Tail(es)) : Tail(es)[k] = es[k + 1] /\ k + 1 \in 1..Len(es)
    BY <1>1
  <1>3. /\ e.ev = "invite" => e.fn \in Peers
        /\ e.ev # "invite" => e.ev \in {"add", "gone", "live"} /\ e.id \in Nat
    BY <1>2 DEF Event
  <1>4. /\ v \in Screen
        /\ v.invite = IF e.ev = "invite" /\ u.invite = None THEN e.fn ELSE u.invite
        /\ v.panel = IF e.ev = "add" THEN u.panel \cup {e.id}
                     ELSE IF e.ev = "gone" THEN u.panel \ {e.id} ELSE u.panel
    <2>1. CASE e.ev = "invite"
      BY <1>1, <1>3, <2>1 DEF Screen, Showed
    <2>2. CASE e.ev = "add"
      BY <1>1, <1>3, <2>2 DEF Screen, Showed
    <2>3. CASE e.ev = "gone"
      BY <1>1, <1>3, <2>3 DEF Screen, Showed
    <2>4. CASE e.ev = "live"
      BY <1>1, <1>3, <2>4 DEF Screen, Showed
    <2> QED BY <1>3, <2>1, <2>2, <2>3, <2>4
  <1>5. Known(p, v, cs, Tail(es), sh, pairs)
    <2>1. v.invite # None => <<v.invite, p>> \in pairs
      BY <1>1, <1>2, <1>4 DEF Known
    <2> QED BY <1>1, <1>2, <2>1 DEF Known
  <1>6. RowsShown(tb, v, Tail(es))
    <2> SUFFICES ASSUME NEW id \in Nat PROVE id \in Rows(tb) <=> Showing(v.panel, Tail(es), id)
      BY DEF RowsShown
    <2>1. u.panel \in SUBSET Nat /\ v.panel \in SUBSET Nat
      BY <1>1, <1>4 DEF Screen
    <2>2. id \in v.panel <=> \/ Is(Head(es), "add", id)
                             \/ id \in u.panel /\ ~Is(Head(es), "gone", id)
      <3>1. /\ e.ev = "add" => v.panel = u.panel \cup {e.id}
            /\ e.ev = "gone" => v.panel = u.panel \ {e.id}
            /\ e.ev \notin {"add", "gone"} => v.panel = u.panel
        BY <1>4
      <3> QED BY <3>1 DEF Is
    <2>3. Showing(v.panel, Tail(es), id) <=> Showing(u.panel, es, id)
      BY <1>1, <2>1, <2>2, ShowTake
    <2> QED BY <1>1, <2>3 DEF RowsShown
  <1> QED BY <1>2, <1>4, <1>5, <1>6 DEF Home, Typed

\* One more share.
LEMMA HomeShared ==
    ASSUME NEW p, NEW tb, NEW n, NEW u, NEW cs, NEW es, NEW pairs, NEW sh \in Seq(pairs),
           Home(p, tb, n, u, cs, es, sh, pairs), NEW x \in pairs
    PROVE  Home(p, tb, n, u, cs, es, Append(sh, x), pairs)
  <1> DEFINE s == Append(sh, x)
  <1>1. \A k \in 1..Len(sh) : k \in 1..Len(s) /\ s[k] = sh[k]
    OBVIOUS
  <1> HIDE DEF s
  <1>2. \A tn : OfService(p, tn, sh) => OfService(p, tn, s)
    BY <1>1 DEF OfService
  <1>3. TableOK(p, tb, n, s)
    BY <1>2 DEF Home, TableOK
  <1>4. Known(p, u, cs, es, s, pairs)
    BY <1>1 DEF Home, Known
  <1> QED BY <1>3, <1>4 DEF Home, s

-----------------------------------------------------------------------------
(* Invitations wait for an answer                                          *)

\* An event more, or a tunnel less.
LEMMA WaitingOn ==
    ASSUME NEW tb, NEW u, NEW cs, NEW es \in Seq(Event), Waiting(tb, u, cs, es), NEW nb,
           \A i \in Slots : nb[i] # None /\ ~nb[i].host /\ nb[i].pending =>
               tb[i] # None /\ ~tb[i].host /\ tb[i].pending /\ nb[i].fn = tb[i].fn,
           NEW fs, fs = es \/ \E e \in Event : fs = Append(es, e)
    PROVE  Waiting(nb, u, cs, fs)
  <1>1. \A k \in 1..Len(es) : k \in 1..Len(fs) /\ fs[k] = es[k]
    OBVIOUS
  <1>2. \A q : Asked(q, u, cs, es) => Asked(q, u, cs, fs)
    BY <1>1 DEF Asked
  <1> QED BY <1>2 DEF Waiting

\* A command that is no answer is taken.
LEMMA WaitingTake ==
    ASSUME NEW tb, NEW u, NEW cs \in Seq(Command), NEW es, Waiting(tb, u, cs, es), cs # <<>>,
           NEW nb,
           \A i \in Slots : nb[i] # None /\ ~nb[i].host /\ nb[i].pending =>
               /\ tb[i] # None /\ ~tb[i].host /\ tb[i].pending /\ nb[i].fn = tb[i].fn
               /\ ~(Head(cs).cmd \in {"accept", "decline"} /\ Head(cs).fn = tb[i].fn)
    PROVE  Waiting(nb, u, Tail(cs), es)
  <1> SUFFICES ASSUME NEW i \in Slots, nb[i] # None, ~nb[i].host, nb[i].pending
               PROVE  Asked(nb[i].fn, u, Tail(cs), es)
    BY DEF Waiting
  <1>1. /\ nb[i].fn = tb[i].fn /\ Asked(tb[i].fn, u, cs, es)
        /\ ~(Head(cs).cmd \in {"accept", "decline"} /\ Head(cs).fn = tb[i].fn)
    BY DEF Waiting
  <1>2. CASE \E k \in 1..Len(cs) : cs[k].cmd \in {"accept", "decline"} /\ cs[k].fn = tb[i].fn
    <2>1. PICK k \in 1..Len(cs) : cs[k].cmd \in {"accept", "decline"} /\ cs[k].fn = tb[i].fn
      BY <1>2
    <2>2. k # 1
      BY <1>1, <2>1
    <2>3. k - 1 \in 1..Len(Tail(cs)) /\ Tail(cs)[k - 1] = cs[k]
      BY <2>2
    <2> QED BY <1>1, <2>1, <2>3 DEF Asked
  <1>3. CASE ~\E k \in 1..Len(cs) : cs[k].cmd \in {"accept", "decline"} /\ cs[k].fn = tb[i].fn
    BY <1>1, <1>3 DEF Asked
  <1> QED BY <1>2, <1>3

\* An invitation is queued with its tunnel.
LEMMA WaitingInvited ==
    ASSUME NEW tb, NEW u, NEW cs, NEW es \in Seq(Event), Waiting(tb, u, cs, es), NEW nb,
           NEW i \in Slots, \A j \in Slots \ {i} : nb[j] = tb[j],
           NEW e \in Event, ~nb[i].host => e.ev = "invite" /\ e.fn = nb[i].fn
    PROVE  Waiting(nb, u, cs, Append(es, e))
  <1> DEFINE fs == Append(es, e)
  <1>1. /\ \A k \in 1..Len(es) : k \in 1..Len(fs) /\ fs[k] = es[k]
        /\ Len(es) + 1 \in 1..Len(fs) /\ fs[Len(es) + 1] = e
    OBVIOUS
  <1> HIDE DEF fs
  <1>2. \A q : Asked(q, u, cs, es) => Asked(q, u, cs, fs)
    BY <1>1 DEF Asked
  <1>3. ~nb[i].host => Asked(nb[i].fn, u, cs, fs)
    BY <1>1 DEF Asked
  <1>4. Waiting(nb, u, cs, fs)
    <2> SUFFICES ASSUME NEW j \in Slots, nb[j] # None, ~nb[j].host, nb[j].pending
                 PROVE  Asked(nb[j].fn, u, cs, fs)
      BY DEF Waiting
    <2>1. CASE j = i
      BY <1>3, <2>1
    <2>2. CASE j # i
      <3>1. nb[j] = tb[j]
        BY <2>2
      <3> QED BY <1>2, <3>1 DEF Waiting
    <2> QED BY <2>1, <2>2
  <1> QED BY <1>4 DEF fs

\* The user answers the invitation that the dialog shows, or clicks elsewhere.
LEMMA WaitingPost ==
    ASSUME NEW tb, NEW u, NEW cs \in Seq(Command), NEW es, Waiting(tb, u, cs, es),
           NEW c \in Command, NEW v,
           v.invite = u.invite \/ (c.cmd \in {"accept", "decline"} /\ c.fn = u.invite)
    PROVE  Waiting(tb, v, Append(cs, c), es)
  <1> DEFINE ds == Append(cs, c)
  <1>1. /\ \A k \in 1..Len(cs) : k \in 1..Len(ds) /\ ds[k] = cs[k]
        /\ Len(cs) + 1 \in 1..Len(ds) /\ ds[Len(cs) + 1] = c
    OBVIOUS
  <1> HIDE DEF ds
  <1>2. \A q : Asked(q, u, cs, es) => Asked(q, v, ds, es)
    BY <1>1 DEF Asked
  <1>3. Waiting(tb, v, ds, es)
    BY <1>2 DEF Waiting
  <1> QED BY <1>3 DEF ds

\* The front end takes an event: an invitation that finds the dialog open is of the
\* friend whom it shows.
LEMMA WaitingEvent ==
    ASSUME NEW tb, NEW u, NEW cs, NEW es \in Seq(Event), Waiting(tb, u, cs, es), es # <<>>,
           NEW v,
           v.invite = IF Head(es).ev = "invite" /\ u.invite = None THEN Head(es).fn ELSE u.invite,
           u.invite = None => \A i \in Slots : tb[i] # None => tb[i].fn # None,
           Head(es).ev = "invite" /\ u.invite # None => Head(es).fn = u.invite
    PROVE  Waiting(tb, v, cs, Tail(es))
  <1> SUFFICES ASSUME NEW i \in Slots, tb[i] # None, ~tb[i].host, tb[i].pending
               PROVE  Asked(tb[i].fn, v, cs, Tail(es))
    BY DEF Waiting
  <1>1. Asked(tb[i].fn, u, cs, es)
    BY DEF Waiting
  <1>2. CASE \E k \in 1..Len(es) : es[k].ev = "invite" /\ es[k].fn = tb[i].fn
    <2>1. PICK k \in 1..Len(es) : es[k].ev = "invite" /\ es[k].fn = tb[i].fn
      BY <1>2
    <2>2. CASE k = 1
      <3>1. Head(es) = es[1]
        OBVIOUS
      <3> QED BY <2>1, <2>2, <3>1 DEF Asked
    <2>3. CASE k # 1
      <3>1. k - 1 \in 1..Len(Tail(es)) /\ Tail(es)[k - 1] = es[k]
        BY <2>3
      <3> QED BY <2>1, <3>1 DEF Asked
    <2> QED BY <2>2, <2>3
  <1>3. CASE ~\E k \in 1..Len(es) : es[k].ev = "invite" /\ es[k].fn = tb[i].fn
    BY <1>1, <1>3 DEF Asked
  <1> QED BY <1>2, <1>3

-----------------------------------------------------------------------------
(* The helpers of the actions                                              *)

\* FreeSlot finds a free slot.
LEMMA FreeSlotFree ==
    ASSUME NEW p \in Peers, FreeSlot(p) # None
    PROVE  FreeSlot(p) \in Slots /\ tunnels[p][FreeSlot(p)] = None
  <1> DEFINE S == Slots \ Used(p)
  <1>1. S \in SUBSET Nat /\ Used(p) \subseteq Slots
    BY DEF Slots, Used
  <1>2. Used(p) # Slots
    BY DEF FreeSlot
  <1>3. S # {}
    BY <1>1, <1>2
  <1>4. \E i \in S : \A j \in S : i <= j
    BY <1>1, <1>3, LeastNumber
  <1>5. FreeSlot(p) = CHOOSE i \in S : \A j \in S : i <= j
    BY <1>2 DEF FreeSlot
  <1>6. FreeSlot(p) \in S
    BY <1>4, <1>5
  <1> QED BY <1>6 DEF Used

\* i is the slot in tb of a tunnel with q in that role, or None and there is none.
Finds(tb, q, host, i) ==
    /\ i # None => i \in Slots /\ tb[i] # None /\ tb[i].host = host /\ tb[i].fn = q
    /\ i = None => \A j \in Slots : tb[j] # None => ~(tb[j].host = host /\ tb[j].fn = q)

\* tunnel_by_peer finds a tunnel of that role with that friend, if there is one.
LEMMA ByPeerFinds ==
    ASSUME NEW p \in Peers, NEW q, NEW host, NEW i, i = tunnel_by_peer(p, q, host)
    PROVE  Finds(tunnels[p], q, host, i)
  <1> DEFINE S == {j \in Used(p) : tunnels[p][j].host = host /\ tunnels[p][j].fn = q}
  <1>1. S \in SUBSET Nat /\ S \subseteq Slots
    BY DEF Slots, Used
  <1>2. i = IF S = {} THEN None ELSE CHOOSE k \in S : \A j \in S : k <= j
    BY DEF tunnel_by_peer
  <1>3. CASE S = {}
    BY <1>2, <1>3 DEF Used, Finds
  <1>4. CASE S # {}
    <2>1. \E k \in S : \A j \in S : k <= j
      BY <1>1, <1>4, LeastNumber
    <2>2. i \in S
      BY <1>2, <1>4, <2>1
    <2>3. i # None
      BY <1>1, <2>2, TunnelShareAssumption
    <2> QED BY <1>1, <2>2, <2>3 DEF Used, Finds
  <1> QED BY <1>3, <1>4

\* A step of peer p leaves the others alone.
Elsewhere(p) ==
    /\ setup' = setup /\ shared' = shared /\ Functions'
    /\ \A q \in Peers \ {p} :
          /\ tunnels'[q] = tunnels[q] /\ tunnel_seq'[q] = tunnel_seq[q] /\ ui'[q] = ui[q]
          /\ cmds'[q] = cmds[q] /\ evs'[q] = evs[q]
At(p) == Home(p, tunnels[p], tunnel_seq[p], ui[p], cmds[p], evs[p], shared, Pairs)
WaitsAt(p) == Waiting(tunnels[p], ui[p], cmds[p], evs[p])

\* Whose state is in order before the step.
LEMMA Before ==
    ASSUME IInv, NEW p \in Peers
    PROVE  /\ At(p) /\ tunnels[p] \in Table /\ tunnel_seq[p] \in Nat /\ ui[p] \in Screen
           /\ cmds[p] \in Seq(Command) /\ evs[p] \in Seq(Event)
           /\ OneInviter /\ WaitingOK => WaitsAt(p)
  BY DEF IInv, Homes, Home, Typed, At, WaitingOK, WaitsAt

\* What peer p did is in order, and so is what the others have.
LEMMA Together ==
    ASSUME IInv, NEW p \in Peers, Elsewhere(p), At(p)',
           OneInviter /\ WaitingOK => WaitsAt(p)'
    PROVE  Functions' /\ Homes' /\ (WaitingOK => WaitingOK') /\ SharedOK'
  <1>1. Pairs' = Pairs /\ shared' = shared /\ setup' = setup /\ Functions'
    BY DEF Elsewhere, Pairs
  <1>2. \A q \in Peers \ {p} :
          /\ tunnels'[q] = tunnels[q] /\ tunnel_seq'[q] = tunnel_seq[q] /\ ui'[q] = ui[q]
          /\ cmds'[q] = cmds[q] /\ evs'[q] = evs[q]
    BY DEF Elsewhere
  <1>3. Homes'
    <2> SUFFICES ASSUME NEW q \in Peers
                 PROVE  Home(q, tunnels'[q], tunnel_seq'[q], ui'[q], cmds'[q], evs'[q],
                             shared', Pairs')
      BY DEF Homes
    <2>1. CASE q = p
      BY <2>1 DEF At
    <2>2. CASE q # p
      <3>1. Home(q, tunnels[q], tunnel_seq[q], ui[q], cmds[q], evs[q], shared, Pairs)
        BY DEF IInv, Homes
      <3> QED BY <1>1, <1>2, <2>2, <3>1
    <2> QED BY <2>1, <2>2
  <1>4. ASSUME WaitingOK PROVE WaitingOK'
    <2>1. OneInviter' => OneInviter
      BY <1>1 DEF OneInviter
    <2> SUFFICES ASSUME OneInviter, NEW q \in Peers
                 PROVE  Waiting(tunnels'[q], ui'[q], cmds'[q], evs'[q])
      BY <2>1 DEF WaitingOK
    <2>2. CASE q = p
      BY <1>4, <2>2 DEF WaitsAt
    <2>3. CASE q # p
      <3>1. Waiting(tunnels[q], ui[q], cmds[q], evs[q])
        BY <1>4 DEF WaitingOK
      <3> QED BY <1>2, <2>3, <3>1
    <2> QED BY <2>2, <2>3
  <1>5. SharedOK'
    BY <1>1 DEF IInv, SharedOK
  <1> QED BY <1>1, <1>3, <1>4, <1>5

\* sig_send.
LEMMA SignalSent ==
    ASSUME SignalsOK(wire, shared), NEW p \in Peers, NEW q \in Peers, NEW m \in Signal,
           m.sig = "invite" => m.svc \in 1..Len(shared) /\ shared[m.svc] = <<p, q>>,
           sig_send(p, q, m)
    PROVE  SignalsOK(wire', shared)
  <1>1. wire \in [Peers -> [Peers -> Seq(Signal)]]
    BY DEF SignalsOK
  <1>2. CASE wire' = wire
    BY <1>2
  <1>3. CASE wire' = [wire EXCEPT ![p][q] = Append(@, m)]
    <2>1. wire' \in [Peers -> [Peers -> Seq(Signal)]] /\ wire'[p][q] = Append(wire[p][q], m)
      BY <1>1, <1>3
    <2>2. \A a, b \in Peers : ~(a = p /\ b = q) => wire'[a][b] = wire[a][b]
      BY <1>1, <1>3
    <2>3. ASSUME NEW a \in Peers, NEW b \in Peers, NEW k \in 1..Len(wire'[b][a]),
                 wire'[b][a][k].sig = "invite"
          PROVE  wire'[b][a][k].svc \in 1..Len(shared) /\ shared[wire'[b][a][k].svc] = <<b, a>>
      <3>1. CASE ~(b = p /\ a = q)
        <4>1. wire'[b][a] = wire[b][a]
          BY <2>2, <3>1
        <4> QED BY <2>3, <4>1 DEF SignalsOK
      <3>2. CASE b = p /\ a = q
        <4> DEFINE w == wire[p][q]
        <4>1. w \in Seq(Signal) /\ wire'[b][a] = Append(w, m)
          BY <1>1, <2>1, <3>2
        <4>2. \A j \in 1..Len(w) : w[j].sig = "invite" =>
                  w[j].svc \in 1..Len(shared) /\ shared[w[j].svc] = <<p, q>>
          BY DEF SignalsOK
        <4> HIDE DEF w
        <4>3. k \in 1..(Len(w) + 1) /\ Len(w) \in Nat
              /\ wire'[b][a][k] = IF k = Len(w) + 1 THEN m ELSE w[k]
          BY <4>1
        <4>4. CASE k = Len(w) + 1
          BY <2>3, <3>2, <4>3, <4>4
        <4>5. CASE k \in 1..Len(w)
          BY <2>3, <3>2, <4>2, <4>3, <4>5
        <4> QED BY <4>3, <4>4, <4>5
      <3> QED BY <3>1, <3>2
    <2> QED BY <2>1, <2>3 DEF SignalsOK
  <1> QED BY <1>2, <1>3 DEF sig_send

\* A signal is received, or the link fails.
LEMMA SignalsGone ==
    ASSUME SignalsOK(wire, shared), NEW w, w \in [Peers -> [Peers -> Seq(Signal)]],
           \A a, b \in Peers : \/ w[a][b] = wire[a][b] \/ w[a][b] = <<>>
                               \/ wire[a][b] # <<>> /\ w[a][b] = Tail(wire[a][b])
    PROVE  SignalsOK(w, shared)
  <1> SUFFICES ASSUME NEW a \in Peers, NEW b \in Peers, NEW k \in 1..Len(w[b][a]),
                      w[b][a][k].sig = "invite"
               PROVE  w[b][a][k].svc \in 1..Len(shared) /\ shared[w[b][a][k].svc] = <<b, a>>
    BY DEF SignalsOK
  <1>1. /\ wire[b][a] \in Seq(Signal)
        /\ \A j \in 1..Len(wire[b][a]) : wire[b][a][j].sig = "invite" =>
              /\ wire[b][a][j].svc \in 1..Len(shared)
              /\ shared[wire[b][a][j].svc] = <<b, a>>
    BY DEF SignalsOK
  <1>2. \E j \in 1..Len(wire[b][a]) : w[b][a][k] = wire[b][a][j]
    <2> DEFINE v == wire[b][a]
    <2>1. v \in Seq(Signal) /\ (w[b][a] = v \/ w[b][a] = <<>> \/ (v # <<>> /\ w[b][a] = Tail(v)))
      BY <1>1
    <2> HIDE DEF v
    <2>2. CASE w[b][a] = v
      BY <2>1, <2>2 DEF v
    <2>3. CASE v # <<>> /\ w[b][a] = Tail(v)
      <3>1. k + 1 \in 1..Len(v) /\ w[b][a][k] = v[k + 1]
        BY <2>1, <2>3
      <3> QED BY <3>1 DEF v
    <2> QED BY <2>1, <2>2, <2>3
  <1> QED BY <1>1, <1>2

-----------------------------------------------------------------------------
(* The commands                                                            *)

Done(p) ==
    /\ Elsewhere(p) /\ At(p)' /\ (OneInviter /\ WaitingOK => WaitsAt(p)')
    /\ SignalsOK(wire', shared)

\* The tox thread took the command c.
Took(p, c) ==
    /\ cmds[p] # <<>> /\ c = Head(cmds[p]) /\ cmds' = [cmds EXCEPT ![p] = Tail(@)]
    /\ UNCHANGED engineRest

\* What is known when a command is taken.
LEMMA Taken ==
    ASSUME IInv, NEW p \in Peers, NEW c, Took(p, c)
    PROVE  /\ Home(p, tunnels[p], tunnel_seq[p], ui[p], cmds'[p], evs[p], shared, Pairs)
           /\ cmds'[p] = Tail(cmds[p]) /\ c \in Command /\ DOMAIN cmds' = Peers
           /\ \A q \in Peers \ {p} : cmds'[q] = cmds[q]
           /\ setup' = setup /\ shared' = shared /\ ui' = ui
           /\ c.cmd = "share" => c.svc \in 1..Len(shared) /\ shared[c.svc] = <<p, c.fn>>
  <1>1. Home(p, tunnels[p], tunnel_seq[p], ui[p], cmds[p], evs[p], shared, Pairs)
    BY Before DEF At
  <1>2. cmds'[p] = Tail(cmds[p]) /\ DOMAIN cmds' = Peers /\ \A q \in Peers \ {p} : cmds'[q] = cmds[q]
    BY DEF Took, IInv, Functions
  <1>3. setup' = setup /\ shared' = shared /\ ui' = ui /\ c = Head(cmds[p]) /\ cmds[p] # <<>>
    BY DEF Took, engineRest
  <1>4. Home(p, tunnels[p], tunnel_seq[p], ui[p], Tail(cmds[p]), evs[p], shared, Pairs)
    BY <1>1, <1>3, HomeTake
  <1>5. cmds[p] \in Seq(Command) /\ Known(p, ui[p], cmds[p], evs[p], shared, Pairs)
    BY <1>1 DEF Home, Typed
  <1>6. c \in Command /\ c = cmds[p][1] /\ 1 \in 1..Len(cmds[p])
    BY <1>3, <1>5
  <1>7. c.cmd = "share" => c.svc \in 1..Len(shared) /\ shared[c.svc] = <<p, c.fn>>
    BY <1>5, <1>6 DEF Known
  <1> QED BY <1>2, <1>3, <1>4, <1>6, <1>7

\* Nobody else is touched by what changes one peer's table, ids and events.
LEMMA OnlyMine ==
    ASSUME IInv, NEW p \in Peers,
           setup' = setup, shared' = shared,
           ui' = ui \/ \E v : ui' = [ui EXCEPT ![p] = v],
           cmds' = cmds \/ \E v : cmds' = [cmds EXCEPT ![p] = v],
           evs' = evs \/ \E v : evs' = [evs EXCEPT ![p] = v],
           tunnels' = tunnels \/ \E v : tunnels' = [tunnels EXCEPT ![p] = v],
           tunnel_seq' = tunnel_seq \/ \E v : tunnel_seq' = [tunnel_seq EXCEPT ![p] = v]
    PROVE  Elsewhere(p)
  <1>1. Functions
    BY DEF IInv
  <1>2. DOMAIN ui' = Peers /\ \A q \in Peers \ {p} : ui'[q] = ui[q]
    BY <1>1 DEF Functions
  <1>3. DOMAIN cmds' = Peers /\ \A q \in Peers \ {p} : cmds'[q] = cmds[q]
    BY <1>1 DEF Functions
  <1>4. DOMAIN evs' = Peers /\ \A q \in Peers \ {p} : evs'[q] = evs[q]
    BY <1>1 DEF Functions
  <1>5. DOMAIN tunnels' = Peers /\ \A q \in Peers \ {p} : tunnels'[q] = tunnels[q]
    BY <1>1 DEF Functions
  <1>6. DOMAIN tunnel_seq' = Peers /\ \A q \in Peers \ {p} : tunnel_seq'[q] = tunnel_seq[q]
    BY <1>1 DEF Functions
  <1> QED BY <1>2, <1>3, <1>4, <1>5, <1>6 DEF Elsewhere, Functions

\* An answer settles the tunnel it is for: the only one of that friend.
LEMMA Answered ==
    ASSUME IInv, NEW p \in Peers, NEW c, Took(p, c), c.cmd \in {"accept", "decline"},
           WaitsAt(p), NEW i, i = tunnel_by_peer(p, c.fn, FALSE), NEW nb,
           \A j \in Slots : j # i => nb[j] = tunnels[p][j],
           i # None => nb[i] = None \/ ~nb[i].pending
    PROVE  Waiting(nb, ui[p], Tail(cmds[p]), evs[p])
  <1> DEFINE tb == tunnels[p]
  <1>1. /\ cmds[p] \in Seq(Command) /\ cmds[p] # <<>> /\ c = Head(cmds[p])
        /\ Waiting(tb, ui[p], cmds[p], evs[p]) /\ TableOK(p, tb, tunnel_seq[p], shared)
    BY Before DEF Took, WaitsAt, At, Home
  <1>2. /\ i # None => i \in Slots /\ tb[i] # None /\ tb[i].host = FALSE /\ tb[i].fn = c.fn
        /\ i = None => \A j \in Slots : tb[j] # None => ~(tb[j].host = FALSE /\ tb[j].fn = c.fn)
    <2>1. Finds(tunnels[p], c.fn, FALSE, i)
      BY ByPeerFinds
    <2> QED BY <2>1 DEF Finds
  <1> HIDE DEF tb
  <1>3. ASSUME NEW j \in Slots, nb[j] # None, ~nb[j].host, nb[j].pending
        PROVE  /\ tb[j] # None /\ ~tb[j].host /\ tb[j].pending /\ nb[j].fn = tb[j].fn
               /\ ~(Head(cmds[p]).cmd \in {"accept", "decline"} /\ Head(cmds[p]).fn = tb[j].fn)
    <2>0. tunnels[p] \in Table
      BY Before
    <2>1. j # i
      <3>1. j # None
        BY TunnelShareAssumption DEF Slots
      <3> QED BY <1>3, <3>1
    <2>2. nb[j] = tb[j] /\ tb[j] # None /\ ~tb[j].host /\ tb[j].host \in BOOLEAN
      BY <1>3, <2>0, <2>1 DEF tb, Table, TunnelType
    <2>3. tb[j].fn # c.fn
      <3>1. CASE i = None
        BY <1>2, <2>2, <3>1
      <3>2. CASE i # None
        BY <1>1, <1>2, <2>1, <2>2, <3>2 DEF TableOK
      <3> QED BY <3>1, <3>2
    <2> QED BY <1>1, <1>3, <2>2, <2>3
  <1> QED BY <1>1, <1>3, WaitingTake

\* A command that the engine ignores.
LEMMA CmdIgnored ==
    ASSUME IInv, NEW p \in Peers, NEW c, Took(p, c), Ignored,
           c.cmd \in {"accept", "decline"} =>
               \/ tunnel_by_peer(p, c.fn, FALSE) = None
               \/ ~tunnels[p][tunnel_by_peer(p, c.fn, FALSE)].pending
    PROVE  Done(p)
  <1>1. /\ tunnels' = tunnels /\ tunnel_seq' = tunnel_seq /\ evs' = evs /\ wire' = wire
    BY DEF Ignored
  <1>2. /\ Home(p, tunnels[p], tunnel_seq[p], ui[p], cmds'[p], evs[p], shared, Pairs)
        /\ cmds'[p] = Tail(cmds[p]) /\ setup' = setup /\ shared' = shared /\ ui' = ui
    BY Taken
  <1>3. cmds' = [cmds EXCEPT ![p] = Tail(cmds[p])]
    BY DEF Took
  <1>4. Elsewhere(p)
    BY <1>1, <1>2, <1>3, OnlyMine
  <1>5. At(p)'
    BY <1>1, <1>2 DEF At, Pairs
  <1>6. ASSUME OneInviter, WaitingOK PROVE WaitsAt(p)'
    <2>1. WaitsAt(p)
      BY <1>6, Before
    <2>2. CASE c.cmd \in {"accept", "decline"}
      <3>1. Waiting(tunnels[p], ui[p], Tail(cmds[p]), evs[p])
        BY <2>1, <2>2, Answered
      <3> QED BY <1>1, <1>2, <3>1 DEF WaitsAt
    <2>3. CASE c.cmd \notin {"accept", "decline"}
      <3>1. Waiting(tunnels[p], ui[p], Tail(cmds[p]), evs[p])
        <4>1. cmds[p] \in Seq(Command) /\ cmds[p] # <<>> /\ c = Head(cmds[p])
          BY Before DEF Took
        <4> QED BY <2>1, <2>3, <4>1, WaitingTake DEF WaitsAt
      <3> QED BY <1>1, <1>2, <3>1 DEF WaitsAt
    <2> QED BY <2>2, <2>3
  <1> QED BY <1>1, <1>4, <1>5, <1>6 DEF Done, IInv

\* tunnel_alloc at a free slot, as a change of the peer's table and last id.
LEMMA Allocated ==
    ASSUME IInv, NEW p \in Peers, NEW i \in Slots, NEW tn, tunnel_alloc(p, i, tn),
           NEW e, Push(p, e)
    PROVE  /\ tunnels'[p] = [tunnels[p] EXCEPT ![i] = tn]
           /\ tunnel_seq'[p] = tunnel_seq[p] + 1 /\ evs'[p] = Append(evs[p], e)
           /\ \E v : tunnels' = [tunnels EXCEPT ![p] = v]
           /\ \E v : tunnel_seq' = [tunnel_seq EXCEPT ![p] = v]
           /\ \E v : evs' = [evs EXCEPT ![p] = v]
  <1>1. /\ tunnels' = [tunnels EXCEPT ![p] = [tunnels[p] EXCEPT ![i] = tn]]
        /\ tunnel_seq' = [tunnel_seq EXCEPT ![p] = tunnel_seq[p] + 1]
        /\ evs' = [evs EXCEPT ![p] = Append(evs[p], e)]
    BY DEF tunnel_alloc, Push
  <1> QED BY <1>1 DEF IInv, Functions

\* tunnel_free, likewise.
LEMMA Freed ==
    ASSUME IInv, NEW p \in Peers, NEW i \in Slots, tunnel_free(p, i)
    PROVE  /\ tunnels'[p] = [tunnels[p] EXCEPT ![i] = None]
           /\ tunnel_seq' = tunnel_seq
           /\ \E v : tunnels' = [tunnels EXCEPT ![p] = v]
  <1>1. /\ tunnels' = [tunnels EXCEPT ![p] = [tunnels[p] EXCEPT ![i] = None]]
        /\ tunnel_seq' = tunnel_seq
    BY DEF tunnel_free
  <1> QED BY <1>1 DEF IInv, Functions

\* Push, likewise.
LEMMA Pushed ==
    ASSUME IInv, NEW p \in Peers, NEW e, Push(p, e)
    PROVE  /\ evs'[p] = Append(evs[p], e)
           /\ \E v : evs' = [evs EXCEPT ![p] = v]
  BY DEF Push, IInv, Functions

\* The tunnels of peer p.
LEMMA TunnelAt ==
    ASSUME IInv, NEW p \in Peers, NEW i \in Slots, tunnels[p][i] # None
    PROVE  /\ tunnels[p][i] \in TunnelType /\ tunnels[p][i].id \in Nat
           /\ OfService(p, tunnels[p][i], shared)
  <1>1. tunnels[p] \in Table /\ TableOK(p, tunnels[p], tunnel_seq[p], shared)
    BY Before DEF At, Home
  <1> QED BY <1>1 DEF Table, TableOK, TunnelType

\* tt_tunnel_share: a tunnel, its row, and the invitation to the friend.
LEMMA CmdShare ==
    ASSUME IInv, NEW p \in Peers, NEW c, Took(p, c), c.cmd = "share", tt_tunnel_share(p, c)
    PROVE  Done(p)
  <1> DEFINE i == FreeSlot(p)
             tn == Tunnel(p, TRUE, c.fn, c.svc)
             m == [sig |-> "invite", svc |-> c.svc]
             e == Row("add", tn.id)
  <1>1. CASE i = None
    <2>1. Ignored
      BY <1>1, Zenon DEF tt_tunnel_share
    <2> QED BY <2>1, CmdIgnored
  <1>2. CASE i # None
    <2>1. tunnel_alloc(p, i, tn) /\ sig_send(p, c.fn, m) /\ Push(p, e)
      BY <1>2, Zenon DEF tt_tunnel_share
    <2>2. i \in Slots /\ tunnels[p][i] = None
      BY <1>2, FreeSlotFree
    <2>3. /\ Home(p, tunnels[p], tunnel_seq[p], ui[p], cmds'[p], evs[p], shared, Pairs)
          /\ cmds'[p] = Tail(cmds[p]) /\ c \in Command
          /\ setup' = setup /\ shared' = shared /\ ui' = ui
          /\ c.svc \in 1..Len(shared) /\ shared[c.svc] = <<p, c.fn>>
      BY Taken
    <2>4. c.fn \in Peers /\ c.svc \in Nat /\ tunnel_seq[p] \in Nat
      BY <2>3, Before DEF Command
    <2>5. /\ tn \in TunnelType /\ tn.id = tunnel_seq[p] + 1 /\ tn.pending /\ tn.host
          /\ OfService(p, tn, shared)
      BY <2>3, <2>4 DEF Tunnel, TunnelType, OfService
    <2>6. e \in Event /\ Is(e, "add", tunnel_seq[p] + 1) /\ m \in Signal /\ m.svc = c.svc
      <3> HIDE DEF tn
      <3>1. tn.id \in Nat
        BY <2>4, <2>5
      <3>2. e \in Event /\ Is(e, "add", tunnel_seq[p] + 1)
        BY <2>5, <3>1 DEF Row, Event, Is
      <3>3. m \in Signal /\ m.svc = c.svc
        BY <2>4 DEF Signal
      <3> QED BY <3>2, <3>3
    <2> HIDE DEF i, tn, m, e
    <2>7. /\ tunnels'[p] = [tunnels[p] EXCEPT ![i] = tn]
          /\ tunnel_seq'[p] = tunnel_seq[p] + 1 /\ evs'[p] = Append(evs[p], e)
          /\ \E v : tunnels' = [tunnels EXCEPT ![p] = v]
          /\ \E v : tunnel_seq' = [tunnel_seq EXCEPT ![p] = v]
          /\ \E v : evs' = [evs EXCEPT ![p] = v]
      BY <2>1, <2>2, Allocated
    <2>8. Elsewhere(p)
      <3>1. cmds' = [cmds EXCEPT ![p] = Tail(cmds[p])]
        BY DEF Took
      <3> QED BY <2>3, <2>7, <3>1, OnlyMine
    <2>9. Home(p, [tunnels[p] EXCEPT ![i] = tn], tunnel_seq[p] + 1, ui[p], cmds'[p],
               Append(evs[p], e), shared, Pairs)
      BY <2>2, <2>3, <2>5, <2>6, HomeAlloc
    <2>10. At(p)'
      BY <2>3, <2>7, <2>9 DEF At, Pairs
    <2>11. SignalsOK(wire', shared)
      BY <2>1, <2>3, <2>4, <2>6, SignalSent DEF IInv
    <2>12. ASSUME OneInviter, WaitingOK PROVE WaitsAt(p)'
      <3>1. WaitsAt(p) /\ evs[p] \in Seq(Event) /\ cmds[p] \in Seq(Command) /\ tunnels[p] \in Table
        BY <2>12, Before
      <3>2. cmds[p] # <<>> /\ Head(cmds[p]).cmd = "share"
        BY DEF Took
      <3>3. Waiting(tunnels[p], ui[p], Tail(cmds[p]), evs[p])
        BY <3>1, <3>2, WaitingTake DEF WaitsAt
      <3>4. \A j \in Slots \ {i} : tunnels'[p][j] = tunnels[p][j]
        BY <2>7, <3>1 DEF Table
      <3>5. tunnels'[p][i] = tn
        BY <2>2, <2>7, <3>1 DEF Table
      <3>6. Waiting(tunnels'[p], ui[p], Tail(cmds[p]), Append(evs[p], e))
        BY <2>2, <2>5, <2>6, <3>1, <3>3, <3>4, <3>5, WaitingInvited
      <3> QED BY <2>3, <2>7, <3>6 DEF WaitsAt
    <2> QED BY <2>8, <2>10, <2>11, <2>12 DEF Done
  <1> QED BY <1>1, <1>2

\* A tunnel ends: what tt_tunnel_stop, a failed bind, PendingTimeout and a declined
\* share do, with the command queue as it is now.
LEMMA EndedWithRow ==
    ASSUME IInv, NEW p \in Peers, NEW cs, NEW i \in Slots, tunnels[p][i] # None,
           Home(p, tunnels[p], tunnel_seq[p], ui[p], cs, evs[p], shared, Pairs),
           tunnel_free(p, i), Push(p, Row("gone", tunnels[p][i].id))
    PROVE  /\ Home(p, tunnels'[p], tunnel_seq'[p], ui[p], cs, evs'[p], shared, Pairs)
           /\ \A nb : Waiting(nb, ui[p], cs, evs[p]) /\ (\A j \in Slots : nb[j] = tunnels'[p][j])
                        => Waiting(tunnels'[p], ui[p], cs, evs'[p])
  <1>1. tunnels'[p] = [tunnels[p] EXCEPT ![i] = None] /\ tunnel_seq' = tunnel_seq
    BY Freed
  <1>2. evs'[p] = Append(evs[p], Row("gone", tunnels[p][i].id)) /\ evs[p] \in Seq(Event)
    BY Pushed, Before
  <1>3. Home(p, [tunnels[p] EXCEPT ![i] = None], tunnel_seq[p], ui[p], cs,
             Append(evs[p], Row("gone", tunnels[p][i].id)), shared, Pairs)
    BY HomeFree
  <1>4. Row("gone", tunnels[p][i].id) \in Event
    BY TunnelAt DEF Row, Event
  <1>5. ASSUME NEW nb, Waiting(nb, ui[p], cs, evs[p]), \A j \in Slots : nb[j] = tunnels'[p][j]
        PROVE  Waiting(tunnels'[p], ui[p], cs, evs'[p])
    BY <1>2, <1>4, <1>5, WaitingOn
  <1> QED BY <1>1, <1>2, <1>3, <1>5

\* tt_tunnel_stop: the tunnel that has the id, with its row.
LEMMA CmdStop ==
    ASSUME IInv, NEW p \in Peers, NEW c, Took(p, c), c.cmd = "stop", tt_tunnel_stop(p, c)
    PROVE  Done(p)
  <1> DEFINE S == {i \in Used(p) : tunnels[p][i].id = c.id}
             i == CHOOSE k \in S : TRUE
  <1>1. CASE S = {}
    <2>1. Ignored
      BY <1>1, Zenon DEF tt_tunnel_stop
    <2> QED BY <2>1, CmdIgnored
  <1>2. CASE S # {}
    <2>1. Push(p, Row("gone", c.id)) /\ tunnel_free(p, i) /\ wire' = wire
      BY <1>2, Zenon DEF tt_tunnel_stop
    <2>2. i \in Slots /\ tunnels[p][i] # None /\ tunnels[p][i].id = c.id
      BY <1>2 DEF Used
    <2> HIDE DEF i
    <2>3. Push(p, Row("gone", tunnels[p][i].id))
      BY <2>1, <2>2
    <2>4. /\ Home(p, tunnels[p], tunnel_seq[p], ui[p], cmds'[p], evs[p], shared, Pairs)
          /\ cmds'[p] = Tail(cmds[p]) /\ setup' = setup /\ shared' = shared /\ ui' = ui
      BY Taken
    <2>5. /\ Home(p, tunnels'[p], tunnel_seq'[p], ui[p], cmds'[p], evs'[p], shared, Pairs)
          /\ \A nb : Waiting(nb, ui[p], cmds'[p], evs[p]) /\ (\A j \in Slots : nb[j] = tunnels'[p][j])
                        => Waiting(tunnels'[p], ui[p], cmds'[p], evs'[p])
      BY <2>1, <2>2, <2>3, <2>4, EndedWithRow
    <2>6. Elsewhere(p)
      <3>1. cmds' = [cmds EXCEPT ![p] = Tail(cmds[p])]
        BY DEF Took
      <3>2. tunnel_seq' = tunnel_seq /\ \E v : tunnels' = [tunnels EXCEPT ![p] = v]
        BY <2>1, <2>2, Freed
      <3>3. \E v : evs' = [evs EXCEPT ![p] = v]
        BY <2>3, Pushed
      <3> QED BY <2>4, <3>1, <3>2, <3>3, OnlyMine
    <2>7. At(p)'
      BY <2>4, <2>5 DEF At, Pairs
    <2>8. ASSUME OneInviter, WaitingOK PROVE WaitsAt(p)'
      <3>1. WaitsAt(p) /\ cmds[p] \in Seq(Command) /\ tunnels[p] \in Table
        BY <2>8, Before
      <3>2. cmds[p] # <<>> /\ Head(cmds[p]).cmd = "stop"
        BY DEF Took
      <3>3. \A j \in Slots : tunnels'[p][j] # None => tunnels'[p][j] = tunnels[p][j]
        <4>1. tunnels'[p] = [tunnels[p] EXCEPT ![i] = None]
          BY <2>1, <2>2, Freed
        <4> QED BY <3>1, <4>1 DEF Table
      <3>4. Waiting(tunnels'[p], ui[p], Tail(cmds[p]), evs[p])
        BY <3>1, <3>2, <3>3, WaitingTake DEF WaitsAt
      <3>5. Waiting(tunnels'[p], ui[p], cmds'[p], evs'[p])
        BY <2>4, <2>5, <3>4
      <3> QED BY <2>4, <3>5 DEF WaitsAt
    <2> QED BY <2>1, <2>6, <2>7, <2>8 DEF Done, IInv
  <1> QED BY <1>1, <1>2

\* tt_tunnel_decline: the invitation's tunnel, which has no row.
LEMMA CmdDecline ==
    ASSUME IInv, NEW p \in Peers, NEW c, Took(p, c), c.cmd = "decline", tt_tunnel_decline(p, c)
    PROVE  Done(p)
  <1> DEFINE i == tunnel_by_peer(p, c.fn, FALSE)
             m == [sig |-> "decline"]
  <1>1. CASE i = None \/ ~tunnels[p][i].pending
    <2>1. Ignored
      BY <1>1, Zenon DEF tt_tunnel_decline
    <2> QED BY <1>1, <2>1, CmdIgnored
  <1>2. CASE ~(i = None \/ ~tunnels[p][i].pending)
    <2>1. sig_send(p, c.fn, m) /\ tunnel_free(p, i) /\ evs' = evs
      BY <1>2, Zenon DEF tt_tunnel_decline
    <2>2. Finds(tunnels[p], c.fn, FALSE, i)
      BY ByPeerFinds
    <2>3. i \in Slots /\ tunnels[p][i] # None /\ ~IsRow(tunnels[p][i])
      BY <1>2, <2>2 DEF Finds, IsRow
    <2>4. /\ Home(p, tunnels[p], tunnel_seq[p], ui[p], cmds'[p], evs[p], shared, Pairs)
          /\ cmds'[p] = Tail(cmds[p]) /\ setup' = setup /\ shared' = shared /\ ui' = ui
          /\ c \in Command
      BY Taken
    <2>5. c.fn \in Peers /\ m \in Signal /\ m.sig # "invite"
      BY <2>4 DEF Command, Signal
    <2>6. /\ tunnels'[p] = [tunnels[p] EXCEPT ![i] = None] /\ tunnel_seq' = tunnel_seq
          /\ \E v : tunnels' = [tunnels EXCEPT ![p] = v]
      BY <2>1, <2>3, Freed
    <2>7. Elsewhere(p)
      <3>1. cmds' = [cmds EXCEPT ![p] = Tail(cmds[p])]
        BY DEF Took
      <3> QED BY <2>1, <2>4, <2>6, <3>1, OnlyMine
    <2>8. Home(p, [tunnels[p] EXCEPT ![i] = None], tunnel_seq[p], ui[p], cmds'[p], evs[p],
               shared, Pairs)
      BY <2>3, <2>4, HomeFree
    <2>9. At(p)'
      BY <2>1, <2>4, <2>6, <2>8 DEF At, Pairs
    <2>10. SignalsOK(wire', shared)
      BY <2>1, <2>5, SignalSent DEF IInv
    <2>11. ASSUME OneInviter, WaitingOK PROVE WaitsAt(p)'
      <3>1. WaitsAt(p) /\ tunnels[p] \in Table
        BY <2>11, Before
      <3>2. /\ \A j \in Slots : j # i => tunnels'[p][j] = tunnels[p][j]
            /\ tunnels'[p][i] = None
        BY <2>3, <2>6, <3>1 DEF Table
      <3>3. Waiting(tunnels'[p], ui[p], Tail(cmds[p]), evs[p])
        BY <3>1, <3>2, Answered
      <3> QED BY <2>1, <2>4, <3>3 DEF WaitsAt
    <2> QED BY <2>7, <2>9, <2>10, <2>11 DEF Done
  <1> QED BY <1>1, <1>2

\* A tunnel comes up, as a change of the table.
LEMMA Risen ==
    ASSUME IInv, NEW p \in Peers, NEW i \in Slots, tunnels[p][i] # None,
           tunnels' = [tunnels EXCEPT ![p][i].pending = FALSE]
    PROVE  /\ tunnels'[p] = [tunnels[p] EXCEPT ![i].pending = FALSE]
           /\ \E v : tunnels' = [tunnels EXCEPT ![p] = v]
           /\ \A j \in Slots : j # i => tunnels'[p][j] = tunnels[p][j]
           /\ ~tunnels'[p][i].pending
  <1>1. tunnels[p] \in Table /\ tunnels[p][i] \in TunnelType
    BY Before, TunnelAt
  <1>2. tunnels' = [tunnels EXCEPT ![p] = [tunnels[p] EXCEPT ![i].pending = FALSE]]
    OBVIOUS
  <1>3. tunnels'[p] = [tunnels[p] EXCEPT ![i].pending = FALSE]
    BY <1>2 DEF IInv, Functions
  <1>4. \A j \in Slots : j # i => tunnels'[p][j] = tunnels[p][j]
    BY <1>1, <1>3 DEF Table
  <1>5. tunnels'[p][i] = [tunnels[p][i] EXCEPT !.pending = FALSE]
    BY <1>1, <1>3 DEF Table
  <1>6. ~tunnels'[p][i].pending
    BY <1>1, <1>5 DEF TunnelType
  <1> QED BY <1>2, <1>3, <1>4, <1>6

\* tt_tunnel_accept: the tunnel comes up with a row, or the ports cannot be bound.
LEMMA CmdAccept ==
    ASSUME IInv, NEW p \in Peers, NEW c, Took(p, c), c.cmd = "accept", tt_tunnel_accept(p, c)
    PROVE  Done(p)
  <1> DEFINE i == tunnel_by_peer(p, c.fn, FALSE)
             m == [sig |-> "accept"]
             e == Row("add", tunnels[p][i].id)
  <1>1. CASE i = None \/ ~tunnels[p][i].pending
    <2>1. Ignored
      BY <1>1, Zenon DEF tt_tunnel_accept
    <2> QED BY <1>1, <2>1, CmdIgnored
  <1>2. CASE ~(i = None \/ ~tunnels[p][i].pending)
    <2>1. \/ /\ tunnels' = [tunnels EXCEPT ![p][i].pending = FALSE]
             /\ sig_send(p, c.fn, m) /\ Push(p, e) /\ tunnel_seq' = tunnel_seq
          \/ /\ Push(p, Row("gone", tunnels[p][i].id)) /\ tunnel_free(p, i) /\ wire' = wire
      BY <1>2, Zenon DEF tt_tunnel_accept
    <2>2. Finds(tunnels[p], c.fn, FALSE, i)
      BY ByPeerFinds
    <2>3. i \in Slots /\ tunnels[p][i] # None /\ ~tunnels[p][i].host
      BY <1>2, <2>2 DEF Finds
    <2>4. /\ Home(p, tunnels[p], tunnel_seq[p], ui[p], cmds'[p], evs[p], shared, Pairs)
          /\ cmds'[p] = Tail(cmds[p]) /\ setup' = setup /\ shared' = shared /\ ui' = ui
          /\ c \in Command
      BY Taken
    <2>5. c.fn \in Peers /\ m \in Signal /\ m.sig # "invite"
      BY <2>4 DEF Command, Signal
    <2>6. cmds' = [cmds EXCEPT ![p] = Tail(cmds[p])]
      BY DEF Took
    <2>7. tunnels[p] \in Table /\ evs[p] \in Seq(Event) /\ (OneInviter /\ WaitingOK => WaitsAt(p))
      BY Before
    <2>8. e \in Event /\ e = Row(IF tunnels[p][i].host THEN "live" ELSE "add", tunnels[p][i].id)
      BY <2>3, TunnelAt DEF Row, Event
    <2>9. CASE /\ tunnels' = [tunnels EXCEPT ![p][i].pending = FALSE]
               /\ sig_send(p, c.fn, m) /\ Push(p, e) /\ tunnel_seq' = tunnel_seq
      <3> HIDE DEF i, m, e
      <3>1. /\ tunnels'[p] = [tunnels[p] EXCEPT ![i].pending = FALSE]
            /\ \E v : tunnels' = [tunnels EXCEPT ![p] = v]
            /\ \A j \in Slots : j # i => tunnels'[p][j] = tunnels[p][j]
            /\ ~tunnels'[p][i].pending
        BY <2>3, <2>9, Risen
      <3>2. evs'[p] = Append(evs[p], e) /\ \E v : evs' = [evs EXCEPT ![p] = v]
        BY <2>9, Pushed
      <3>3. Elsewhere(p)
        BY <2>4, <2>6, <2>9, <3>1, <3>2, OnlyMine
      <3>4. Home(p, [tunnels[p] EXCEPT ![i].pending = FALSE], tunnel_seq[p], ui[p], cmds'[p],
                 Append(evs[p], e), shared, Pairs)
        BY <2>3, <2>4, <2>8, HomeUp
      <3>5. At(p)'
        BY <2>4, <2>9, <3>1, <3>2, <3>4 DEF At, Pairs
      <3>6. SignalsOK(wire', shared)
        BY <2>5, <2>9, SignalSent DEF IInv
      <3>7. ASSUME OneInviter, WaitingOK PROVE WaitsAt(p)'
        <4>1. /\ WaitsAt(p) /\ i = tunnel_by_peer(p, c.fn, FALSE) /\ c.cmd \in {"accept", "decline"}
              /\ i # None => tunnels'[p][i] = None \/ ~tunnels'[p][i].pending
          BY <2>7, <3>1, <3>7 DEF i
        <4>2. \A j \in Slots : j # i => tunnels'[p][j] = tunnels[p][j]
          BY <3>1
        <4>3. Waiting(tunnels'[p], ui[p], Tail(cmds[p]), evs[p])
          BY <4>1, <4>2, Answered
        <4>4. Waiting(tunnels'[p], ui[p], Tail(cmds[p]), Append(evs[p], e))
          BY <2>7, <2>8, <4>3, WaitingOn
        <4> QED BY <2>4, <3>2, <4>4 DEF WaitsAt
      <3> QED BY <3>3, <3>5, <3>6, <3>7 DEF Done
    <2>10. CASE Push(p, Row("gone", tunnels[p][i].id)) /\ tunnel_free(p, i) /\ wire' = wire
      <3> HIDE DEF i, m, e
      <3>1. /\ Home(p, tunnels'[p], tunnel_seq'[p], ui[p], cmds'[p], evs'[p], shared, Pairs)
            /\ \A nb : Waiting(nb, ui[p], cmds'[p], evs[p]) /\ (\A j \in Slots : nb[j] = tunnels'[p][j])
                        => Waiting(tunnels'[p], ui[p], cmds'[p], evs'[p])
        BY <2>3, <2>4, <2>10, EndedWithRow
      <3>2. /\ tunnels'[p] = [tunnels[p] EXCEPT ![i] = None] /\ tunnel_seq' = tunnel_seq
            /\ \E v : tunnels' = [tunnels EXCEPT ![p] = v]
        BY <2>3, <2>10, Freed
      <3>3. \E v : evs' = [evs EXCEPT ![p] = v]
        BY <2>10, Pushed
      <3>4. Elsewhere(p)
        BY <2>4, <2>6, <3>2, <3>3, OnlyMine
      <3>5. At(p)'
        BY <2>4, <3>1 DEF At, Pairs
      <3>6. ASSUME OneInviter, WaitingOK PROVE WaitsAt(p)'
        <4>1. /\ \A j \in Slots : j # i => tunnels'[p][j] = tunnels[p][j]
              /\ tunnels'[p][i] = None
          BY <2>3, <2>7, <3>2 DEF Table
        <4>2. /\ WaitsAt(p) /\ i = tunnel_by_peer(p, c.fn, FALSE) /\ c.cmd \in {"accept", "decline"}
              /\ i # None => tunnels'[p][i] = None \/ ~tunnels'[p][i].pending
          BY <2>7, <3>6, <4>1 DEF i
        <4>3. Waiting(tunnels'[p], ui[p], Tail(cmds[p]), evs[p])
          BY <4>1, <4>2, Answered
        <4>4. Waiting(tunnels'[p], ui[p], cmds'[p], evs'[p])
          BY <2>4, <3>1, <4>3
        <4> QED BY <2>4, <4>4 DEF WaitsAt
      <3> QED BY <2>10, <3>4, <3>5, <3>6 DEF Done, IInv
    <2> QED BY <2>1, <2>9, <2>10
  <1> QED BY <1>1, <1>2

\* The tox thread takes a command.
LEMMA CommandDone ==
    ASSUME IInv, NEW p \in Peers, TakeCommand(p)
    PROVE  Done(p)
  <1> DEFINE c == Head(cmds[p])
  <1>1. Took(p, c)
    BY DEF TakeCommand, Took
  <1>2. \/ c.cmd = "share" /\ tt_tunnel_share(p, c)
        \/ c.cmd = "accept" /\ tt_tunnel_accept(p, c)
        \/ c.cmd = "decline" /\ tt_tunnel_decline(p, c)
        \/ c.cmd = "stop" /\ tt_tunnel_stop(p, c)
    BY Zenon DEF TakeCommand
  <1> HIDE DEF c
  <1> QED BY <1>1, <1>2, CmdShare, CmdAccept, CmdDecline, CmdStop

-----------------------------------------------------------------------------
(* The signals                                                             *)

\* Peer p took the signal m of q off the wire.
Heard(p, q, m) ==
    /\ wire[q][p] # <<>> /\ m = Head(wire[q][p])
    /\ wire' = [wire EXCEPT ![q][p] = Tail(@)]
    /\ UNCHANGED <<engineRest, cmds>>

\* What is known when a signal is taken: an invitation names a share of q with p.
LEMMA HeardOf ==
    ASSUME IInv, NEW p \in Peers, NEW q \in Peers, NEW m, Heard(p, q, m)
    PROVE  /\ m \in Signal /\ SignalsOK(wire', shared)
           /\ setup' = setup /\ shared' = shared /\ ui' = ui /\ cmds' = cmds
           /\ m.sig = "invite" =>
                 m.svc \in 1..Len(shared) /\ shared[m.svc] = <<q, p>> /\ <<q, p>> \in Pairs
  <1>1. /\ SignalsOK(wire, shared) /\ shared \in Seq(Pairs)
        /\ wire \in [Peers -> [Peers -> Seq(Signal)]]
    BY DEF IInv, SharedOK, SignalsOK
  <1>2. /\ wire[q][p] # <<>> /\ m = Head(wire[q][p])
        /\ wire' = [wire EXCEPT ![q][p] = Tail(@)]
    BY DEF Heard
  <1>3. setup' = setup /\ shared' = shared /\ ui' = ui /\ cmds' = cmds
    BY DEF Heard, engineRest
  <1>4. /\ wire[q][p] \in Seq(Signal) /\ m \in Signal /\ m = wire[q][p][1]
        /\ 1 \in 1..Len(wire[q][p])
    BY <1>1, <1>2
  <1>5. m.sig = "invite" => m.svc \in 1..Len(shared) /\ shared[m.svc] = <<q, p>>
    BY <1>1, <1>4 DEF SignalsOK
  <1>6. m.sig = "invite" => <<q, p>> \in Pairs
    <2>1. \A k \in 1..Len(shared) : shared[k] \in Pairs
      BY <1>1
    <2> QED BY <1>5, <2>1
  <1>7. SignalsOK(wire', shared)
    <2>1. wire' \in [Peers -> [Peers -> Seq(Signal)]]
      BY <1>1, <1>2, <1>4
    <2>2. \A a, b \in Peers : \/ wire'[a][b] = wire[a][b] \/ wire'[a][b] = <<>>
                              \/ wire[a][b] # <<>> /\ wire'[a][b] = Tail(wire[a][b])
      BY <1>1, <1>2
    <2> QED BY <1>1, <2>1, <2>2, SignalsGone
  <1> QED BY <1>3, <1>4, <1>5, <1>6, <1>7

\* A signal that the engine ignores.
LEMMA SigIgnored ==
    ASSUME IInv, NEW p \in Peers, NEW q \in Peers, NEW m, Heard(p, q, m),
           tunnels' = tunnels, tunnel_seq' = tunnel_seq, evs' = evs
    PROVE  Done(p)
  <1>1. /\ setup' = setup /\ shared' = shared /\ ui' = ui /\ cmds' = cmds
        /\ SignalsOK(wire', shared)
    BY HeardOf
  <1>2. Elsewhere(p)
    BY <1>1, OnlyMine
  <1>3. At(p)'
    BY <1>1, Before DEF At, Pairs
  <1>4. OneInviter /\ WaitingOK => WaitsAt(p)'
    BY <1>1, Before DEF WaitsAt
  <1> QED BY <1>1, <1>2, <1>3, <1>4 DEF Done

\* An invitation: a tunnel that waits and the event that asks the user, unless q has
\* a tunnel to p already or the table is full.
LEMMA SigInvite ==
    ASSUME IInv, NEW p \in Peers, NEW q \in Peers, NEW m, Heard(p, q, m),
           m.sig = "invite", OnInvite(p, q, m)
    PROVE  Done(p)
  <1> DEFINE i == FreeSlot(p)
             tn == Tunnel(p, FALSE, q, m.svc)
             e == [ev |-> "invite", fn |-> q]
             k == tunnel_by_peer(p, q, FALSE)
  <1>1. CASE k # None \/ i = None
    <2>1. tunnels' = tunnels /\ tunnel_seq' = tunnel_seq /\ evs' = evs
      BY <1>1, Zenon DEF OnInvite
    <2> QED BY <2>1, SigIgnored
  <1>2. CASE k = None /\ i # None
    <2>1. tunnel_alloc(p, i, tn) /\ Push(p, e)
      BY <1>2, Zenon DEF OnInvite
    <2>2. i \in Slots /\ tunnels[p][i] = None
      BY <1>2, FreeSlotFree
    <2>3. /\ setup' = setup /\ shared' = shared /\ ui' = ui /\ cmds' = cmds
          /\ SignalsOK(wire', shared) /\ m \in Signal
          /\ m.svc \in 1..Len(shared) /\ shared[m.svc] = <<q, p>> /\ <<q, p>> \in Pairs
      BY HeardOf
    <2>4. /\ tunnel_seq[p] \in Nat /\ tunnels[p] \in Table /\ evs[p] \in Seq(Event)
          /\ Home(p, tunnels[p], tunnel_seq[p], ui[p], cmds[p], evs[p], shared, Pairs)
      BY Before DEF At
    <2>5. m.svc \in Nat
      BY <2>3 DEF IInv, SharedOK
    <2>6. /\ tn \in TunnelType /\ tn.id = tunnel_seq[p] + 1 /\ tn.pending /\ ~tn.host
          /\ OfService(p, tn, shared) /\ tn.fn = q
      BY <2>3, <2>4, <2>5 DEF Tunnel, TunnelType, OfService
    <2>7. e \in Event /\ e.ev = "invite" /\ e.fn = q
      BY DEF Event
    <2>8. Finds(tunnels[p], q, FALSE, k)
      BY ByPeerFinds
    <2>9. \A j \in Slots : tunnels[p][j] # None /\ ~tunnels[p][j].host => tunnels[p][j].fn # tn.fn
      BY <1>2, <2>4, <2>6, <2>8 DEF Finds, Table, TunnelType
    <2> HIDE DEF i, tn, e, k
    <2>10. /\ tunnels'[p] = [tunnels[p] EXCEPT ![i] = tn]
           /\ tunnel_seq'[p] = tunnel_seq[p] + 1 /\ evs'[p] = Append(evs[p], e)
           /\ \E v : tunnels' = [tunnels EXCEPT ![p] = v]
           /\ \E v : tunnel_seq' = [tunnel_seq EXCEPT ![p] = v]
           /\ \E v : evs' = [evs EXCEPT ![p] = v]
      BY <2>1, <2>2, Allocated
    <2>11. Elsewhere(p)
      BY <2>3, <2>10, OnlyMine
    <2>12. Home(p, [tunnels[p] EXCEPT ![i] = tn], tunnel_seq[p] + 1, ui[p], cmds[p],
                Append(evs[p], e), shared, Pairs)
      <3>1. ~tn.host => e.ev = "invite" /\ <<e.fn, p>> \in Pairs
        BY <2>3, <2>7
      <3>2. tn.host => Is(e, "add", tunnel_seq[p] + 1)
        BY <2>6
      <3> QED BY <2>2, <2>4, <2>6, <2>7, <2>9, <3>1, <3>2, HomeAlloc
    <2>13. At(p)'
      BY <2>3, <2>10, <2>12 DEF At, Pairs
    <2>14. ASSUME OneInviter, WaitingOK PROVE WaitsAt(p)'
      <3>1. WaitsAt(p)
        BY <2>14, Before
      <3>2. (\A j \in Slots \ {i} : tunnels'[p][j] = tunnels[p][j]) /\ tunnels'[p][i] = tn
        BY <2>2, <2>4, <2>10 DEF Table
      <3>3. Waiting(tunnels'[p], ui[p], cmds[p], Append(evs[p], e))
        BY <2>2, <2>4, <2>6, <2>7, <3>1, <3>2, WaitingInvited DEF WaitsAt
      <3> QED BY <2>3, <2>10, <3>3 DEF WaitsAt
    <2> QED BY <2>3, <2>11, <2>13, <2>14 DEF Done
  <1> QED BY <1>1, <1>2

\* The friend accepted: the host's tunnel comes up.
LEMMA SigAccept ==
    ASSUME IInv, NEW p \in Peers, NEW q \in Peers, NEW m, Heard(p, q, m), OnAccept(p, q)
    PROVE  Done(p)
  <1> DEFINE i == tunnel_by_peer(p, q, TRUE)
             e == Row("live", tunnels[p][i].id)
  <1>1. CASE i = None \/ ~tunnels[p][i].pending
    <2>1. tunnels' = tunnels /\ tunnel_seq' = tunnel_seq /\ evs' = evs
      BY <1>1, Zenon DEF OnAccept
    <2> QED BY <2>1, SigIgnored
  <1>2. CASE ~(i = None \/ ~tunnels[p][i].pending)
    <2>1. /\ tunnels' = [tunnels EXCEPT ![p][i].pending = FALSE]
          /\ Push(p, e) /\ tunnel_seq' = tunnel_seq
      BY <1>2, Zenon DEF OnAccept
    <2>2. Finds(tunnels[p], q, TRUE, i)
      BY ByPeerFinds
    <2>3. i \in Slots /\ tunnels[p][i] # None /\ tunnels[p][i].host
      BY <1>2, <2>2 DEF Finds
    <2>4. /\ setup' = setup /\ shared' = shared /\ ui' = ui /\ cmds' = cmds
          /\ SignalsOK(wire', shared)
      BY HeardOf
    <2>5. /\ tunnels[p] \in Table /\ evs[p] \in Seq(Event)
          /\ Home(p, tunnels[p], tunnel_seq[p], ui[p], cmds[p], evs[p], shared, Pairs)
      BY Before DEF At
    <2>6. e \in Event /\ e = Row(IF tunnels[p][i].host THEN "live" ELSE "add", tunnels[p][i].id)
      BY <2>3, TunnelAt DEF Row, Event
    <2> HIDE DEF i, e
    <2>7. /\ tunnels'[p] = [tunnels[p] EXCEPT ![i].pending = FALSE]
          /\ \E v : tunnels' = [tunnels EXCEPT ![p] = v]
          /\ \A j \in Slots : j # i => tunnels'[p][j] = tunnels[p][j]
          /\ ~tunnels'[p][i].pending
      BY <2>1, <2>3, Risen
    <2>8. evs'[p] = Append(evs[p], e) /\ \E v : evs' = [evs EXCEPT ![p] = v]
      BY <2>1, Pushed
    <2>9. Elsewhere(p)
      BY <2>1, <2>4, <2>7, <2>8, OnlyMine
    <2>10. Home(p, [tunnels[p] EXCEPT ![i].pending = FALSE], tunnel_seq[p], ui[p], cmds[p],
                Append(evs[p], e), shared, Pairs)
      BY <2>3, <2>5, <2>6, HomeUp
    <2>11. At(p)'
      BY <2>1, <2>4, <2>7, <2>8, <2>10 DEF At, Pairs
    <2>12. ASSUME OneInviter, WaitingOK PROVE WaitsAt(p)'
      <3>1. Waiting(tunnels[p], ui[p], cmds[p], evs[p])
        BY <2>12, Before DEF WaitsAt
      <3>2. ASSUME NEW j \in Slots, tunnels'[p][j] # None, ~tunnels'[p][j].host,
                   tunnels'[p][j].pending
            PROVE  tunnels'[p][j] = tunnels[p][j]
        BY <2>7, <3>2
      <3>3. Waiting(tunnels'[p], ui[p], cmds[p], Append(evs[p], e))
        BY <2>5, <2>6, <3>1, <3>2, WaitingOn
      <3> QED BY <2>4, <2>8, <3>3 DEF WaitsAt
    <2> QED BY <2>4, <2>9, <2>11, <2>12 DEF Done
  <1> QED BY <1>1, <1>2

\* A tunnel of p ends with its row, and nothing else of p changes but the wire: what
\* a declined share and PendingTimeout do.
LEMMA Dropped ==
    ASSUME IInv, NEW p \in Peers, NEW i \in Slots, tunnels[p][i] # None,
           setup' = setup, shared' = shared, ui' = ui, cmds' = cmds, SignalsOK(wire', shared),
           tunnel_free(p, i), Push(p, Row("gone", tunnels[p][i].id))
    PROVE  Done(p)
  <1>1. /\ Home(p, tunnels[p], tunnel_seq[p], ui[p], cmds[p], evs[p], shared, Pairs)
        /\ tunnels[p] \in Table
    BY Before DEF At
  <1>2. /\ Home(p, tunnels'[p], tunnel_seq'[p], ui[p], cmds[p], evs'[p], shared, Pairs)
        /\ \A nb : Waiting(nb, ui[p], cmds[p], evs[p]) /\ (\A j \in Slots : nb[j] = tunnels'[p][j])
                     => Waiting(tunnels'[p], ui[p], cmds[p], evs'[p])
    BY <1>1, EndedWithRow
  <1>3. /\ tunnels'[p] = [tunnels[p] EXCEPT ![i] = None] /\ tunnel_seq' = tunnel_seq
        /\ \E v : tunnels' = [tunnels EXCEPT ![p] = v]
    BY Freed
  <1>4. \E v : evs' = [evs EXCEPT ![p] = v]
    BY Pushed
  <1>5. Elsewhere(p)
    BY <1>3, <1>4, OnlyMine
  <1>6. At(p)'
    BY <1>2 DEF At, Pairs
  <1>7. ASSUME OneInviter, WaitingOK PROVE WaitsAt(p)'
    <2>1. Waiting(tunnels[p], ui[p], cmds[p], evs[p]) /\ evs[p] \in Seq(Event)
      BY <1>7, Before DEF WaitsAt
    <2>2. \A j \in Slots : tunnels'[p][j] # None => tunnels'[p][j] = tunnels[p][j]
      BY <1>1, <1>3 DEF Table
    <2>3. Waiting(tunnels'[p], ui[p], cmds[p], evs[p])
      BY <2>1, <2>2, WaitingOn
    <2>4. Waiting(tunnels'[p], ui[p], cmds[p], evs'[p])
      BY <1>2, <2>3
    <2> QED BY <2>4 DEF WaitsAt
  <1> QED BY <1>5, <1>6, <1>7 DEF Done

\* The friend declined: the host's tunnel ends with its row.
LEMMA SigDecline ==
    ASSUME IInv, NEW p \in Peers, NEW q \in Peers, NEW m, Heard(p, q, m), OnDecline(p, q)
    PROVE  Done(p)
  <1> DEFINE i == tunnel_by_peer(p, q, TRUE)
  <1>1. CASE i = None \/ ~tunnels[p][i].pending
    <2>1. tunnels' = tunnels /\ tunnel_seq' = tunnel_seq /\ evs' = evs
      BY <1>1, Zenon DEF OnDecline
    <2> QED BY <2>1, SigIgnored
  <1>2. CASE ~(i = None \/ ~tunnels[p][i].pending)
    <2>1. Push(p, Row("gone", tunnels[p][i].id)) /\ tunnel_free(p, i)
      BY <1>2, Zenon DEF OnDecline
    <2>2. Finds(tunnels[p], q, TRUE, i)
      BY ByPeerFinds
    <2>3. i \in Slots /\ tunnels[p][i] # None
      BY <1>2, <2>2 DEF Finds
    <2>4. /\ setup' = setup /\ shared' = shared /\ ui' = ui /\ cmds' = cmds
          /\ SignalsOK(wire', shared)
      BY HeardOf
    <2> HIDE DEF i
    <2> QED BY <2>1, <2>3, <2>4, Dropped
  <1> QED BY <1>1, <1>2

\* The tox thread takes a signal.
LEMMA SignalDone ==
    ASSUME IInv, NEW p \in Peers, NEW q \in Peers, tunnel_sig_rx(p, q)
    PROVE  Done(p)
  <1> DEFINE m == Head(wire[q][p])
  <1>1. Heard(p, q, m)
    BY DEF tunnel_sig_rx, Heard
  <1>2. \/ m.sig = "invite" /\ OnInvite(p, q, m)
        \/ m.sig = "accept" /\ OnAccept(p, q)
        \/ m.sig = "decline" /\ OnDecline(p, q)
    BY Zenon DEF tunnel_sig_rx
  <1> HIDE DEF m
  <1> QED BY <1>1, <1>2, SigInvite, SigAccept, SigDecline

\* tt_tunnel_poll drops an invitation that was not answered.
LEMMA TimeoutDone ==
    ASSUME IInv, NEW p \in Peers, NEW i \in Slots, PendingTimeout(p, i)
    PROVE  Done(p)
  <1>1. /\ setup' = setup /\ shared' = shared /\ ui' = ui /\ cmds' = cmds /\ wire' = wire
        /\ tunnel_free(p, i) /\ Push(p, Row("gone", tunnels[p][i].id)) /\ tunnels[p][i] # None
    BY DEF PendingTimeout, engineRest, Used
  <1>2. SignalsOK(wire', shared)
    BY <1>1 DEF IInv
  <1> QED BY <1>1, <1>2, Dropped

-----------------------------------------------------------------------------
(* The front end                                                           *)

\* Post, as a change of the peer's commands.
LEMMA Posted ==
    ASSUME IInv, NEW p \in Peers, NEW c, Post(p, c)
    PROVE  /\ cmds'[p] = Append(cmds[p], c)
           /\ \E v : cmds' = [cmds EXCEPT ![p] = v]
  BY DEF Post, IInv, Functions

\* The user answers the invitation that is shown.
LEMMA AnswerDone ==
    ASSUME IInv, NEW p \in Peers, NEW kind \in {"accept", "decline"}, Answer(p, kind)
    PROVE  Done(p)
  <1> DEFINE c == [cmd |-> kind, fn |-> ui[p].invite]
             v == [ui[p] EXCEPT !.invite = None]
  <1>1. /\ ui[p].invite # None /\ Post(p, c) /\ ui' = [ui EXCEPT ![p].invite = None]
        /\ UNCHANGED uiRest /\ shared' = shared
    BY Zenon DEF Answer
  <1>2. /\ setup' = setup /\ tunnels' = tunnels /\ tunnel_seq' = tunnel_seq /\ evs' = evs
        /\ wire' = wire
    BY <1>1 DEF uiRest
  <1>3. ui[p] \in Screen /\ cmds[p] \in Seq(Command) /\ At(p)
    BY Before
  <1>4. c \in Command /\ c.cmd = kind /\ c.cmd # "share" /\ c.fn = ui[p].invite
    BY <1>1, <1>3 DEF Command, Screen
  <1>5. ui' = [ui EXCEPT ![p] = v] /\ ui'[p] = v /\ v.invite = None
    BY <1>1, <1>3 DEF IInv, Functions, Screen
  <1> HIDE DEF c, v
  <1>6. cmds'[p] = Append(cmds[p], c) /\ \E w : cmds' = [cmds EXCEPT ![p] = w]
    BY <1>1, Posted
  <1>7. Elsewhere(p)
    BY <1>1, <1>2, <1>5, <1>6, OnlyMine
  <1>8. Home(p, tunnels[p], tunnel_seq[p], v, Append(cmds[p], c), evs[p], shared, Pairs)
    <2>1. v \in {ui[p], [ui[p] EXCEPT !.invite = None]}
      BY DEF v
    <2>2. c.cmd = "share" => c.svc \in 1..Len(shared) /\ shared[c.svc] = <<p, c.fn>>
      BY <1>4
    <2> QED BY <1>3, <1>4, <2>1, <2>2, HomePost DEF At
  <1>9. At(p)'
    BY <1>1, <1>2, <1>5, <1>6, <1>8 DEF At, Pairs
  <1>10. ASSUME OneInviter, WaitingOK PROVE WaitsAt(p)'
    <2>1. Waiting(tunnels[p], ui[p], cmds[p], evs[p])
      BY <1>10, Before DEF WaitsAt
    <2>2. v.invite = ui[p].invite \/ (c.cmd \in {"accept", "decline"} /\ c.fn = ui[p].invite)
      BY <1>4
    <2>3. Waiting(tunnels[p], v, Append(cmds[p], c), evs[p])
      BY <1>3, <1>4, <2>1, <2>2, WaitingPost
    <2> QED BY <1>2, <1>5, <1>6, <2>3 DEF WaitsAt
  <1> QED BY <1>2, <1>7, <1>9, <1>10 DEF Done, IInv

\* The user stops a tunnel of the panel.
LEMMA StopDone ==
    ASSUME IInv, NEW p \in Peers, NEW id, cc_tun_stop(p, id)
    PROVE  Done(p)
  <1> DEFINE c == [cmd |-> "stop", id |-> id]
  <1>1. /\ id \in ui[p].panel /\ Post(p, c) /\ UNCHANGED <<uiRest, ui, shared>>
    BY Zenon DEF cc_tun_stop
  <1>2. /\ setup' = setup /\ tunnels' = tunnels /\ tunnel_seq' = tunnel_seq /\ evs' = evs
        /\ wire' = wire /\ ui' = ui /\ shared' = shared
    BY <1>1 DEF uiRest
  <1>3. ui[p] \in Screen /\ cmds[p] \in Seq(Command) /\ At(p)
    BY Before
  <1>4. c \in Command /\ c.cmd # "share"
    BY <1>1, <1>3 DEF Command, Screen
  <1> HIDE DEF c
  <1>5. cmds'[p] = Append(cmds[p], c) /\ \E w : cmds' = [cmds EXCEPT ![p] = w]
    BY <1>1, Posted
  <1>6. Elsewhere(p)
    BY <1>2, <1>5, OnlyMine
  <1>7. Home(p, tunnels[p], tunnel_seq[p], ui[p], Append(cmds[p], c), evs[p], shared, Pairs)
    <2>1. ui[p] \in {ui[p], [ui[p] EXCEPT !.invite = None]}
      OBVIOUS
    <2>2. c.cmd = "share" => c.svc \in 1..Len(shared) /\ shared[c.svc] = <<p, c.fn>>
      BY <1>4
    <2> QED BY <1>3, <1>4, <2>1, <2>2, HomePost DEF At
  <1>8. At(p)'
    BY <1>2, <1>5, <1>7 DEF At, Pairs
  <1>9. ASSUME OneInviter, WaitingOK PROVE WaitsAt(p)'
    <2>1. Waiting(tunnels[p], ui[p], cmds[p], evs[p])
      BY <1>9, Before DEF WaitsAt
    <2>2. Waiting(tunnels[p], ui[p], Append(cmds[p], c), evs[p])
      BY <1>3, <1>4, <2>1, WaitingPost
    <2> QED BY <1>2, <1>5, <2>2 DEF WaitsAt
  <1> QED BY <1>2, <1>6, <1>8, <1>9 DEF Done, IInv

\* The front end takes an event.
LEMMA EventDone ==
    ASSUME IInv, NEW p \in Peers, TakeEvent(p)
    PROVE  Done(p)
  <1> DEFINE e == Head(evs[p])
             v == Showed(ui[p], e)
  <1>1. /\ evs[p] # <<>> /\ evs' = [evs EXCEPT ![p] = Tail(@)] /\ ui' = [ui EXCEPT ![p] = v]
        /\ setup' = setup /\ tunnels' = tunnels /\ tunnel_seq' = tunnel_seq /\ cmds' = cmds
        /\ wire' = wire /\ shared' = shared
    BY DEF TakeEvent
  <1>2. At(p) /\ tunnels[p] \in Table /\ evs[p] \in Seq(Event) /\ ui[p] \in Screen
    BY Before
  <1>3. Home(p, tunnels[p], tunnel_seq[p], ui[p], cmds[p], evs[p], shared, Pairs)
    BY <1>2 DEF At
  <1>4. /\ Home(p, tunnels[p], tunnel_seq[p], v, cmds[p], Tail(evs[p]), shared, Pairs)
        /\ v.invite = IF e.ev = "invite" /\ ui[p].invite = None THEN e.fn ELSE ui[p].invite
    BY <1>1, <1>3, HomeEvent
  <1> HIDE DEF v
  <1>5. ui'[p] = v /\ evs'[p] = Tail(evs[p]) /\ evs' = [evs EXCEPT ![p] = Tail(evs[p])]
    BY <1>1 DEF IInv, Functions
  <1>6. Elsewhere(p)
    BY <1>1, <1>5, OnlyMine
  <1>7. At(p)'
    BY <1>1, <1>4, <1>5 DEF At, Pairs
  <1>8. ASSUME OneInviter, WaitingOK PROVE WaitsAt(p)'
    <2>1. Waiting(tunnels[p], ui[p], cmds[p], evs[p])
      BY <1>8, Before DEF WaitsAt
    <2>2. Known(p, ui[p], cmds[p], evs[p], shared, Pairs)
      BY <1>3 DEF Home
    <2>3. e \in Event /\ e = evs[p][1] /\ 1 \in 1..Len(evs[p])
      BY <1>1, <1>2
    <2>4. e.ev = "invite" /\ ui[p].invite # None => e.fn = ui[p].invite
      <3> SUFFICES ASSUME e.ev = "invite", ui[p].invite # None PROVE e.fn = ui[p].invite
        OBVIOUS
      <3>1. <<e.fn, p>> \in Pairs /\ <<ui[p].invite, p>> \in Pairs
        BY <2>2, <2>3 DEF Known
      <3>2. e.fn \in Peers /\ ui[p].invite \in Peers
        BY <1>2, <2>3 DEF Event, Screen
      <3> QED BY <1>8, <3>1, <3>2 DEF OneInviter
    <2>5. \A i \in Slots : tunnels[p][i] # None => tunnels[p][i].fn # None
      BY <1>2, TunnelShareAssumption DEF Table, TunnelType
    <2>6. Waiting(tunnels[p], v, cmds[p], Tail(evs[p]))
      BY <1>1, <1>2, <1>4, <2>1, <2>4, <2>5, WaitingEvent
    <2> QED BY <1>1, <1>5, <2>6 DEF WaitsAt
  <1> QED BY <1>1, <1>6, <1>7, <1>8 DEF Done, IInv

-----------------------------------------------------------------------------
(* The steps keep the invariant                                            *)

\* What every step keeps.
Kept == IInv' /\ (WaitingOK => WaitingOK')

\* A step of one peer that sends and takes no datagram.
LEMMA StepDone ==
    ASSUME IInv, NEW p \in Peers, Done(p), lossy' = lossy
    PROVE  Kept
  <1>1. Elsewhere(p) /\ At(p)' /\ (OneInviter /\ WaitingOK => WaitsAt(p)') /\ SignalsOK(wire', shared)
    BY DEF Done
  <1>2. Functions' /\ Homes' /\ (WaitingOK => WaitingOK') /\ SharedOK'
    BY <1>1, Together
  <1>3. setup' = setup /\ shared' = shared
    BY <1>1 DEF Elsewhere
  <1>4. DatagramsOK'
    BY <1>3 DEF IInv, DatagramsOK
  <1>5. SignalsOK(wire', shared')
    BY <1>1, <1>3
  <1> QED BY <1>2, <1>4, <1>5 DEF IInv, Kept

\* A step that changes no peer.
LEMMA NobodyMoved ==
    ASSUME IInv, setup' = setup, tunnels' = tunnels, tunnel_seq' = tunnel_seq, ui' = ui,
           cmds' = cmds, evs' = evs, shared' = shared, SignalsOK(wire', shared),
           lossy' \subseteq lossy
    PROVE  Kept
  <1>1. SharedOK' /\ Functions' /\ Homes'
    BY DEF IInv, SharedOK, Functions, Homes, Pairs
  <1>2. WaitingOK => WaitingOK'
    BY DEF WaitingOK, OneInviter, Pairs
  <1>3. DatagramsOK'
    BY DEF IInv, DatagramsOK
  <1> QED BY <1>1, <1>2, <1>3 DEF IInv, Kept

\* The user shares a service with a friend.
LEMMA ShareKept ==
    ASSUME IInv, NEW p \in Peers, NEW q \in Peers, cc_tun_share_ok(p, q)
    PROVE  Kept
  <1> DEFINE n == Len(shared) + 1
             s == Append(shared, <<p, q>>)
             c == [cmd |-> "share", fn |-> q, svc |-> n]
  <1>1. /\ <<p, q>> \in Pairs /\ shared' = s /\ Post(p, c) /\ UNCHANGED <<uiRest, ui>>
    BY Zenon DEF cc_tun_share_ok
  <1>2. /\ setup' = setup /\ tunnels' = tunnels /\ tunnel_seq' = tunnel_seq /\ evs' = evs
        /\ wire' = wire /\ ui' = ui /\ lossy' = lossy
    BY <1>1 DEF uiRest
  <1>3. Pairs' = Pairs /\ shared \in Seq(Pairs)
    BY <1>2 DEF Pairs, IInv, SharedOK
  <1>4. /\ Len(shared) \in Nat /\ Len(s) = n /\ s \in Seq(Pairs) /\ s[n] = <<p, q>>
        /\ \A k \in 1..Len(shared) : k \in 1..Len(s) /\ s[k] = shared[k]
    BY <1>1, <1>3
  <1>5. c \in Command /\ c.svc = n /\ c.fn = q /\ n \in 1..Len(s)
    BY <1>4 DEF Command
  <1>6. ASSUME NEW r \in Peers
        PROVE  Home(r, tunnels[r], tunnel_seq[r], ui[r], cmds[r], evs[r], s, Pairs)
    <2>1. Home(r, tunnels[r], tunnel_seq[r], ui[r], cmds[r], evs[r], shared, Pairs)
      BY DEF IInv, Homes
    <2> QED BY <1>1, <1>3, <2>1, HomeShared
  <1> HIDE DEF n, s, c
  <1>7. /\ cmds'[p] = Append(cmds[p], c) /\ DOMAIN cmds' = Peers
        /\ \A r \in Peers \ {p} : cmds'[r] = cmds[r]
    BY <1>1 DEF Post, IInv, Functions
  <1>8. Home(p, tunnels[p], tunnel_seq[p], ui[p], cmds'[p], evs[p], s, Pairs)
    <2>1. ui[p] \in {ui[p], [ui[p] EXCEPT !.invite = None]}
      OBVIOUS
    <2>2. c.cmd = "share" => c.svc \in 1..Len(s) /\ s[c.svc] = <<p, c.fn>>
      BY <1>4, <1>5
    <2>3. Home(p, tunnels[p], tunnel_seq[p], ui[p], cmds[p], evs[p], s, Pairs)
      BY <1>6
    <2>4. Home(p, tunnels[p], tunnel_seq[p], ui[p], Append(cmds[p], c), evs[p], s, Pairs)
      BY <1>5, <2>1, <2>2, <2>3, HomePost
    <2> QED BY <1>7, <2>4
  <1>9. Homes'
    <2> SUFFICES ASSUME NEW r \in Peers
                 PROVE  Home(r, tunnels[r], tunnel_seq[r], ui[r], cmds'[r], evs[r], s, Pairs)
      BY <1>1, <1>2, <1>3 DEF Homes
    <2> QED BY <1>6, <1>7, <1>8
  <1>10. Functions' /\ SharedOK'
    BY <1>1, <1>2, <1>3, <1>4, <1>7 DEF IInv, Functions, SharedOK
  <1>11. SignalsOK(wire', shared')
    BY <1>1, <1>2, <1>4 DEF IInv, SignalsOK
  <1>12. DatagramsOK'
    BY <1>1, <1>2, <1>4 DEF IInv, DatagramsOK
  <1>14. ASSUME WaitingOK PROVE WaitingOK'
    <2> SUFFICES ASSUME OneInviter, NEW r \in Peers
                 PROVE  Waiting(tunnels[r], ui[r], cmds'[r], evs[r])
      BY <1>2, <1>3 DEF WaitingOK, OneInviter
    <2>1. Waiting(tunnels[r], ui[r], cmds[r], evs[r]) /\ cmds[r] \in Seq(Command)
      BY <1>14, Before DEF WaitingOK
    <2>2. CASE r = p
      <3>1. Waiting(tunnels[p], ui[p], Append(cmds[p], c), evs[p])
        BY <1>5, <2>1, <2>2, WaitingPost
      <3> QED BY <1>7, <2>2, <3>1
    <2>3. CASE r # p
      BY <1>7, <2>1, <2>3
    <2> QED BY <2>2, <2>3
  <1> QED BY <1>9, <1>10, <1>11, <1>12, <1>14 DEF IInv, Kept

\* The link between two peers fails.
LEMMA CutKept ==
    ASSUME IInv, NEW p \in Peers, NEW q \in Peers, Cut(p, q)
    PROVE  Kept
  <1>1. /\ p # q /\ wire' = [wire EXCEPT ![p][q] = <<>>, ![q][p] = <<>>]
        /\ lossy' = {d \in lossy : {d.from, d.to} # {p, q}}
        /\ setup' = setup /\ tunnels' = tunnels /\ tunnel_seq' = tunnel_seq /\ ui' = ui
        /\ cmds' = cmds /\ evs' = evs /\ shared' = shared
    BY Zenon DEF Cut
  <1>2. SignalsOK(wire, shared) /\ wire \in [Peers -> [Peers -> Seq(Signal)]]
    BY DEF IInv, SignalsOK
  <1>3. /\ wire' \in [Peers -> [Peers -> Seq(Signal)]]
        /\ \A a, b \in Peers : wire'[a][b] = wire[a][b] \/ wire'[a][b] = <<>>
    <2>1. <<>> \in Seq(Signal)
      OBVIOUS
    <2> QED BY <1>1, <1>2, <2>1
  <1>4. SignalsOK(wire', shared)
    BY <1>2, <1>3, SignalsGone
  <1>5. lossy' \subseteq lossy
    BY <1>1
  <1> QED BY <1>1, <1>4, <1>5, NobodyMoved

-----------------------------------------------------------------------------
(* Datagrams                                                               *)

\* The tunnels of p go on and no queue of p changes.
LEMMA TunnelsGoOn ==
    ASSUME IInv, NEW p \in Peers, setup' = setup, tunnel_seq' = tunnel_seq, ui' = ui,
           cmds' = cmds, evs' = evs, wire' = wire, shared' = shared,
           NEW nb, nb \in Table, tunnels' = [tunnels EXCEPT ![p] = nb],
           \A j \in Slots : IF tunnels[p][j] = None THEN nb[j] = None
                            ELSE /\ Same(tunnels[p][j], nb[j])
                                 /\ nb[j].pending = tunnels[p][j].pending
    PROVE  Done(p)
  <1>1. tunnels'[p] = nb
    BY DEF IInv, Functions
  <1>2. Home(p, tunnels[p], tunnel_seq[p], ui[p], cmds[p], evs[p], shared, Pairs)
    BY Before DEF At
  <1>3. Home(p, nb, tunnel_seq[p], ui[p], cmds[p], evs[p], shared, Pairs)
    BY <1>2, HomeSame
  <1>4. At(p)'
    BY <1>1, <1>3 DEF At, Pairs
  <1>5. Elsewhere(p)
    BY OnlyMine
  <1>6. ASSUME OneInviter, WaitingOK PROVE WaitsAt(p)'
    <2>1. Waiting(tunnels[p], ui[p], cmds[p], evs[p]) /\ evs[p] \in Seq(Event)
      BY <1>6, Before DEF WaitsAt
    <2>2. ASSUME NEW j \in Slots, nb[j] # None, ~nb[j].host, nb[j].pending
          PROVE  /\ tunnels[p][j] # None /\ ~tunnels[p][j].host /\ tunnels[p][j].pending
                 /\ nb[j].fn = tunnels[p][j].fn
      <3>1. tunnels[p][j] # None
        BY <2>2
      <3>2. Same(tunnels[p][j], nb[j]) /\ nb[j].pending = tunnels[p][j].pending
        BY <3>1
      <3> QED BY <2>2, <3>1, <3>2 DEF Same
    <2>3. Waiting(nb, ui[p], cmds[p], evs[p])
      BY <2>1, <2>2, WaitingOn
    <2> QED BY <1>1, <2>3 DEF WaitsAt
  <1> QED BY <1>4, <1>5, <1>6 DEF Done, IInv

\* A step of one peer, with its datagrams.
LEMMA StepSent ==
    ASSUME IInv, NEW p \in Peers, Done(p), DatagramsOK'
    PROVE  Kept
  <1>1. Elsewhere(p) /\ At(p)' /\ (OneInviter /\ WaitingOK => WaitsAt(p)') /\ SignalsOK(wire', shared)
    BY DEF Done
  <1>2. Functions' /\ Homes' /\ (WaitingOK => WaitingOK') /\ SharedOK'
    BY <1>1, Together
  <1>3. SignalsOK(wire', shared')
    BY <1>1 DEF Elsewhere
  <1> QED BY <1>2, <1>3 DEF IInv, Kept

\* A datagram is sent in the name of the tunnel's service.
LEMMA DatagramSent ==
    ASSUME IInv, NEW p \in Peers, NEW q \in Peers, NEW svc \in 1..Len(shared),
           shared[svc] \in {<<p, q>>, <<q, p>>}, Datagram(p, q, svc)
    PROVE  DatagramsOK'
  <1> DEFINE d == [from |-> p, to |-> q, svc |-> svc, no |-> sent]
  <1>1. shared' = shared /\ (lossy' = lossy \/ lossy' = lossy \cup {d})
    BY DEF Datagram
  <1>4. d.from = p /\ d.to = q /\ d.svc = svc
    OBVIOUS
  <1> HIDE DEF d
  <1>5. \A x \in lossy' : x \in lossy \/ x = d
    BY <1>1
  <1>6. \A x \in lossy' : /\ x.from \in Peers /\ x.to \in Peers /\ x.svc \in 1..Len(shared)
                          /\ shared[x.svc] \in {<<x.from, x.to>>, <<x.to, x.from>>}
    BY <1>4, <1>5 DEF IInv, DatagramsOK
  <1> QED BY <1>1, <1>6 DEF DatagramsOK

\* The tunnels that go on unchanged.
LEMMA Itself ==
    ASSUME IInv, NEW p \in Peers, NEW j \in Slots, tunnels[p][j] # None
    PROVE  Same(tunnels[p][j], tunnels[p][j])
  BY TunnelAt, Zenon DEF Same, OfService

\* A datagram of the client's application.
LEMMA PollClientKept ==
    ASSUME IInv, NEW p \in Peers, NEW i \in Slots, PollClient(p, i)
    PROVE  Kept
  <1> DEFINE tn == tunnels[p][i]
             nb == [tunnels[p] EXCEPT ![i] = [tn EXCEPT !.peer_set = TRUE]]
  <1>1. /\ tunnels[p][i] # None /\ ~tunnels[p][i].host
        /\ tunnels' = [tunnels EXCEPT ![p][i].peer_set = TRUE] /\ Datagram(p, tn.fn, tn.svc)
    BY DEF PollClient, Live, Used
  <1>2. /\ tn \in TunnelType /\ OfService(p, tn, shared) /\ tunnels[p] \in Table
        /\ Same(tunnels[p][i], tunnels[p][i])
    BY <1>1, TunnelAt, Before, Itself
  <1>3. tn.fn \in Peers /\ tn.svc \in 1..Len(shared) /\ shared[tn.svc] = <<tn.fn, p>>
    BY <1>1, <1>2 DEF TunnelType, OfService
  <1>4. /\ setup' = setup /\ tunnel_seq' = tunnel_seq /\ ui' = ui /\ cmds' = cmds
        /\ evs' = evs /\ wire' = wire /\ shared' = shared
    BY <1>1 DEF Datagram
  <1>5. DatagramsOK'
    <2> HIDE DEF tn
    <2> QED BY <1>1, <1>3, DatagramSent
  <1>6. tunnels' = [tunnels EXCEPT ![p] = nb]
    BY <1>1
  <1>7. /\ nb \in Table /\ nb[i] = [tn EXCEPT !.peer_set = TRUE]
        /\ \A j \in Slots \ {i} : nb[j] = tunnels[p][j]
    <2>1. [tn EXCEPT !.peer_set = TRUE] \in TunnelType
      <3> HIDE DEF tn
      <3> QED BY <1>2 DEF TunnelType
    <2> QED BY <1>2, <2>1 DEF Table
  <1>8. Same(tn, nb[i]) /\ nb[i].pending = tn.pending
    <2> DEFINE tm == [tn EXCEPT !.peer_set = TRUE]
    <2>1. tm \in TunnelType /\ \A x \in TunnelType : [x EXCEPT !.peer_set = TRUE].socks = x.socks
      BY <1>2 DEF TunnelType
    <2>2. /\ tm.id = tn.id /\ tm.host = tn.host /\ tm.fn = tn.fn /\ tm.svc = tn.svc
          /\ tm.allow = tn.allow /\ tm.socks = tn.socks /\ tm.pending = tn.pending
      BY <1>2 DEF TunnelType
    <2>3. tn.socks \subseteq tn.allow
      BY <1>2 DEF OfService
    <2>4. nb[i] = tm
      BY <1>7
    <2> HIDE DEF tm
    <2> QED BY <2>1, <2>2, <2>3, <2>4 DEF Same
  <1> HIDE DEF nb
  <1>9. \A j \in Slots : IF tunnels[p][j] = None THEN nb[j] = None
                         ELSE /\ Same(tunnels[p][j], nb[j])
                              /\ nb[j].pending = tunnels[p][j].pending
    BY <1>1, <1>7, <1>8, Itself
  <1>10. Done(p)
    BY <1>4, <1>6, <1>7, <1>9, TunnelsGoOn
  <1> QED BY <1>5, <1>10, StepSent

\* A datagram of the server to a friend who has a socket.
LEMMA PollHostKept ==
    ASSUME IInv, NEW p \in Peers, NEW i \in Slots, NEW q \in Peers, PollHost(p, i, q)
    PROVE  Kept
  <1> DEFINE tn == tunnels[p][i]
  <1>1. /\ tn # None /\ q \in tn.socks /\ Datagram(p, q, tn.svc) /\ tunnels' = tunnels
    BY DEF PollHost, Live, Used
  <1>2. tn \in TunnelType /\ OfService(p, tn, shared)
    BY <1>1, TunnelAt
  <1>3. tn.svc \in 1..Len(shared) /\ shared[tn.svc] = <<p, q>>
    BY <1>1, <1>2, Zenon DEF OfService
  <1>4. /\ setup' = setup /\ tunnel_seq' = tunnel_seq /\ ui' = ui /\ cmds' = cmds
        /\ evs' = evs /\ wire' = wire /\ shared' = shared
    BY <1>1 DEF Datagram
  <1> HIDE DEF tn
  <1>5. DatagramsOK'
    BY <1>1, <1>3, DatagramSent
  <1>6. /\ SharedOK' /\ Functions' /\ Homes' /\ SignalsOK(wire', shared')
        /\ (WaitingOK => WaitingOK')
    <2>1. SharedOK' /\ Functions' /\ Homes' /\ SignalsOK(wire', shared')
      BY <1>1, <1>4 DEF IInv, SharedOK, Functions, Homes, Pairs
    <2>2. WaitingOK => WaitingOK'
      BY <1>1, <1>4 DEF WaitingOK, OneInviter, Pairs
    <2> QED BY <2>1, <2>2
  <1> QED BY <1>5, <1>6 DEF IInv, Kept

\* A datagram arrives.
LEMMA ArrivalKept ==
    ASSUME IInv, NEW p \in Peers, NEW d \in lossy, tt_tunnel_rx(p, d)
    PROVE  Kept
  <1> DEFINE by == {i \in Live(p) : Takes(tunnels[p][i], d.from)}
             nb == [i \in Slots |-> IF i \in by THEN Fed(tunnels[p][i], d.from)
                                    ELSE tunnels[p][i]]
  <1>1. /\ tunnels' = [tunnels EXCEPT ![p] = nb] /\ lossy' = lossy \ {d}
        /\ setup' = setup /\ tunnel_seq' = tunnel_seq /\ ui' = ui /\ cmds' = cmds
        /\ evs' = evs /\ wire' = wire /\ shared' = shared
    BY DEF tt_tunnel_rx
  <1>2. d.from \in Peers /\ tunnels[p] \in Table
    BY Before DEF IInv, DatagramsOK
  <1>3. ASSUME NEW j \in Slots
        PROVE  /\ nb[j] \in TunnelType \cup {None}
               /\ IF tunnels[p][j] = None THEN nb[j] = None
                  ELSE /\ Same(tunnels[p][j], nb[j])
                       /\ nb[j].pending = tunnels[p][j].pending
    <2>1. CASE j \in by /\ tunnels[p][j].host
      <3> DEFINE tn == tunnels[p][j]
                 tm == [tn EXCEPT !.socks = tn.socks \cup {d.from}]
      <3>1. tn # None /\ d.from \in tn.allow /\ nb[j] = tm
        BY <2>1 DEF Live, Used, Takes, Fed
      <3>2. tn \in TunnelType /\ Same(tn, tn)
        BY <3>1, TunnelAt, Itself
      <3> HIDE DEF tn
      <3>3. /\ tm \in TunnelType /\ tm.id = tn.id /\ tm.host = tn.host /\ tm.fn = tn.fn
            /\ tm.svc = tn.svc /\ tm.allow = tn.allow /\ tm.socks = tn.socks \cup {d.from}
            /\ tm.pending = tn.pending
        BY <1>2, <3>2 DEF TunnelType
      <3> HIDE DEF tm
      <3>4. Same(tn, tm)
        BY <3>1, <3>2, <3>3 DEF Same
      <3> QED BY <3>1, <3>3, <3>4 DEF tn
    <2>2. CASE ~(j \in by /\ tunnels[p][j].host)
      <3>1. nb[j] = tunnels[p][j]
        BY <2>2 DEF Fed
      <3>2. tunnels[p][j] # None => Same(tunnels[p][j], tunnels[p][j])
        BY Itself
      <3>3. tunnels[p][j] \in TunnelType \cup {None}
        BY <1>2 DEF Table
      <3> HIDE DEF nb
      <3> QED BY <3>1, <3>2, <3>3
    <2> QED BY <2>1, <2>2
  <1>4. nb \in Table
    BY <1>3 DEF Table
  <1> HIDE DEF nb
  <1>5. Done(p)
    BY <1>1, <1>3, <1>4, TunnelsGoOn
  <1>6. DatagramsOK'
    BY <1>1 DEF IInv, DatagramsOK
  <1> QED BY <1>5, <1>6, StepSent

-----------------------------------------------------------------------------
(* Theorems                                                                *)

\* Nothing is shared, shown, queued or sent at first.
LEMMA InitOK ==
    ASSUME Init
    PROVE  IInv /\ WaitingOK
  <1>1. setup \in Setups /\ shared = <<>> /\ lossy = {}
    BY DEF Init
  <1>2. Functions /\ SharedOK /\ DatagramsOK
    BY <1>1 DEF Init, Functions, SharedOK, DatagramsOK
  <1>3. SignalsOK(wire, shared)
    BY DEF Init, SignalsOK
  <1>4. ASSUME NEW p \in Peers
        PROVE  /\ Home(p, tunnels[p], tunnel_seq[p], ui[p], cmds[p], evs[p], shared, Pairs)
               /\ Waiting(tunnels[p], ui[p], cmds[p], evs[p])
    <2>1. /\ tunnels[p] = [i \in Slots |-> None] /\ tunnel_seq[p] = 0 /\ cmds[p] = <<>>
          /\ evs[p] = <<>> /\ ui[p] = [invite |-> None, panel |-> {}]
      BY DEF Init
    <2>2. \A i \in Slots : tunnels[p][i] = None
      BY <2>1
    <2>3. Typed(tunnels[p], tunnel_seq[p], ui[p], cmds[p], evs[p])
      BY <2>1 DEF Typed, Table, Screen
    <2>4. TableOK(p, tunnels[p], tunnel_seq[p], shared)
      BY <2>2 DEF TableOK
    <2>5. ui[p].panel = {} /\ ui[p].invite = None /\ Len(evs[p]) = 0 /\ Len(cmds[p]) = 0
      BY <2>1
    <2>6. Rows(tunnels[p]) = {}
      BY <2>2 DEF Rows, IsRow
    <2>7. RowsShown(tunnels[p], ui[p], evs[p])
      BY <2>5, <2>6 DEF RowsShown, Showing
    <2>8. Known(p, ui[p], cmds[p], evs[p], shared, Pairs)
      BY <2>5 DEF Known
    <2>9. Waiting(tunnels[p], ui[p], cmds[p], evs[p])
      BY <2>2 DEF Waiting
    <2> QED BY <2>3, <2>4, <2>7, <2>8, <2>9 DEF Home
  <1> QED BY <1>1, <1>2, <1>3, <1>4 DEF IInv, Homes, WaitingOK

\* Every step keeps the invariant.
LEMMA NextKept ==
    ASSUME IInv, [Next]_vars
    PROVE  Kept /\ setup' = setup
  <1>1. CASE UNCHANGED vars
    <2>1. Kept
      <3>1. /\ setup' = setup /\ tunnels' = tunnels /\ tunnel_seq' = tunnel_seq /\ ui' = ui
            /\ cmds' = cmds /\ evs' = evs /\ shared' = shared /\ wire' = wire
            /\ lossy' = lossy
        BY <1>1 DEF vars
      <3> QED BY <3>1, NobodyMoved DEF IInv
    <2> QED BY <1>1, <2>1 DEF vars
  <1>2. ASSUME NEW p \in Peers, cc_tun_accept(p) \/ cc_tun_decline(p)
        PROVE  Kept /\ setup' = setup
    <2>1. PICK kind \in {"accept", "decline"} : Answer(p, kind)
      BY <1>2 DEF cc_tun_accept, cc_tun_decline
    <2>2. setup' = setup /\ lossy' = lossy
      BY <2>1 DEF Answer, uiRest
    <2>3. Done(p)
      BY <2>1, AnswerDone
    <2> QED BY <2>2, <2>3, StepDone
  <1>3. ASSUME NEW p \in Peers, TakeEvent(p)
        PROVE  Kept /\ setup' = setup
    <2>1. setup' = setup /\ lossy' = lossy
      BY <1>3 DEF TakeEvent
    <2> QED BY <1>3, <2>1, EventDone, StepDone
  <1>4. ASSUME NEW p \in Peers, TakeCommand(p)
        PROVE  Kept /\ setup' = setup
    <2>1. setup' = setup /\ lossy' = lossy
      BY <1>4 DEF TakeCommand, engineRest
    <2> QED BY <1>4, <2>1, CommandDone, StepDone
  <1>5. ASSUME NEW p \in Peers, NEW id, cc_tun_stop(p, id)
        PROVE  Kept /\ setup' = setup
    <2>1. setup' = setup /\ lossy' = lossy
      BY <1>5 DEF cc_tun_stop, uiRest
    <2> QED BY <1>5, <2>1, StopDone, StepDone
  <1>6. ASSUME NEW p \in Peers, NEW i \in Slots, PendingTimeout(p, i)
        PROVE  Kept /\ setup' = setup
    <2>1. setup' = setup /\ lossy' = lossy
      BY <1>6 DEF PendingTimeout, engineRest
    <2> QED BY <1>6, <2>1, TimeoutDone, StepDone
  <1>7. ASSUME NEW p \in Peers, NEW i \in Slots, PollClient(p, i)
        PROVE  Kept /\ setup' = setup
    <2>1. setup' = setup
      BY <1>7 DEF PollClient, Datagram
    <2> QED BY <1>7, <2>1, PollClientKept
  <1>8. ASSUME NEW p \in Peers, NEW i \in Slots, NEW q \in Peers, PollHost(p, i, q)
        PROVE  Kept /\ setup' = setup
    <2>1. setup' = setup
      BY <1>8 DEF PollHost, Datagram
    <2> QED BY <1>8, <2>1, PollHostKept
  <1>9. ASSUME NEW p \in Peers, NEW q \in Peers, cc_tun_share_ok(p, q)
        PROVE  Kept /\ setup' = setup
    <2>1. setup' = setup
      BY <1>9 DEF cc_tun_share_ok, uiRest
    <2> QED BY <1>9, <2>1, ShareKept
  <1>10. ASSUME NEW p \in Peers, NEW q \in Peers, tunnel_sig_rx(p, q)
         PROVE  Kept /\ setup' = setup
    <2>1. setup' = setup /\ lossy' = lossy
      BY <1>10 DEF tunnel_sig_rx, engineRest
    <2> QED BY <1>10, <2>1, SignalDone, StepDone
  <1>11. ASSUME NEW p \in Peers, NEW q \in Peers, Cut(p, q)
         PROVE  Kept /\ setup' = setup
    <2>1. setup' = setup
      BY <1>11 DEF Cut
    <2> QED BY <1>11, <2>1, CutKept
  <1>12. ASSUME NEW p \in Peers, NEW d \in lossy, tt_tunnel_rx(p, d)
         PROVE  Kept /\ setup' = setup
    <2>1. setup' = setup
      BY <1>12 DEF tt_tunnel_rx
    <2> QED BY <1>12, <2>1, ArrivalKept
  <1>13. ASSUME NEW d \in lossy, LoseDatagram(d)
         PROVE  Kept /\ setup' = setup
    <2>1. /\ setup' = setup /\ tunnels' = tunnels /\ tunnel_seq' = tunnel_seq /\ ui' = ui
          /\ cmds' = cmds /\ evs' = evs /\ shared' = shared /\ wire' = wire
          /\ lossy' \subseteq lossy
      BY <1>13 DEF LoseDatagram
    <2> QED BY <2>1, NobodyMoved DEF IInv
  <1>14. ASSUME Reconnect
         PROVE  Kept /\ setup' = setup
    <2>1. /\ setup' = setup /\ tunnels' = tunnels /\ tunnel_seq' = tunnel_seq /\ ui' = ui
          /\ cmds' = cmds /\ evs' = evs /\ shared' = shared /\ wire' = wire
          /\ lossy' \subseteq lossy
      BY <1>14 DEF Reconnect
    <2> QED BY <2>1, NobodyMoved DEF IInv
  <1> QED
    <2>1. CASE Next
      BY <2>1, <1>2, <1>3, <1>4, <1>5, <1>6, <1>7, <1>8, <1>9, <1>10, <1>11, <1>12, <1>13,
         <1>14 DEF Next
    <2> QED BY <1>1, <2>1

\* The inductive invariant holds: the tables, screens and queues of every peer fit
\* together, signals and datagrams are of services that were shared.
THEOREM TunnelsFitTogether == Spec => [](IInv /\ WaitingOK)
  <1>1. Init => IInv /\ WaitingOK
    BY InitOK
  <1>2. IInv /\ WaitingOK /\ [Next]_vars => (IInv /\ WaitingOK)'
    BY NextKept DEF Kept
  <1> QED BY <1>1, <1>2, PTL DEF Spec

\* The rows that the panel owes are those that the property counts.
LEMMA QuietPanel ==
    ASSUME IInv, NEW p \in Peers, Quiet(p)
    PROVE  ui[p].panel = RowsOf(p)
  <1>1. RowsShown(tunnels[p], ui[p], evs[p]) /\ ui[p] \in Screen /\ tunnels[p] \in Table
    BY Before DEF At, Home
  <1>2. Len(evs[p]) = 0
    BY DEF Quiet
  <1>3. \A id \in Nat : id \in Rows(tunnels[p]) <=> id \in ui[p].panel
    BY <1>1, <1>2 DEF RowsShown, Showing
  <1>4. Rows(tunnels[p]) \subseteq Nat /\ ui[p].panel \subseteq Nat
    BY <1>1 DEF Rows, IsRow, Table, TunnelType, Screen
  <1>5. RowsOf(p) = Rows(tunnels[p])
    BY DEF RowsOf, Rows, IsRow, Used
  <1> QED BY <1>3, <1>4, <1>5

\* Once a peer's queues are empty its panel lists exactly its tunnels, whatever was
\* shared, answered, stopped, timed out, cut or failed to bind, and in which order.
THEOREM PanelTrue == Spec => [](\A p \in Peers : Quiet(p) => ui[p].panel = RowsOf(p))
  <1>1. IInv => \A p \in Peers : Quiet(p) => ui[p].panel = RowsOf(p)
    BY QuietPanel
  <1> QED BY <1>1, TunnelsFitTogether, PTL

\* ScreenTrue for every peer, if everybody is invited by one friend at most: there is
\* one dialog, and an invitation that finds it open is not shown (ui_tk.c).
THEOREM ScreenTold == Spec => [](OneInviter => ScreenTrue)
  <1>1. ASSUME IInv, WaitingOK, OneInviter PROVE ScreenTrue
    <2> SUFFICES ASSUME NEW p \in Peers, Quiet(p)
                 PROVE  /\ ui[p].panel = RowsOf(p)
                        /\ \A i \in Used(p) : ~tunnels[p][i].host /\ tunnels[p][i].pending
                             => ui[p].invite = tunnels[p][i].fn
      BY DEF ScreenTrue
    <2>1. ui[p].panel = RowsOf(p)
      BY <1>1, QuietPanel
    <2>2. Waiting(tunnels[p], ui[p], cmds[p], evs[p])
      BY <1>1 DEF WaitingOK
    <2>3. Len(cmds[p]) = 0 /\ Len(evs[p]) = 0
      BY DEF Quiet
    <2>4. \A q : Asked(q, ui[p], cmds[p], evs[p]) => ui[p].invite = q
      BY <2>3 DEF Asked
    <2> QED BY <2>1, <2>2, <2>4 DEF Waiting, Used
  <1> QED BY <1>1, TunnelsFitTogether, PTL

-----------------------------------------------------------------------------
(* Two services of one direction.  As long as nothing is loose between     *)
(* host h and friend f, all there is between them belongs to one invite:   *)
(* the host's tunnel, the invite or the friend's tunnel or the answer.     *)

\* slot i of tb holds a tunnel with q in that role
Of(tb, i, q, host) == tb[i] # None /\ tb[i].host = host /\ tb[i].fn = q

Invites == {"invite"}
Answers == {"accept", "decline"}
Has(w, kinds) == \E k \in 1..Len(w) : w[k].sig \in kinds
Single(w, kinds) ==
    \A j, k \in 1..Len(w) : w[j].sig \in kinds /\ w[k].sig \in kinds => j = k

\* th and tf: their tables, wo: the signals out, wb: the signals back, ds: the
\* services of the datagrams under way
Tight(h, f, th, tf, wo, wb, ds) ==
    /\ \A i, j \in Slots : Of(th, i, f, TRUE) /\ Of(th, j, f, TRUE) => i = j
    /\ \A i, j \in Slots : Of(tf, i, h, FALSE) /\ Of(tf, j, h, FALSE) => i = j
    /\ \A j \in Slots : Of(tf, j, h, FALSE) =>
          \E i \in Slots : Of(th, i, f, TRUE) /\ th[i].svc = tf[j].svc
    /\ \A i \in Slots : Of(th, i, f, TRUE) /\ ~th[i].pending =>
          \E j \in Slots : Of(tf, j, h, FALSE) /\ ~tf[j].pending
    /\ Single(wo, Invites) /\ Single(wb, Answers)
    /\ \A k \in 1..Len(wo) : wo[k].sig = "invite" =>
          /\ \A j \in Slots : ~Of(tf, j, h, FALSE)
          /\ ~Has(wb, Answers)
          /\ \E i \in Slots : Of(th, i, f, TRUE) /\ th[i].pending /\ th[i].svc = wo[k].svc
    /\ Has(wb, {"decline"}) =>
          /\ \A j \in Slots : ~Of(tf, j, h, FALSE)
          /\ \E i \in Slots : Of(th, i, f, TRUE) /\ th[i].pending
    /\ Has(wb, {"accept"}) => \E j \in Slots : Of(tf, j, h, FALSE) /\ ~tf[j].pending
    /\ \A n \in ds : \E j \in Slots : Of(tf, j, h, FALSE) /\ ~tf[j].pending /\ tf[j].svc = n

Flying(h, f) == {n \in 1..Len(shared) : shared[n] = <<h, f>> /\ \E d \in lossy : d.svc = n}
TightAt(h, f) == Tight(h, f, tunnels[h], tunnels[f], wire[h][f], wire[f][h], Flying(h, f))
Orderly == \A h, f \in Peers : <<h, f>> \notin loose => TightAt(h, f)
DownLoose == \A h, f \in Peers : {h, f} \in down => <<h, f>> \in loose
StraysOK == \A s \in strays : /\ s[1] \in 1..Len(shared) /\ s[2] \in 1..Len(shared)
                              /\ Among(s[1], s[2])
                              /\ shared[s[1]] = shared[s[2]] => shared[s[1]] \in loose

\* v has no more signals of these kinds than w.
NoMore(v, w, kinds) ==
    /\ Single(w, kinds) => Single(v, kinds)
    /\ \A k \in 1..Len(v) : v[k].sig \in kinds => \E j \in 1..Len(w) : w[j] = v[k]

LEMMA NoMoreSame ==
    ASSUME NEW w, NEW kinds
    PROVE  NoMore(w, w, kinds)
  BY DEF NoMore

\* A signal is received.
LEMMA NoMoreTail ==
    ASSUME NEW w \in Seq(Signal), w # <<>>, NEW kinds
    PROVE  /\ NoMore(Tail(w), w, kinds)
           /\ Single(w, kinds) /\ Head(w).sig \in kinds => ~Has(Tail(w), kinds)
  <1>1. Tail(w) \in Seq(Signal) /\ Len(Tail(w)) = Len(w) - 1 /\ Len(w) \in Nat /\ Len(w) > 0
    OBVIOUS
  <1>2. \A k \in 1..Len(Tail(w)) : Tail(w)[k] = w[k + 1] /\ k + 1 \in 1..Len(w)
    BY <1>1
  <1>3. Head(w) = w[1] /\ 1 \in 1..Len(w)
    BY <1>1
  <1> HIDE DEF Signal
  <1>4. ASSUME Single(w, kinds) PROVE Single(Tail(w), kinds)
    BY <1>1, <1>2, <1>4 DEF Single
  <1>5. ASSUME Single(w, kinds), Head(w).sig \in kinds PROVE ~Has(Tail(w), kinds)
    <2> SUFFICES ASSUME NEW k \in 1..Len(Tail(w)), Tail(w)[k].sig \in kinds PROVE FALSE
      BY DEF Has
    <2>1. 1 = k + 1
      BY <1>2, <1>3, <1>5 DEF Single
    <2> QED BY <1>1, <2>1
  <1> QED BY <1>2, <1>4, <1>5 DEF NoMore

\* A signal of another kind is sent, or the first of its kind.
LEMMA NoMoreAppend ==
    ASSUME NEW w \in Seq(Signal), NEW m \in Signal, NEW kinds
    PROVE  /\ m.sig \notin kinds => NoMore(Append(w, m), w, kinds)
           /\ ~Has(w, kinds) => /\ Single(Append(w, m), kinds)
                                /\ \A k \in 1..Len(Append(w, m)) :
                                      Append(w, m)[k].sig \in kinds => Append(w, m)[k] = m
  <1> DEFINE v == Append(w, m)
  <1>1. Len(w) \in Nat /\ \A k \in 1..Len(v) : (k \in 1..Len(w) /\ v[k] = w[k]) \/ (k = Len(w) + 1 /\ v[k] = m)
    OBVIOUS
  <1> HIDE DEF v, Signal
  <1>2. ASSUME m.sig \notin kinds PROVE NoMore(v, w, kinds)
    <2>1. \A k \in 1..Len(v) : v[k].sig \in kinds => k \in 1..Len(w) /\ v[k] = w[k]
      BY <1>1, <1>2
    <2> QED BY <2>1 DEF NoMore, Single
  <1>3. ASSUME ~Has(w, kinds)
        PROVE  /\ Single(v, kinds)
               /\ \A k \in 1..Len(v) : v[k].sig \in kinds => v[k] = m
    <2>1. \A k \in 1..Len(v) : v[k].sig \in kinds => k = Len(w) + 1 /\ v[k] = m
      BY <1>1, <1>3 DEF Has
    <2> QED BY <2>1 DEF Single
  <1> QED BY <1>2, <1>3 DEF v

\* The tunnels with q in that role are the same in both tables.
Alike(tb, nb, q, host) ==
    \A i \in Slots : /\ Of(nb, i, q, host) <=> Of(tb, i, q, host)
                     /\ Of(tb, i, q, host) => /\ nb[i].svc = tb[i].svc
                                              /\ nb[i].pending = tb[i].pending

\* The step of another pair.
LEMMA TightOther ==
    ASSUME NEW h, NEW f, NEW th, NEW tf, NEW wo, NEW wb, NEW ds,
           Tight(h, f, th, tf, wo, wb, ds), NEW nh, NEW nf, NEW vo, NEW vb, NEW es,
           Alike(th, nh, f, TRUE), Alike(tf, nf, h, FALSE),
           NoMore(vo, wo, Invites), NoMore(vb, wb, Answers),
           \A n \in es : n \in ds \/ \E j \in Slots : Of(tf, j, h, FALSE) /\ ~tf[j].pending /\ tf[j].svc = n
    PROVE  Tight(h, f, nh, nf, vo, vb, es)
  <1>1. /\ \A i, j \in Slots : Of(nh, i, f, TRUE) /\ Of(nh, j, f, TRUE) => i = j
        /\ \A i, j \in Slots : Of(nf, i, h, FALSE) /\ Of(nf, j, h, FALSE) => i = j
    BY DEF Tight, Alike
  <1>2. \A j \in Slots : Of(nf, j, h, FALSE) =>
            \E i \in Slots : Of(nh, i, f, TRUE) /\ nh[i].svc = nf[j].svc
    <2> SUFFICES ASSUME NEW j \in Slots, Of(nf, j, h, FALSE)
                 PROVE  \E i \in Slots : Of(nh, i, f, TRUE) /\ nh[i].svc = nf[j].svc
      OBVIOUS
    <2>1. Of(tf, j, h, FALSE) /\ nf[j].svc = tf[j].svc
      BY DEF Alike
    <2>2. PICK i \in Slots : Of(th, i, f, TRUE) /\ th[i].svc = tf[j].svc
      BY <2>1 DEF Tight
    <2>3. Of(nh, i, f, TRUE) /\ nh[i].svc = th[i].svc
      BY <2>2 DEF Alike
    <2> QED BY <2>1, <2>2, <2>3
  <1>3. \A i \in Slots : Of(nh, i, f, TRUE) /\ ~nh[i].pending =>
            \E j \in Slots : Of(nf, j, h, FALSE) /\ ~nf[j].pending
    BY DEF Tight, Alike
  <1>4. Single(vo, Invites) /\ Single(vb, Answers)
    BY DEF Tight, NoMore
  <1>5. Has(vb, Answers) => Has(wb, Answers)
    BY DEF NoMore, Has
  <1>6. ASSUME NEW k \in 1..Len(vo), vo[k].sig = "invite"
        PROVE  /\ \A j \in Slots : ~Of(nf, j, h, FALSE)
               /\ ~Has(vb, Answers)
               /\ \E i \in Slots : Of(nh, i, f, TRUE) /\ nh[i].pending /\ nh[i].svc = vo[k].svc
    <2>1. PICK l \in 1..Len(wo) : wo[l] = vo[k]
      BY <1>6 DEF NoMore, Invites
    <2>2. /\ \A j \in Slots : ~Of(tf, j, h, FALSE)
          /\ ~Has(wb, Answers)
          /\ \E i \in Slots : Of(th, i, f, TRUE) /\ th[i].pending /\ th[i].svc = wo[l].svc
      BY <1>6, <2>1 DEF Tight
    <2> QED BY <1>5, <2>1, <2>2 DEF Alike
  <1>7. /\ Has(vb, {"decline"}) => Has(wb, {"decline"})
        /\ Has(vb, {"accept"}) => Has(wb, {"accept"})
    BY DEF NoMore, Has, Answers
  <1>8. Has(wb, {"decline"}) =>
          /\ \A j \in Slots : ~Of(nf, j, h, FALSE)
          /\ \E i \in Slots : Of(nh, i, f, TRUE) /\ nh[i].pending
    BY DEF Tight, Alike
  <1>9. Has(wb, {"accept"}) => \E j \in Slots : Of(nf, j, h, FALSE) /\ ~nf[j].pending
    BY DEF Tight, Alike
  <1>10. \A n \in es : \E j \in Slots : Of(nf, j, h, FALSE) /\ ~nf[j].pending /\ nf[j].svc = n
    <2>1. \A n \in es : \E j \in Slots : Of(tf, j, h, FALSE) /\ ~tf[j].pending /\ tf[j].svc = n
      BY DEF Tight
    <2> QED BY <2>1 DEF Alike
  <1> QED BY <1>1, <1>2, <1>3, <1>4, <1>6, <1>7, <1>8, <1>9, <1>10 DEF Tight

\* The host invites: a tunnel in slot i, and an invite for its service.
LEMMA TightShare ==
    ASSUME NEW h, NEW f, NEW th, NEW tf, NEW wo, NEW wb, NEW ds,
           Tight(h, f, th, tf, wo, wb, ds), NEW nh, NEW nf, NEW vo, NEW vb,
           \A j \in Slots : ~Of(th, j, f, TRUE), NEW i \in Slots, Of(nh, i, f, TRUE),
           nh[i].pending, \A j \in Slots : Of(nh, j, f, TRUE) => j = i,
           Alike(tf, nf, h, FALSE), NoMore(vb, wb, Answers), Single(vo, Invites),
           \A k \in 1..Len(vo) : vo[k].sig \in Invites => vo[k].svc = nh[i].svc
    PROVE  Tight(h, f, nh, nf, vo, vb, ds)
  <1>1. \A j \in Slots : ~Of(tf, j, h, FALSE) /\ ~Of(nf, j, h, FALSE)
    BY DEF Tight, Alike
  <1>2. ~Has(wb, Answers)
    BY <1>1 DEF Tight, Has, Answers
  <1>3. ~Has(vb, Answers) /\ Single(vb, Answers)
    BY <1>2 DEF NoMore, Has, Tight
  <1>4. ~Has(vb, {"decline"}) /\ ~Has(vb, {"accept"})
    BY <1>3 DEF Has, Answers
  <1>5. \A n \in ds : FALSE
    BY <1>1 DEF Tight
  <1> QED BY <1>1, <1>3, <1>4, <1>5 DEF Tight, Invites

\* The friend accepts the invite in slot i.
LEMMA TightAccept ==
    ASSUME NEW h, NEW f, NEW th, NEW tf, NEW wo, NEW wb, NEW ds,
           Tight(h, f, th, tf, wo, wb, ds), NEW nh, NEW nf, NEW vo, NEW vb,
           NEW i \in Slots, Of(tf, i, h, FALSE), tf[i].pending,
           Of(nf, i, h, FALSE), nf[i].svc = tf[i].svc, ~nf[i].pending,
           \A j \in Slots : Of(nf, j, h, FALSE) => j = i,
           Alike(th, nh, f, TRUE), NoMore(vo, wo, Invites),
           ~Has(wb, Answers) => /\ Single(vb, Answers)
                                /\ \A k \in 1..Len(vb) : vb[k].sig \in Answers => vb[k].sig = "accept"
    PROVE  Tight(h, f, nh, nf, vo, vb, ds)
  <1>1. \A j \in Slots : Of(tf, j, h, FALSE) => j = i
    BY DEF Tight
  <1>2. ~Has(wb, Answers)
    BY <1>1 DEF Tight, Has, Answers
  <1>3. Single(vb, Answers) /\ ~Has(vb, {"decline"})
    BY <1>2 DEF Has, Answers
  <1>4. ~Has(wo, Invites)
    BY DEF Tight, Has, Invites
  <1>5. ~Has(vo, Invites) /\ Single(vo, Invites)
    BY <1>4 DEF NoMore, Has, Tight
  <1>6. \A n \in ds : FALSE
    BY <1>1 DEF Tight
  <1>7. \E j \in Slots : Of(nh, j, f, TRUE) /\ nh[j].svc = nf[i].svc
    BY DEF Tight, Alike
  <1>8. \A j, k \in Slots : Of(nh, j, f, TRUE) /\ Of(nh, k, f, TRUE) => j = k
    BY DEF Tight, Alike
  <1>9. \A k \in 1..Len(vo) : vo[k].sig # "invite"
    BY <1>5 DEF Has, Invites
  <1> QED BY <1>3, <1>5, <1>6, <1>7, <1>8, <1>9 DEF Tight

\* The friend declines the invite in slot i.
LEMMA TightDecline ==
    ASSUME NEW h, NEW f, NEW th, NEW tf, NEW wo, NEW wb, NEW ds,
           Tight(h, f, th, tf, wo, wb, ds), NEW nh, NEW nf, NEW vo, NEW vb,
           NEW i \in Slots, Of(tf, i, h, FALSE), tf[i].pending,
           \A j \in Slots : ~Of(nf, j, h, FALSE),
           Alike(th, nh, f, TRUE), NoMore(vo, wo, Invites),
           ~Has(wb, Answers) => /\ Single(vb, Answers)
                                /\ \A k \in 1..Len(vb) : vb[k].sig \in Answers => vb[k].sig = "decline"
    PROVE  Tight(h, f, nh, nf, vo, vb, ds)
  <1>1. \A j \in Slots : Of(tf, j, h, FALSE) => j = i
    BY DEF Tight
  <1>2. ~Has(wb, Answers)
    BY <1>1 DEF Tight, Has, Answers
  <1>3. Single(vb, Answers) /\ ~Has(vb, {"accept"})
    BY <1>2 DEF Has, Answers
  <1>4. ~Has(wo, Invites)
    BY DEF Tight, Has, Invites
  <1>5. ~Has(vo, Invites) /\ Single(vo, Invites)
    BY <1>4 DEF NoMore, Has, Tight
  <1>6. \A n \in ds : FALSE
    BY <1>1 DEF Tight
  <1>7. \A j \in Slots : Of(th, j, f, TRUE) => th[j].pending
    BY <1>1 DEF Tight
  <1>8. \A j \in Slots : Of(nh, j, f, TRUE) => nh[j].pending
    BY <1>7 DEF Alike
  <1>9. \E j \in Slots : Of(nh, j, f, TRUE)
    BY DEF Tight, Alike
  <1>10. \A j, k \in Slots : Of(nh, j, f, TRUE) /\ Of(nh, k, f, TRUE) => j = k
    BY DEF Tight, Alike
  <1>11. \A k \in 1..Len(vo) : vo[k].sig # "invite"
    BY <1>5 DEF Has, Invites
  <1> QED BY <1>3, <1>5, <1>6, <1>8, <1>9, <1>10, <1>11 DEF Tight

\* The invite arrives and gets slot i.
LEMMA TightInvited ==
    ASSUME NEW h, NEW f, NEW th, NEW tf, NEW wo \in Seq(Signal), NEW wb, NEW ds,
           Tight(h, f, th, tf, wo, wb, ds), NEW nh, NEW nf, NEW vb,
           wo # <<>>, Head(wo).sig = "invite",
           NEW i \in Slots, Of(nf, i, h, FALSE), nf[i].pending, nf[i].svc = Head(wo).svc,
           \A j \in Slots : Of(nf, j, h, FALSE) => j = i \/ Of(tf, j, h, FALSE),
           Alike(th, nh, f, TRUE), NoMore(vb, wb, Answers)
    PROVE  Tight(h, f, nh, nf, Tail(wo), vb, ds)
  <1>1. 1 \in 1..Len(wo) /\ wo[1] = Head(wo)
    OBVIOUS
  <1>2. /\ \A j \in Slots : ~Of(tf, j, h, FALSE)
        /\ ~Has(wb, Answers)
        /\ \E j \in Slots : Of(th, j, f, TRUE) /\ th[j].pending /\ th[j].svc = nf[i].svc
    <2>1. wo[1].sig = "invite" /\ wo[1].svc = nf[i].svc
      BY <1>1
    <2>2. \A k \in 1..Len(wo) : wo[k].sig = "invite" =>
            /\ \A j \in Slots : ~Of(tf, j, h, FALSE)
            /\ ~Has(wb, Answers)
            /\ \E j \in Slots : Of(th, j, f, TRUE) /\ th[j].pending /\ th[j].svc = wo[k].svc
      BY Zenon DEF Tight
    <2> QED BY <1>1, <2>1, <2>2
  <1>3. ~Has(vb, Answers) /\ Single(vb, Answers)
    BY <1>2 DEF NoMore, Has, Tight
  <1>4. ~Has(vb, {"accept"}) /\ ~Has(vb, {"decline"})
    BY <1>3 DEF Has, Answers
  <1>5. Single(wo, Invites) /\ Head(wo).sig \in Invites
    BY DEF Tight, Invites
  <1>6. Single(Tail(wo), Invites) /\ ~Has(Tail(wo), Invites)
    BY <1>5, NoMoreTail DEF NoMore
  <1>7. \A k \in 1..Len(Tail(wo)) : Tail(wo)[k].sig # "invite"
    BY <1>6 DEF Has, Invites
  <1>8. \A n \in ds : FALSE
    BY <1>2 DEF Tight
  <1>9. \A j, k \in Slots : Of(th, j, f, TRUE) /\ Of(th, k, f, TRUE) => j = k
    BY DEF Tight
  <1>10. /\ \A j, k \in Slots : Of(nh, j, f, TRUE) /\ Of(nh, k, f, TRUE) => j = k
         /\ \A j \in Slots : Of(nh, j, f, TRUE) => nh[j].pending /\ nh[j].svc = nf[i].svc
         /\ \E j \in Slots : Of(nh, j, f, TRUE)
    BY <1>2, <1>9 DEF Alike
  <1>11. \A j \in Slots : Of(nf, j, h, FALSE) => j = i
    BY <1>2
  <1> QED BY <1>3, <1>4, <1>6, <1>7, <1>8, <1>10, <1>11 DEF Tight

\* The answer arrives: the host's tunnel in slot i goes live, or ends.
LEMMA TightAnswered ==
    ASSUME NEW h, NEW f, NEW th, NEW tf, NEW wo, NEW wb \in Seq(Signal), NEW ds,
           Tight(h, f, th, tf, wo, wb, ds), NEW nh, NEW nf, NEW vo,
           wb # <<>>, Head(wb).sig \in Answers,
           NEW i \in Slots, Of(th, i, f, TRUE), th[i].pending,
           IF Head(wb).sig = "accept"
           THEN Of(nh, i, f, TRUE) /\ nh[i].svc = th[i].svc
           ELSE ~Of(nh, i, f, TRUE),
           \A j \in Slots : Of(nh, j, f, TRUE) => Of(th, j, f, TRUE),
           Alike(tf, nf, h, FALSE), NoMore(vo, wo, Invites)
    PROVE  Tight(h, f, nh, nf, vo, Tail(wb), ds)
  <1>1. 1 \in 1..Len(wb) /\ wb[1] = Head(wb)
    OBVIOUS
  <1>2. Has(wb, Answers) /\ Single(wb, Answers)
    BY <1>1 DEF Has, Tight
  <1>3. Single(Tail(wb), Answers) /\ ~Has(Tail(wb), Answers)
    BY <1>2, NoMoreTail DEF NoMore
  <1>4. ~Has(Tail(wb), {"accept"}) /\ ~Has(Tail(wb), {"decline"})
    BY <1>3 DEF Has, Answers
  <1>5. ~Has(wo, Invites)
    BY <1>2 DEF Tight, Has, Invites
  <1>6. ~Has(vo, Invites) /\ Single(vo, Invites)
    BY <1>5 DEF NoMore, Has, Tight
  <1>7. \A k \in 1..Len(vo) : vo[k].sig # "invite"
    BY <1>6 DEF Has, Invites
  <1>8. \A j \in Slots : Of(th, j, f, TRUE) => j = i
    BY DEF Tight
  <1>9. /\ \A j, k \in Slots : Of(nf, j, h, FALSE) /\ Of(nf, k, h, FALSE) => j = k
        /\ \A n \in ds : \E j \in Slots : Of(nf, j, h, FALSE) /\ ~nf[j].pending /\ nf[j].svc = n
        /\ \A j \in Slots : Of(nf, j, h, FALSE) => th[i].svc = nf[j].svc
    <2>1. \A j \in Slots : Of(tf, j, h, FALSE) => th[i].svc = tf[j].svc
      BY <1>8 DEF Tight
    <2>2. \A j, k \in Slots : Of(tf, j, h, FALSE) /\ Of(tf, k, h, FALSE) => j = k
      BY DEF Tight
    <2>3. \A n \in ds : \E j \in Slots : Of(tf, j, h, FALSE) /\ ~tf[j].pending /\ tf[j].svc = n
      BY DEF Tight
    <2>4. \A j \in Slots : /\ Of(nf, j, h, FALSE) <=> Of(tf, j, h, FALSE)
                           /\ Of(tf, j, h, FALSE) => nf[j].svc = tf[j].svc /\ nf[j].pending = tf[j].pending
      BY DEF Alike
    <2> QED BY <2>1, <2>2, <2>3, <2>4
  <1>10. CASE Head(wb).sig = "accept"
    <2>1. Has(wb, {"accept"})
      BY <1>1, <1>10 DEF Has
    <2>2. \E j \in Slots : Of(nf, j, h, FALSE) /\ ~nf[j].pending
      BY <2>1 DEF Tight, Alike
    <2> QED BY <1>3, <1>4, <1>6, <1>7, <1>8, <1>9, <1>10, <2>2 DEF Tight
  <1>11. CASE Head(wb).sig = "decline"
    <2>1. Has(wb, {"decline"})
      BY <1>1, <1>11 DEF Has
    <2>2. \A j \in Slots : ~Of(nf, j, h, FALSE)
      BY <2>1 DEF Tight, Alike
    <2>3. \A j \in Slots : ~Of(nh, j, f, TRUE)
      BY <1>8, <1>11
    <2> QED BY <1>3, <1>4, <1>6, <1>7, <1>9, <2>2, <2>3 DEF Tight
  <1> QED BY <1>10, <1>11 DEF Answers

\* The two peers of a pair are not touched.
LEMMA Untouched ==
    ASSUME NEW h \in Peers, NEW f \in Peers, TightAt(h, f),
           Alike(tunnels[h], tunnels'[h], f, TRUE), Alike(tunnels[f], tunnels'[f], h, FALSE),
           NoMore(wire'[h][f], wire[h][f], Invites), NoMore(wire'[f][h], wire[f][h], Answers),
           Flying(h, f)' \subseteq Flying(h, f)
    PROVE  TightAt(h, f)'
  BY TightOther DEF TightAt

LEMMA AlikeSelf ==
    ASSUME NEW tb, NEW q, NEW host
    PROVE  Alike(tb, tb, q, host)
  BY DEF Alike

LEMMA FlyingSame ==
    ASSUME shared' = shared, lossy' = lossy, NEW h, NEW f
    PROVE  Flying(h, f)' = Flying(h, f)
  BY DEF Flying

\* One slot of p changes, and neither what it held nor what it holds is with q.
LEMMA OneSlot ==
    ASSUME IInv, NEW p \in Peers, NEW i \in Slots, NEW tn,
           tunnels' = [tunnels EXCEPT ![p] = [tunnels[p] EXCEPT ![i] = tn]],
           NEW r \in Peers, NEW q, NEW host,
           r = p => ~Of(tunnels[p], i, q, host) /\ ~(tn # None /\ tn.host = host /\ tn.fn = q)
    PROVE  Alike(tunnels[r], tunnels'[r], q, host)
  <1>1. DOMAIN tunnels = Peers /\ tunnels[p] \in Table
    BY Before DEF IInv, Functions
  <1>2. CASE r # p
    <2>1. tunnels'[r] = tunnels[r]
      BY <1>1, <1>2
    <2> QED BY <2>1, AlikeSelf
  <1>3. CASE r = p
    <2>1. tunnels'[p][i] = tn /\ \A j \in Slots : j # i => tunnels'[p][j] = tunnels[p][j]
      BY <1>1 DEF Table
    <2>2. ASSUME NEW j \in Slots
          PROVE  /\ Of(tunnels'[p], j, q, host) <=> Of(tunnels[p], j, q, host)
                 /\ Of(tunnels[p], j, q, host) => /\ tunnels'[p][j].svc = tunnels[p][j].svc
                                                  /\ tunnels'[p][j].pending = tunnels[p][j].pending
      <3>1. CASE j = i
        BY <1>3, <2>1, <3>1 DEF Of
      <3>2. CASE j # i
        BY <2>1, <3>2 DEF Of
      <3> QED BY <3>1, <3>2
    <2> QED BY <1>3, <2>2 DEF Alike
  <1> QED BY <1>2, <1>3

\* sig_send: what each queue of signals has after it.
LEMMA Sent ==
    ASSUME IInv, NEW p \in Peers, NEW q \in Peers, NEW m \in Signal, sig_send(p, q, m),
           NEW a \in Peers, NEW b \in Peers
    PROVE  /\ wire[a][b] \in Seq(Signal)
           /\ ~(a = p /\ b = q) => wire'[a][b] = wire[a][b]
           /\ {p, q} \notin down => wire'[p][q] = Append(wire[p][q], m)
           /\ \A kinds : m.sig \notin kinds \/ ~(a = p /\ b = q) =>
                 NoMore(wire'[a][b], wire[a][b], kinds)
  <1>1. wire \in [Peers -> [Peers -> Seq(Signal)]]
    BY DEF IInv, SignalsOK
  <1>2. \/ wire' = wire /\ {p, q} \in down
        \/ wire' = [wire EXCEPT ![p][q] = Append(wire[p][q], m)]
    BY DEF sig_send
  <1>3. /\ wire[a][b] \in Seq(Signal) /\ wire[p][q] \in Seq(Signal)
        /\ ~(a = p /\ b = q) => wire'[a][b] = wire[a][b]
        /\ {p, q} \notin down => wire'[p][q] = Append(wire[p][q], m)
        /\ wire'[a][b] = wire[a][b] \/ (a = p /\ b = q /\ wire'[a][b] = Append(wire[a][b], m))
    BY <1>1, <1>2
  <1>4. ASSUME NEW kinds, m.sig \notin kinds \/ ~(a = p /\ b = q)
        PROVE  NoMore(wire'[a][b], wire[a][b], kinds)
    <2>1. CASE wire'[a][b] = wire[a][b]
      BY <2>1, NoMoreSame
    <2>2. CASE a = p /\ b = q /\ wire'[a][b] = Append(wire[a][b], m)
      <3>1. m.sig \notin kinds
        BY <1>4, <2>2
      <3>2. NoMore(Append(wire[a][b], m), wire[a][b], kinds)
        BY <1>3, <3>1, NoMoreAppend
      <3> QED BY <2>2, <3>2
    <2> QED BY <1>3, <2>1, <2>2
  <1> QED BY <1>3, <1>4

\* A signal of q is received by p.
Receives(p, q) == wire[q][p] # <<>> /\ wire' = [wire EXCEPT ![q][p] = Tail(@)]
LEMMA Received ==
    ASSUME IInv, NEW p \in Peers, NEW q \in Peers, Receives(p, q),
           NEW a \in Peers, NEW b \in Peers
    PROVE  /\ wire[a][b] \in Seq(Signal) /\ wire'[q][p] = Tail(wire[q][p])
           /\ \A kinds : NoMore(wire'[a][b], wire[a][b], kinds)
  <1>1. wire \in [Peers -> [Peers -> Seq(Signal)]]
    BY DEF IInv, SignalsOK
  <1>2. /\ wire[a][b] \in Seq(Signal) /\ wire[q][p] \in Seq(Signal) /\ wire'[q][p] = Tail(wire[q][p])
        /\ wire'[a][b] = wire[a][b] \/ (a = q /\ b = p /\ wire'[a][b] = Tail(wire[a][b]))
    BY <1>1 DEF Receives
  <1>3. ASSUME NEW kinds PROVE NoMore(wire'[a][b], wire[a][b], kinds)
    <2>1. CASE wire'[a][b] = wire[a][b]
      BY <2>1, NoMoreSame
    <2>2. CASE a = q /\ b = p /\ wire'[a][b] = Tail(wire[a][b])
      <3>1. wire[a][b] # <<>>
        BY <2>2 DEF Receives
      <3>2. NoMore(Tail(wire[a][b]), wire[a][b], kinds)
        BY <1>2, <3>1, NoMoreTail
      <3> QED BY <2>2, <3>2
    <2> QED BY <1>2, <2>1, <2>2
  <1> QED BY <1>2, <1>3

\* A step that changes neither tables nor datagrams and sends nothing.
LEMMA OrderlyStill ==
    ASSUME IInv, Orderly, tunnels' = tunnels, shared' = shared, lossy' = lossy,
           loose \subseteq loose',
           \A a, b \in Peers : \A kinds : NoMore(wire'[a][b], wire[a][b], kinds)
    PROVE  Orderly'
  <1> SUFFICES ASSUME NEW h \in Peers, NEW f \in Peers, <<h, f>> \notin loose'
               PROVE  TightAt(h, f)'
    BY DEF Orderly
  <1>1. TightAt(h, f)
    BY DEF Orderly
  <1>2. Flying(h, f)' = Flying(h, f)
    BY FlyingSame
  <1>3. Alike(tunnels[h], tunnels'[h], f, TRUE) /\ Alike(tunnels[f], tunnels'[f], h, FALSE)
    BY AlikeSelf
  <1> QED BY <1>1, <1>2, <1>3, Untouched

\* A tunnel is given up without a word: the pair is loose.
LEMMA OrderlyGivenUp ==
    ASSUME IInv, Orderly, NEW p \in Peers, NEW i \in Slots, tunnels[p][i] # None,
           tunnel_free(p, i), wire' = wire, lossy' = lossy, shared' = shared,
           loose' = loose \cup GivenUp(p)
    PROVE  Orderly'
  <1> SUFFICES ASSUME NEW h \in Peers, NEW f \in Peers, <<h, f>> \notin loose'
               PROVE  TightAt(h, f)'
    BY DEF Orderly
  <1>1. TightAt(h, f)
    BY DEF Orderly
  <1>2. /\ tunnels' = [tunnels EXCEPT ![p] = [tunnels[p] EXCEPT ![i] = None]]
        /\ tunnels[p] \in Table /\ DOMAIN tunnels = Peers
    BY Before DEF tunnel_free, IInv, Functions
  <1>3. tunnels'[p][i] = None
    BY <1>2 DEF Table
  <1>4. Parties(p, tunnels[p][i]) # <<h, f>>
    BY <1>3 DEF GivenUp, Used
  <1>5. /\ h = p => ~Of(tunnels[p], i, f, TRUE)
        /\ f = p => ~Of(tunnels[p], i, h, FALSE)
    BY <1>4 DEF Parties, Of
  <1>6. Alike(tunnels[h], tunnels'[h], f, TRUE) /\ Alike(tunnels[f], tunnels'[f], h, FALSE)
    BY <1>2, <1>5, OneSlot
  <1>7. Flying(h, f)' = Flying(h, f)
    BY FlyingSame
  <1>8. NoMore(wire'[h][f], wire[h][f], Invites) /\ NoMore(wire'[f][h], wire[f][h], Answers)
    BY NoMoreSame
  <1> QED BY <1>1, <1>6, <1>7, <1>8, Untouched

\* A command or signal that is ignored.
LEMMA OrderlyIgnored ==
    ASSUME IInv, Orderly, Ignored, lossy' = lossy, shared' = shared, loose \subseteq loose'
    PROVE  Orderly'
  BY OrderlyStill, NoMoreSame DEF Ignored

\* tt_tunnel_share: the first invite of the pair, or the pair is loose.
LEMMA OrderlyShare ==
    ASSUME IInv, Orderly, DownLoose, NEW p \in Peers, NEW c, Took(p, c), c.cmd = "share",
           tt_tunnel_share(p, c),
           loose' = loose \cup {pq \in {<<p, c.fn>>} : tunnel_by_peer(p, c.fn, TRUE) # None}
    PROVE  Orderly'
  <1> DEFINE i == FreeSlot(p)
             tn == Tunnel(p, TRUE, c.fn, c.svc)
             m == [sig |-> "invite", svc |-> c.svc]
  <1>1. lossy' = lossy /\ shared' = shared
    BY DEF Took, engineRest
  <1>2. CASE i = None
    <2>1. Ignored
      BY <1>2, Zenon DEF tt_tunnel_share
    <2> QED BY <1>1, <2>1, OrderlyIgnored
  <1>3. CASE i # None
    <2>1. /\ tunnels' = [tunnels EXCEPT ![p] = [tunnels[p] EXCEPT ![i] = tn]]
          /\ sig_send(p, c.fn, m)
      BY <1>3 DEF tt_tunnel_share, tunnel_alloc
    <2>2. i \in Slots /\ tunnels[p][i] = None
      BY <1>3, FreeSlotFree
    <2>3. c \in Command
      BY Taken
    <2>4. c.fn \in Peers /\ c.svc \in Nat /\ tunnel_seq[p] \in Nat
      BY <2>3, Before DEF Command
    <2>5. tn \in TunnelType /\ tn.pending /\ tn.host = TRUE /\ tn.fn = c.fn /\ tn.svc = c.svc
      BY <2>4 DEF Tunnel, TunnelType
    <2>6. m \in Signal /\ m.sig \notin Answers /\ m.svc = c.svc /\ m.sig = "invite"
      BY <2>4 DEF Signal, Answers
    <2> HIDE DEF i, tn, m
    <2>7. tn # None /\ DOMAIN tunnels = Peers /\ tunnels[p] \in Table
      BY <2>5, TunnelShareAssumption, Before DEF IInv, Functions
    <2> SUFFICES ASSUME NEW h \in Peers, NEW f \in Peers, <<h, f>> \notin loose'
                 PROVE  TightAt(h, f)'
      BY DEF Orderly
    <2>8. TightAt(h, f) /\ <<h, f>> \notin loose
      BY DEF Orderly
    <2>9. Flying(h, f)' = Flying(h, f)
      BY <1>1, FlyingSame
    <2>10. NoMore(wire'[f][h], wire[f][h], Answers)
      BY <2>1, <2>4, <2>6, Sent
    <2>11. Alike(tunnels[f], tunnels'[f], h, FALSE)
      <3>1. ~Of(tunnels[p], i, h, FALSE) /\ ~(tn # None /\ tn.host = FALSE /\ tn.fn = h)
        BY <2>2, <2>5 DEF Of
      <3> QED BY <2>1, <2>2, <3>1, OneSlot
    <2>12. CASE h = p /\ f = c.fn
      <3>1. tunnel_by_peer(p, f, TRUE) = None
        BY <2>12
      <3>2. \A j \in Slots : ~Of(tunnels[p], j, f, TRUE)
        <4>1. Finds(tunnels[p], f, TRUE, None)
          BY <3>1, ByPeerFinds
        <4> QED BY <4>1, Zenon DEF Finds, Of
      <3>3. {p, c.fn} \notin down
        BY <2>8, <2>12 DEF DownLoose
      <3>4. wire'[h][f] = Append(wire[h][f], m) /\ wire[h][f] \in Seq(Signal)
        BY <2>1, <2>4, <2>6, <2>12, <3>3, Sent
      <3>5. ~Has(wire[h][f], Invites)
        BY <2>8, <2>12, <3>2 DEF TightAt, Tight, Has, Invites
      <3>6. /\ Single(wire'[h][f], Invites)
            /\ \A k \in 1..Len(wire'[h][f]) : wire'[h][f][k].sig \in Invites => wire'[h][f][k] = m
        BY <2>6, <3>4, <3>5, NoMoreAppend
      <3>7. tunnels'[h][i] = tn /\ \A j \in Slots : j # i => tunnels'[h][j] = tunnels[h][j]
        BY <2>1, <2>2, <2>7, <2>12 DEF Table
      <3>8. /\ Of(tunnels'[h], i, f, TRUE) /\ tunnels'[h][i].pending
            /\ \A j \in Slots : Of(tunnels'[h], j, f, TRUE) => j = i
        BY <2>5, <2>7, <2>12, <3>2, <3>7 DEF Of
      <3>9. \A k \in 1..Len(wire'[h][f]) : wire'[h][f][k].sig \in Invites =>
                wire'[h][f][k].svc = tunnels'[h][i].svc
        BY <2>5, <2>6, <3>6, <3>7
      <3>10. Tight(h, f, tunnels[h], tunnels[f], wire[h][f], wire[f][h], Flying(h, f))
        BY <2>8 DEF TightAt
      <3>11. \A j \in Slots : ~Of(tunnels[h], j, f, TRUE)
        BY <2>12, <3>2
      <3>12. Tight(h, f, tunnels'[h], tunnels'[f], wire'[h][f], wire'[f][h], Flying(h, f))
        BY <2>2, <2>10, <2>11, <3>6, <3>8, <3>9, <3>10, <3>11, TightShare
      <3> QED BY <2>9, <3>12 DEF TightAt
    <2>13. CASE ~(h = p /\ f = c.fn)
      <3>1. h = p => ~Of(tunnels[p], i, f, TRUE) /\ ~(tn # None /\ tn.host = TRUE /\ tn.fn = f)
        BY <2>2, <2>5, <2>13 DEF Of
      <3>2. Alike(tunnels[h], tunnels'[h], f, TRUE)
        BY <2>1, <2>2, <3>1, OneSlot
      <3>3. NoMore(wire'[h][f], wire[h][f], Invites)
        BY <2>1, <2>4, <2>6, <2>13, Sent
      <3> QED BY <2>8, <2>9, <2>10, <2>11, <3>2, <3>3, Untouched
    <2> QED BY <2>12, <2>13
  <1> QED BY <1>2, <1>3

\* An answer of p to host q goes out for the tunnel in slot i, which is live now (tn) or
\* gone (None).
LEMMA OrderlyAnswer ==
    ASSUME IInv, Orderly, DownLoose, NEW p \in Peers, NEW q \in Peers, NEW i \in Slots,
           Of(tunnels[p], i, q, FALSE), tunnels[p][i].pending, NEW tn,
           tunnels' = [tunnels EXCEPT ![p] = [tunnels[p] EXCEPT ![i] = tn]],
           NEW m \in Signal, sig_send(p, q, m), lossy' = lossy, shared' = shared,
           loose \subseteq loose',
           \/ /\ m.sig = "accept" /\ tn # None /\ ~tn.host /\ tn.fn = q
              /\ tn.svc = tunnels[p][i].svc /\ ~tn.pending
           \/ m.sig = "decline" /\ tn = None
    PROVE  Orderly'
  <1> SUFFICES ASSUME NEW h \in Peers, NEW f \in Peers, <<h, f>> \notin loose'
               PROVE  TightAt(h, f)'
    BY DEF Orderly
  <1>1. TightAt(h, f) /\ <<h, f>> \notin loose
    BY DEF Orderly
  <1>2. Flying(h, f)' = Flying(h, f)
    BY FlyingSame
  <1>3. tunnels[p][i] \in TunnelType /\ tunnels[p] \in Table /\ DOMAIN tunnels = Peers
    BY TunnelAt, Before DEF Of, IInv, Functions
  <1>4. m.sig \notin Invites
    BY DEF Invites
  <1>5. NoMore(wire'[h][f], wire[h][f], Invites)
    BY <1>4, Sent
  <1>6. Alike(tunnels[h], tunnels'[h], f, TRUE)
    <2>1. ~Of(tunnels[p], i, f, TRUE) /\ ~(tn # None /\ tn.host = TRUE /\ tn.fn = f)
      BY DEF Of
    <2> QED BY <2>1, OneSlot
  <1>7. CASE h = q /\ f = p
    <2>1. {p, q} \notin down
      <3>1. {p, q} = {h, f}
        BY <1>7
      <3> QED BY <1>1, <3>1 DEF DownLoose
    <2>2. wire'[f][h] = Append(wire[f][h], m) /\ wire[f][h] \in Seq(Signal)
      BY <1>7, <2>1, Sent
    <2>3. ~Has(wire[f][h], Answers) =>
            /\ Single(wire'[f][h], Answers)
            /\ \A k \in 1..Len(wire'[f][h]) : wire'[f][h][k].sig \in Answers => wire'[f][h][k] = m
      BY <2>2, NoMoreAppend
    <2>4. tunnels'[f][i] = tn /\ \A j \in Slots : j # i => tunnels'[f][j] = tunnels[f][j]
      BY <1>3, <1>7 DEF Table
    <2>5. Tight(h, f, tunnels[h], tunnels[f], wire[h][f], wire[f][h], Flying(h, f))
      BY <1>1 DEF TightAt
    <2>6. \A j \in Slots : Of(tunnels[f], j, h, FALSE) => j = i
      BY <1>7, <2>5 DEF Tight
    <2>7. \A j \in Slots : j # i => ~Of(tunnels'[f], j, h, FALSE)
      BY <2>4, <2>6 DEF Of
    <2>8. Of(tunnels[f], i, h, FALSE) /\ tunnels[f][i].pending
      BY <1>7
    <2>9. CASE m.sig = "accept"
      <3>1. /\ Of(tunnels'[f], i, h, FALSE) /\ tunnels'[f][i].svc = tunnels[f][i].svc
            /\ ~tunnels'[f][i].pending
        <4>1. tn # None /\ tn.host = FALSE /\ tn.fn = q /\ tn.svc = tunnels[p][i].svc /\ ~tn.pending
          BY <2>9
        <4> QED BY <1>7, <2>4, <4>1 DEF Of
      <3>2. \A j \in Slots : Of(tunnels'[f], j, h, FALSE) => j = i
        BY <2>7
      <3>3. ~Has(wire[f][h], Answers) =>
              /\ Single(wire'[f][h], Answers)
              /\ \A k \in 1..Len(wire'[f][h]) :
                    wire'[f][h][k].sig \in Answers => wire'[f][h][k].sig = "accept"
        BY <2>3, <2>9
      <3>4. Tight(h, f, tunnels'[h], tunnels'[f], wire'[h][f], wire'[f][h], Flying(h, f))
        BY <1>5, <1>6, <2>5, <2>8, <3>1, <3>2, <3>3, TightAccept
      <3> QED BY <1>2, <3>4 DEF TightAt
    <2>10. CASE m.sig = "decline"
      <3>1. \A j \in Slots : ~Of(tunnels'[f], j, h, FALSE)
        BY <2>4, <2>7, <2>10 DEF Of
      <3>2. ~Has(wire[f][h], Answers) =>
              /\ Single(wire'[f][h], Answers)
              /\ \A k \in 1..Len(wire'[f][h]) :
                    wire'[f][h][k].sig \in Answers => wire'[f][h][k].sig = "decline"
        BY <2>3, <2>10
      <3>3. Tight(h, f, tunnels'[h], tunnels'[f], wire'[h][f], wire'[f][h], Flying(h, f))
        BY <1>5, <1>6, <2>5, <2>8, <3>1, <3>2, TightDecline
      <3> QED BY <1>2, <3>3 DEF TightAt
    <2> QED BY <2>9, <2>10
  <1>8. CASE ~(h = q /\ f = p)
    <2>1. f = p => ~Of(tunnels[p], i, h, FALSE) /\ ~(tn # None /\ tn.host = FALSE /\ tn.fn = h)
      BY <1>8 DEF Of
    <2>2. Alike(tunnels[f], tunnels'[f], h, FALSE)
      BY <2>1, OneSlot
    <2>3. NoMore(wire'[f][h], wire[f][h], Answers)
      BY <1>8, Sent
    <2> QED BY <1>1, <1>2, <1>5, <1>6, <2>2, <2>3, Untouched
  <1> QED BY <1>7, <1>8

\* tt_tunnel_accept: the answer goes out, or the ports cannot be bound.
LEMMA OrderlyAccept ==
    ASSUME IInv, Orderly, DownLoose, NEW p \in Peers, NEW c, Took(p, c), c.cmd = "accept",
           tt_tunnel_accept(p, c), loose' = loose \cup GivenUp(p)
    PROVE  Orderly'
  <1> DEFINE i == tunnel_by_peer(p, c.fn, FALSE)
             m == [sig |-> "accept"]
  <1>1. lossy' = lossy /\ shared' = shared /\ loose \subseteq loose'
    BY DEF Took, engineRest
  <1>2. CASE i = None \/ ~tunnels[p][i].pending
    <2>1. Ignored
      BY <1>2, Zenon DEF tt_tunnel_accept
    <2> QED BY <1>1, <2>1, OrderlyIgnored
  <1>3. CASE ~(i = None \/ ~tunnels[p][i].pending)
    <2>1. Finds(tunnels[p], c.fn, FALSE, i)
      BY ByPeerFinds
    <2>2. i \in Slots /\ Of(tunnels[p], i, c.fn, FALSE) /\ tunnels[p][i].pending
      BY <1>3, <2>1 DEF Finds, Of
    <2>3. c \in Command /\ tunnels[p] \in Table
      BY Taken, Before
    <2>4. c.fn \in Peers /\ m \in Signal /\ m.sig = "accept"
      BY <2>3 DEF Command, Signal
    <2>5. \/ /\ tunnels' = [tunnels EXCEPT ![p][i].pending = FALSE] /\ sig_send(p, c.fn, m)
          \/ tunnel_free(p, i) /\ wire' = wire
      BY <1>3 DEF tt_tunnel_accept
    <2> HIDE DEF i, m
    <2>6. CASE tunnels' = [tunnels EXCEPT ![p][i].pending = FALSE] /\ sig_send(p, c.fn, m)
      <3> DEFINE tn == [tunnels[p][i] EXCEPT !.pending = FALSE]
      <3>1. tunnels' = [tunnels EXCEPT ![p] = [tunnels[p] EXCEPT ![i] = tn]]
        BY <2>6
      <3>2. tunnels[p][i] \in TunnelType
        BY <2>2, TunnelAt DEF Of
      <3>3. /\ tn \in TunnelType /\ tn.host = tunnels[p][i].host /\ tn.fn = tunnels[p][i].fn
            /\ tn.svc = tunnels[p][i].svc /\ ~tn.pending
        BY <3>2 DEF TunnelType
      <3> HIDE DEF tn
      <3>4. tn # None /\ ~tn.host /\ tn.fn = c.fn
        BY <2>2, <3>3, TunnelShareAssumption DEF Of
      <3> QED BY <1>1, <2>2, <2>4, <2>6, <3>1, <3>3, <3>4, OrderlyAnswer
    <2>7. CASE tunnel_free(p, i) /\ wire' = wire
      BY <1>1, <2>2, <2>7, OrderlyGivenUp DEF Of
    <2> QED BY <2>5, <2>6, <2>7
  <1> QED BY <1>2, <1>3

\* tt_tunnel_decline.
LEMMA OrderlyDecline ==
    ASSUME IInv, Orderly, DownLoose, NEW p \in Peers, NEW c, Took(p, c), c.cmd = "decline",
           tt_tunnel_decline(p, c), loose' = loose
    PROVE  Orderly'
  <1> DEFINE i == tunnel_by_peer(p, c.fn, FALSE)
             m == [sig |-> "decline"]
  <1>1. lossy' = lossy /\ shared' = shared
    BY DEF Took, engineRest
  <1>2. CASE i = None \/ ~tunnels[p][i].pending
    <2>1. Ignored
      BY <1>2, Zenon DEF tt_tunnel_decline
    <2> QED BY <1>1, <2>1, OrderlyIgnored
  <1>3. CASE ~(i = None \/ ~tunnels[p][i].pending)
    <2>1. Finds(tunnels[p], c.fn, FALSE, i)
      BY ByPeerFinds
    <2>2. i \in Slots /\ Of(tunnels[p], i, c.fn, FALSE) /\ tunnels[p][i].pending
      BY <1>3, <2>1 DEF Finds, Of
    <2>3. c \in Command
      BY Taken
    <2>4. c.fn \in Peers /\ m \in Signal /\ m.sig = "decline"
      BY <2>3 DEF Command, Signal
    <2>5. /\ tunnels' = [tunnels EXCEPT ![p] = [tunnels[p] EXCEPT ![i] = None]]
          /\ sig_send(p, c.fn, m)
      BY <1>3 DEF tt_tunnel_decline, tunnel_free
    <2> HIDE DEF i, m
    <2> QED BY <1>1, <2>2, <2>4, <2>5, OrderlyAnswer
  <1> QED BY <1>2, <1>3

\* tt_tunnel_stop.
LEMMA OrderlyStop ==
    ASSUME IInv, Orderly, NEW p \in Peers, NEW c, Took(p, c), c.cmd = "stop",
           tt_tunnel_stop(p, c), loose' = loose \cup GivenUp(p)
    PROVE  Orderly'
  <1> DEFINE of == {i \in Used(p) : tunnels[p][i].id = c.id}
  <1>1. lossy' = lossy /\ shared' = shared /\ loose \subseteq loose'
    BY DEF Took, engineRest
  <1>2. CASE of = {}
    <2>1. Ignored
      BY <1>2, Zenon DEF tt_tunnel_stop
    <2> QED BY <1>1, <2>1, OrderlyIgnored
  <1>3. CASE of # {}
    <2> DEFINE i == CHOOSE j \in of : TRUE
    <2>1. tunnel_free(p, i) /\ wire' = wire
      BY <1>3 DEF tt_tunnel_stop
    <2>2. i \in of
      BY <1>3
    <2>3. i \in Slots /\ tunnels[p][i] # None
      BY <2>2 DEF Used
    <2> HIDE DEF i
    <2> QED BY <1>1, <2>1, <2>3, OrderlyGivenUp
  <1> QED BY <1>2, <1>3

\* An invite arrives.
LEMMA OrderlyInvited ==
    ASSUME IInv, Orderly, NEW p \in Peers, NEW q \in Peers, Receives(p, q),
           Head(wire[q][p]).sig = "invite", OnInvite(p, q, Head(wire[q][p])),
           lossy' = lossy, shared' = shared, loose' = loose
    PROVE  Orderly'
  <1> DEFINE i == FreeSlot(p)
             m == Head(wire[q][p])
             tn == Tunnel(p, FALSE, q, m.svc)
  <1>1. CASE tunnel_by_peer(p, q, FALSE) # None \/ i = None
    <2>1. tunnels' = tunnels
      BY <1>1 DEF OnInvite
    <2>2. \A a, b \in Peers : \A kinds : NoMore(wire'[a][b], wire[a][b], kinds)
      BY Received
    <2> QED BY <2>1, <2>2, OrderlyStill
  <1>2. CASE ~(tunnel_by_peer(p, q, FALSE) # None \/ i = None)
    <2>1. tunnels' = [tunnels EXCEPT ![p] = [tunnels[p] EXCEPT ![i] = tn]]
      BY <1>2 DEF OnInvite, tunnel_alloc
    <2>2. i \in Slots /\ tunnels[p][i] = None
      BY <1>2, FreeSlotFree
    <2>3. wire[q][p] \in Seq(Signal) /\ wire[q][p] # <<>>
      BY Received DEF Receives
    <2>4. m \in Signal
      BY <2>3
    <2>5. m.svc \in Nat /\ tunnel_seq[p] \in Nat
      BY <2>4, Before DEF Signal
    <2>6. tn \in TunnelType /\ tn.pending /\ tn.host = FALSE /\ tn.fn = q /\ tn.svc = m.svc
      BY <2>5 DEF Tunnel, TunnelType
    <2> HIDE DEF i, tn
    <2>7. tn # None /\ DOMAIN tunnels = Peers /\ tunnels[p] \in Table
      BY <2>6, TunnelShareAssumption, Before DEF IInv, Functions
    <2> SUFFICES ASSUME NEW h \in Peers, NEW f \in Peers, <<h, f>> \notin loose'
                 PROVE  TightAt(h, f)'
      BY DEF Orderly
    <2>8. TightAt(h, f)
      BY DEF Orderly
    <2>9. Flying(h, f)' = Flying(h, f)
      BY FlyingSame
    <2>10. /\ NoMore(wire'[f][h], wire[f][h], Answers)
           /\ NoMore(wire'[h][f], wire[h][f], Invites)
      BY Received
    <2>11. Alike(tunnels[h], tunnels'[h], f, TRUE)
      <3>1. ~Of(tunnels[p], i, f, TRUE) /\ ~(tn # None /\ tn.host = TRUE /\ tn.fn = f)
        BY <2>2, <2>6 DEF Of
      <3> QED BY <2>1, <2>2, <3>1, OneSlot
    <2>12. CASE h = q /\ f = p
      <3>1. tunnels'[f][i] = tn /\ \A j \in Slots : j # i => tunnels'[f][j] = tunnels[f][j]
        BY <2>1, <2>2, <2>7, <2>12 DEF Table
      <3>2. /\ Of(tunnels'[f], i, h, FALSE) /\ tunnels'[f][i].pending
            /\ tunnels'[f][i].svc = Head(wire[h][f]).svc
            /\ \A j \in Slots : Of(tunnels'[f], j, h, FALSE) => j = i \/ Of(tunnels[f], j, h, FALSE)
        BY <2>6, <2>7, <2>12, <3>1 DEF Of
      <3>3. Tight(h, f, tunnels[h], tunnels[f], wire[h][f], wire[f][h], Flying(h, f))
        BY <2>8 DEF TightAt
      <3>4. /\ wire[h][f] \in Seq(Signal) /\ wire[h][f] # <<>> /\ Head(wire[h][f]).sig = "invite"
            /\ wire'[h][f] = Tail(wire[h][f])
        BY <2>3, <2>12, Received
      <3>5. Tight(h, f, tunnels'[h], tunnels'[f], wire'[h][f], wire'[f][h], Flying(h, f))
        BY <2>2, <2>10, <2>11, <3>2, <3>3, <3>4, TightInvited
      <3> QED BY <2>9, <3>5 DEF TightAt
    <2>13. CASE ~(h = q /\ f = p)
      <3>1. f = p => ~Of(tunnels[p], i, h, FALSE) /\ ~(tn # None /\ tn.host = FALSE /\ tn.fn = h)
        BY <2>2, <2>6, <2>13 DEF Of
      <3>2. Alike(tunnels[f], tunnels'[f], h, FALSE)
        BY <2>1, <2>2, <3>1, OneSlot
      <3> QED BY <2>8, <2>9, <2>10, <2>11, <3>2, Untouched
    <2> QED BY <2>12, <2>13
  <1> QED BY <1>1, <1>2

\* An answer arrives for the host's tunnel in slot i, which goes live (tn) or ends (None).
LEMMA OrderlyAnswered ==
    ASSUME IInv, Orderly, NEW p \in Peers, NEW q \in Peers, Receives(p, q),
           NEW i \in Slots, Of(tunnels[p], i, q, TRUE), tunnels[p][i].pending, NEW tn,
           tunnels' = [tunnels EXCEPT ![p] = [tunnels[p] EXCEPT ![i] = tn]],
           lossy' = lossy, shared' = shared, loose' = loose,
           \/ /\ Head(wire[q][p]).sig = "accept" /\ tn # None /\ tn.host = TRUE /\ tn.fn = q
              /\ tn.svc = tunnels[p][i].svc
           \/ Head(wire[q][p]).sig = "decline" /\ tn = None
    PROVE  Orderly'
  <1> SUFFICES ASSUME NEW h \in Peers, NEW f \in Peers, <<h, f>> \notin loose'
               PROVE  TightAt(h, f)'
    BY DEF Orderly
  <1>1. TightAt(h, f)
    BY DEF Orderly
  <1>2. Flying(h, f)' = Flying(h, f)
    BY FlyingSame
  <1>3. tunnels[p] \in Table /\ DOMAIN tunnels = Peers
    BY Before DEF IInv, Functions
  <1>4. /\ NoMore(wire'[f][h], wire[f][h], Answers)
        /\ NoMore(wire'[h][f], wire[h][f], Invites)
    BY Received
  <1>5. Alike(tunnels[f], tunnels'[f], h, FALSE)
    <2>1. ~Of(tunnels[p], i, h, FALSE) /\ ~(tn # None /\ tn.host = FALSE /\ tn.fn = h)
      BY DEF Of
    <2> QED BY <2>1, OneSlot
  <1>6. CASE h = p /\ f = q
    <2>1. tunnels'[h][i] = tn /\ \A j \in Slots : j # i => tunnels'[h][j] = tunnels[h][j]
      BY <1>3, <1>6 DEF Table
    <2>2. /\ wire[f][h] \in Seq(Signal) /\ wire[f][h] # <<>> /\ Head(wire[f][h]).sig \in Answers
          /\ wire'[f][h] = Tail(wire[f][h])
      BY <1>6, Received DEF Receives, Answers
    <2>3. Of(tunnels[h], i, f, TRUE) /\ tunnels[h][i].pending
      BY <1>6
    <2>4. IF Head(wire[f][h]).sig = "accept"
          THEN Of(tunnels'[h], i, f, TRUE) /\ tunnels'[h][i].svc = tunnels[h][i].svc
          ELSE ~Of(tunnels'[h], i, f, TRUE)
      BY <1>6, <2>1 DEF Of
    <2>5. \A j \in Slots : Of(tunnels'[h], j, f, TRUE) => Of(tunnels[h], j, f, TRUE)
      BY <2>1, <2>3 DEF Of
    <2>6. Tight(h, f, tunnels[h], tunnels[f], wire[h][f], wire[f][h], Flying(h, f))
      BY <1>1 DEF TightAt
    <2>7. Tight(h, f, tunnels'[h], tunnels'[f], wire'[h][f], Tail(wire[f][h]), Flying(h, f))
      BY <1>4, <1>5, <2>2, <2>3, <2>4, <2>5, <2>6, TightAnswered
    <2> QED BY <1>2, <2>2, <2>7 DEF TightAt
  <1>7. CASE ~(h = p /\ f = q)
    <2>1. h = p => ~Of(tunnels[p], i, f, TRUE) /\ ~(tn # None /\ tn.host = TRUE /\ tn.fn = f)
      BY <1>7 DEF Of
    <2>2. Alike(tunnels[h], tunnels'[h], f, TRUE)
      BY <2>1, OneSlot
    <2> QED BY <1>1, <1>2, <1>4, <1>5, <2>2, Untouched
  <1> QED BY <1>6, <1>7

\* OnAccept and OnDecline.
LEMMA OrderlyAnswerRx ==
    ASSUME IInv, Orderly, NEW p \in Peers, NEW q \in Peers, Receives(p, q),
           \/ Head(wire[q][p]).sig = "accept" /\ OnAccept(p, q)
           \/ Head(wire[q][p]).sig = "decline" /\ OnDecline(p, q),
           lossy' = lossy, shared' = shared, loose' = loose
    PROVE  Orderly'
  <1> DEFINE i == tunnel_by_peer(p, q, TRUE)
  <1>1. CASE i = None \/ ~tunnels[p][i].pending
    <2>1. tunnels' = tunnels
      BY <1>1 DEF OnAccept, OnDecline
    <2>2. \A a, b \in Peers : \A kinds : NoMore(wire'[a][b], wire[a][b], kinds)
      BY Received
    <2> QED BY <2>1, <2>2, OrderlyStill
  <1>2. CASE ~(i = None \/ ~tunnels[p][i].pending)
    <2>1. Finds(tunnels[p], q, TRUE, i)
      BY ByPeerFinds
    <2>2. i \in Slots /\ Of(tunnels[p], i, q, TRUE) /\ tunnels[p][i].pending
      BY <1>2, <2>1 DEF Finds, Of
    <2>3. \/ /\ Head(wire[q][p]).sig = "accept"
             /\ tunnels' = [tunnels EXCEPT ![p][i].pending = FALSE]
          \/ /\ Head(wire[q][p]).sig = "decline"
             /\ tunnels' = [tunnels EXCEPT ![p] = [tunnels[p] EXCEPT ![i] = None]]
      BY <1>2 DEF OnAccept, OnDecline, tunnel_free
    <2> HIDE DEF i
    <2>4. CASE /\ Head(wire[q][p]).sig = "accept"
               /\ tunnels' = [tunnels EXCEPT ![p][i].pending = FALSE]
      <3> DEFINE tn == [tunnels[p][i] EXCEPT !.pending = FALSE]
      <3>1. tunnels' = [tunnels EXCEPT ![p] = [tunnels[p] EXCEPT ![i] = tn]]
        BY <2>4
      <3>2. tunnels[p][i] \in TunnelType
        BY <2>2, TunnelAt DEF Of
      <3>3. /\ tn \in TunnelType /\ tn.host = tunnels[p][i].host /\ tn.fn = tunnels[p][i].fn
            /\ tn.svc = tunnels[p][i].svc
        BY <3>2 DEF TunnelType
      <3> HIDE DEF tn
      <3>4. tn # None /\ tn.host = TRUE /\ tn.fn = q
        BY <2>2, <3>3, TunnelShareAssumption DEF Of
      <3>5. \/ /\ Head(wire[q][p]).sig = "accept" /\ tn # None /\ tn.host = TRUE /\ tn.fn = q
               /\ tn.svc = tunnels[p][i].svc
            \/ Head(wire[q][p]).sig = "decline" /\ tn = None
        BY <2>4, <3>3, <3>4
      <3> QED BY <2>2, <3>1, <3>5, OrderlyAnswered
    <2>5. CASE /\ Head(wire[q][p]).sig = "decline"
               /\ tunnels' = [tunnels EXCEPT ![p] = [tunnels[p] EXCEPT ![i] = None]]
      BY <2>2, <2>5, OrderlyAnswered
    <2> QED BY <2>3, <2>4, <2>5
  <1> QED BY <1>1, <1>2

\* The tunnels of p go on; a datagram may be added to those of the services on.
LEMMA OrderlyGoesOn ==
    ASSUME IInv, Orderly, NEW p \in Peers, NEW nb, tunnels'[p] = nb,
           \A r \in Peers \ {p} : tunnels'[r] = tunnels[r],
           \A q, host : Alike(tunnels[p], nb, q, host), wire' = wire, shared' = shared,
           loose' = loose,
           \A d \in lossy' : d \in lossy \/
               \A h, f \in Peers : d.svc \in 1..Len(shared) /\ shared[d.svc] = <<h, f>> /\ TightAt(h, f) =>
                   \E j \in Slots : /\ Of(tunnels[f], j, h, FALSE) /\ ~tunnels[f][j].pending
                                    /\ tunnels[f][j].svc = d.svc
    PROVE  Orderly'
  <1> SUFFICES ASSUME NEW h \in Peers, NEW f \in Peers, <<h, f>> \notin loose'
               PROVE  TightAt(h, f)'
    BY DEF Orderly
  <1>1. TightAt(h, f)
    BY DEF Orderly
  <1>3. ASSUME NEW r \in Peers, NEW q, NEW host PROVE Alike(tunnels[r], tunnels'[r], q, host)
    <2>1. CASE r = p
      BY <2>1
    <2>2. CASE r # p
      BY <2>2, AlikeSelf
    <2> QED BY <2>1, <2>2
  <1>4. ASSUME NEW n \in Flying(h, f)'
        PROVE  n \in Flying(h, f) \/
               \E j \in Slots : Of(tunnels[f], j, h, FALSE) /\ ~tunnels[f][j].pending /\ tunnels[f][j].svc = n
    <2>1. PICK d \in lossy' : d.svc = n /\ n \in 1..Len(shared) /\ shared[n] = <<h, f>>
      BY <1>4 DEF Flying
    <2>2. CASE d \in lossy
      BY <2>1, <2>2 DEF Flying
    <2>3. CASE d \notin lossy
      BY <1>1, <2>1, <2>3
    <2> QED BY <2>2, <2>3
  <1>5. NoMore(wire'[h][f], wire[h][f], Invites) /\ NoMore(wire'[f][h], wire[f][h], Answers)
    BY NoMoreSame
  <1>6. Tight(h, f, tunnels[h], tunnels[f], wire[h][f], wire[f][h], Flying(h, f))
    BY <1>1 DEF TightAt
  <1>7. Alike(tunnels[h], tunnels'[h], f, TRUE) /\ Alike(tunnels[f], tunnels'[f], h, FALSE)
    BY <1>3
  <1> DEFINE es == Flying(h, f)'
  <1>8. \A n \in es : n \in Flying(h, f) \/
            \E j \in Slots : Of(tunnels[f], j, h, FALSE) /\ ~tunnels[f][j].pending /\ tunnels[f][j].svc = n
    BY <1>4
  <1> DEFINE th == tunnels[h]
             tf == tunnels[f]
             nh == tunnels'[h]
             nf == tunnels'[f]
             wo == wire[h][f]
             wb == wire[f][h]
             vo == wire'[h][f]
             vb == wire'[f][h]
             ds == Flying(h, f)
  <1>9. /\ Tight(h, f, th, tf, wo, wb, ds) /\ Alike(th, nh, f, TRUE) /\ Alike(tf, nf, h, FALSE)
        /\ NoMore(vo, wo, Invites) /\ NoMore(vb, wb, Answers)
        /\ \A n \in es : n \in ds \/ \E j \in Slots : Of(tf, j, h, FALSE) /\ ~tf[j].pending /\ tf[j].svc = n
    BY <1>5, <1>6, <1>7, <1>8
  <1> HIDE DEF es, th, tf, nh, nf, wo, wb, vo, vb, ds
  <1>10. Tight(h, f, nh, nf, vo, vb, es)
    BY <1>9, TightOther
  <1> QED BY <1>10 DEF TightAt, es, nh, nf, vo, vb

\* A datagram of the client's application.
LEMMA OrderlyPollClient ==
    ASSUME IInv, Orderly, NEW p \in Peers, NEW i \in Slots, PollClient(p, i)
    PROVE  Orderly'
  <1> DEFINE tn == tunnels[p][i]
             tm == [tn EXCEPT !.peer_set = TRUE]
             nb == [tunnels[p] EXCEPT ![i] = tm]
             d == [from |-> p, to |-> tn.fn, svc |-> tn.svc, no |-> sent]
  <1>1. /\ tn # None /\ ~tn.host /\ ~tn.pending /\ Datagram(p, tn.fn, tn.svc)
        /\ tunnels' = [tunnels EXCEPT ![p] = nb]
    BY DEF PollClient, Live, Used
  <1>2. /\ wire' = wire /\ shared' = shared /\ loose' = loose
        /\ \A x \in lossy' : x \in lossy \/ x = d
    BY <1>1 DEF Datagram
  <1>3. tn \in TunnelType /\ OfService(p, tn, shared) /\ tunnels[p] \in Table
    BY <1>1, TunnelAt, Before
  <1>4. /\ tm \in TunnelType /\ tm.host = tn.host /\ tm.fn = tn.fn /\ tm.svc = tn.svc
        /\ tm.pending = tn.pending
    BY <1>3 DEF TunnelType
  <1>5. nb[i] = tm /\ \A j \in Slots : j # i => nb[j] = tunnels[p][j]
    BY <1>3 DEF Table
  <1>6. d.svc = tn.svc /\ tn.fn \in Peers /\ shared[tn.svc] = <<tn.fn, p>> /\ tn.host = FALSE
    BY <1>1, <1>3 DEF OfService, TunnelType
  <1>7. tm # None
    BY <1>4, TunnelShareAssumption
  <1> HIDE DEF tm, nb, d
  <1>8. ASSUME NEW q, NEW host PROVE Alike(tunnels[p], nb, q, host)
    <2>1. ASSUME NEW j \in Slots
          PROVE  /\ Of(nb, j, q, host) <=> Of(tunnels[p], j, q, host)
                 /\ Of(tunnels[p], j, q, host) => /\ nb[j].svc = tunnels[p][j].svc
                                                  /\ nb[j].pending = tunnels[p][j].pending
      <3>1. CASE j = i
        BY <1>1, <1>4, <1>5, <1>7, <3>1 DEF Of
      <3>2. CASE j # i
        BY <1>5, <3>2 DEF Of
      <3> QED BY <3>1, <3>2
    <2> QED BY <2>1 DEF Alike
  <1>9. ASSUME NEW x \in lossy', x \notin lossy, NEW h \in Peers, NEW f \in Peers,
               shared[x.svc] = <<h, f>>
        PROVE  \E j \in Slots : /\ Of(tunnels[f], j, h, FALSE) /\ ~tunnels[f][j].pending
                                /\ tunnels[f][j].svc = x.svc
    <2>1. x.svc = tn.svc /\ h = tn.fn /\ f = p
      BY <1>2, <1>6, <1>9
    <2>2. Of(tunnels[p], i, tn.fn, FALSE)
      BY <1>1, <1>6 DEF Of
    <2> QED BY <1>1, <2>1, <2>2
  <1>10. tunnels'[p] = nb /\ \A r \in Peers \ {p} : tunnels'[r] = tunnels[r]
    BY <1>1 DEF IInv, Functions
  <1> QED BY <1>2, <1>8, <1>9, <1>10, OrderlyGoesOn

\* A datagram of the server to a friend who has a socket.
LEMMA OrderlyPollHost ==
    ASSUME IInv, Orderly, NEW p \in Peers, NEW i \in Slots, NEW q \in Peers, PollHost(p, i, q)
    PROVE  Orderly'
  <1> DEFINE tn == tunnels[p][i]
             d == [from |-> p, to |-> q, svc |-> tn.svc, no |-> sent]
  <1>1. /\ tn # None /\ q \in tn.socks /\ ~tn.pending /\ Datagram(p, q, tn.svc)
        /\ tunnels' = tunnels
    BY DEF PollHost, Live, Used
  <1>2. /\ wire' = wire /\ shared' = shared /\ loose' = loose
        /\ \A x \in lossy' : x \in lossy \/ x = d
    BY <1>1 DEF Datagram
  <1>3. tn \in TunnelType /\ OfService(p, tn, shared) /\ DOMAIN tunnels = Peers
    BY <1>1, TunnelAt DEF IInv, Functions
  <1>4. tn.host = TRUE /\ tn.fn = q /\ shared[tn.svc] = <<p, q>> /\ d.svc = tn.svc
    BY <1>1, <1>3 DEF OfService, TunnelType
  <1> HIDE DEF d
  <1>6. ASSUME NEW x \in lossy', x \notin lossy, NEW h \in Peers, NEW f \in Peers,
               shared[x.svc] = <<h, f>>, TightAt(h, f)
        PROVE  \E j \in Slots : /\ Of(tunnels[f], j, h, FALSE) /\ ~tunnels[f][j].pending
                                /\ tunnels[f][j].svc = x.svc
    <2>1. x.svc = tn.svc /\ h = p /\ f = q
      BY <1>2, <1>4, <1>6
    <2>2. Of(tunnels[h], i, f, TRUE) /\ ~tunnels[h][i].pending /\ tunnels[h][i].svc = x.svc
      BY <1>1, <1>4, <2>1 DEF Of
    <2>3. PICK j \in Slots : Of(tunnels[f], j, h, FALSE) /\ ~tunnels[f][j].pending
      BY <1>6, <2>2 DEF TightAt, Tight
    <2>4. PICK k \in Slots : Of(tunnels[h], k, f, TRUE) /\ tunnels[h][k].svc = tunnels[f][j].svc
      BY <1>6, <2>3 DEF TightAt, Tight
    <2>5. k = i
      BY <1>6, <2>2, <2>4 DEF TightAt, Tight
    <2> QED BY <2>2, <2>3, <2>4, <2>5
  <1>7. \A r, host : Alike(tunnels[p], tunnels[p], r, host)
    BY AlikeSelf
  <1> QED BY <1>1, <1>2, <1>6, <1>7, OrderlyGoesOn

\* A datagram arrives.
LEMMA OrderlyArrival ==
    ASSUME IInv, Orderly, NEW p \in Peers, NEW d \in lossy, tt_tunnel_rx(p, d)
    PROVE  Orderly'
  <1> DEFINE by == {i \in Live(p) : Takes(tunnels[p][i], d.from)}
             nb == [i \in Slots |-> IF i \in by THEN Fed(tunnels[p][i], d.from)
                                    ELSE tunnels[p][i]]
  <1>1. /\ tunnels' = [tunnels EXCEPT ![p] = nb] /\ lossy' \subseteq lossy
        /\ wire' = wire /\ shared' = shared /\ loose' = loose
    BY DEF tt_tunnel_rx
  <1>2. d.from \in Peers
    BY DEF IInv, DatagramsOK
  <1>3. ASSUME NEW j \in Slots
        PROVE  \/ nb[j] = tunnels[p][j]
               \/ /\ nb[j] # None /\ tunnels[p][j] # None /\ nb[j].host = tunnels[p][j].host
                  /\ nb[j].fn = tunnels[p][j].fn /\ nb[j].svc = tunnels[p][j].svc
                  /\ nb[j].pending = tunnels[p][j].pending
    <2>1. CASE j \in by /\ tunnels[p][j].host
      <3> DEFINE tn == tunnels[p][j]
                 tm == [tn EXCEPT !.socks = tn.socks \cup {d.from}]
      <3>1. tn # None /\ nb[j] = tm
        BY <2>1 DEF Live, Used, Fed
      <3>2. tn \in TunnelType
        BY <3>1, TunnelAt
      <3> HIDE DEF tn
      <3>3. /\ tm \in TunnelType /\ tm.host = tn.host /\ tm.fn = tn.fn
            /\ tm.svc = tn.svc /\ tm.pending = tn.pending
        BY <1>2, <3>2 DEF TunnelType
      <3> HIDE DEF tm
      <3>4. tm # None
        BY <3>3, TunnelShareAssumption
      <3> QED BY <3>1, <3>3, <3>4 DEF tn
    <2>2. CASE ~(j \in by /\ tunnels[p][j].host)
      BY <2>2 DEF Fed
    <2> QED BY <2>1, <2>2
  <1> HIDE DEF nb
  <1>4. \A q, host : Alike(tunnels[p], nb, q, host)
    BY <1>3 DEF Alike, Of
  <1>5. tunnels'[p] = nb /\ \A r \in Peers \ {p} : tunnels'[r] = tunnels[r]
    BY <1>1 DEF IInv, Functions
  <1> QED BY <1>1, <1>4, <1>5, OrderlyGoesOn

\* Where it came out.
LEMMA StraysArrival ==
    ASSUME IInv, Orderly, StraysOK, NEW p \in Peers, NEW d \in lossy, tt_tunnel_rx(p, d)
    PROVE  StraysOK'
  <1> DEFINE by == {i \in Live(p) : Takes(tunnels[p][i], d.from)}
  <1>1. /\ strays' = strays \cup {<<d.svc, tunnels[p][i].svc>> :
                                    i \in {j \in by : tunnels[p][j].svc # d.svc}}
        /\ shared' = shared /\ loose' = loose /\ d.to = p
    BY DEF tt_tunnel_rx
  <1>2. /\ d.from \in Peers /\ d.svc \in 1..Len(shared)
        /\ shared[d.svc] \in {<<d.from, p>>, <<p, d.from>>}
    BY <1>1 DEF IInv, DatagramsOK
  <1>3. ASSUME NEW i \in by, tunnels[p][i].svc # d.svc
        PROVE  /\ tunnels[p][i].svc \in 1..Len(shared) /\ Among(d.svc, tunnels[p][i].svc)
               /\ shared[d.svc] = shared[tunnels[p][i].svc] => shared[d.svc] \in loose
    <2> DEFINE tn == tunnels[p][i]
    <2>1. i \in Slots /\ tn # None /\ ~tn.pending /\ Takes(tn, d.from)
      BY DEF Live, Used
    <2>2. tn \in TunnelType /\ OfService(p, tn, shared)
      BY <2>1, TunnelAt
    <2>3. tn.fn = d.from
      BY <2>1, <2>2 DEF Takes, OfService
    <2>4. /\ tn.svc \in 1..Len(shared)
          /\ shared[tn.svc] = IF tn.host THEN <<p, d.from>> ELSE <<d.from, p>>
          /\ tn.host \in BOOLEAN
      BY <2>2, <2>3 DEF OfService, TunnelType
    <2>5. Among(d.svc, tn.svc)
      BY <1>2, <2>4 DEF Among
    <2>6. ASSUME shared[d.svc] = shared[tn.svc], shared[d.svc] \notin loose PROVE FALSE
      <3>1. CASE tn.host = TRUE
        <4> DEFINE h == p
                   f == d.from
        <4>1. shared[d.svc] = <<h, f>> /\ Of(tunnels[h], i, f, TRUE) /\ ~tunnels[h][i].pending
          BY <2>1, <2>3, <2>4, <2>6, <3>1 DEF Of
        <4>2. TightAt(h, f) /\ d.svc \in Flying(h, f)
          BY <1>2, <2>6, <4>1 DEF Orderly, Flying
        <4> HIDE DEF h, f
        <4>3. PICK j \in Slots : Of(tunnels[f], j, h, FALSE) /\ tunnels[f][j].svc = d.svc
          BY <4>2 DEF TightAt, Tight
        <4>4. PICK k \in Slots : Of(tunnels[h], k, f, TRUE) /\ tunnels[h][k].svc = tunnels[f][j].svc
          BY <4>2, <4>3 DEF TightAt, Tight
        <4>5. k = i
          BY <2>1, <4>1, <4>2, <4>4 DEF TightAt, Tight
        <4> QED BY <1>3, <4>3, <4>4, <4>5 DEF h
      <3>2. CASE tn.host = FALSE
        <4> DEFINE h == d.from
                   f == p
        <4>1. shared[d.svc] = <<h, f>> /\ Of(tunnels[f], i, h, FALSE)
          BY <2>1, <2>3, <2>4, <2>6, <3>2 DEF Of
        <4>2. TightAt(h, f) /\ d.svc \in Flying(h, f)
          BY <1>2, <2>6, <4>1 DEF Orderly, Flying
        <4> HIDE DEF h, f
        <4>3. PICK j \in Slots : Of(tunnels[f], j, h, FALSE) /\ tunnels[f][j].svc = d.svc
          BY <4>2 DEF TightAt, Tight
        <4>4. j = i
          BY <2>1, <4>1, <4>2, <4>3 DEF TightAt, Tight
        <4> QED BY <1>3, <4>3, <4>4 DEF f
      <3> QED BY <2>4, <3>1, <3>2
    <2> QED BY <2>4, <2>5, <2>6
  <1>4. ASSUME NEW s \in strays'
        PROVE  /\ s[1] \in 1..Len(shared) /\ s[2] \in 1..Len(shared) /\ Among(s[1], s[2])
               /\ shared[s[1]] = shared[s[2]] => shared[s[1]] \in loose
    <2>1. CASE s \in strays
      BY <2>1 DEF StraysOK
    <2>2. CASE s \notin strays
      <3>1. PICK i \in by : tunnels[p][i].svc # d.svc /\ s = <<d.svc, tunnels[p][i].svc>>
        BY <1>1, <2>2
      <3>2. s[1] = d.svc /\ s[2] = tunnels[p][i].svc
        BY <3>1
      <3> QED BY <1>2, <1>3, <3>1, <3>2
    <2> QED BY <2>1, <2>2
  <1>5. \A m, n : Among(m, n)' <=> Among(m, n)
    BY <1>1 DEF Among
  <1> QED BY <1>1, <1>4, <1>5 DEF StraysOK

\* Signals and datagrams are lost, or nothing happens between the peers.
LEMMA OrderlyLost ==
    ASSUME IInv, Orderly, tunnels' = tunnels, wire' = wire, loose' = loose,
           shared' = shared, lossy' \subseteq lossy
    PROVE  Orderly'
  <1> SUFFICES ASSUME NEW h \in Peers, NEW f \in Peers, <<h, f>> \notin loose'
               PROVE  TightAt(h, f)'
    BY DEF Orderly
  <1>1. TightAt(h, f)
    BY DEF Orderly
  <1>2. Flying(h, f)' \subseteq Flying(h, f)
    BY DEF Flying
  <1>3. /\ NoMore(wire'[h][f], wire[h][f], Invites) /\ NoMore(wire'[f][h], wire[f][h], Answers)
        /\ Alike(tunnels[h], tunnels'[h], f, TRUE) /\ Alike(tunnels[f], tunnels'[f], h, FALSE)
    BY NoMoreSame, AlikeSelf
  <1> QED BY <1>1, <1>2, <1>3, Untouched

\* The link fails: both directions are loose.
LEMMA OrderlyCut ==
    ASSUME IInv, Orderly, DownLoose, NEW p \in Peers, NEW q \in Peers, Cut(p, q)
    PROVE  Orderly' /\ DownLoose'
  <1>1. /\ wire' = [wire EXCEPT ![p][q] = <<>>, ![q][p] = <<>>] /\ lossy' \subseteq lossy
        /\ down' = down \cup {{p, q}} /\ loose' = loose \cup {<<p, q>>, <<q, p>>}
        /\ tunnels' = tunnels /\ shared' = shared
    BY Zenon DEF Cut
  <1>2. DownLoose'
    <2> SUFFICES ASSUME NEW h \in Peers, NEW f \in Peers, {h, f} \in down'
                 PROVE  <<h, f>> \in loose'
      BY DEF DownLoose
    <2>1. CASE {h, f} \in down
      BY <1>1, <2>1 DEF DownLoose
    <2>2. CASE {h, f} = {p, q}
      <3>1. (h = p /\ f = q) \/ (h = q /\ f = p)
        BY <2>2
      <3> QED BY <1>1, <3>1
    <2> QED BY <1>1, <2>1, <2>2
  <1>3. Orderly'
    <2> SUFFICES ASSUME NEW h \in Peers, NEW f \in Peers, <<h, f>> \notin loose'
                 PROVE  TightAt(h, f)'
      BY DEF Orderly
    <2>1. TightAt(h, f) /\ ~(h = p /\ f = q) /\ ~(h = q /\ f = p)
      BY <1>1 DEF Orderly
    <2>2. wire'[h][f] = wire[h][f] /\ wire'[f][h] = wire[f][h]
      <3>1. wire \in [Peers -> [Peers -> Seq(Signal)]]
        BY DEF IInv, SignalsOK
      <3> QED BY <1>1, <2>1, <3>1
    <2>3. Flying(h, f)' \subseteq Flying(h, f)
      BY <1>1 DEF Flying
    <2>4. /\ NoMore(wire'[h][f], wire[h][f], Invites) /\ NoMore(wire'[f][h], wire[f][h], Answers)
          /\ Alike(tunnels[h], tunnels'[h], f, TRUE) /\ Alike(tunnels[f], tunnels'[f], h, FALSE)
      BY <1>1, <2>2, NoMoreSame, AlikeSelf
    <2> QED BY <2>1, <2>3, <2>4, Untouched
  <1> QED BY <1>2, <1>3

\* A service more is shared: datagrams and strays are of earlier ones.
LEMMA OrderlyShared ==
    ASSUME IInv, Orderly, StraysOK, NEW p \in Peers, NEW q \in Peers, cc_tun_share_ok(p, q)
    PROVE  Orderly' /\ StraysOK'
  <1>1. /\ shared' = Append(shared, <<p, q>>) /\ <<p, q>> \in Pairs
        /\ tunnels' = tunnels /\ wire' = wire /\ lossy' = lossy /\ loose' = loose
        /\ strays' = strays
    BY DEF cc_tun_share_ok, uiRest
  <1>2. shared \in Seq(Pairs)
    BY DEF IInv, SharedOK
  <1>3. \A n \in 1..Len(shared) : n \in 1..Len(shared') /\ shared'[n] = shared[n]
    BY <1>1, <1>2
  <1>4. \A d \in lossy : d.svc \in 1..Len(shared)
    BY DEF IInv, DatagramsOK
  <1>5. Orderly'
    <2> SUFFICES ASSUME NEW h \in Peers, NEW f \in Peers, <<h, f>> \notin loose'
                 PROVE  TightAt(h, f)'
      BY DEF Orderly
    <2>1. TightAt(h, f)
      BY <1>1 DEF Orderly
    <2>2. Flying(h, f)' \subseteq Flying(h, f)
      BY <1>1, <1>3, <1>4 DEF Flying
    <2>3. /\ NoMore(wire'[h][f], wire[h][f], Invites) /\ NoMore(wire'[f][h], wire[f][h], Answers)
          /\ Alike(tunnels[h], tunnels'[h], f, TRUE) /\ Alike(tunnels[f], tunnels'[f], h, FALSE)
      BY <1>1, NoMoreSame, AlikeSelf
    <2> QED BY <2>1, <2>2, <2>3, Untouched
  <1>6. \A m, n \in 1..Len(shared) : Among(m, n)' <=> Among(m, n)
    BY <1>3 DEF Among
  <1>7. StraysOK'
    BY <1>1, <1>3, <1>6 DEF StraysOK
  <1> QED BY <1>5, <1>7

\* More pairs are loose: the strays stay accounted for.
LEMMA StraysStill ==
    ASSUME StraysOK, strays' = strays, shared' = shared, loose \subseteq loose'
    PROVE  StraysOK'
  BY DEF StraysOK, Among

Apart == Orderly /\ DownLoose /\ StraysOK

\* Nothing is between the peers at first.
LEMMA InitApart ==
    ASSUME Init
    PROVE  Apart
  <1>1. strays = {} /\ down = {} /\ lossy = {}
    BY DEF Init
  <1>2. ASSUME NEW h \in Peers, NEW f \in Peers PROVE TightAt(h, f)
    <2>1. /\ wire[h][f] = <<>> /\ wire[f][h] = <<>>
          /\ \A i \in Slots : tunnels[h][i] = None /\ tunnels[f][i] = None
      BY DEF Init
    <2>2. Len(wire[h][f]) = 0 /\ Len(wire[f][h]) = 0 /\ Flying(h, f) = {}
      BY <1>1, <2>1 DEF Flying
    <2>3. \A i \in Slots : ~Of(tunnels[h], i, f, TRUE) /\ ~Of(tunnels[f], i, h, FALSE)
      BY <2>1 DEF Of
    <2>4. ~Has(wire[f][h], {"accept"}) /\ ~Has(wire[f][h], {"decline"})
      BY <2>2 DEF Has
    <2>5. Single(wire[h][f], Invites) /\ Single(wire[f][h], Answers)
      BY <2>2 DEF Single
    <2>6. \A k \in 1..Len(wire[h][f]) : FALSE
      BY <2>2
    <2>7. Tight(h, f, tunnels[h], tunnels[f], wire[h][f], wire[f][h], {})
      BY <2>3, <2>4, <2>5, <2>6, Zenon DEF Tight
    <2> QED BY <2>2, <2>7 DEF TightAt
  <1> QED BY <1>1, <1>2 DEF Apart, Orderly, DownLoose, StraysOK

\* Every step keeps the services apart, or leaves the pair loose.
LEMMA NextApart ==
    ASSUME IInv, Apart, [Next]_vars
    PROVE  Apart'
  <1> USE DEF Apart
  <1>1. ASSUME tunnels' = tunnels, wire' = wire, loose' = loose, shared' = shared,
               lossy' \subseteq lossy, strays' = strays, down' \subseteq down
        PROVE  Apart'
    <2>1. Orderly' /\ StraysOK'
      BY <1>1, OrderlyLost, StraysStill
    <2> QED BY <1>1, <2>1 DEF DownLoose
  <1>2. ASSUME Orderly', strays' = strays, shared' = shared, loose \subseteq loose', down' = down
        PROVE  Apart'
    <2>1. StraysOK'
      BY <1>2, StraysStill
    <2> QED BY <1>2, <2>1 DEF DownLoose
  <1>3. CASE UNCHANGED vars
    BY <1>1, <1>3 DEF vars
  <1>4. ASSUME NEW p \in Peers, cc_tun_accept(p) \/ cc_tun_decline(p) PROVE Apart'
    BY <1>1, <1>4 DEF cc_tun_accept, cc_tun_decline, Answer, uiRest
  <1>5. ASSUME NEW p \in Peers, TakeEvent(p) PROVE Apart'
    BY <1>1, <1>5 DEF TakeEvent
  <1>6. ASSUME NEW p \in Peers, TakeCommand(p) PROVE Apart'
    <2> DEFINE c == Head(cmds[p])
    <2>1. Took(p, c)
      BY <1>6 DEF TakeCommand, Took
    <2>2. \/ /\ c.cmd = "share" /\ tt_tunnel_share(p, c)
             /\ loose' = loose \cup {pq \in {<<p, c.fn>>} : tunnel_by_peer(p, c.fn, TRUE) # None}
          \/ c.cmd = "accept" /\ tt_tunnel_accept(p, c) /\ loose' = loose \cup GivenUp(p)
          \/ c.cmd = "decline" /\ tt_tunnel_decline(p, c) /\ loose' = loose
          \/ c.cmd = "stop" /\ tt_tunnel_stop(p, c) /\ loose' = loose \cup GivenUp(p)
      BY <1>6 DEF TakeCommand
    <2> HIDE DEF c
    <2>3. Orderly'
      BY <2>1, <2>2, OrderlyShare, OrderlyAccept, OrderlyDecline, OrderlyStop
    <2>4. strays' = strays /\ shared' = shared /\ loose \subseteq loose' /\ down' = down
      BY <2>1, <2>2 DEF Took, engineRest
    <2> QED BY <1>2, <2>3, <2>4
  <1>7. ASSUME NEW p \in Peers, NEW id, cc_tun_stop(p, id) PROVE Apart'
    BY <1>1, <1>7 DEF cc_tun_stop, uiRest
  <1>8. ASSUME NEW p \in Peers, NEW i \in Slots, PendingTimeout(p, i) PROVE Apart'
    <2>1. /\ tunnels[p][i] # None /\ tunnel_free(p, i) /\ loose' = loose \cup GivenUp(p)
          /\ wire' = wire /\ lossy' = lossy /\ shared' = shared /\ strays' = strays /\ down' = down
      BY <1>8 DEF PendingTimeout, Used, engineRest
    <2>2. Orderly'
      BY <2>1, OrderlyGivenUp
    <2> QED BY <1>2, <2>1, <2>2
  <1>9. ASSUME NEW p \in Peers, NEW i \in Slots, PollClient(p, i) PROVE Apart'
    <2>1. strays' = strays /\ shared' = shared /\ loose' = loose /\ down' = down
      BY <1>9 DEF PollClient, Datagram
    <2> QED BY <1>2, <1>9, <2>1, OrderlyPollClient
  <1>10. ASSUME NEW p \in Peers, NEW i \in Slots, NEW q \in Peers, PollHost(p, i, q) PROVE Apart'
    <2>1. strays' = strays /\ shared' = shared /\ loose' = loose /\ down' = down
      BY <1>10 DEF PollHost, Datagram
    <2> QED BY <1>2, <1>10, <2>1, OrderlyPollHost
  <1>11. ASSUME NEW p \in Peers, NEW q \in Peers, cc_tun_share_ok(p, q) PROVE Apart'
    <2>1. down' = down /\ loose' = loose
      BY <1>11 DEF cc_tun_share_ok, uiRest
    <2> QED BY <1>11, <2>1, OrderlyShared DEF DownLoose
  <1>12. ASSUME NEW p \in Peers, NEW q \in Peers, tunnel_sig_rx(p, q) PROVE Apart'
    <2> DEFINE m == Head(wire[q][p])
    <2>1. /\ Receives(p, q) /\ lossy' = lossy /\ shared' = shared /\ loose' = loose
          /\ strays' = strays /\ down' = down
      BY <1>12 DEF tunnel_sig_rx, Receives, engineRest
    <2>2. \/ m.sig = "invite" /\ OnInvite(p, q, m)
          \/ m.sig = "accept" /\ OnAccept(p, q)
          \/ m.sig = "decline" /\ OnDecline(p, q)
      BY <1>12 DEF tunnel_sig_rx
    <2>3. Orderly'
      BY <2>1, <2>2, OrderlyInvited, OrderlyAnswerRx
    <2> QED BY <1>2, <2>1, <2>3
  <1>13. ASSUME NEW p \in Peers, NEW q \in Peers, Cut(p, q) PROVE Apart'
    <2>1. strays' = strays /\ shared' = shared /\ loose \subseteq loose'
      BY <1>13, Zenon DEF Cut
    <2> QED BY <1>13, <2>1, OrderlyCut, StraysStill
  <1>14. ASSUME NEW p \in Peers, NEW d \in lossy, tt_tunnel_rx(p, d) PROVE Apart'
    <2>1. down' = down /\ loose' = loose
      BY <1>14 DEF tt_tunnel_rx
    <2> QED BY <1>14, <2>1, OrderlyArrival, StraysArrival DEF DownLoose
  <1>15. ASSUME NEW d \in lossy, LoseDatagram(d) PROVE Apart'
    BY <1>1, <1>15 DEF LoseDatagram
  <1>16. ASSUME Reconnect PROVE Apart'
    BY <1>1, <1>16 DEF Reconnect
  <1> QED
    <2>1. CASE Next
      BY <2>1, <1>4, <1>5, <1>6, <1>7, <1>8, <1>9, <1>10, <1>11, <1>12, <1>13, <1>14, <1>15,
         <1>16 DEF Next
    <2> QED BY <1>3, <2>1

\* NoCrossTalk for any peers, shares, cuts and datagrams: what one service sends comes
\* out at another one only between the same two peers, and in one direction only once
\* the pair is loose.
THEOREM ServicesApart == Spec => []NoCrossTalk
  <1>1. Init => IInv /\ Apart
    BY InitOK, InitApart
  <1>2. IInv /\ Apart /\ [Next]_vars => (IInv /\ Apart)'
    BY NextKept, NextApart DEF Kept
  <1>3. Apart => NoCrossTalk
    BY DEF Apart, StraysOK, NoCrossTalk
  <1> QED BY <1>1, <1>2, <1>3, PTL DEF Spec
=============================================================================
