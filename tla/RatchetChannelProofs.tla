------------------------ MODULE RatchetChannelProofs ------------------------
(***************************************************************************)
(* What RatchetChannel promises, for every MaxSkip, SkippedMax and MaxSeq. *)
(* NoReplay, VerdictSound and Aligned are not inductive: they rest on the  *)
(* shape of the epochs (which seqs each root seals, and where the REKEY    *)
(* frame that ends it lies) and on the skipped-key store being exact.      *)
(***************************************************************************)
EXTENDS RatchetChannel, TLAPS

-----------------------------------------------------------------------------
(* The inductive invariant                                                 *)

Entry == [seq : Nat, key : Key]

\* both ends stand inside their epoch, the receiver's not ahead of the sender's
EpochsOK ==
    /\ send.lab = "i" /\ recv.lab = "i"
    /\ 1 <= recv.root /\ recv.root <= send.root
    /\ 1 <= send.base /\ send.base <= send.seq
    /\ 1 <= recv.base /\ recv.base <= recv.seq

\* how one frame on the wire lies to the sender's chain
FrameOK(f) ==
    /\ f.key.lab = "i"
    /\ 1 <= f.key.root /\ f.key.root <= send.root
    /\ f.seq < send.seq
    /\ f.root # 0 => f.root = f.key.root + 1 /\ f.root <= send.root
    /\ f.key.root = send.root => f.seq = send.base + f.key.step
    /\ f.key.root < send.root => f.seq < send.base
    /\ f.root = send.root => send.base = f.seq + 1

\* how two frames lie to each other: one base per epoch, a REKEY frame is the
\* last of its epoch, and the next epoch starts right after it
PairOK(f, g) ==
    /\ f.seq = g.seq => f = g
    /\ f.key.root = g.key.root => f.seq - f.key.step = g.seq - g.key.step
    /\ f.key.root < g.key.root => f.seq < g.seq - g.key.step
    /\ f.root # 0 /\ g.key.root = f.root => g.seq - g.key.step = f.seq + 1
    /\ f.root # 0 /\ g.key.root = f.key.root => g.seq <= f.seq

NetOK ==
    /\ \A f \in net : FrameOK(f)
    /\ \A f, g \in net : PairOK(f, g)
    /\ \A r \in 1..(send.root - 1) : \E f \in net : f.root = r + 1

\* how a frame lies to the receiver's chain
AheadOK(f) ==
    /\ f.key.root = recv.root => f.seq = recv.base + f.key.step
    /\ f.key.root < recv.root => f.seq < recv.base
    /\ f.key.root > recv.root => f.seq >= recv.seq
    /\ f.key.root = recv.root /\ f.root # 0 => f.seq >= recv.seq

RecvOK ==
    /\ recv.root = send.root => recv.base = send.base /\ recv.seq <= send.seq
    /\ \A f \in net : AheadOK(f)

\* the store of r holds the right key for distinct seqs the chain has passed
Exact(r) ==
    /\ \A i \in 1..Len(r.skipped) :
          /\ r.base <= r.skipped[i].seq
          /\ r.skipped[i].seq < r.seq
          /\ r.skipped[i].key = msg_key_at(r, r.skipped[i].seq)
    /\ \A i, j \in 1..Len(r.skipped) :
          r.skipped[i].seq = r.skipped[j].seq => i = j

\* ... and only for seqs that were never accepted
RingOK ==
    /\ Exact(recv)
    /\ \A i \in 1..Len(recv.skipped), j \in 1..Len(log) :
          log[j] # recv.skipped[i].seq

LogOK == \A i \in 1..Len(log) : log[i] < recv.seq

IInv == TypeOK /\ EpochsOK /\ NetOK /\ RecvOK /\ RingOK /\ LogOK /\ NoReplay

-----------------------------------------------------------------------------
(* The skipped-key store                                                   *)

\* how many of n entries do not fit
Evicted(n) == IF n > SkippedMax THEN n - SkippedMax ELSE 0

\* Adding the keys of a gap keeps the newest SkippedMax of them, in order.
LEMMA AddGapKeepsNewest ==
    ASSUME NEW ring \in Seq(Entry), NEW gap \in Seq(Entry),
           NEW d, d = Evicted(Len(ring) + Len(gap))
    PROVE  /\ d \in Nat
           /\ AddGap(ring, gap) \in Seq(Entry)
           /\ Len(AddGap(ring, gap)) <= SkippedMax
           /\ Len(AddGap(ring, gap)) = Len(ring) + Len(gap) - d
           /\ \A i \in 1..Len(AddGap(ring, gap)) :
                 AddGap(ring, gap)[i] =
                    IF i + d <= Len(ring) THEN ring[i + d]
                                          ELSE gap[(i + d) - Len(ring)]
<1> DEFINE all == ring \o gap
<1>0. /\ all \in Seq(Entry) /\ Len(all) = Len(ring) + Len(gap)
      /\ SkippedMax \in Nat
  BY RatchetAssumption
<1>1. \A k \in 1..Len(all) :
         all[k] = IF k <= Len(ring) THEN ring[k] ELSE gap[k - Len(ring)]
  OBVIOUS
<1> HIDE DEF all
<1>2. CASE Len(all) > SkippedMax
  <2>1. d = Len(all) - SkippedMax /\ d \in Nat
    BY <1>0, <1>2 DEF Evicted
  <2>2. AddGap(ring, gap) = [i \in 1..SkippedMax |-> all[i + d]]
    BY <1>2, <2>1 DEF AddGap, all
  <2>3. \A i \in 1..SkippedMax : i + d \in 1..Len(all) /\ all[i + d] \in Entry
    BY <1>0, <2>1
  <2>4. /\ AddGap(ring, gap) \in Seq(Entry)
        /\ Len(AddGap(ring, gap)) = SkippedMax
    BY <1>0, <2>2, <2>3
  <2>5. \A i \in 1..SkippedMax : AddGap(ring, gap)[i] = all[i + d]
    BY <2>2
  <2>6. \A i \in 1..SkippedMax :
          all[i + d] = IF i + d <= Len(ring) THEN ring[i + d]
                                             ELSE gap[(i + d) - Len(ring)]
    BY <1>1, <2>3
  <2>7. 1..Len(AddGap(ring, gap)) = 1..SkippedMax
    BY <2>4
  <2>8. \A i \in 1..Len(AddGap(ring, gap)) :
          AddGap(ring, gap)[i] = IF i + d <= Len(ring) THEN ring[i + d]
                                      ELSE gap[(i + d) - Len(ring)]
    BY <2>5, <2>6, <2>7, Zenon
  <2>9. /\ Len(AddGap(ring, gap)) <= SkippedMax
        /\ Len(AddGap(ring, gap)) = Len(ring) + Len(gap) - d
    BY <1>0, <2>1, <2>4
  <2> QED  BY <2>1, <2>4, <2>8, <2>9, Zenon
<1>3. CASE ~(Len(all) > SkippedMax)
  <2>1. d = 0 /\ AddGap(ring, gap) = all
    BY <1>0, <1>3 DEF AddGap, Evicted, all
  <2> QED  BY <1>0, <1>1, <1>3, <2>1
<1> QED  BY <1>2, <1>3

\* In an exact store the entry for a stored seq is found.
LEMMA TakeIndexFinds ==
    ASSUME NEW r \in RatchetState, Exact(r), NEW n \in Nat, Stored(r.skipped, n)
    PROVE  /\ TakeIndex(r.skipped, n) \in 1..Len(r.skipped)
           /\ r.skipped[TakeIndex(r.skipped, n)].seq = n
<1>1. PICK i \in 1..Len(r.skipped) : r.skipped[i].seq = n
  BY DEF Stored
<1>2. \A j \in 1..(i - 1) : r.skipped[j].seq # n
  <2> SUFFICES ASSUME NEW j \in 1..(i - 1), r.skipped[j].seq = n
               PROVE  FALSE
    OBVIOUS
  <2>1. j \in 1..Len(r.skipped) /\ j # i
    BY DEF RatchetState
  <2> QED  BY <1>1, <2>1 DEF Exact
<1> QED  BY <1>1, <1>2 DEF TakeIndex

\* Closing the hole keeps every other entry, once.
LEMMA WithoutCloses ==
    ASSUME NEW ring \in Seq(Entry), NEW i \in 1..Len(ring)
    PROVE  /\ Without(ring, i) \in Seq(Entry)
           /\ Len(Without(ring, i)) = Len(ring) - 1
           /\ \A j \in 1..(Len(ring) - 1) :
                 Without(ring, i)[j] = ring[IF j < i THEN j ELSE j + 1]
<1>1. Len(ring) \in Nat /\ Len(ring) - 1 \in Nat
  OBVIOUS
<1>2. \A j \in 1..(Len(ring) - 1) :
         (IF j < i THEN ring[j] ELSE ring[j + 1]) \in Entry
  BY <1>1
<1> QED  BY <1>1, <1>2 DEF Without

\* The keys of the gap the chain jumps over, one for each seq.
LEMMA GapExact ==
    ASSUME NEW r \in RatchetState, r.base <= r.seq, NEW n \in Nat, n >= r.seq
    PROVE  /\ Gap(r, n) \in Seq(Entry)
           /\ Len(Gap(r, n)) = n - r.seq
           /\ \A i \in 1..(n - r.seq) :
                 /\ Gap(r, n)[i].seq = r.seq + i - 1
                 /\ Gap(r, n)[i].key = msg_key_at(r, r.seq + i - 1)
<1>1. n - r.seq \in Nat /\ r.base \in Nat /\ r.seq \in Nat
  BY DEF RatchetState
<1>2. \A i \in 1..(n - r.seq) :
        [seq |-> r.seq + i - 1, key |-> msg_key_at(r, r.seq + i - 1)] \in Entry
  <2> SUFFICES ASSUME NEW i \in 1..(n - r.seq)
               PROVE  [seq |-> r.seq + i - 1,
                       key |-> msg_key_at(r, r.seq + i - 1)] \in Entry
    OBVIOUS
  <2>1. r.seq + i - 1 \in Nat /\ r.seq + i - 1 - r.base \in Nat
    BY <1>1
  <2>2. msg_key_at(r, r.seq + i - 1) \in Key
    BY <2>1 DEF msg_key_at, Key, RatchetState
  <2> QED  BY <2>1, <2>2 DEF Entry
<1> QED  BY <1>1, <1>2, SMTT(30) DEF Gap

Distinct(ring) ==
    \A i, j \in 1..Len(ring) : ring[i].seq = ring[j].seq => i = j

Below(ring, mid) == \A i \in 1..Len(ring) : ring[i].seq < mid

RunFrom(gap, mid) == \A i \in 1..Len(gap) : gap[i].seq = mid + i - 1

DrawnFrom(new, ring, gap) ==
    \A i \in 1..Len(new) : \/ \E k \in 1..Len(ring) : new[i] = ring[k]
                           \/ \E k \in 1..Len(gap) : new[i] = gap[k]

\* Keys of a gap added to a store of distinct older seqs: still distinct.
LEMMA AddGapDistinct ==
    ASSUME NEW ring \in Seq(Entry), NEW gap \in Seq(Entry), NEW mid \in Nat,
           Below(ring, mid), Distinct(ring), RunFrom(gap, mid)
    PROVE  /\ DrawnFrom(AddGap(ring, gap), ring, gap)
           /\ Distinct(AddGap(ring, gap))
<1> DEFINE new == AddGap(ring, gap)
<1> DEFINE n == Len(ring)
           m == Len(gap)
           d == Evicted(n + m)
<1>1. /\ d \in Nat /\ Len(new) = n + m - d
      /\ \A i \in 1..Len(new) :
            new[i] = IF i + d <= n THEN ring[i + d] ELSE gap[(i + d) - n]
  BY AddGapKeepsNewest
<1>2. n \in Nat /\ m \in Nat /\ Len(new) \in Int
  BY <1>1
<1> HIDE DEF n, m, d, new
<1>3. \A i \in 1..Len(new) :
         \/ i + d \in 1..n /\ new[i] = ring[i + d]
         \/ i + d > n /\ (i + d) - n \in 1..m /\ new[i] = gap[(i + d) - n]
  <2> SUFFICES ASSUME NEW i \in 1..Len(new)
               PROVE  \/ i + d \in 1..n /\ new[i] = ring[i + d]
                      \/ /\ i + d > n /\ (i + d) - n \in 1..m
                         /\ new[i] = gap[(i + d) - n]
    OBVIOUS
  <2>1. i \in Nat /\ 1 <= i /\ i <= n + m - d
    BY <1>1, <1>2
  <2>2. CASE i + d <= n
    <3>1. i + d \in 1..n  BY <1>1, <1>2, <2>1, <2>2
    <3> QED BY <1>1, <2>2, <3>1
  <2>3. CASE ~(i + d <= n)
    <3>1. i + d > n /\ (i + d) - n \in 1..m  BY <1>1, <1>2, <2>1, <2>3
    <3>2. new[i] = gap[(i + d) - n]  BY <1>1, <2>3
    <3> QED BY <3>1, <3>2
  <2> QED BY <2>2, <2>3
<1>4. \A i \in 1..Len(new) :
         \/ \E k \in 1..n : new[i] = ring[k]
         \/ \E k \in 1..m : new[i] = gap[k]
  BY <1>3
<1>5. ASSUME NEW i \in 1..Len(new), NEW j \in 1..Len(new),
             new[i].seq = new[j].seq
      PROVE  i = j
  <2>1. i \in Int /\ j \in Int
    BY <1>2
  <2>2. CASE i + d \in 1..n /\ j + d \in 1..n
    <3>1. new[i] = ring[i + d] /\ new[j] = ring[j + d]
      BY <1>2, <1>3, <2>1, <2>2, <1>1
    <3>2. i + d = j + d
      BY <1>5, <2>2, <3>1 DEF n, Distinct
    <3> QED BY <1>1, <2>1, <3>2
  <2>3. CASE ~(i + d \in 1..n) /\ ~(j + d \in 1..n)
    <3>1. /\ new[i] = gap[(i + d) - n] /\ new[j] = gap[(j + d) - n]
          /\ (i + d) - n \in 1..m /\ (j + d) - n \in 1..m
      BY <1>3, <2>3
    <3>2. mid + ((i + d) - n) - 1 = mid + ((j + d) - n) - 1
      BY <1>5, <3>1 DEF m, RunFrom
    <3> QED BY <1>1, <1>2, <2>1, <3>2
  <2>4. ASSUME NEW a \in 1..Len(new), NEW b \in 1..Len(new),
               a + d \in 1..n, ~(b + d \in 1..n), new[a].seq = new[b].seq
        PROVE  FALSE
    <3>1. /\ new[a] = ring[a + d]
          /\ new[b] = gap[(b + d) - n] /\ (b + d) - n \in 1..m
      BY <1>1, <1>2, <1>3, <2>4
    <3>2. new[a].seq < mid
      BY <2>4, <3>1 DEF n, Below
    <3>3. new[b].seq = mid + ((b + d) - n) - 1
      BY <3>1 DEF m, RunFrom
    <3>4. new[b].seq >= mid
      <4> DEFINE k == (b + d) - n
      <4>1. k \in Int /\ 1 <= k
        BY <1>2, <3>1
      <4>2. new[b].seq = mid + k - 1
        BY <3>3
      <4> HIDE DEF k
      <4> QED  BY <4>1, <4>2
    <3>5. new[a] \in Entry
      BY <2>4, <3>1 DEF n
    <3>6. new[a].seq \in Nat
      BY <3>5 DEF Entry
    <3> QED BY <2>4, <3>2, <3>4, <3>6
  <2> QED  BY <1>5, <2>2, <2>3, <2>4
<1> QED  BY <1>4, <1>5 DEF n, m, new, DrawnFrom, Distinct

\* A frame that opens was sealed with the key of its seq on this chain, and
\* committing it leaves an exact store without that key.
LEMMA CommitExact ==
    ASSUME NEW r \in RatchetState, Exact(r), Len(r.skipped) <= SkippedMax,
           r.base <= r.seq, NEW f \in Frame,
           Verdict(r, f) \in {"OK", "OK_RING"}, NEW c, c = Commit(r, f)
    PROVE  /\ c \in RatchetState
           /\ c.root = r.root /\ c.lab = r.lab /\ c.base = r.base
           /\ c.seq = IF f.seq >= r.seq THEN f.seq + 1 ELSE r.seq
           /\ f.key = msg_key_at(r, f.seq)
           /\ Len(c.skipped) <= SkippedMax
           /\ Exact(c)
           /\ \A i \in 1..Len(c.skipped) :
                 /\ c.skipped[i].seq # f.seq
                 /\ \/ c.skipped[i].seq >= r.seq
                    \/ \E k \in 1..Len(r.skipped) :
                          r.skipped[k].seq = c.skipped[i].seq
<1>0. /\ r.skipped \in Seq(Entry) /\ Len(r.skipped) \in Nat
      /\ r.seq \in Nat /\ r.base \in Nat /\ f.seq \in Nat
  BY DEF RatchetState, Frame, Entry
<1>e. \A i \in 1..Len(r.skipped) :
        /\ r.skipped[i].seq \in Nat
        /\ r.base <= r.skipped[i].seq /\ r.skipped[i].seq < r.seq
        /\ r.skipped[i].key = msg_key_at(r, r.skipped[i].seq)
  <2> SUFFICES ASSUME NEW i \in 1..Len(r.skipped)
               PROVE  r.skipped[i].seq \in Nat
    BY DEF Exact
  <2>1. r.skipped[i] \in Entry
    BY <1>0
  <2> QED BY <2>1 DEF Entry
<1>1. CASE f.seq >= r.seq
  <2> DEFINE gap == Gap(r, f.seq)
             ring == r.skipped
             new == AddGap(ring, gap)
  <2>1. c = [r EXCEPT !.skipped = new, !.seq = f.seq + 1]
    BY <1>1 DEF Commit
  <2>2. f.key = msg_key_at(r, f.seq)
    BY <1>1 DEF Verdict
  <2>3. /\ gap \in Seq(Entry) /\ Len(gap) = f.seq - r.seq
        /\ \A i \in 1..Len(gap) : /\ gap[i].seq = r.seq + i - 1
                                 /\ gap[i].key = msg_key_at(r, r.seq + i - 1)
    BY <1>0, <1>1, GapExact
  <2>4. new \in Seq(Entry) /\ Len(new) <= SkippedMax
    BY <1>0, <2>3, AddGapKeepsNewest
  <2>5. /\ \A i \in 1..Len(new) :
              \/ \E k \in 1..Len(ring) : new[i] = ring[k]
              \/ \E k \in 1..Len(gap) : new[i] = gap[k]
        /\ \A i, j \in 1..Len(new) : new[i].seq = new[j].seq => i = j
    <3>1. Distinct(ring)
      BY DEF Exact, Distinct
    <3>2. Below(ring, r.seq)
      BY <1>e DEF Below
    <3>3. RunFrom(gap, r.seq)
      BY <2>3 DEF RunFrom
    <3>4. DrawnFrom(new, ring, gap) /\ Distinct(new)
      BY <1>0, <2>3, <3>1, <3>2, <3>3, AddGapDistinct
    <3> QED  BY <3>4 DEF DrawnFrom, Distinct
  <2> HIDE DEF gap, new
  <2>6. /\ c \in RatchetState /\ c.skipped = new /\ c.seq = f.seq + 1
        /\ c.root = r.root /\ c.lab = r.lab /\ c.base = r.base
    <3>1. f.seq + 1 \in Nat  BY <1>0
    <3> QED  BY <2>1, <2>4, <3>1 DEF RatchetState, Entry
  <2>7. \A n : msg_key_at(c, n) = msg_key_at(r, n)
    BY <2>6 DEF msg_key_at
  <2>8. \A k \in 1..Len(gap) : /\ gap[k].seq >= r.seq /\ gap[k].seq < f.seq
                              /\ gap[k].key = msg_key_at(r, gap[k].seq)
    <3> SUFFICES ASSUME NEW k \in 1..Len(gap)
                 PROVE  /\ gap[k].seq >= r.seq /\ gap[k].seq < f.seq
                        /\ gap[k].key = msg_key_at(r, gap[k].seq)
      OBVIOUS
    <3>1. k \in Nat /\ 1 <= k /\ k <= f.seq - r.seq
      BY <1>0, <1>1, <2>3
    <3>2. gap[k].seq = r.seq + k - 1
      BY <2>3
    <3> QED  BY <1>0, <2>3, <3>1, <3>2
  <2>9. ASSUME NEW i \in 1..Len(new)
        PROVE  /\ r.base <= new[i].seq /\ new[i].seq < f.seq + 1
               /\ new[i].seq # f.seq
               /\ new[i].key = msg_key_at(c, new[i].seq)
               /\ \/ new[i].seq >= r.seq
                  \/ \E k \in 1..Len(ring) : ring[k].seq = new[i].seq
    <3>1. new[i] \in Entry
      BY <2>4
    <3>2. new[i].seq \in Nat
      BY <3>1 DEF Entry
    <3>3. CASE \E k \in 1..Len(ring) : new[i] = ring[k]
      <4>1. PICK k \in 1..Len(ring) : new[i] = ring[k]
        BY <3>3
      <4>2. /\ r.base <= new[i].seq /\ new[i].seq < r.seq
            /\ new[i].key = msg_key_at(r, new[i].seq)
        BY <1>e, <4>1
      <4> QED  BY <1>0, <1>1, <2>7, <3>2, <4>1, <4>2
    <3>4. CASE \E k \in 1..Len(gap) : new[i] = gap[k]
      <4>1. /\ r.seq <= new[i].seq /\ new[i].seq < f.seq
            /\ new[i].key = msg_key_at(r, new[i].seq)
        BY <1>0, <2>8, <3>2, <3>4
      <4> QED  BY <1>0, <1>1, <2>7, <3>2, <4>1
    <3> QED  BY <2>5, <3>3, <3>4
  <2>10. Exact(c)
    BY <2>5, <2>6, <2>9 DEF Exact
  <2> QED  BY <1>1, <2>2, <2>4, <2>6, <2>9, <2>10
<1>2. CASE ~(f.seq >= r.seq)
  <2> DEFINE i == TakeIndex(r.skipped, f.seq)
             ring == r.skipped
             new == Without(ring, i)
  <2>1. c = [r EXCEPT !.skipped = new]
    BY <1>2 DEF Commit
  <2>2. Stored(ring, f.seq) /\ f.key = ring[i].key
    BY <1>2 DEF Verdict
  <2>3. i \in 1..Len(ring) /\ ring[i].seq = f.seq
    BY <1>0, <2>2, TakeIndexFinds
  <2> HIDE DEF i
  <2>4. /\ new \in Seq(Entry) /\ Len(new) = Len(ring) - 1
        /\ \A j \in 1..(Len(ring) - 1) : new[j] = ring[IF j < i THEN j ELSE j + 1]
    BY <1>0, <2>3, WithoutCloses
  <2> HIDE DEF new
  <2> DEFINE at(j) == IF j < i THEN j ELSE j + 1
  <2>5. /\ c \in RatchetState /\ c.skipped = new /\ c.seq = r.seq
        /\ c.root = r.root /\ c.lab = r.lab /\ c.base = r.base
    BY <2>1, <2>4 DEF RatchetState, Entry
  <2>6. \A j \in 1..Len(new) : /\ at(j) \in 1..Len(ring) /\ at(j) # i
                              /\ new[j] = ring[at(j)]
    BY <1>0, <2>3, <2>4
  <2>7. ASSUME NEW j \in 1..Len(new), NEW k \in 1..Len(new), at(j) = at(k)
        PROVE  j = k
    <3>1. j \in Int /\ k \in Int /\ i \in Int
      BY <1>0, <2>3, <2>4
    <3> QED  BY <2>7, <3>1
  <2> HIDE DEF at
  <2>8. \A n : msg_key_at(c, n) = msg_key_at(r, n)
    BY <2>5 DEF msg_key_at
  <2>9. \A j, k \in 1..Len(new) : new[j].seq = new[k].seq => j = k
    BY <2>6, <2>7 DEF Exact
  <2>10. \A j \in 1..Len(new) : /\ r.base <= new[j].seq /\ new[j].seq < r.seq
                               /\ new[j].key = msg_key_at(c, new[j].seq)
    BY <1>e, <2>6, <2>8
  <2>11. Exact(c)
    BY <2>5, <2>9, <2>10 DEF Exact
  <2>12. \A j \in 1..Len(new) : new[j].seq # f.seq
    BY <2>3, <2>6 DEF Exact
  <2>13. f.key = msg_key_at(r, f.seq)
    BY <1>e, <2>2, <2>3
  <2>14. Len(new) <= SkippedMax
    BY <1>0, <2>4, RatchetAssumption
  <2> QED  BY <1>2, <2>5, <2>6, <2>11, <2>12, <2>13, <2>14
<1> QED  BY <1>1, <1>2

\* A stored key that was tried in vain goes back: the store is the same set.
LEMMA RestoreExact ==
    ASSUME NEW r \in RatchetState, Exact(r), Len(r.skipped) <= SkippedMax,
           NEW f \in Frame, Verdict(r, f) = "FAIL_RING",
           NEW c, c = Restore(r, f)
    PROVE  /\ c \in RatchetState
           /\ c.root = r.root /\ c.lab = r.lab /\ c.base = r.base /\ c.seq = r.seq
           /\ Len(c.skipped) = Len(r.skipped)
           /\ Exact(c)
           /\ Ring(c) = Ring(r)
<1> DEFINE i == TakeIndex(r.skipped, f.seq)
           ring == r.skipped
           w == Without(ring, i)
           new == Append(w, ring[i])
<1>0. /\ ring \in Seq(Entry) /\ Len(ring) \in Nat
      /\ r.seq \in Nat /\ r.base \in Nat /\ f.seq \in Nat
  BY DEF RatchetState, Frame, Entry
<1>1. ~(f.seq >= r.seq) /\ Stored(ring, f.seq)
  BY DEF Verdict
<1>2. i \in 1..Len(ring)
  BY <1>0, <1>1, TakeIndexFinds
<1>3. c = [r EXCEPT !.skipped = skipped_add(w, ring[i])]
  BY <1>1 DEF Restore
<1> HIDE DEF i
<1>4. /\ w \in Seq(Entry) /\ Len(w) = Len(ring) - 1
      /\ \A j \in 1..(Len(ring) - 1) : w[j] = ring[IF j < i THEN j ELSE j + 1]
  BY <1>0, <1>2, WithoutCloses
<1> HIDE DEF w
<1>5. skipped_add(w, ring[i]) = new
  BY <1>0, <1>4, RatchetAssumption DEF skipped_add
<1>6. /\ new \in Seq(Entry) /\ Len(new) = Len(ring)
      /\ new[Len(ring)] = ring[i]
      /\ \A j \in 1..(Len(ring) - 1) : new[j] = w[j]
  <2>1. ring[i] \in Entry
    BY <1>0, <1>2
  <2> QED  BY <1>0, <1>2, <1>4, <2>1
<1> HIDE DEF new
<1>7. /\ c \in RatchetState /\ c.skipped = new
      /\ c.root = r.root /\ c.lab = r.lab /\ c.base = r.base /\ c.seq = r.seq
  BY <1>3, <1>5, <1>6 DEF RatchetState, Entry
<1> DEFINE at(j) == IF j = Len(ring) THEN i ELSE IF j < i THEN j ELSE j + 1
           of(k) == IF k = i THEN Len(ring) ELSE IF k < i THEN k ELSE k - 1
<1>8. \A j \in 1..Len(ring) : at(j) \in 1..Len(ring) /\ new[j] = ring[at(j)]
  <2> SUFFICES ASSUME NEW j \in 1..Len(ring)
               PROVE  at(j) \in 1..Len(ring) /\ new[j] = ring[at(j)]
    OBVIOUS
  <2>1. CASE j = Len(ring)
    BY <1>2, <1>6, <2>1
  <2>2. CASE j # Len(ring)
    <3>1. j \in 1..(Len(ring) - 1) /\ at(j) \in 1..Len(ring)
      BY <1>0, <1>2, <2>2
    <3> QED  BY <1>4, <1>6, <2>2, <3>1
  <2> QED  BY <2>1, <2>2
<1>9. \A k \in 1..Len(ring) : of(k) \in 1..Len(ring) /\ at(of(k)) = k
  BY <1>0, <1>2
<1>10. ASSUME NEW j \in 1..Len(ring), NEW k \in 1..Len(ring), at(j) = at(k)
       PROVE  j = k
  <2>1. j \in Int /\ k \in Int /\ i \in Int /\ 1 <= i /\ i <= Len(ring)
        /\ j <= Len(ring) /\ k <= Len(ring)
    BY <1>0, <1>2
  <2> QED  BY <1>0, <1>10, <2>1
<1> HIDE DEF at, of
<1>11. \A n : msg_key_at(c, n) = msg_key_at(r, n)
  BY <1>7 DEF msg_key_at
<1>12. Exact(c)
  <2>1. \A j \in 1..Len(ring) : /\ r.base <= new[j].seq /\ new[j].seq < r.seq
                               /\ new[j].key = msg_key_at(c, new[j].seq)
    BY <1>8, <1>11 DEF Exact
  <2>2. ASSUME NEW j \in 1..Len(ring), NEW k \in 1..Len(ring),
               new[j].seq = new[k].seq
        PROVE  j = k
    <3>1. ring[at(j)].seq = ring[at(k)].seq
      BY <1>8, <2>2
    <3>2. at(j) = at(k)
      BY <1>8, <3>1 DEF Exact
    <3> QED  BY <1>10, <3>2
  <2> QED  BY <1>6, <1>7, <2>1, <2>2 DEF Exact
<1>13. Ring(c) = Ring(r)
  <2>1. \A k \in 1..Len(ring) : \E j \in 1..Len(ring) : ring[k] = new[j]
    BY <1>8, <1>9
  <2>2. ASSUME NEW x \in Ring(c) PROVE x \in Ring(r)
    <3>1. PICK j \in 1..Len(ring) : x = new[j]
      BY <1>6, <1>7 DEF Ring
    <3> QED  BY <1>8, <3>1 DEF Ring
  <2>3. ASSUME NEW x \in Ring(r) PROVE x \in Ring(c)
    <3>1. PICK k \in 1..Len(ring) : x = ring[k]
      BY DEF Ring
    <3>2. PICK j \in 1..Len(ring) : x = new[j]
      BY <2>1, <3>1
    <3> QED  BY <1>6, <1>7, <3>2 DEF Ring
  <2> QED  BY <2>2, <2>3
<1> QED  BY <1>6, <1>7, <1>12, <1>13

-----------------------------------------------------------------------------
(* Invariance, one lemma per kind of step                                  *)

\* A fresh pair of ratchets (session_init on both sides, nothing in flight)
\* satisfies the inductive invariant.
LEMMA InitIInv == Init => IInv
<1> SUFFICES ASSUME Init PROVE IInv
  OBVIOUS
<1>1. /\ send = ratchet_reset(1, "i") /\ recv = ratchet_reset(1, "i")
      /\ net = {} /\ log = <<>>
  BY DEF Init
<1>2. TypeOK
  BY <1>1, RatchetAssumption DEF TypeOK, RatchetState, Label, ratchet_reset
<1>3. EpochsOK /\ NetOK /\ RecvOK
  BY <1>1 DEF EpochsOK, NetOK, RecvOK, ratchet_reset
<1>4. RingOK /\ LogOK /\ NoReplay
  BY <1>1 DEF RingOK, Exact, LogOK, NoReplay, ratchet_reset
<1> QED  BY <1>2, <1>3, <1>4 DEF IInv

\* the fields of the frames on the wire and of the two ratchets are numbers
LEMMA Fields ==
    ASSUME TypeOK
    PROVE  /\ \A f \in net : /\ f.seq \in Nat /\ f.root \in Nat /\ f.key \in Key
                            /\ f.key.root \in Nat /\ f.key.step \in Nat
           /\ send.seq \in Nat /\ send.base \in Nat /\ send.root \in Nat
           /\ recv.seq \in Nat /\ recv.base \in Nat /\ recv.root \in Nat
BY DEF TypeOK, Frame, Key, RatchetState

\* one chain step keeps the epoch
LEMMA SendKeyFields ==
    ASSUME NEW r \in RatchetState, NEW c, c = send_key(r)
    PROVE  /\ c \in RatchetState /\ c.seq = r.seq + 1 /\ c.lab = r.lab
           /\ c.root = r.root /\ c.base = r.base
<1>1. r.seq + 1 \in Nat
  BY DEF RatchetState
<1> QED  BY <1>1 DEF RatchetState, send_key

\* a fold starts the next epoch at the next seq, with an empty store
LEMMA FoldFields ==
    ASSUME NEW r \in RatchetState, NEW n \in Nat, NEW c, c = ratchet_fold(r, n)
    PROVE  /\ c \in RatchetState /\ c.seq = r.seq /\ c.lab = r.lab
           /\ c.root = n /\ c.base = r.seq /\ c.skipped = <<>>
<1>1. <<>> \in Seq([seq : Nat, key : Key])
  OBVIOUS
<1> QED  BY <1>1 DEF RatchetState, ratchet_fold

\* Emitting a frame, with or without a fold: g is the frame.
LEMMA EmitIInv == IInv /\ (EmitPlain \/ EmitRekey) => IInv'
<1> SUFFICES ASSUME IInv, EmitPlain \/ EmitRekey PROVE IInv'
  OBVIOUS
<1>0. /\ TypeOK /\ EpochsOK /\ NetOK /\ RecvOK /\ RingOK /\ LogOK /\ NoReplay
  BY DEF IInv
<1>t. /\ \A f \in net : /\ f.seq \in Nat /\ f.root \in Nat /\ f.key \in Key
                       /\ f.key.root \in Nat /\ f.key.step \in Nat
      /\ send.seq \in Nat /\ send.base \in Nat /\ send.root \in Nat
      /\ recv.seq \in Nat /\ recv.base \in Nat /\ recv.root \in Nat
  BY <1>0, Fields
<1>1. PICK g : /\ net' = net \cup {g}
               /\ g.seq = send.seq
               /\ g = [seq |-> send.seq, key |-> msg_key_at(send, send.seq),
                       root |-> g.root]
               /\ g.key.root = send.root /\ g.key.lab = send.lab
               /\ g.key.step = send.seq - send.base
               /\ g.root \in {0, send.root + 1}
               /\ send'.seq = send.seq + 1
               /\ send'.lab = send.lab
               /\ g.root = 0 => send'.root = send.root /\ send'.base = send.base
               /\ g.root # 0 => /\ send'.root = send.root + 1
                               /\ send'.base = send.seq + 1
               /\ send' \in RatchetState
  <2>1. CASE EmitPlain
    <3> DEFINE g == [seq |-> send.seq, key |-> msg_key_at(send, send.seq), root |-> 0]
    <3>1. /\ net' = net \cup {g}
          /\ send' = [send_key(send) EXCEPT !.since_fold = @ + 1]
      BY <2>1 DEF EmitPlain
    <3>2. /\ g.seq = send.seq /\ g.root = 0
          /\ g.key.root = send.root /\ g.key.lab = send.lab
          /\ g.key.step = send.seq - send.base
      BY DEF msg_key_at
    <3>3. /\ send'.seq = send.seq + 1 /\ send'.lab = send.lab
          /\ send'.root = send.root /\ send'.base = send.base
          /\ send' \in RatchetState
      <4>1. PICK c : c = send_key(send)
        OBVIOUS
      <4>2. /\ c \in RatchetState /\ c.seq = send.seq + 1 /\ c.lab = send.lab
            /\ c.root = send.root /\ c.base = send.base
        BY <1>0, <4>1, SendKeyFields DEF TypeOK
      <4>3. send' = [c EXCEPT !.since_fold = @ + 1]
        BY <3>1, <4>1
      <4> QED  BY <4>2, <4>3 DEF RatchetState
    <3> HIDE DEF g
    <3> WITNESS g
    <3> QED  BY <3>1, <3>2, <3>3 DEF g
  <2>2. CASE EmitRekey
    <3> DEFINE g == [seq |-> send.seq, key |-> msg_key_at(send, send.seq),
                     root |-> send.root + 1]
    <3>1. /\ net' = net \cup {g}
          /\ send' = ratchet_fold(send_key(send), send.root + 1)
      BY <2>2 DEF EmitRekey
    <3>2. /\ g.seq = send.seq /\ g.root = send.root + 1
          /\ g.key.root = send.root /\ g.key.lab = send.lab
          /\ g.key.step = send.seq - send.base
      BY DEF msg_key_at
    <3>3. /\ send'.seq = send.seq + 1 /\ send'.lab = send.lab
          /\ send'.root = send.root + 1 /\ send'.base = send.seq + 1
          /\ send' \in RatchetState
      <4>1. PICK c : c = send_key(send)
        OBVIOUS
      <4>2. /\ c \in RatchetState /\ c.seq = send.seq + 1 /\ c.lab = send.lab
        BY <1>0, <4>1, SendKeyFields DEF TypeOK
      <4>3. send' = ratchet_fold(c, send.root + 1) /\ send.root + 1 \in Nat
        BY <1>t, <3>1, <4>1
      <4> QED  BY <4>2, <4>3, FoldFields
    <3>4. send.root + 1 # 0
      BY <1>t
    <3> HIDE DEF g
    <3> WITNESS g
    <3> QED  BY <3>1, <3>2, <3>3, <3>4 DEF g
  <2> QED  BY <2>1, <2>2
<1>2. recv' = recv /\ log' = log
  BY DEF EmitPlain, EmitRekey
<1>3. /\ 1 <= send.root /\ 1 <= send.base /\ send.base <= send.seq
      /\ send.lab = "i" /\ recv.root <= send.root /\ 1 <= recv.root
  BY <1>0, <1>t DEF EpochsOK
<1>4. g.key.step \in Nat /\ g.key.root \in Nat /\ g.root \in Nat /\ g.seq \in Nat
  BY <1>t, <1>1, <1>3
<1>5. TypeOK'
  <2>1. g \in Frame
    BY <1>1, <1>3, <1>4, <1>t DEF Frame, Key, Label, msg_key_at
  <2> QED  BY <1>0, <1>1, <1>2, <2>1 DEF TypeOK
<1>6. EpochsOK'
  BY <1>0, <1>1, <1>2, <1>3, <1>t DEF EpochsOK
<1>7. NetOK'
  <2>1. ASSUME NEW f \in net PROVE FrameOK(f)'
    BY <1>0, <1>1, <1>3, <1>t DEF NetOK, FrameOK
  <2>2. FrameOK(g)'
    BY <1>1, <1>3, <1>4, <1>t DEF FrameOK
  <2>3. ASSUME NEW f \in net PROVE PairOK(f, g) /\ PairOK(g, f)
    BY <1>0, <1>1, <1>3, <1>4, <1>t DEF NetOK, FrameOK, PairOK
  <2>4. PairOK(g, g)
    BY <1>1, <1>4, <1>t DEF PairOK
  <2>5. ASSUME NEW r \in 1..(send'.root - 1) PROVE \E f \in net' : f.root = r + 1
    <3>1. CASE r \in 1..(send.root - 1)
      BY <1>0, <1>1, <3>1 DEF NetOK
    <3>2. CASE ~(r \in 1..(send.root - 1))
      <4>1. r = send.root /\ g.root = send.root + 1
        BY <1>1, <1>3, <1>t, <3>2
      <4> QED  BY <1>1, <4>1
    <3> QED  BY <3>1, <3>2
  <2>6. \A f, h \in net : PairOK(f, h)
    BY <1>0 DEF NetOK
  <2>7. \A f \in net' : FrameOK(f)'
    BY <1>1, <2>1, <2>2
  <2>8. \A f, h \in net' : PairOK(f, h)
    BY <1>1, <2>3, <2>4, <2>6
  <2> QED  BY <2>5, <2>7, <2>8 DEF NetOK, PairOK
<1>8. RecvOK'
  <2>1. recv.root = send'.root => recv.base = send'.base /\ recv.seq <= send'.seq
    BY <1>0, <1>1, <1>3, <1>t DEF RecvOK
  <2>2. recv.seq <= send.seq
    <3>1. CASE recv.root = send.root
      BY <1>0, <3>1 DEF RecvOK
    <3>2. CASE recv.root < send.root
      <4>1. recv.root \in 1..(send.root - 1)
        BY <1>3, <1>t, <3>2
      <4>2. PICK f \in net : f.root = recv.root + 1
        BY <1>0, <4>1 DEF NetOK
      <4>3. f.key.root = recv.root /\ f.root # 0 /\ f.seq < send.seq
        BY <1>0, <1>t, <4>2 DEF NetOK, FrameOK
      <4>4. f.seq >= recv.seq
        BY <1>0, <4>3 DEF RecvOK, AheadOK
      <4> QED  BY <1>t, <4>3, <4>4
    <3> QED  BY <1>3, <1>t, <3>1, <3>2
  <2>3. AheadOK(g)
    BY <1>0, <1>1, <1>3, <1>4, <1>t, <2>2 DEF RecvOK, AheadOK
  <2> QED  BY <1>0, <1>1, <1>2, <2>1, <2>3 DEF RecvOK, AheadOK
<1>9. RingOK' /\ LogOK'
  BY <1>0, <1>2 DEF RingOK, Exact, LogOK, msg_key_at
<1>10. NoReplay'
  BY <1>0, <1>1, <1>2 DEF NoReplay
<1> QED  BY <1>5, <1>6, <1>7, <1>8, <1>9, <1>10 DEF IInv

\* Opening a frame: c is the committed ratchet, recv' the folded one.
LEMMA DeliverIInv ==
    ASSUME IInv, NEW f \in net, Deliver(f)
    PROVE  IInv'
<1>0. /\ TypeOK /\ EpochsOK /\ NetOK /\ RecvOK /\ RingOK /\ LogOK /\ NoReplay
  BY DEF IInv
<1>t. /\ \A g \in net : /\ g.seq \in Nat /\ g.root \in Nat
                       /\ g.key.root \in Nat /\ g.key.step \in Nat
      /\ send.seq \in Nat /\ send.base \in Nat /\ send.root \in Nat
      /\ recv.seq \in Nat /\ recv.base \in Nat /\ recv.root \in Nat
  BY <1>0, Fields
<1>1. /\ Verdict(recv, f) \in {"OK", "OK_RING"}
      /\ recv' = Opened(recv, f) /\ log' = Append(log, f.seq)
      /\ send' = send /\ net' = net
  BY DEF Deliver
<1>2. /\ recv \in RatchetState /\ Exact(recv) /\ Len(recv.skipped) <= SkippedMax
      /\ recv.base <= recv.seq /\ f \in Frame
  BY <1>0 DEF TypeOK, RingOK, EpochsOK
<1>3. PICK c : c = Commit(recv, f)
  OBVIOUS
<1>4. /\ c \in RatchetState
      /\ c.root = recv.root /\ c.lab = recv.lab /\ c.base = recv.base
      /\ c.seq = IF f.seq >= recv.seq THEN f.seq + 1 ELSE recv.seq
      /\ f.key = msg_key_at(recv, f.seq)
      /\ Len(c.skipped) <= SkippedMax
      /\ Exact(c)
      /\ \A i \in 1..Len(c.skipped) :
            /\ c.skipped[i].seq # f.seq
            /\ \/ c.skipped[i].seq >= recv.seq
               \/ \E k \in 1..Len(recv.skipped) :
                     recv.skipped[k].seq = c.skipped[i].seq
  BY <1>1, <1>2, <1>3, CommitExact, SMTT(30)
<1>5. f.key.root = recv.root /\ c.seq \in Nat /\ recv.seq <= c.seq /\ f.seq < c.seq
  BY <1>4, <1>t DEF msg_key_at
<1>6. f.root # 0 => /\ f.root = recv.root + 1 /\ f.root <= send.root
                    /\ f.seq >= recv.seq /\ c.seq = f.seq + 1
  BY <1>0, <1>4, <1>5, <1>t DEF NetOK, FrameOK, RecvOK, AheadOK
<1>7. f.seq < send.seq
  BY <1>0 DEF NetOK, FrameOK
<1>8. /\ recv' \in RatchetState /\ recv'.seq = c.seq /\ recv'.lab = recv.lab
      /\ f.root = 0 => recv' = c
      /\ f.root # 0 => /\ recv'.root = f.root /\ recv'.base = c.seq
                      /\ recv'.skipped = <<>>
  <2>1. CASE f.root = 0
    BY <1>1, <1>3, <1>4, <2>1 DEF Opened
  <2>2. CASE f.root # 0
    <3>1. recv' = ratchet_fold(c, f.root)
      BY <1>1, <1>3, <2>2 DEF Opened
    <3>2. /\ recv' \in RatchetState /\ recv'.seq = c.seq /\ recv'.lab = c.lab
          /\ recv'.root = f.root /\ recv'.base = c.seq /\ recv'.skipped = <<>>
      <4>1. c \in RatchetState /\ f.root \in Nat
        BY <1>4, <1>t
      <4> QED  BY <3>1, <4>1, FoldFields
    <3> QED  BY <1>4, <2>2, <3>2
  <2> QED  BY <2>1, <2>2
<1>9. TypeOK'
  <2>1. log' \in Seq(Nat)
    BY <1>0, <1>1, <1>t DEF TypeOK
  <2>2. Len(recv'.skipped) <= SkippedMax
    <3>1. Len(<<>>) <= SkippedMax
      BY RatchetAssumption
    <3> QED  BY <1>4, <1>8, <3>1
  <2> QED  BY <1>0, <1>1, <1>8, <2>1, <2>2 DEF TypeOK
<1>10. EpochsOK'
  BY <1>0, <1>1, <1>4, <1>5, <1>6, <1>8, <1>t DEF EpochsOK
<1>11. NetOK'
  BY <1>0, <1>1 DEF NetOK, FrameOK, PairOK
<1>12. RecvOK'
  <2>1. CASE f.root = 0
    <3>1. /\ recv'.root = recv.root /\ recv'.base = recv.base /\ recv'.seq = c.seq
      BY <1>4, <1>8, <2>1
    <3>2. recv'.root = send.root => recv'.base = send.base /\ recv'.seq <= send.seq
      BY <1>0, <1>4, <1>7, <1>t, <3>1 DEF RecvOK
    <3>3. ASSUME NEW g \in net PROVE AheadOK(g)'
      <4>1. PairOK(f, g) /\ AheadOK(g) /\ PairOK(g, f)
        BY <1>0 DEF NetOK, RecvOK
      <4>2. g.key.root > recv.root => g.seq >= c.seq
        <5> SUFFICES ASSUME g.key.root > recv.root PROVE g.seq >= c.seq
          OBVIOUS
        <5>1. f.seq < g.seq - g.key.step
          BY <1>5, <1>t, <4>1 DEF PairOK
        <5>2. g.seq >= recv.seq
          BY <4>1 DEF AheadOK
        <5> QED  BY <1>4, <1>t, <5>1, <5>2, SMTT(30)
      <4>3. g.key.root = recv.root /\ g.root # 0 => g.seq >= c.seq
        BY <1>4, <1>5, <1>t, <2>1, <4>1, SMTT(30) DEF PairOK, AheadOK
      <4> QED  BY <3>1, <4>1, <4>2, <4>3 DEF AheadOK
    <3> QED  BY <1>1, <3>2, <3>3 DEF RecvOK
  <2>2. CASE f.root # 0
    <3>1. /\ recv'.root = recv.root + 1 /\ recv'.base = f.seq + 1
          /\ recv'.seq = f.seq + 1 /\ f.root = recv.root + 1
      BY <1>6, <1>8, <2>2
    <3>2. recv'.root = send.root => recv'.base = send.base /\ recv'.seq <= send.seq
      BY <1>0, <1>7, <1>t, <3>1 DEF NetOK, FrameOK
    <3>3. ASSUME NEW g \in net PROVE AheadOK(g)'
      <4>1. PairOK(f, g) /\ AheadOK(g) /\ PairOK(g, f)
        BY <1>0 DEF NetOK, RecvOK
      <4>2. g.key.root = recv.root + 1 => g.seq = f.seq + 1 + g.key.step
        BY <1>5, <1>t, <2>2, <3>1, <4>1 DEF PairOK
      <4>3. g.key.root < recv.root + 1 => g.seq < f.seq + 1
        <5>1. CASE g.key.root = recv.root
          BY <1>5, <1>t, <2>2, <4>1, <5>1 DEF PairOK
        <5>2. CASE g.key.root < recv.root
          BY <1>5, <1>t, <4>1, <5>2 DEF PairOK
        <5> QED  BY <1>t, <5>1, <5>2
      <4>4. g.key.root > recv.root + 1 => g.seq >= f.seq + 1
        BY <1>5, <1>t, <4>1 DEF PairOK
      <4> QED  BY <1>t, <3>1, <4>2, <4>3, <4>4 DEF AheadOK
    <3> QED  BY <1>1, <3>2, <3>3 DEF RecvOK
  <2> QED  BY <2>1, <2>2
<1>13. ~(\E i \in 1..Len(log) : log[i] = f.seq)
  <2> SUFFICES ASSUME NEW i \in 1..Len(log), log[i] = f.seq PROVE FALSE
    OBVIOUS
  <2>1. f.seq < recv.seq
    BY <1>0 DEF LogOK
  <2>2. Stored(recv.skipped, f.seq)
    BY <1>1, <1>t, <2>1 DEF Verdict
  <2> QED  BY <1>0, <2>2 DEF RingOK, Stored
<1>14. /\ Len(log') = Len(log) + 1 /\ Len(log) \in Nat
       /\ log'[Len(log) + 1] = f.seq
       /\ \A i \in 1..Len(log) : log'[i] = log[i] /\ log[i] \in Nat
  BY <1>0, <1>1, <1>t DEF TypeOK
<1>15. \A i \in 1..Len(log') : i \in 1..Len(log) \/ i = Len(log) + 1
  BY <1>14
<1>16. LogOK'
  <2> SUFFICES ASSUME NEW i \in 1..Len(log') PROVE log'[i] < recv'.seq
    BY DEF LogOK
  <2>1. CASE i = Len(log) + 1
    BY <1>5, <1>8, <1>14, <2>1
  <2>2. CASE i \in 1..Len(log)
    <3>1. log'[i] = log[i] /\ log[i] \in Nat /\ log[i] < recv.seq
      BY <1>0, <1>14, <2>2 DEF LogOK
    <3> QED  BY <1>5, <1>8, <1>t, <3>1
  <2> QED  BY <1>15, <2>1, <2>2
<1>17. NoReplay'
  <2>1. \A i, j \in 1..Len(log') : log'[i] = log'[j] => i = j
    BY <1>0, <1>13, <1>14, <1>15 DEF NoReplay
  <2>2. \A i \in 1..Len(log') : \E g \in net : g.seq = log'[i]
    BY <1>0, <1>14, <1>15 DEF NoReplay
  <2> QED  BY <1>1, <2>1, <2>2 DEF NoReplay
<1>18. RingOK'
  <2>1. CASE f.root # 0
    BY <1>8, <2>1 DEF RingOK, Exact
  <2>2. CASE f.root = 0
    <3>1. recv' = c
      BY <1>8, <2>2
    <3>2. ASSUME NEW i \in 1..Len(c.skipped), NEW j \in 1..Len(log')
          PROVE  log'[j] # c.skipped[i].seq
      <4>1. CASE j = Len(log) + 1
        BY <1>4, <1>14, <4>1
      <4>2. CASE j \in 1..Len(log)
        <5>1. log'[j] = log[j] /\ log[j] < recv.seq /\ log[j] \in Nat
          BY <1>0, <1>14, <4>2 DEF LogOK
        <5>2. c.skipped[i].seq \in Nat
          <6>1. c.skipped \in Seq(Entry)
            BY <1>4 DEF RatchetState, Entry
          <6>2. c.skipped[i] \in Entry
            BY <6>1
          <6> QED  BY <6>2 DEF Entry
        <5>3. CASE c.skipped[i].seq >= recv.seq
          BY <1>t, <5>1, <5>2, <5>3
        <5>4. CASE \E k \in 1..Len(recv.skipped) :
                     recv.skipped[k].seq = c.skipped[i].seq
          BY <1>0, <4>2, <5>1, <5>4 DEF RingOK
        <5> QED  BY <1>4, <5>3, <5>4
      <4> QED  BY <1>15, <4>1, <4>2
    <3> QED  BY <1>4, <3>1, <3>2 DEF RingOK, Exact, msg_key_at
  <2> QED  BY <2>1, <2>2
<1> QED  BY <1>9, <1>10, <1>11, <1>12, <1>16, <1>17, <1>18 DEF IInv

\* The key of a frame of the receiver's epoch is the one the chain gives.
LEMMA SameKey ==
    ASSUME IInv, NEW f \in net, f.key.root = recv.root
    PROVE  f.key = msg_key_at(recv, f.seq)
<1>1. /\ f.key \in Key /\ f.seq \in Nat /\ f.key.step \in Nat /\ recv.base \in Nat
  BY Fields DEF IInv
<1>2. f.key.lab = recv.lab /\ f.seq = recv.base + f.key.step
  BY DEF IInv, EpochsOK, NetOK, FrameOK, RecvOK, AheadOK
<1>3. f.key.step = f.seq - recv.base
  BY <1>1, <1>2
<1> QED  BY <1>1, <1>2, <1>3 DEF msg_key_at, Key

\* A damaged frame never opens, on the chain or from the store.
LEMMA DamagedNeverOpens ==
    ASSUME IInv, NEW f \in net
    PROVE  Verdict(recv, Damaged(f)) \notin {"OK", "OK_RING"}
<1> DEFINE g == Damaged(f)
<1>1. /\ g.seq = f.seq /\ g.key.root = 0 /\ f.seq \in Nat /\ recv.seq \in Nat
  BY Fields DEF IInv, TypeOK, Frame, Damaged, CorruptKey
<1>2. \A n : msg_key_at(recv, n).root # 0
  BY Fields DEF IInv, EpochsOK, msg_key_at
<1> HIDE DEF g
<1>3. CASE f.seq >= recv.seq
  BY <1>1, <1>2, <1>3 DEF Verdict, g
<1>4. CASE ~(f.seq >= recv.seq) /\ Stored(recv.skipped, f.seq)
  <2> DEFINE i == TakeIndex(recv.skipped, f.seq)
  <2>1. recv \in RatchetState /\ Exact(recv)
    BY DEF IInv, TypeOK, RingOK
  <2>2. i \in 1..Len(recv.skipped)
    BY <1>1, <1>4, <2>1, TakeIndexFinds
  <2>3. recv.skipped[i].key.root # 0
    BY <1>2, <2>1, <2>2 DEF Exact
  <2> QED  BY <1>1, <1>4, <2>3 DEF Verdict, g
<1>5. CASE ~(f.seq >= recv.seq) /\ ~Stored(recv.skipped, f.seq)
  BY <1>1, <1>5 DEF Verdict, g
<1> QED  BY <1>3, <1>4, <1>5 DEF g

\* Putting a stored key back changes nothing the invariant looks at.
LEMMA RejectRingIInv ==
    ASSUME IInv, NEW f \in Frame, RejectRing(f)
    PROVE  IInv' /\ recv'.seq = recv.seq /\ recv'.root = recv.root
                 /\ Ring(recv') = Ring(recv)
<1>0. /\ TypeOK /\ EpochsOK /\ NetOK /\ RecvOK /\ RingOK /\ LogOK /\ NoReplay
  BY DEF IInv
<1>1. /\ send' = send /\ net' = net /\ log' = log /\ recv' = Restore(recv, f)
      /\ Verdict(recv, f) = "FAIL_RING"
  BY DEF RejectRing
<1>2. /\ recv \in RatchetState /\ Exact(recv) /\ Len(recv.skipped) <= SkippedMax
  BY <1>0 DEF TypeOK, RingOK
<1>3. /\ recv' \in RatchetState
      /\ recv'.root = recv.root /\ recv'.lab = recv.lab
      /\ recv'.base = recv.base /\ recv'.seq = recv.seq
      /\ Len(recv'.skipped) = Len(recv.skipped)
      /\ Exact(recv')
      /\ Ring(recv') = Ring(recv)
  BY <1>1, <1>2, RestoreExact
<1>4. TypeOK'
  BY <1>0, <1>1, <1>2, <1>3 DEF TypeOK
<1>5. EpochsOK' /\ NetOK' /\ RecvOK' /\ LogOK' /\ NoReplay'
  BY <1>0, <1>1, <1>3 DEF EpochsOK, NetOK, FrameOK, PairOK, RecvOK, AheadOK, LogOK,
                          NoReplay
<1>6. RingOK'
  <2>1. ASSUME NEW i \in 1..Len(recv'.skipped), NEW j \in 1..Len(log)
        PROVE  log[j] # recv'.skipped[i].seq
    <3>1. PICK k \in 1..Len(recv.skipped) : recv'.skipped[i] = recv.skipped[k]
      BY <1>3 DEF Ring
    <3> QED  BY <1>0, <3>1 DEF RingOK
  <2>2. Exact(recv)'
    BY <1>3 DEF Exact, msg_key_at
  <2> QED  BY <1>1, <2>1, <2>2 DEF RingOK
<1> QED  BY <1>3, <1>4, <1>5, <1>6 DEF IInv

\* A damaged frame is still a frame.
LEMMA DamagedType ==
    ASSUME TypeOK, NEW f \in net
    PROVE  f \in Frame /\ Damaged(f) \in Frame
BY DEF TypeOK, Frame, Damaged, CorruptKey, Key, Label

\* Every step keeps the invariant.
LEMMA NextIInv == IInv /\ [Next]_vars => IInv'
<1> SUFFICES ASSUME IInv, [Next]_vars PROVE IInv'
  OBVIOUS
<1>1. CASE EmitPlain \/ EmitRekey
  BY <1>1, EmitIInv
<1>2. ASSUME NEW f \in net, Receive(f) PROVE IInv'
  <2>1. CASE Deliver(f)
    BY <2>1, DeliverIInv
  <2>2. CASE RejectRing(f)
    BY <2>2, RejectRingIInv, DamagedType DEF IInv
  <2>3. CASE Reject(f)
    BY <2>3 DEF Reject, vars, IInv, TypeOK, EpochsOK, NetOK, FrameOK, PairOK, RecvOK,
                AheadOK, RingOK, Exact, msg_key_at, LogOK, NoReplay
  <2> QED  BY <1>2, <2>1, <2>2, <2>3 DEF Receive
<1>3. ASSUME NEW f \in net, Receive(Damaged(f)) PROVE IInv'
  <2>1. ~Deliver(Damaged(f))
    BY DamagedNeverOpens DEF Deliver
  <2>2. CASE RejectRing(Damaged(f))
    <3>1. Damaged(f) \in Frame
      BY DamagedType DEF IInv
    <3> QED  BY <2>2, <3>1, RejectRingIInv
  <2>3. CASE Reject(Damaged(f))
    BY <2>3 DEF Reject, vars, IInv, TypeOK, EpochsOK, NetOK, FrameOK, PairOK, RecvOK,
                AheadOK, RingOK, Exact, msg_key_at, LogOK, NoReplay
  <2> QED  BY <1>3, <2>1, <2>2, <2>3 DEF Receive
<1>4. CASE UNCHANGED vars
  BY <1>4 DEF vars, IInv, TypeOK, EpochsOK, NetOK, FrameOK, PairOK, RecvOK,
              AheadOK, RingOK, Exact, msg_key_at, LogOK, NoReplay
<1> QED  BY <1>1, <1>2, <1>3, <1>4 DEF Next

-----------------------------------------------------------------------------
(* The theorems                                                            *)

\* Every reachable state of the channel satisfies the inductive invariant.
LEMMA Invariance == Spec => []IInv
BY InitIInv, NextIInv, PTL DEF Spec

\* Type correctness, with the bound of the array TTRatchet.skipped.
THEOREM TypeCorrect == Spec => []TypeOK
<1>1. IInv => TypeOK
  BY DEF IInv
<1> QED  BY <1>1, Invariance, PTL

\* tt_session_feed accepts no frame twice and none that was not sent.
THEOREM ReplayProtection == Spec => []NoReplay
<1>1. IInv => NoReplay
  BY DEF IInv
<1> QED  BY <1>1, Invariance, PTL

\* Both ends at one root are on one chain, and the REKEY frame that takes the
\* receiver across the next fold is always still ahead of it.
THEOREM Alignment == Spec => []Aligned
<1>1. ASSUME IInv PROVE Aligned
  <2>1. recv.root = send.root => recv.base = send.base /\ recv.seq <= send.seq
    BY <1>1 DEF IInv, RecvOK
  <2>2. ASSUME recv.root < send.root
        PROVE  \E f \in net : /\ f.key = msg_key_at(recv, f.seq)
                              /\ f.root = recv.root + 1
                              /\ f.seq >= recv.seq
    <3>1. recv.root \in 1..(send.root - 1)
      BY <1>1, <2>2, Fields DEF IInv, EpochsOK
    <3>2. PICK f \in net : f.root = recv.root + 1
      BY <1>1, <3>1 DEF IInv, NetOK
    <3>3. f.key.root = recv.root /\ f.root # 0
      <4>1. f.root # 0 /\ f.key.root \in Nat /\ recv.root \in Nat
        BY <1>1, <3>2, Fields DEF IInv
      <4>2. f.root = f.key.root + 1
        BY <1>1, <4>1 DEF IInv, NetOK, FrameOK
      <4> QED  BY <3>2, <4>1, <4>2
    <3>4. f.seq >= recv.seq
      BY <1>1, <3>3 DEF IInv, RecvOK, AheadOK
    <3>5. f.key = msg_key_at(recv, f.seq)
      BY <1>1, <3>3, SameKey
    <3> QED  BY <3>2, <3>4, <3>5
  <2> QED  BY <2>1, <2>2 DEF Aligned
<1> QED  BY <1>1, Invariance, PTL

\* The receiver judges every genuine frame rightly, whatever came before it.
THEOREM RightVerdict == Spec => []VerdictSound
<1>1. ASSUME IInv PROVE VerdictSound
  <2> SUFFICES ASSUME NEW f \in net
               PROVE  /\ Verdict(recv, f) # "FAIL_RING"
                      /\ f.key.root < recv.root => Verdict(recv, f) = "REPLAY"
                      /\ f.key.root > recv.root =>
                            Verdict(recv, f) \in {"DECODE_FAIL", "TOO_OLD"}
                      /\ (\E i \in 1..Len(log) : log[i] = f.seq) =>
                            Verdict(recv, f) = "REPLAY"
                      /\ /\ f.key.root = recv.root
                         /\ f.seq >= recv.seq
                         /\ f.seq - recv.seq < MaxSkip
                         => Verdict(recv, f) = "OK"
    BY DEF VerdictSound
  <2>0. /\ f.seq \in Nat /\ f.key.root \in Nat /\ MaxSkip \in Nat
        /\ recv.seq \in Nat /\ recv.base \in Nat /\ recv.root \in Nat
        /\ recv.base <= recv.seq
    BY <1>1, Fields, RatchetAssumption DEF IInv, EpochsOK
  <2>1. AheadOK(f) /\ recv \in RatchetState /\ Exact(recv)
    BY <1>1 DEF IInv, RecvOK, TypeOK, RingOK
  <2>2. (\E i \in 1..Len(log) : log[i] = f.seq) =>
           f.seq < recv.seq /\ ~Stored(recv.skipped, f.seq)
    BY <1>1 DEF IInv, LogOK, RingOK, Stored
  <2>3. CASE f.seq < recv.seq /\ ~Stored(recv.skipped, f.seq)
    <3>1. Verdict(recv, f) = "REPLAY"
      BY <2>0, <2>3 DEF Verdict
    <3>2. ~(f.key.root > recv.root)
      BY <2>0, <2>1, <2>3 DEF AheadOK
    <3> QED  BY <2>0, <2>3, <3>1, <3>2
  <2>4. CASE f.seq < recv.seq /\ Stored(recv.skipped, f.seq)
    <3> DEFINE i == TakeIndex(recv.skipped, f.seq)
    <3>1. i \in 1..Len(recv.skipped) /\ recv.skipped[i].seq = f.seq
      BY <2>0, <2>1, <2>4, TakeIndexFinds
    <3>2. recv.base <= f.seq
      BY <2>1, <3>1 DEF Exact
    <3>3. f.key.root = recv.root
      BY <2>0, <2>1, <2>4, <3>2 DEF AheadOK
    <3>4. recv.skipped[i].key = f.key
      BY <1>1, <2>1, <3>1, <3>3, SameKey DEF Exact
    <3>5. Verdict(recv, f) = "OK_RING"
      BY <2>0, <2>4, <3>4 DEF Verdict
    <3> QED  BY <2>0, <2>2, <2>4, <3>3, <3>5
  <2>5. CASE f.seq >= recv.seq
    <3>1. CASE f.key.root = recv.root
      <4>1. f.key = msg_key_at(recv, f.seq)
        BY <1>1, <3>1, SameKey
      <4>2. Verdict(recv, f) = IF f.seq - recv.seq >= MaxSkip THEN "TOO_OLD" ELSE "OK"
        BY <2>5, <4>1 DEF Verdict
      <4> QED  BY <2>0, <2>2, <2>5, <3>1, <4>2
    <3>2. CASE f.key.root > recv.root
      <4>1. f.key # msg_key_at(recv, f.seq)
        BY <2>0, <3>2 DEF msg_key_at
      <4>2. Verdict(recv, f) \in {"DECODE_FAIL", "TOO_OLD"}
        BY <2>5, <4>1 DEF Verdict
      <4> QED  BY <2>0, <2>2, <2>5, <3>2, <4>2
    <3>3. CASE f.key.root < recv.root
      BY <2>0, <2>1, <2>5, <3>3 DEF AheadOK
    <3> QED  BY <2>0, <3>1, <3>2, <3>3
  <2> QED  BY <2>0, <2>3, <2>4, <2>5
<1> QED  BY <1>1, Invariance, PTL

\* A frame that does not open consumes neither the chain nor a stored key.
THEOREM ReceiveHygiene == Spec => Hygiene
<1> DEFINE Kept == /\ recv'.seq = recv.seq /\ recv'.root = recv.root
                   /\ Ring(recv') = Ring(recv)
<1>1. ASSUME IInv, [Next]_vars, log' = log PROVE Kept
  <2>1. CASE EmitPlain \/ EmitRekey
    BY <2>1 DEF EmitPlain, EmitRekey, Ring
  <2>2. ASSUME NEW f \in Frame, Receive(f) PROVE Kept
    <3>1. ~Deliver(f)
      <4>1. f.seq \in Nat /\ log \in Seq(Nat)
        BY <1>1, <2>2 DEF Frame, IInv, TypeOK
      <4>2. Len(Append(log, f.seq)) # Len(log)
        BY <4>1
      <4> QED  BY <1>1, <4>2 DEF Deliver
    <3>2. CASE RejectRing(f)
      BY <1>1, <3>2, RejectRingIInv
    <3>3. CASE Reject(f)
      BY <3>3 DEF Reject, vars, Ring
    <3> QED  BY <2>2, <3>1, <3>2, <3>3 DEF Receive
  <2>3. ASSUME NEW f \in net, Receive(f) \/ Receive(Damaged(f)) PROVE Kept
    <3>1. f \in Frame /\ Damaged(f) \in Frame
      BY <1>1, DamagedType DEF IInv
    <3> HIDE DEF Kept
    <3> QED  BY <2>2, <2>3, <3>1
  <2>4. CASE UNCHANGED vars
    BY <2>4 DEF vars, Ring
  <2> HIDE DEF Kept
  <2> QED  BY <1>1, <2>1, <2>3, <2>4 DEF Next
<1>2. ASSUME IInv, [Next]_vars PROVE [log' = log => Kept]_vars
  BY <1>1, <1>2
<1> QED  BY <1>2, Invariance, PTL DEF Spec, Hygiene
=============================================================================
