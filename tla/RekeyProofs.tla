----------------------------- MODULE RekeyProofs ----------------------------
(***************************************************************************)
(* The two directions of a session stay on one chain each, and every fold  *)
(* is made for the pair its receiver holds: theorems about Rekey for every *)
(* MaxSkip, SkippedMax and RekeyEvery and for every setup, under the two   *)
(* conditions on the traffic that the protocol needs (NoCrossing, KeptUp). *)
(***************************************************************************)
EXTENDS Rekey, QueueLemmas, FiniteSetTheorems, TLAPS

Entry == [seq : Nat, key : Key]

\* w has a frame of this kind
Has(w, kind) == \E i \in 1..Len(w) : w[i].kind = kind

\* One queue after the other.
LEMMA ConcatParts ==
    ASSUME NEW S, NEW a \in Seq(S), NEW b \in Seq(S)
    PROVE  /\ a \o b \in Seq(S) /\ Len(a \o b) = Len(a) + Len(b)
           /\ Len(a) \in Nat /\ Len(b) \in Nat
           /\ \A i \in 1..Len(a) : (a \o b)[i] = a[i]
           /\ \A i \in (Len(a) + 1)..(Len(a) + Len(b)) :
                 (a \o b)[i] = b[i - Len(a)] /\ i - Len(a) \in 1..Len(b)
  OBVIOUS

-----------------------------------------------------------------------------
(* The skipped-key store                                                   *)

\* f (a frame, or an entry of the store) is sealed on the chain of r
On(r, f) == f.seq >= r.base /\ f.key = msg_key_at(r, f.seq)

\* the entries of a store that has seen every seq below n: seqs that grow by one or
\* more from entry to entry
Spread(ring, n) ==
    \A i \in 1..Len(ring) :
        /\ n - ring[i].seq > Len(ring) - i
        /\ \A j \in 1..i : ring[i].seq - ring[j].seq >= i - j

Exact(r) ==
    /\ r.base <= r.seq
    /\ Spread(r.skipped, r.seq)
    /\ \A i \in 1..Len(r.skipped) : On(r, r.skipped[i])

\* The store and the keys of a gap, one after the other.
LEMMA SpreadConcat ==
    ASSUME NEW ring \in Seq(Entry), NEW gap \in Seq(Entry), NEW mid \in Nat, NEW n \in Nat,
           n >= mid, Spread(ring, mid), Len(gap) = n - mid,
           \A i \in 1..Len(gap) : gap[i].seq = mid + i - 1
    PROVE  Spread(ring \o gap, n)
  <1> DEFINE all == ring \o gap
             k == Len(ring)
  <1>0. Len(all) = k + Len(gap) /\ k \in Nat /\ Len(gap) \in Nat
    BY ConcatParts
  <1>1. /\ all \in Seq(Entry) /\ Len(all) = k + (n - mid) /\ k \in Nat
        /\ \A i \in 1..k : all[i] = ring[i]
        /\ \A i \in (k + 1)..Len(all) : all[i] = gap[i - k] /\ i - k \in 1..Len(gap)
    BY <1>0, ConcatParts
  <1>2. \A i \in 1..k : ring[i].seq \in Nat
    <2>1. \A i \in 1..k : ring[i] \in Entry
      OBVIOUS
    <2> QED BY <2>1 DEF Entry
  <1>3. /\ \A i \in 1..k : all[i].seq \in Nat /\ mid - all[i].seq > k - i
        /\ \A i \in 1..k : \A j \in 1..i : all[i].seq - all[j].seq >= i - j
    <2>1. /\ \A i \in 1..k : mid - ring[i].seq > k - i
          /\ \A i \in 1..k : \A j \in 1..i : ring[i].seq - ring[j].seq >= i - j
      BY DEF Spread
    <2>2. \A i \in 1..k : \A j \in 1..i : j \in 1..k
      BY <1>0
    <2> HIDE DEF all, k
    <2> QED BY <1>1, <1>2, <2>1, <2>2, Zenon
  <1>4. \A i \in (k + 1)..Len(all) : all[i].seq = mid + (i - k) - 1
    BY <1>1
  <1> HIDE DEF all, k
  <1>5. ASSUME NEW i \in 1..Len(all)
        PROVE  /\ n - all[i].seq > Len(all) - i
               /\ \A j \in 1..i : all[i].seq - all[j].seq >= i - j
    <2>0. Len(all) \in Nat /\ Len(all) = k + (n - mid) /\ k \in Nat
      BY <1>1
    <2>1. CASE i \in 1..k
      <3> DEFINE e == all[i].seq
      <3>1. mid - e > k - i /\ e \in Nat /\ \A j \in 1..i : e - all[j].seq >= i - j
        BY <1>3, <2>1
      <3> HIDE DEF e
      <3>2. n - e > Len(all) - i
        BY <2>0, <2>1, <3>1
      <3> QED BY <3>1, <3>2 DEF e
    <2>2. CASE i \in (k + 1)..Len(all)
      <3>1. all[i].seq = mid + (i - k) - 1
        BY <1>4, <2>2
      <3>2. ASSUME NEW j \in 1..i PROVE all[i].seq - all[j].seq >= i - j
        <4>1. CASE j \in 1..k
          <5> DEFINE x == all[i].seq
                     y == all[j].seq
          <5>1. mid - y > k - j /\ y \in Nat /\ x = mid + (i - k) - 1
            BY <1>3, <3>1, <4>1
          <5> HIDE DEF x, y
          <5>2. x - y >= i - j
            BY <2>0, <2>2, <4>1, <5>1
          <5> QED BY <5>2 DEF x, y
        <4>2. CASE j \in (k + 1)..Len(all)
          <5>1. all[j].seq = mid + (j - k) - 1
            BY <1>4, <4>2
          <5>2. (mid + (i - k) - 1) - (mid + (j - k) - 1) >= i - j
            BY <2>0, <2>2, <4>2
          <5> QED BY <3>1, <5>1, <5>2
        <4> QED BY <2>0, <4>1, <4>2
      <3> QED BY <2>0, <2>2, <3>1, <3>2
    <2> QED BY <2>0, <2>1, <2>2
  <1> QED BY <1>5 DEF Spread, all

\* new holds entries of all, and every one that is not SkippedMax behind n
KeepsNewest(all, n, new) ==
    /\ new \in Seq(Entry) /\ Len(new) <= SkippedMax /\ Spread(new, n)
    /\ \A i \in 1..Len(new) : \E j \in 1..Len(all) : new[i] = all[j]
    /\ \A j \in 1..Len(all) :
          n - all[j].seq <= SkippedMax => \E i \in 1..Len(new) : new[i] = all[j]

\* Adding them: the store keeps every key that is not SkippedMax behind.
LEMMA AddGapSpread ==
    ASSUME NEW ring \in Seq(Entry), NEW gap \in Seq(Entry), NEW n \in Nat,
           Spread(ring \o gap, n)
    PROVE  KeepsNewest(ring \o gap, n, AddGap(ring, gap))
  <1> DEFINE all == ring \o gap
             new == AddGap(ring, gap)
             d == IF Len(all) > SkippedMax THEN Len(all) - SkippedMax ELSE 0
  <1>1. all \in Seq(Entry) /\ Len(all) \in Nat /\ SkippedMax \in Nat
    BY RatchetAssumption
  <1>2. \A i \in 1..Len(all) : all[i].seq \in Nat
    <2>1. \A i \in 1..Len(all) : all[i] \in Entry
      BY <1>1
    <2> QED BY <2>1 DEF Entry
  <1>3. d \in Nat /\ Len(all) - d \in Nat /\ Len(all) - d <= SkippedMax
        /\ (d = 0 \/ Len(all) - d = SkippedMax)
    BY <1>1
  <1>4. new = IF Len(all) > SkippedMax
              THEN [i \in 1..SkippedMax |-> all[i + (Len(all) - SkippedMax)]] ELSE all
    BY DEF AddGap
  <1> HIDE DEF all, new
  <1>5. /\ new \in Seq(Entry) /\ Len(new) = Len(all) - d
        /\ \A i \in 1..Len(new) : new[i] = all[i + d]
    <2>1. CASE Len(all) > SkippedMax
      <3>1. \A i \in 1..SkippedMax : i + (Len(all) - SkippedMax) \in 1..Len(all)
        BY <1>1, <2>1
      <3>2. new = [i \in 1..SkippedMax |-> all[i + (Len(all) - SkippedMax)]]
        BY <1>4, <2>1
      <3>3. new \in [1..SkippedMax -> Entry]
        <4>1. \A i \in 1..SkippedMax : all[i + (Len(all) - SkippedMax)] \in Entry
          BY <1>1, <3>1
        <4> QED BY <3>2, <4>1
      <3>4. new \in Seq(Entry) /\ Len(new) = SkippedMax
        BY <1>1, <3>3
      <3> QED BY <1>1, <2>1, <3>2, <3>4
    <2>2. CASE ~(Len(all) > SkippedMax)
      BY <1>1, <1>4, <2>2
    <2> QED BY <2>1, <2>2
  <1> HIDE DEF d
  <1>6. \A i \in 1..Len(new) : i + d \in 1..Len(all)
    BY <1>1, <1>3, <1>5
  <1>7. Spread(new, n)
    <2> SUFFICES ASSUME NEW i \in 1..Len(new)
                 PROVE  /\ n - new[i].seq > Len(new) - i
                        /\ \A j \in 1..i : new[i].seq - new[j].seq >= i - j
      BY DEF Spread
    <2>1. n - all[i + d].seq > Len(all) - (i + d)
      BY <1>6 DEF Spread, all
    <2>2. ASSUME NEW j \in 1..i PROVE new[i].seq - new[j].seq >= i - j
      <3>1. j \in 1..Len(new) /\ j + d \in 1..(i + d)
        BY <1>3, <1>5
      <3>2. all[i + d].seq - all[j + d].seq >= (i + d) - (j + d)
        BY <1>6, <3>1 DEF Spread, all
      <3>3. new[i] = all[i + d] /\ new[j] = all[j + d]
        BY <1>5, <3>1
      <3> QED BY <1>3, <3>2, <3>3
    <2>3. new[i] = all[i + d]
      BY <1>5
    <2> QED BY <1>1, <1>3, <1>5, <2>1, <2>2, <2>3
  <1>8. ASSUME NEW j \in 1..Len(all), n - all[j].seq <= SkippedMax
        PROVE  \E i \in 1..Len(new) : new[i] = all[j]
    <2>1. n - all[j].seq > Len(all) - j
      BY DEF Spread, all
    <2>2. j - d \in 1..Len(new)
      BY <1>1, <1>2, <1>3, <1>5, <1>8, <2>1
    <2>3. new[j - d] = all[(j - d) + d] /\ (j - d) + d = j
      BY <1>3, <1>5, <2>2
    <2> QED BY <2>2, <2>3
  <1>9. \A i \in 1..Len(new) : \E j \in 1..Len(all) : new[i] = all[j]
    BY <1>5, <1>6
  <1>10. KeepsNewest(all, n, new)
    BY <1>3, <1>5, <1>7, <1>8, <1>9 DEF KeepsNewest
  <1> QED BY <1>10 DEF all, new

\* The keys of the gap that the chain jumps over.
LEMMA GapRun ==
    ASSUME NEW r \in RatchetState, r.base <= r.seq, NEW n \in Nat, n >= r.seq
    PROVE  /\ Gap(r, n) \in Seq(Entry) /\ Len(Gap(r, n)) = n - r.seq
           /\ \A i \in 1..Len(Gap(r, n)) : /\ Gap(r, n)[i].seq = r.seq + i - 1
                                           /\ On(r, Gap(r, n)[i])
  <1> DEFINE m == n - r.seq
  <1>1. m \in Nat /\ r.base \in Nat /\ r.seq \in Nat /\ r.root \in Nat /\ r.lab \in Label
    BY DEF RatchetState
  <1>2. ASSUME NEW i \in 1..m
        PROVE  /\ r.seq + i - 1 \in Nat /\ r.seq + i - 1 >= r.base
               /\ msg_key_at(r, r.seq + i - 1) \in Key
    <2>1. r.seq + i - 1 \in Nat /\ r.seq + i - 1 >= r.base /\ r.seq + i - 1 - r.base \in Nat
      BY <1>1
    <2> QED BY <1>1, <2>1 DEF msg_key_at, Key
  <1> DEFINE e(i) == [seq |-> r.seq + i - 1, key |-> msg_key_at(r, r.seq + i - 1)]
  <1>3. \A i \in 1..m : e(i) \in Entry /\ e(i).seq = r.seq + i - 1 /\ On(r, e(i))
    BY <1>2 DEF Entry, On
  <1>4. Gap(r, n) = [i \in 1..m |-> e(i)]
    BY DEF Gap
  <1> HIDE DEF m, e
  <1>5. Gap(r, n) \in [1..m -> Entry]
    BY <1>3, <1>4
  <1>6. Gap(r, n) \in Seq(Entry) /\ Len(Gap(r, n)) = m
    BY <1>1, <1>5
  <1>7. \A i \in 1..m : Gap(r, n)[i] = e(i)
    BY <1>4
  <1> QED BY <1>3, <1>6, <1>7 DEF m

\* In an exact store the entry of a stored seq is found, and its key is the chain's.
LEMMA TakeFinds ==
    ASSUME NEW r \in RatchetState, Exact(r), NEW n \in Nat, Stored(r.skipped, n)
    PROVE  /\ TakeIndex(r.skipped, n) \in 1..Len(r.skipped)
           /\ r.skipped[TakeIndex(r.skipped, n)].seq = n
           /\ r.skipped[TakeIndex(r.skipped, n)].key = msg_key_at(r, n)
           /\ n >= r.base
           /\ \A j \in 1..Len(r.skipped) : r.skipped[j].seq = n => j = TakeIndex(r.skipped, n)
  <1>0. Len(r.skipped) \in Nat
    BY DEF RatchetState
  <1>1. PICK i \in 1..Len(r.skipped) : r.skipped[i].seq = n
    BY DEF Stored
  <1>2. ASSUME NEW j \in 1..Len(r.skipped), NEW k \in 1..Len(r.skipped),
               r.skipped[j].seq = n, r.skipped[k].seq = n, j < k
        PROVE  FALSE
    <2>0. j \in 1..k
      BY <1>0, <1>2
    <2>1. r.skipped[k].seq - r.skipped[j].seq >= k - j
      BY <2>0, Zenon DEF Exact, Spread
    <2> QED BY <1>0, <1>2, <2>1
  <1>3. \A j \in 1..Len(r.skipped) : r.skipped[j].seq = n => j = i
    <2> SUFFICES ASSUME NEW j \in 1..Len(r.skipped), r.skipped[j].seq = n, j # i PROVE FALSE
      OBVIOUS
    <2>1. j < i \/ i < j
      BY <1>0
    <2> QED BY <1>1, <1>2, <2>1
  <1>4. \A j \in 1..(i - 1) : r.skipped[j].seq # n
    BY <1>0, <1>3
  <1>5. TakeIndex(r.skipped, n) = i
    <2>1. TakeIndex(r.skipped, n) \in 1..Len(r.skipped) /\ r.skipped[TakeIndex(r.skipped, n)].seq = n
      BY <1>1, <1>4 DEF TakeIndex
    <2> QED BY <1>3, <2>1
  <1>6. On(r, r.skipped[i])
    BY DEF Exact
  <1> QED BY <1>1, <1>3, <1>5, <1>6 DEF On

\* new has every entry of ring but the i-th
Closes(ring, i, n, new) ==
    /\ new \in Seq(Entry) /\ Len(new) = Len(ring) - 1 /\ Spread(new, n)
    /\ \A j \in 1..Len(new) : \E k \in 1..Len(ring) : new[j] = ring[k]
    /\ \A k \in 1..Len(ring) : k # i => \E j \in 1..Len(new) : new[j] = ring[k]

\* Spending an entry keeps every other one, in order.
LEMMA WithoutSpread ==
    ASSUME NEW ring \in Seq(Entry), NEW n \in Nat, Spread(ring, n), NEW i \in 1..Len(ring)
    PROVE  Closes(ring, i, n, Without(ring, i))
  <1> DEFINE new == Without(ring, i)
             m == Len(ring) - 1
             at(j) == IF j < i THEN j ELSE j + 1
  <1>1. m \in Nat /\ Len(ring) = m + 1
    OBVIOUS
  <1>2. \A j \in 1..m : at(j) \in 1..Len(ring)
    BY <1>1
  <1>3. new = [j \in 1..m |-> ring[at(j)]]
    BY DEF Without
  <1> HIDE DEF new
  <1>4. \A j \in 1..Len(ring) : ring[j].seq \in Nat
    <2>1. \A j \in 1..Len(ring) : ring[j] \in Entry
      OBVIOUS
    <2> QED BY <2>1 DEF Entry
  <1>5. new \in Seq(Entry) /\ Len(new) = m
    <2>1. new \in [1..m -> Entry]
      BY <1>2, <1>3
    <2> HIDE DEF m
    <2> QED BY <1>1, <2>1, FunctionIsSeq
  <1>6. \A j \in 1..m : new[j] = ring[at(j)]
    BY <1>3
  <1>7. Spread(new, n)
    <2> SUFFICES ASSUME NEW j \in 1..m
                 PROVE  /\ n - new[j].seq > m - j
                        /\ \A k \in 1..j : new[j].seq - new[k].seq >= j - k
      BY <1>5 DEF Spread
    <2>1. n - ring[at(j)].seq > Len(ring) - at(j) /\ ring[at(j)].seq \in Nat
      BY <1>2, <1>4 DEF Spread
    <2>2. ASSUME NEW k \in 1..j PROVE new[j].seq - new[k].seq >= j - k
      <3>1. k \in 1..m /\ at(k) \in 1..at(j) /\ at(j) - at(k) >= j - k
        BY <1>1
      <3>2. ring[at(j)].seq - ring[at(k)].seq >= at(j) - at(k)
        BY <1>2, <3>1 DEF Spread
      <3>3. ring[at(j)].seq \in Nat /\ ring[at(k)].seq \in Nat
        BY <1>2, <1>4, <3>1
      <3>4. at(j) \in Nat /\ at(k) \in Nat
        BY <1>1
      <3>5. new[j] = ring[at(j)] /\ new[k] = ring[at(k)]
        BY <1>6, <3>1
      <3> DEFINE x == ring[at(j)].seq
                 y == ring[at(k)].seq
                 v == at(j)
                 z == at(k)
      <3>6. x - y >= v - z /\ v - z >= j - k /\ x \in Nat /\ y \in Nat /\ v \in Nat /\ z \in Nat
        BY <3>1, <3>2, <3>3, <3>4
      <3> HIDE DEF x, y, v, z
      <3>7. x - y >= j - k
        BY <1>1, <3>6
      <3> QED BY <3>5, <3>7 DEF x, y
    <2>3. new[j] = ring[at(j)] /\ at(j) \in Nat /\ Len(ring) - at(j) >= m - j
      BY <1>1, <1>6
    <2> HIDE DEF at
    <2> QED BY <1>1, <2>1, <2>2, <2>3
  <1>8. ASSUME NEW k \in 1..Len(ring), k # i
        PROVE  \E j \in 1..m : new[j] = ring[k]
    <2>1. CASE k < i
      <3>1. k \in 1..m /\ at(k) = k
        BY <1>1, <2>1
      <3> QED BY <1>6, <3>1
    <2>2. CASE k > i
      <3>1. k - 1 \in 1..m /\ at(k - 1) = k
        BY <1>1, <2>2
      <3> QED BY <1>6, <3>1
    <2> QED BY <1>1, <1>8, <2>1, <2>2
  <1>9. \A j \in 1..m : \E k \in 1..Len(ring) : new[j] = ring[k]
    BY <1>2, <1>6
  <1>10. Closes(ring, i, n, new)
    BY <1>5, <1>7, <1>8, <1>9 DEF Closes
  <1> QED BY <1>10 DEF new

\* what an opened frame f makes of ratchet r
Committed(r, f, c) ==
    /\ c \in RatchetState /\ Exact(c) /\ Len(c.skipped) <= SkippedMax
    /\ c.root = r.root /\ c.lab = r.lab /\ c.base = r.base
    /\ c.seq = IF f.seq >= r.seq THEN f.seq + 1 ELSE r.seq
    /\ On(r, f)
    /\ \A n \in Nat : /\ n # f.seq /\ c.seq - n <= SkippedMax + 1
                      /\ Stored(r.skipped, n) \/ (r.seq <= n /\ n < f.seq)
                      => Stored(c.skipped, n)

\* A frame that opens was sealed on this chain; committing it keeps the store exact
\* and loses no key that is not SkippedMax behind, but its own.
LEMMA CommitRing ==
    ASSUME NEW r \in RatchetState, Exact(r), Len(r.skipped) <= SkippedMax,
           NEW f \in DataFrame, Verdict(r, f) \in {"OK", "OK_RING"}
    PROVE  Committed(r, f, Commit(r, f))
  <1> DEFINE ring == r.skipped
             c == Commit(r, f)
  <1>0. /\ ring \in Seq(Entry) /\ Len(ring) \in Nat /\ r.seq \in Nat /\ r.base \in Nat
        /\ f.seq \in Nat /\ r.base <= r.seq /\ SkippedMax \in Nat
    BY RatchetAssumption DEF RatchetState, DataFrame, Entry, Exact
  <1>1. CASE f.seq >= r.seq
    <2> DEFINE gap == Gap(r, f.seq)
               all == ring \o gap
               new == AddGap(ring, gap)
    <2>1. c = [r EXCEPT !.skipped = new, !.seq = f.seq + 1]
      BY <1>1 DEF Commit
    <2>2. On(r, f)
      BY <1>0, <1>1 DEF Verdict, On
    <2>3. /\ gap \in Seq(Entry) /\ Len(gap) = f.seq - r.seq
          /\ \A i \in 1..Len(gap) : gap[i].seq = r.seq + i - 1 /\ On(r, gap[i])
      BY <1>0, <1>1, GapRun
    <2>4. Spread(all, f.seq)
      BY <1>0, <1>1, <2>3, SpreadConcat DEF Exact
    <2>5. /\ new \in Seq(Entry) /\ Len(new) <= SkippedMax /\ Spread(new, f.seq)
          /\ \A i \in 1..Len(new) : \E j \in 1..Len(all) : new[i] = all[j]
          /\ \A j \in 1..Len(all) :
                 f.seq - all[j].seq <= SkippedMax => \E i \in 1..Len(new) : new[i] = all[j]
      <3>1. KeepsNewest(all, f.seq, new)
        <4> HIDE DEF ring, gap
        <4> QED BY <1>0, <2>3, <2>4, AddGapSpread
      <3> QED BY <3>1 DEF KeepsNewest
    <2>6. /\ Len(all) = Len(ring) + Len(gap) /\ Len(gap) \in Nat
          /\ \A i \in 1..Len(ring) : all[i] = ring[i]
          /\ \A i \in (Len(ring) + 1)..(Len(ring) + Len(gap)) :
                all[i] = gap[i - Len(ring)] /\ i - Len(ring) \in 1..Len(gap)
      BY <1>0, <2>3, ConcatParts
    <2>7. /\ c \in RatchetState /\ c.skipped = new /\ c.seq = f.seq + 1
          /\ c.root = r.root /\ c.lab = r.lab /\ c.base = r.base
      <3>1. new \in Seq(Entry) /\ f.seq + 1 \in Nat
        BY <1>0, <2>5
      <3> HIDE DEF c, new, ring
      <3> QED BY <2>1, <3>1 DEF RatchetState, Entry
    <2> HIDE DEF c, gap, all, new, ring
    <2>8. \A n : msg_key_at(c, n) = msg_key_at(r, n)
      BY <2>7 DEF msg_key_at
    <2>9. Exact(c)
      <3>1. \A j \in 1..Len(all) : On(r, all[j])
        <4>1. \A j \in 1..Len(ring) : On(r, ring[j])
          BY DEF Exact, ring
        <4> SUFFICES ASSUME NEW j \in 1..Len(all) PROVE On(r, all[j])
          OBVIOUS
        <4>2. j \in 1..Len(ring) \/ j \in (Len(ring) + 1)..(Len(ring) + Len(gap))
          BY <1>0, <2>6
        <4> QED BY <2>3, <2>6, <4>1, <4>2
      <3>2. \A i \in 1..Len(new) : On(c, new[i])
        BY <2>5, <2>7, <2>8, <3>1 DEF On
      <3>3. \A i \in 1..Len(new) : new[i].seq \in Nat
        <4>1. \A i \in 1..Len(new) : new[i] \in Entry
          BY <2>5
        <4> QED BY <4>1 DEF Entry
      <3>4. Spread(new, f.seq + 1)
        <4> SUFFICES ASSUME NEW i \in 1..Len(new)
                     PROVE  /\ (f.seq + 1) - new[i].seq > Len(new) - i
                            /\ \A j \in 1..i : new[i].seq - new[j].seq >= i - j
          BY DEF Spread
        <4>1. /\ f.seq - new[i].seq > Len(new) - i
              /\ \A j \in 1..i : new[i].seq - new[j].seq >= i - j
          BY <2>5 DEF Spread
        <4>2. Len(new) \in Nat /\ new[i].seq \in Nat /\ i \in Nat
          BY <2>5, <3>3
        <4> DEFINE m == new[i].seq
                   l == Len(new)
        <4>3. f.seq - m > l - i /\ m \in Nat /\ l \in Nat /\ i \in Nat /\ f.seq \in Nat
          BY <1>0, <4>1, <4>2
        <4> HIDE DEF m, l
        <4>4. (f.seq + 1) - m > l - i
          BY <4>3
        <4> QED BY <4>1, <4>4 DEF m, l
      <3> QED BY <1>0, <1>1, <2>7, <3>2, <3>4 DEF Exact
    <2>10. ASSUME NEW n \in Nat, n # f.seq, c.seq - n <= SkippedMax + 1,
                  Stored(ring, n) \/ (r.seq <= n /\ n < f.seq)
           PROVE  Stored(new, n)
      <3>1. f.seq - n <= SkippedMax
        BY <1>0, <2>7, <2>10
      <3>2. \E j \in 1..Len(all) : all[j].seq = n
        <4>1. CASE Stored(ring, n)
          <5>1. PICK j \in 1..Len(ring) : ring[j].seq = n
            BY <4>1 DEF Stored
          <5>2. j \in 1..Len(all) /\ all[j] = ring[j]
            BY <1>0, <2>6
          <5> QED BY <5>1, <5>2
        <4>2. CASE r.seq <= n /\ n < f.seq
          <5> DEFINE i == n - r.seq + 1
          <5>1. i \in 1..Len(gap) /\ r.seq + i - 1 = n
            BY <1>0, <2>3, <4>2
          <5> HIDE DEF i
          <5>2. gap[i].seq = n
            BY <2>3, <5>1
          <5>3. Len(ring) + i \in 1..Len(all) /\ (Len(ring) + i) - Len(ring) = i
                /\ Len(ring) + i \in (Len(ring) + 1)..(Len(ring) + Len(gap))
            BY <1>0, <2>6, <5>1
          <5>4. all[Len(ring) + i] = gap[i]
            BY <2>6, <5>3
          <5> QED BY <5>2, <5>3, <5>4
        <4> QED BY <2>10, <4>1, <4>2
      <3> QED BY <2>5, <3>1, <3>2 DEF Stored
    <2>11. Committed(r, f, c)
      BY <1>1, <2>2, <2>5, <2>7, <2>9, <2>10 DEF Committed, ring
    <2> QED BY <2>11 DEF c
  <1>2. CASE ~(f.seq >= r.seq)
    <2> DEFINE i == TakeIndex(ring, f.seq)
               new == Without(ring, i)
    <2>1. Stored(ring, f.seq) /\ f.key = ring[i].key
      BY <1>2 DEF Verdict
    <2>2. /\ i \in 1..Len(ring) /\ ring[i].seq = f.seq /\ ring[i].key = msg_key_at(r, f.seq)
          /\ f.seq >= r.base
          /\ \A j \in 1..Len(ring) : ring[j].seq = f.seq => j = i
      BY <1>0, <2>1, TakeFinds
    <2>3. c = [r EXCEPT !.skipped = new]
      BY <1>2 DEF Commit
    <2> HIDE DEF i
    <2>4. /\ new \in Seq(Entry) /\ Len(new) = Len(ring) - 1 /\ Spread(new, r.seq)
          /\ \A j \in 1..Len(new) : \E k \in 1..Len(ring) : new[j] = ring[k]
          /\ \A k \in 1..Len(ring) : k # i => \E j \in 1..Len(new) : new[j] = ring[k]
      <3>1. Spread(ring, r.seq)
        BY DEF Exact
      <3>2. Closes(ring, i, r.seq, new)
        <4> HIDE DEF ring
        <4> QED BY <1>0, <2>2, <3>1, WithoutSpread
      <3> QED BY <3>2 DEF Closes
    <2>5. /\ c \in RatchetState /\ c.skipped = new /\ c.seq = r.seq
          /\ c.root = r.root /\ c.lab = r.lab /\ c.base = r.base
      BY <1>0, <2>3, <2>4 DEF RatchetState, Entry
    <2>6. \A j \in 1..Len(ring) : On(r, ring[j])
      BY DEF Exact
    <2> HIDE DEF c, new, ring
    <2>7. \A n : msg_key_at(c, n) = msg_key_at(r, n)
      BY <2>5 DEF msg_key_at
    <2>8. \A j \in 1..Len(new) : On(c, new[j])
      BY <2>4, <2>5, <2>6, <2>7 DEF On
    <2>9. Exact(c)
      BY <1>0, <2>4, <2>5, <2>8 DEF Exact
    <2>10. ASSUME NEW n \in Nat, n # f.seq, Stored(ring, n)
           PROVE  Stored(new, n)
      <3>1. PICK k \in 1..Len(ring) : ring[k].seq = n
        BY <2>10 DEF Stored
      <3>2. k # i
        BY <2>2, <2>10, <3>1
      <3> QED BY <2>4, <3>1, <3>2 DEF Stored
    <2>11. On(r, f)
      BY <2>1, <2>2 DEF On
    <2>12. \A n \in Nat : ~(r.seq <= n /\ n < f.seq)
      BY <1>0, <1>2
    <2>13. Len(new) <= SkippedMax
      BY <1>0, <2>4 DEF ring
    <2>14. Committed(r, f, c)
      BY <1>2, <2>5, <2>9, <2>10, <2>11, <2>12, <2>13 DEF Committed, ring
    <2> QED BY <2>14 DEF c
  <1> QED BY <1>1, <1>2

-----------------------------------------------------------------------------
(* What a peer's own step does to its session                              *)

HeaderKind == {"republish", "rekey", "publish", "answer", "none"}

\* Session t seals frame f and goes on as u: a REKEY spends the peer's keys and folds.
Emits(t, u, f) ==
    /\ u \in SessionType /\ f \in DataFrame
    /\ u.recv = t.recv /\ u.pair = t.pair
    /\ u.peer_kem = t.peer_kem /\ u.peer_eph = t.peer_eph
    /\ f.seq = t.send.seq /\ f.key = msg_key_at(t.send, t.send.seq) /\ f.pair = t.pair
    /\ u.send.seq = t.send.seq + 1 /\ u.send.lab = t.send.lab /\ u.send.base <= u.send.seq
    /\ \/ /\ f.kind # "REKEY" /\ u.peer_have = t.peer_have
          /\ u.send.root = t.send.root /\ u.send.base = t.send.base
       \/ /\ f.kind = "REKEY" /\ t.peer_have /\ ~u.peer_have
          /\ f.kem = t.peer_kem /\ f.eph = t.peer_eph /\ f.root = t.send.root + 1
          /\ u.send.root = t.send.root + 1 /\ u.send.base = t.send.seq + 1

\* Session t goes on as u and no frame of it is on the way; a chain step may be lost.
Idles(t, u) ==
    /\ u \in SessionType
    /\ u.recv = t.recv /\ u.pair = t.pair /\ u.peer_have = t.peer_have
    /\ u.peer_kem = t.peer_kem /\ u.peer_eph = t.peer_eph
    /\ u.send.lab = t.send.lab /\ u.send.root = t.send.root /\ u.send.base = t.send.base
    /\ u.send.seq \in {t.send.seq, t.send.seq + 1}

\* The flags, which no theorem here depends on.
SameButFlags(t, u) ==
    /\ u \in SessionType
    /\ u.send = t.send /\ u.recv = t.recv /\ u.pair = t.pair /\ u.peer_have = t.peer_have
    /\ u.peer_kem = t.peer_kem /\ u.peer_eph = t.peer_eph /\ u.carrier = t.carrier

\* The automatic trigger and the header touch the flags only.
LEMMA FlagsOnly ==
    ASSUME NEW t \in SessionType, NEW h \in HeaderKind
    PROVE  SameButFlags(t, Triggered(t)) /\ SameButFlags(t, Built(t, h))
  <1>1. SameButFlags(t, Triggered(t))
    <2>1. AutoDue(t) \in BOOLEAN /\ t.rekey_due \in BOOLEAN
      BY DEF AutoDue, SessionType
    <2> HIDE DEF AutoDue
    <2> QED BY <2>1 DEF Triggered, SameButFlags, SessionType
  <1>2. SameButFlags(t, Built(t, h))
    <2>1. CASE h = "republish"
      BY <2>1 DEF Built, SameButFlags, SessionType
    <2>2. CASE h = "publish"
      BY <2>2 DEF Built, SameButFlags, SessionType
    <2>3. CASE h = "answer"
      BY <2>3 DEF Built, SameButFlags, SessionType
    <2>4. CASE h \notin {"republish", "publish", "answer"}
      BY <2>4 DEF Built, SameButFlags, SessionType
    <2> QED BY <2>1, <2>2, <2>3, <2>4
  <1> QED BY <1>1, <1>2

\* The header is one of the kinds, and a REKEY needs the peer's keys.
LEMMA HeaderFits ==
    ASSUME NEW t
    PROVE  Header(t) \in HeaderKind /\ (Header(t) = "rekey" => t.peer_have)
  BY DEF Header, HeaderKind

\* emit_frame after its header is built.
LEMMA SealedEmitted ==
    ASSUME NEW t \in SessionType, NEW h \in HeaderKind, t.send.base <= t.send.seq,
           h = "rekey" => t.peer_have
    PROVE  Emits(t, Emitted(t, h), Sealed(t, h)) /\ Emitted(t, h).carrier = t.carrier
           /\ (h = "none" => Sealed(t, h).kind = "plain")
  <1>1. /\ t.send \in RatchetState /\ t.send.seq \in Nat /\ t.send.base \in Nat
        /\ t.send.root \in Nat /\ t.send.lab \in Label /\ t.send.since_fold \in Nat
        /\ t.pair \in Nat /\ t.peer_kem \in Nat /\ t.peer_eph \in Nat
    BY DEF SessionType, RatchetState
  <1> DEFINE f == Sealed(t, h)
             u == Emitted(t, h)
             k == send_key(t.send)
  <1>2. /\ f \in DataFrame /\ f.seq = t.send.seq /\ f.key = msg_key_at(t.send, t.send.seq)
        /\ f.pair = t.pair
        /\ h = "rekey" => /\ f.kind = "REKEY" /\ f.kem = t.peer_kem /\ f.eph = t.peer_eph
                          /\ f.root = t.send.root + 1
        /\ h # "rekey" => f.kind # "REKEY"
        /\ h = "none" => f.kind = "plain"
    <2>1. msg_key_at(t.send, t.send.seq) \in Key
      BY <1>1 DEF msg_key_at, Key
    <2>2. f.kind \in {"plain", "KEMPUB", "REKEY"}
      BY DEF Sealed, HeaderKind
    <2>3. NoKeys \in Nat
      BY DEF NoKeys
    <2> HIDE DEF NoKeys
    <2> QED BY <1>1, <2>1, <2>2, <2>3 DEF Sealed, DataFrame, HeaderKind
  <1>3. /\ k \in RatchetState /\ k.seq = t.send.seq + 1 /\ k.lab = t.send.lab
        /\ k.root = t.send.root /\ k.base = t.send.base /\ k.since_fold = t.send.since_fold
    <2> DEFINE r == t.send
    <2>1. r \in RatchetState /\ k = send_key(r)
      BY <1>1
    <2> HIDE DEF r, k
    <2>2. k = [r EXCEPT !.seq = r.seq + 1] /\ r.seq + 1 \in Nat
      BY <2>1 DEF send_key, RatchetState
    <2>3. /\ k \in RatchetState /\ k.seq = r.seq + 1 /\ k.lab = r.lab
          /\ k.root = r.root /\ k.base = r.base /\ k.since_fold = r.since_fold
      BY <2>1, <2>2 DEF RatchetState
    <2> QED BY <2>3 DEF r
  <1> HIDE DEF k
  <1>4. CASE h = "rekey"
    <2> DEFINE v == ratchet_fold(k, t.send.root + 1)
    <2>1. /\ v \in RatchetState /\ v.seq = t.send.seq + 1 /\ v.lab = t.send.lab
          /\ v.root = t.send.root + 1 /\ v.base = t.send.seq + 1
      <3>1. <<>> \in Seq([seq : Nat, key : Key]) /\ t.send.root + 1 \in Nat /\ k.seq \in Nat
        BY <1>1, <1>3
      <3> QED BY <1>3, <3>1 DEF ratchet_fold, RatchetState
    <2>2. u = [t EXCEPT !.send = v, !.rekey_due = FALSE, !.peer_have = FALSE]
      BY <1>4 DEF Emitted, k
    <2> HIDE DEF v, u, f
    <2>3. /\ u \in SessionType /\ u.send = v /\ u.recv = t.recv /\ u.pair = t.pair
          /\ u.peer_kem = t.peer_kem /\ u.peer_eph = t.peer_eph /\ u.peer_have = FALSE
          /\ u.carrier = t.carrier
      BY <2>1, <2>2 DEF SessionType
    <2>4. Emits(t, u, f) /\ u.carrier = t.carrier
      BY <1>1, <1>2, <1>4, <2>1, <2>3 DEF Emits
    <2> QED BY <1>4, <2>4 DEF u, f
  <1>5. CASE h # "rekey"
    <2> DEFINE v == [k EXCEPT !.since_fold = @ + 1]
    <2>1. /\ v \in RatchetState /\ v.seq = t.send.seq + 1 /\ v.lab = t.send.lab
          /\ v.root = t.send.root /\ v.base = t.send.base
      <3>1. v = [k EXCEPT !.since_fold = k.since_fold + 1] /\ k.since_fold + 1 \in Nat
        BY <1>1, <1>3 DEF RatchetState
      <3> HIDE DEF v
      <3>2. /\ v \in RatchetState /\ v.seq = k.seq /\ v.lab = k.lab
            /\ v.root = k.root /\ v.base = k.base
        BY <1>3, <3>1 DEF RatchetState
      <3> QED BY <1>3, <3>2
    <2>2. u = [t EXCEPT !.send = v]
      BY <1>5 DEF Emitted, k
    <2> HIDE DEF v, u, f
    <2>3. /\ u \in SessionType /\ u.send = v /\ u.recv = t.recv /\ u.pair = t.pair
          /\ u.peer_kem = t.peer_kem /\ u.peer_eph = t.peer_eph /\ u.peer_have = t.peer_have
          /\ u.carrier = t.carrier
      BY <2>1, <2>2 DEF SessionType
    <2>4. Emits(t, u, f) /\ u.carrier = t.carrier
      BY <1>1, <1>2, <1>5, <2>1, <2>3 DEF Emits
    <2> QED BY <1>2, <2>4 DEF u, f
  <1> QED BY <1>4, <1>5

\* emit_frame, with the header that is due or with none.
LEMMA FrameEmitted ==
    ASSUME NEW t \in SessionType, t.send.base <= t.send.seq, NEW h,
           h = Header(Triggered(t)) \/ h = "none",
           NEW e, e = emit_frame(Triggered(t), h)
    PROVE  Emits(t, e.s, e.f) /\ e.s.carrier = t.carrier
           /\ (h = "none" => e.f.kind = "plain")
  <1> DEFINE a == Triggered(t)
             b == Built(a, h)
  <1>1. SameButFlags(t, a) /\ h \in HeaderKind /\ (h = "rekey" => a.peer_have)
    BY FlagsOnly, HeaderFits DEF HeaderKind
  <1>2. a \in SessionType
    BY <1>1 DEF SameButFlags
  <1>3. SameButFlags(a, b)
    BY <1>1, <1>2, FlagsOnly
  <1>4. SameButFlags(t, b)
    BY <1>1, <1>3 DEF SameButFlags
  <1>5. b \in SessionType /\ b.send.base <= b.send.seq /\ (h = "rekey" => b.peer_have)
    BY <1>1, <1>3, <1>4 DEF SameButFlags
  <1>6. e.s = Emitted(b, h) /\ e.f = Sealed(b, h)
    BY DEF emit_frame
  <1> HIDE DEF a, b
  <1>7. /\ Emits(b, e.s, e.f) /\ e.s.carrier = b.carrier
        /\ h = "none" => e.f.kind = "plain"
    BY <1>1, <1>5, <1>6, SealedEmitted
  <1> QED BY <1>4, <1>7 DEF Emits, SameButFlags

\* the frames of a peer that are on the way, the parked one last
Way(t, w) == w \o t.carrier

SessionOK(t) ==
    /\ t \in SessionType /\ Len(t.carrier) <= 1
    /\ t.send.base <= t.send.seq /\ Exact(t.recv) /\ Len(t.recv.skipped) <= SkippedMax

\* Session t with W on the way goes on as u with X: no frame, or one more at the end.
Steps(t, W, u, X) ==
    \/ Idles(t, u) /\ X = W
    \/ \E f \in DataFrame : Emits(t, u, f) /\ X = Append(W, f)

\* Queues with nothing and with one frame behind them.
LEMMA WayParts ==
    ASSUME NEW w \in Seq(DataFrame), NEW f \in DataFrame
    PROVE  w \o <<>> = w /\ w \o <<f>> = Append(w, f) /\ <<f>> \in Seq(DataFrame)
  OBVIOUS

\* A step of the sender keeps its session well formed.
LEMMA StepsOK ==
    ASSUME NEW t, NEW u, NEW W, NEW X, SessionOK(t), Steps(t, W, u, X), Len(u.carrier) <= 1
    PROVE  SessionOK(u)
  <1>1. t.send.seq \in Nat /\ t.send.base \in Nat /\ t.send.base <= t.send.seq
    BY DEF SessionOK, SessionType, RatchetState
  <1>2. u \in SessionType /\ u.recv = t.recv /\ u.send.base <= u.send.seq
    <2>1. CASE Idles(t, u)
      BY <1>1, <2>1 DEF Idles
    <2>2. CASE \E f \in DataFrame : Emits(t, u, f)
      BY <2>2 DEF Emits
    <2> QED BY <2>1, <2>2 DEF Steps
  <1> QED BY <1>2 DEF SessionOK

\* One pass of the drain loop.
LEMMA PassSteps ==
    ASSUME NEW t, SessionOK(t), NEW w \in Seq(DataFrame), NEW d \in Pass(t, w)
    PROVE  /\ SessionOK(d.s) /\ d.w \in Seq(DataFrame)
           /\ Steps(t, Way(t, w), d.s, Way(d.s, d.w))
  <1> DEFINE room == Len(w) < setup.flight
             c == t.carrier
  <1>1. t \in SessionType /\ c \in Seq(DataFrame) /\ Len(c) <= 1
    BY DEF SessionOK, SessionType
  <1>2. <<>> \in Seq(DataFrame) /\ Len(<<>>) = 0
    OBVIOUS
  <1> SUFFICES /\ d.w \in Seq(DataFrame) /\ Len(d.s.carrier) <= 1
               /\ Steps(t, Way(t, w), d.s, Way(d.s, d.w))
    BY StepsOK
  <1>3. Idles(t, t)
    BY <1>1 DEF Idles
  <1>4. CASE d.s = t /\ d.w = w
    BY <1>1, <1>3, <1>4 DEF Steps
  <1>5. CASE c # <<>> /\ d.s = [t EXCEPT !.carrier = <<>>] /\ d.w = w \o c
    <2> DEFINE u == d.s
    <2>1. Idles(t, u) /\ u.carrier = <<>>
      BY <1>1, <1>2, <1>5 DEF Idles, SessionType
    <2>2. d.w \in Seq(DataFrame) /\ Way(u, d.w) = Way(t, w)
      BY <1>1, <1>5, <2>1 DEF Way
    <2> QED BY <1>2, <2>1, <2>2 DEF Steps
  <1>6. ASSUME c = <<>>, NEW e, e = emit_frame(Triggered(t), Header(Triggered(t))),
               \/ d.s = e.s /\ d.w = Append(w, e.f)
               \/ d.s = [e.s EXCEPT !.carrier = <<e.f>>] /\ d.w = w
        PROVE  /\ d.w \in Seq(DataFrame) /\ Len(d.s.carrier) <= 1
               /\ Steps(t, Way(t, w), d.s, Way(d.s, d.w))
    <2>1. Emits(t, e.s, e.f) /\ e.s.carrier = <<>>
      BY <1>6, FrameEmitted DEF SessionOK
    <2>2. e.s \in SessionType /\ e.f \in DataFrame
      BY <2>1 DEF Emits
    <2>3. Way(t, w) = w
      BY <1>6, <2>2, WayParts DEF Way
    <2>4. CASE d.s = e.s /\ d.w = Append(w, e.f)
      <3>1. d.w \in Seq(DataFrame)
        BY <2>2, <2>4
      <3>2. Way(d.s, d.w) = d.w
        BY <2>1, <2>2, <2>4, <3>1, WayParts DEF Way
      <3> QED BY <1>2, <2>1, <2>2, <2>3, <2>4, <3>1, <3>2 DEF Steps
    <2>5. CASE d.s = [e.s EXCEPT !.carrier = <<e.f>>] /\ d.w = w
      <3> DEFINE u == d.s
                 v == e.s
      <3>1. <<e.f>> \in Seq(DataFrame) /\ Len(<<e.f>>) = 1
        BY <2>2
      <3>2. /\ u \in SessionType /\ u.carrier = <<e.f>> /\ u.send = v.send /\ u.recv = v.recv
            /\ u.pair = v.pair /\ u.peer_have = v.peer_have /\ u.peer_kem = v.peer_kem
            /\ u.peer_eph = v.peer_eph
        BY <2>2, <2>5, <3>1 DEF SessionType
      <3>3. Emits(t, u, e.f)
        BY <2>1, <3>2 DEF Emits
      <3>4. Way(u, d.w) = Append(w, e.f)
        BY <2>2, <2>5, <3>2, WayParts DEF Way
      <3>5. Steps(t, Way(t, w), u, Way(u, d.w))
        BY <2>2, <2>3, <3>3, <3>4 DEF Steps
      <3>6. d.w \in Seq(DataFrame) /\ Len(u.carrier) <= 1
        BY <2>5, <3>1, <3>2
      <3> QED BY <3>5, <3>6
    <2> QED BY <1>6, <2>4, <2>5
  <1>7. \/ d.s = t /\ d.w = w
        \/ c # <<>> /\ d.s = [t EXCEPT !.carrier = <<>>] /\ d.w = w \o c
        \/ /\ c = <<>>
           /\ \E e : /\ e = emit_frame(Triggered(t), Header(Triggered(t)))
                     /\ \/ d.s = e.s /\ d.w = Append(w, e.f)
                        \/ d.s = [e.s EXCEPT !.carrier = <<e.f>>] /\ d.w = w
    <2>1. CASE c # <<>>
      <3>1. d = IF room THEN [s |-> [t EXCEPT !.carrier = <<>>], w |-> w \o c]
                ELSE [s |-> t, w |-> w]
        BY <2>1, Zenon DEF Pass
      <3> QED BY <2>1, <3>1
    <2>2. CASE c = <<>> /\ rekey_pending(t)
      <3> DEFINE e == emit_frame(Triggered(t), Header(Triggered(t)))
      <3>1. d = IF room THEN [s |-> e.s, w |-> Append(w, e.f)]
                ELSE [s |-> [e.s EXCEPT !.carrier = <<e.f>>], w |-> w]
        BY <2>2, Zenon DEF Pass
      <3> HIDE DEF e
      <3>2. \/ d.s = e.s /\ d.w = Append(w, e.f)
            \/ d.s = [e.s EXCEPT !.carrier = <<e.f>>] /\ d.w = w
        BY <3>1
      <3> QED BY <2>2, <3>2 DEF e
    <2>3. CASE c = <<>> /\ ~rekey_pending(t)
      <3>1. d = [s |-> t, w |-> w]
        BY <2>3, Zenon DEF Pass
      <3> QED BY <3>1
    <2> QED BY <2>1, <2>2, <2>3
  <1> QED BY <1>4, <1>5, <1>6, <1>7

-----------------------------------------------------------------------------
(* One pair of keys on its way: published by a in W, used by b in V        *)

\* Publications under way are of the pair a holds, and so is every frame behind one; the
\* keys that b holds are that pair's, and then no fold of b is under way; a fold
\* under way was made for that pair, and there is one.
Held(a, W, b, V) ==
    /\ \A i \in 1..Len(W) : W[i].kind = "KEMPUB" => \A j \in i..Len(W) : W[j].pair = a.pair
    /\ b.peer_have => /\ ~Has(V, "REKEY") /\ b.peer_kem = a.pair /\ b.peer_eph = a.pair
                      /\ \A j \in 1..Len(W) : W[j].pair = a.pair
    /\ \A i \in 1..Len(V) : V[i].kind = "REKEY" =>
          /\ V[i].kem = a.pair /\ V[i].eph = a.pair
          /\ \A j \in 1..Len(V) : V[j].kind = "REKEY" => j = i

\* No fold in V crosses a publication in W of the pair it is made for.
Apart(W, V) == Has(V, "REKEY") => ~Has(W, "KEMPUB")

\* What Append does to a queue of frames.
LEMMA AppendParts ==
    ASSUME NEW W \in Seq(DataFrame), NEW f \in DataFrame
    PROVE  /\ Append(W, f) \in Seq(DataFrame) /\ Len(Append(W, f)) = Len(W) + 1 /\ Len(W) \in Nat
           /\ \A i \in 1..Len(W) : Append(W, f)[i] = W[i]
           /\ Append(W, f)[Len(W) + 1] = f
  OBVIOUS

\* The kinds in a queue with one frame more.
LEMMA HasAppend ==
    ASSUME NEW W \in Seq(DataFrame), NEW f \in DataFrame, NEW kind
    PROVE  Has(Append(W, f), kind) <=> Has(W, kind) \/ f.kind = kind
  <1> DEFINE X == Append(W, f)
  <1>1. /\ Len(X) = Len(W) + 1 /\ Len(W) \in Nat
        /\ \A i \in 1..Len(W) : X[i] = W[i]
        /\ X[Len(W) + 1] = f
    BY AppendParts
  <1> HIDE DEF X
  <1>2. ASSUME Has(X, kind) PROVE Has(W, kind) \/ f.kind = kind
    <2>1. PICK i \in 1..Len(X) : X[i].kind = kind
      BY <1>2 DEF Has
    <2>2. i \in 1..Len(W) \/ i = Len(W) + 1
      BY <1>1
    <2> QED BY <1>1, <2>1, <2>2 DEF Has
  <1>3. ASSUME Has(W, kind) PROVE Has(X, kind)
    <2>1. PICK i \in 1..Len(W) : W[i].kind = kind
      BY <1>3 DEF Has
    <2>2. i \in 1..Len(X)
      BY <1>1
    <2> QED BY <1>1, <2>1, <2>2 DEF Has
  <1>4. ASSUME f.kind = kind PROVE Has(X, kind)
    <2>1. Len(W) + 1 \in 1..Len(X)
      BY <1>1
    <2> QED BY <1>1, <1>4, <2>1 DEF Has
  <1> QED BY <1>2, <1>3, <1>4 DEF X

\* The publisher seals a frame.
LEMMA HeldPublisher ==
    ASSUME NEW a, NEW u, NEW b, NEW W \in Seq(DataFrame), NEW V \in Seq(DataFrame),
           NEW f \in DataFrame, Held(a, W, b, V), Emits(a, u, f)
    PROVE  Held(u, Append(W, f), b, V)
  <1> DEFINE X == Append(W, f)
  <1>1. /\ Len(X) = Len(W) + 1 /\ Len(W) \in Nat
        /\ \A i \in 1..Len(W) : X[i] = W[i]
        /\ X[Len(W) + 1] = f
    BY AppendParts
  <1>2. u.pair = a.pair /\ f.pair = a.pair
    BY DEF Emits
  <1> HIDE DEF X
  <1>3. \A j \in 1..Len(X) : j \in 1..Len(W) \/ j = Len(W) + 1
    BY <1>1
  <1>4. ASSUME NEW i \in 1..Len(X), X[i].kind = "KEMPUB", NEW j \in i..Len(X)
        PROVE  X[j].pair = u.pair
    <2>1. CASE j = Len(W) + 1
      BY <1>1, <1>2, <2>1
    <2>2. CASE j # Len(W) + 1
      <3>1. i \in 1..Len(W) /\ j \in i..Len(W) /\ j \in 1..Len(W)
        BY <1>1, <2>2
      <3> QED BY <1>1, <1>2, <1>4, <3>1 DEF Held
    <2> QED BY <2>1, <2>2
  <1>5. ASSUME b.peer_have
        PROVE  /\ ~Has(V, "REKEY") /\ b.peer_kem = u.pair /\ b.peer_eph = u.pair
               /\ \A j \in 1..Len(X) : X[j].pair = u.pair
    BY <1>1, <1>2, <1>3, <1>5 DEF Held
  <1>6. Held(u, X, b, V)
    BY <1>2, <1>4, <1>5 DEF Held
  <1> QED BY <1>6 DEF X

\* The one who folds seals a frame.
LEMMA HeldFolder ==
    ASSUME NEW a, NEW u, NEW b, NEW W \in Seq(DataFrame), NEW V \in Seq(DataFrame),
           NEW f \in DataFrame, Held(a, W, b, V), Emits(b, u, f)
    PROVE  Held(a, W, u, Append(V, f))
  <1> DEFINE X == Append(V, f)
  <1>1. /\ Len(X) = Len(V) + 1 /\ Len(V) \in Nat
        /\ \A i \in 1..Len(V) : X[i] = V[i]
        /\ X[Len(V) + 1] = f
    BY AppendParts
  <1>2. Has(X, "REKEY") <=> Has(V, "REKEY") \/ f.kind = "REKEY"
    BY HasAppend
  <1> HIDE DEF X
  <1>3. \A j \in 1..Len(X) : j \in 1..Len(V) \/ j = Len(V) + 1
    BY <1>1
  <1>4. CASE f.kind # "REKEY"
    <2>1. /\ u.peer_have = b.peer_have /\ u.peer_kem = b.peer_kem /\ u.peer_eph = b.peer_eph
      BY <1>4 DEF Emits
    <2>2. ASSUME NEW i \in 1..Len(X), X[i].kind = "REKEY"
          PROVE  /\ X[i].kem = a.pair /\ X[i].eph = a.pair
                 /\ \A j \in 1..Len(X) : X[j].kind = "REKEY" => j = i
      <3>1. i \in 1..Len(V)
        BY <1>1, <1>3, <1>4, <2>2
      <3>2. \A j \in 1..Len(X) : X[j].kind = "REKEY" => j \in 1..Len(V)
        BY <1>1, <1>3, <1>4
      <3> QED BY <1>1, <2>2, <3>1, <3>2 DEF Held
    <2> QED BY <1>2, <1>4, <2>1, <2>2 DEF Held, X
  <1>5. CASE f.kind = "REKEY"
    <2>1. b.peer_have /\ ~u.peer_have /\ f.kem = b.peer_kem /\ f.eph = b.peer_eph
      BY <1>5 DEF Emits
    <2>2. ~Has(V, "REKEY") /\ f.kem = a.pair /\ f.eph = a.pair
      BY <2>1 DEF Held
    <2>3. \A j \in 1..Len(X) : X[j].kind = "REKEY" => j = Len(V) + 1
      BY <1>1, <1>3, <2>2 DEF Has
    <2> QED BY <1>1, <2>1, <2>2, <2>3 DEF Held, X
  <1> QED BY <1>4, <1>5

\* Neither sees a step that seals nothing.
LEMMA HeldIdle ==
    ASSUME NEW a, NEW u, NEW b, NEW W, NEW V, Idles(a, u)
    PROVE  /\ Held(a, W, b, V) => Held(u, W, b, V)
           /\ Held(b, V, a, W) => Held(b, V, u, W)
  BY DEF Idles, Held

\* A step of the sender: it publishes in W, and it folds in W.
LEMMA HeldSteps ==
    ASSUME NEW a, NEW u, NEW b, NEW W \in Seq(DataFrame), NEW V \in Seq(DataFrame), NEW X,
           Held(a, W, b, V), Held(b, V, a, W), Steps(a, W, u, X)
    PROVE  Held(u, X, b, V) /\ Held(b, V, u, X)
  <1>1. CASE Idles(a, u) /\ X = W
    BY <1>1, HeldIdle
  <1>2. ASSUME NEW f \in DataFrame, Emits(a, u, f), X = Append(W, f)
        PROVE  Held(u, X, b, V) /\ Held(b, V, u, X)
    BY <1>2, HeldPublisher, HeldFolder
  <1> QED BY <1>1, <1>2 DEF Steps

\* Session t opens f, which feeds it, and goes on as u.
Opened(t, f, u) ==
    /\ u \in SessionType /\ u.send = t.send /\ u.carrier = t.carrier
    /\ \/ /\ f.kind = "plain" /\ u.pair = t.pair /\ u.peer_have = t.peer_have
          /\ u.peer_kem = t.peer_kem /\ u.peer_eph = t.peer_eph
          /\ Committed(t.recv, f, u.recv)
       \/ /\ f.kind = "KEMPUB" /\ u.pair = t.pair /\ u.peer_have = TRUE
          /\ u.peer_kem = f.pair /\ u.peer_eph = f.pair
          /\ Committed(t.recv, f, u.recv)
       \/ /\ f.kind = "REKEY" /\ u.pair = t.pair + 1 /\ u.peer_have = t.peer_have
          /\ u.peer_kem = t.peer_kem /\ u.peer_eph = f.pair
          /\ \E c : /\ Committed(t.recv, f, c)
                    /\ u.recv = ratchet_fold(c, IF f.kem = t.pair /\ f.eph = t.pair
                                                THEN f.root ELSE NoKeys)

\* Session t receives f as u: f is opened, or it is passed over.
Takes(t, f, u) == u = t \/ Opened(t, f, u)

\* The fold of a ratchet.
LEMMA FoldRing ==
    ASSUME NEW c \in RatchetState, NEW n \in Nat
    PROVE  /\ ratchet_fold(c, n) \in RatchetState /\ Exact(ratchet_fold(c, n))
           /\ ratchet_fold(c, n).root = n /\ ratchet_fold(c, n).lab = c.lab
           /\ ratchet_fold(c, n).base = c.seq /\ ratchet_fold(c, n).seq = c.seq
           /\ ratchet_fold(c, n).skipped = <<>> /\ Len(<<>>) <= SkippedMax
  <1> DEFINE r == ratchet_fold(c, n)
  <1>1. <<>> \in Seq([seq : Nat, key : Key]) /\ Len(<<>>) = 0 /\ c.seq \in Nat
    BY DEF RatchetState
  <1>2. /\ r \in RatchetState /\ r.root = n /\ r.lab = c.lab
        /\ r.base = c.seq /\ r.seq = c.seq /\ r.skipped = <<>>
    BY <1>1 DEF ratchet_fold, RatchetState
  <1> HIDE DEF r
  <1>3. Exact(r)
    BY <1>1, <1>2 DEF Exact, Spread
  <1>4. Len(<<>>) <= SkippedMax
    BY <1>1, RatchetAssumption
  <1> QED BY <1>2, <1>3, <1>4 DEF r

\* tt_session_feed of a frame that opens.
LEMMA FedOpened ==
    ASSUME NEW t, SessionOK(t), NEW f \in DataFrame, Opens(t, f)
    PROVE  Opened(t, f, Fed(t, f))
  <1> DEFINE c == Commit(t.recv, f)
             v == [t EXCEPT !.recv = c]
             u == Fed(t, f)
  <1>1. /\ t \in SessionType /\ t.recv \in RatchetState /\ t.pair \in Nat
        /\ f.pair \in Nat /\ f.root \in Nat /\ f.kind \in {"plain", "KEMPUB", "REKEY"}
    BY DEF SessionOK, SessionType, DataFrame
  <1>2. Committed(t.recv, f, c)
    BY <1>1, CommitRing DEF SessionOK, Opens
  <1>3. c \in RatchetState /\ On(t.recv, f)
    BY <1>2 DEF Committed
  <1> HIDE DEF c
  <1>4. /\ v \in SessionType /\ v.recv = c /\ v.send = t.send /\ v.carrier = t.carrier
        /\ v.pair = t.pair /\ v.peer_have = t.peer_have /\ v.peer_kem = t.peer_kem
        /\ v.peer_eph = t.peer_eph
    BY <1>1, <1>3 DEF SessionType
  <1>5. u = CASE f.kind = "REKEY" -> ApplyRekey(v, f)
              [] f.kind = "KEMPUB" -> ApplyKempub(v, f)
              [] OTHER -> v
    BY DEF Fed, c
  <1> HIDE DEF v, u
  <1>6. CASE f.kind = "REKEY"
    <2> DEFINE n == IF f.kem = v.pair /\ f.eph = v.pair THEN f.root ELSE NoKeys
               r == ratchet_fold(c, n)
    <2>1. n \in Nat
      BY <1>1 DEF NoKeys
    <2>2. u = [v EXCEPT !.recv = r, !.peer_eph = f.pair, !.pair = v.pair + 1,
                        !.published = FALSE, !.post_fold_publish = TRUE]
      BY <1>4, <1>5, <1>6 DEF ApplyRekey
    <2>3. r \in RatchetState
      BY <1>3, <2>1, FoldRing
    <2>4. v.pair + 1 \in Nat
      BY <1>1, <1>4
    <2> HIDE DEF n, r
    <2>5. /\ u \in SessionType /\ u.recv = r /\ u.send = v.send /\ u.carrier = v.carrier
          /\ u.pair = v.pair + 1 /\ u.peer_have = v.peer_have /\ u.peer_kem = v.peer_kem
          /\ u.peer_eph = f.pair
      BY <1>1, <1>4, <2>2, <2>3, <2>4 DEF SessionType
    <2>6. r = ratchet_fold(c, IF f.kem = t.pair /\ f.eph = t.pair THEN f.root ELSE NoKeys)
      BY <1>4 DEF n, r
    <2> QED BY <1>2, <1>3, <1>4, <1>6, <2>5, <2>6 DEF Opened, u
  <1>7. CASE f.kind = "KEMPUB"
    <2> DEFINE due == v.rekey_due \/ v.awaiting_peer
               back == v.publish_back \/ (~v.awaiting_peer /\ ~v.published)
    <2>1. u = [v EXCEPT !.peer_kem = f.pair, !.peer_eph = f.pair, !.peer_have = TRUE,
                        !.awaiting_peer = FALSE, !.rekey_due = due, !.publish_back = back]
      BY <1>5, <1>7 DEF ApplyKempub
    <2>2. due \in BOOLEAN /\ back \in BOOLEAN
      BY <1>4 DEF SessionType
    <2> HIDE DEF due, back
    <2>3. /\ u.recv = v.recv /\ u.send = v.send /\ u.carrier = v.carrier
          /\ u.pair = v.pair /\ u.peer_have = TRUE /\ u.peer_kem = f.pair
          /\ u.peer_eph = f.pair
      BY <1>4, <2>1 DEF SessionType
    <2>4. u \in SessionType
      BY <1>1, <1>4, <2>1, <2>2, ZenonT(60) DEF SessionType
    <2> QED BY <1>2, <1>3, <1>4, <1>7, <2>3, <2>4 DEF Opened, u
  <1>8. CASE f.kind = "plain"
    <2>1. u = v
      BY <1>5, <1>8
    <2> QED BY <1>2, <1>3, <1>4, <1>8, <2>1 DEF Opened, u
  <1> QED BY <1>1, <1>6, <1>7, <1>8

\* What is received keeps the session well formed.
LEMMA TakesOK ==
    ASSUME NEW t, SessionOK(t), NEW f \in DataFrame, NEW u, Takes(t, f, u)
    PROVE  SessionOK(u)
  <1>1. CASE u = t
    BY <1>1
  <1>2. CASE u \in SessionType /\ Committed(t.recv, f, u.recv) /\ u.send = t.send /\ u.carrier = t.carrier
    BY <1>2 DEF SessionOK, Committed
  <1>3. ASSUME u \in SessionType, u.send = t.send, u.carrier = t.carrier,
               NEW c, Committed(t.recv, f, c),
               u.recv = ratchet_fold(c, IF f.kem = t.pair /\ f.eph = t.pair THEN f.root ELSE NoKeys)
        PROVE  SessionOK(u)
    <2>1. c \in RatchetState
      BY <1>3 DEF Committed
    <2>2. (IF f.kem = t.pair /\ f.eph = t.pair THEN f.root ELSE NoKeys) \in Nat
      BY DEF DataFrame, NoKeys
    <2>3. Exact(u.recv) /\ Len(u.recv.skipped) <= SkippedMax
      BY <1>3, <2>1, <2>2, FoldRing
    <2> QED BY <1>3, <2>3 DEF SessionOK
  <1> QED BY <1>1, <1>2, <1>3 DEF Takes, Opened

\* X is W without its first frame
Shifts(W, X) ==
    /\ W \in Seq(DataFrame) /\ X \in Seq(DataFrame)
    /\ Len(W) \in Nat \ {0} /\ Len(X) = Len(W) - 1 /\ 1 \in 1..Len(W)
    /\ \A i \in 1..Len(X) : X[i] = W[i + 1] /\ i + 1 \in 1..Len(W)

\* The first frame of what is on the way is taken off the wire.
LEMMA WayShifts ==
    ASSUME NEW w \in Seq(DataFrame), NEW c \in Seq(DataFrame), w # <<>>
    PROVE  /\ Shifts(w \o c, Tail(w) \o c) /\ Tail(w) \in Seq(DataFrame)
           /\ Head(w) = (w \o c)[1] /\ Head(w) \in DataFrame
  <1> DEFINE W == w \o c
             X == Tail(w) \o c
  <1>1. /\ Tail(w) \in Seq(DataFrame) /\ Len(w) \in Nat \ {0} /\ Len(Tail(w)) = Len(w) - 1
        /\ Head(w) = w[1] /\ w[1] \in DataFrame
        /\ \A i \in 1..Len(Tail(w)) : Tail(w)[i] = w[i + 1]
    OBVIOUS
  <1>2. /\ W \in Seq(DataFrame) /\ Len(W) = Len(w) + Len(c) /\ Len(c) \in Nat
        /\ \A i \in 1..Len(w) : W[i] = w[i]
        /\ \A i \in (Len(w) + 1)..(Len(w) + Len(c)) : W[i] = c[i - Len(w)]
    BY ConcatParts
  <1>3. /\ X \in Seq(DataFrame) /\ Len(X) = Len(Tail(w)) + Len(c)
        /\ \A i \in 1..Len(Tail(w)) : X[i] = Tail(w)[i]
        /\ \A i \in (Len(Tail(w)) + 1)..(Len(Tail(w)) + Len(c)) : X[i] = c[i - Len(Tail(w))]
    BY <1>1, ConcatParts
  <1> HIDE DEF W, X
  <1>4. ASSUME NEW i \in 1..Len(X) PROVE X[i] = W[i + 1] /\ i + 1 \in 1..Len(W)
    <2>1. CASE i \in 1..Len(Tail(w))
      <3>1. i + 1 \in 1..Len(w) /\ i + 1 \in 1..Len(W)
        BY <1>1, <1>2, <2>1
      <3> QED BY <1>1, <1>2, <1>3, <2>1, <3>1
    <2>2. CASE i \in (Len(Tail(w)) + 1)..(Len(Tail(w)) + Len(c))
      <3>1. /\ i + 1 \in (Len(w) + 1)..(Len(w) + Len(c)) /\ i + 1 \in 1..Len(W)
            /\ (i + 1) - Len(w) = i - Len(Tail(w))
        BY <1>1, <1>2, <2>2
      <3>2. X[i] = c[i - Len(Tail(w))] /\ W[i + 1] = c[(i + 1) - Len(w)]
        BY <1>2, <1>3, <2>2, <3>1
      <3> QED BY <3>1, <3>2
    <2> QED BY <1>1, <1>2, <1>3, <2>1, <2>2
  <1>5. Shifts(W, X)
    BY <1>1, <1>2, <1>3, <1>4 DEF Shifts
  <1> QED BY <1>1, <1>2, <1>5 DEF W, X

\* A frame that is taken off the wire: of the pair it brings, b holds the keys; a fold
\* retires the pair it was made for, and no publication of that is under way.
LEMMA HeldTakes ==
    ASSUME NEW a, NEW b, NEW u, NEW W, NEW X, NEW V \in Seq(DataFrame),
           Held(a, W, b, V), Held(b, V, a, W), Apart(W, V), Apart(V, W),
           Shifts(W, X), Takes(b, W[1], u)
    PROVE  Held(a, X, u, V) /\ Held(u, V, a, X)
  <1> DEFINE f == W[1]
  <1>1. /\ Len(W) \in Nat \ {0} /\ Len(X) = Len(W) - 1 /\ 1 \in 1..Len(W)
        /\ \A i \in 1..Len(X) : X[i] = W[i + 1] /\ i + 1 \in 1..Len(W)
    BY DEF Shifts
  <1>2. ASSUME NEW i \in 1..Len(X), X[i].kind = "KEMPUB", NEW j \in i..Len(X)
        PROVE  X[j].pair = a.pair
    <2>1. j \in 1..Len(X) /\ j + 1 \in (i + 1)..Len(W)
      BY <1>1
    <2>2. W[i + 1].kind = "KEMPUB" /\ i + 1 \in 1..Len(W)
      BY <1>1, <1>2
    <2>3. W[j + 1].pair = a.pair
      BY <2>1, <2>2 DEF Held
    <2> QED BY <1>1, <2>1, <2>3
  <1>3. Has(X, "REKEY") => Has(W, "REKEY")
    BY <1>1 DEF Has
  <1>4. ASSUME \A j \in 1..Len(W) : W[j].pair = a.pair
        PROVE  \A j \in 1..Len(X) : X[j].pair = a.pair
    BY <1>1, <1>4
  <1>5. CASE u.pair = b.pair /\ u.peer_have = b.peer_have /\ u.peer_kem = b.peer_kem /\ u.peer_eph = b.peer_eph
    <2>1. Held(a, X, u, V)
      <3>1. b.peer_have => \A j \in 1..Len(X) : X[j].pair = a.pair
        BY <1>4 DEF Held
      <3> QED BY <1>2, <1>5, <3>1 DEF Held
    <2>2. ASSUME NEW i \in 1..Len(X), X[i].kind = "REKEY"
          PROVE  /\ X[i].kem = b.pair /\ X[i].eph = b.pair
                 /\ \A j \in 1..Len(X) : X[j].kind = "REKEY" => j = i
      <3>1. i + 1 \in 1..Len(W) /\ W[i + 1] = X[i]
        BY <1>1
      <3>2. ASSUME NEW j \in 1..Len(X), X[j].kind = "REKEY" PROVE j = i
        <4>1. j + 1 \in 1..Len(W) /\ W[j + 1] = X[j]
          BY <1>1
        <4>2. j + 1 = i + 1
          BY <2>2, <3>1, <3>2, <4>1 DEF Held
        <4> QED BY <1>1, <4>2
      <3> QED BY <2>2, <3>1, <3>2 DEF Held
    <2>3. Held(u, V, a, X)
      BY <1>3, <1>5, <2>2 DEF Held
    <2> QED BY <2>1, <2>3
  <1>6. CASE /\ f.kind = "KEMPUB" /\ u.pair = b.pair /\ u.peer_have = TRUE
             /\ u.peer_kem = f.pair /\ u.peer_eph = f.pair
    <2>1. \A j \in 1..Len(W) : W[j].pair = a.pair
      BY <1>1, <1>6 DEF Held
    <2>2. ~Has(V, "REKEY")
      BY <1>1, <1>6 DEF Apart, Has
    <2>3. Held(a, X, u, V)
      BY <1>1, <1>2, <1>4, <1>6, <2>1, <2>2 DEF Held
    <2>4. ASSUME NEW i \in 1..Len(X), X[i].kind = "REKEY"
          PROVE  /\ X[i].kem = b.pair /\ X[i].eph = b.pair
                 /\ \A j \in 1..Len(X) : X[j].kind = "REKEY" => j = i
      <3>1. i + 1 \in 1..Len(W) /\ W[i + 1] = X[i]
        BY <1>1
      <3>2. ASSUME NEW j \in 1..Len(X), X[j].kind = "REKEY" PROVE j = i
        <4>1. j + 1 \in 1..Len(W) /\ W[j + 1] = X[j]
          BY <1>1
        <4>2. j + 1 = i + 1
          BY <2>4, <3>1, <3>2, <4>1 DEF Held
        <4> QED BY <1>1, <4>2
      <3> QED BY <2>4, <3>1, <3>2 DEF Held
    <2>5. Held(u, V, a, X)
      BY <1>3, <1>6, <2>4 DEF Held
    <2> QED BY <2>3, <2>5
  <1>7. CASE /\ f.kind = "REKEY" /\ u.pair = b.pair + 1 /\ u.peer_have = b.peer_have
             /\ u.peer_kem = b.peer_kem /\ u.peer_eph = f.pair
    <2>1. Has(W, "REKEY") /\ ~Has(V, "KEMPUB") /\ ~a.peer_have
      BY <1>1, <1>7 DEF Apart, Has, Held
    <2>2. ASSUME NEW i \in 1..Len(X), X[i].kind = "REKEY" PROVE FALSE
      <3>1. i + 1 \in 1..Len(W) /\ W[i + 1].kind = "REKEY" /\ i + 1 # 1
        BY <1>1, <2>2
      <3> QED BY <1>1, <1>7, <3>1 DEF Held
    <2>3. Held(u, V, a, X)
      BY <2>1, <2>2 DEF Held, Has
    <2>4. Held(a, X, u, V)
      <3>1. b.peer_have => f.pair = a.pair /\ \A j \in 1..Len(X) : X[j].pair = a.pair
        BY <1>1, <1>4 DEF Held
      <3> QED BY <1>2, <1>7, <3>1 DEF Held
    <2> QED BY <2>3, <2>4
  <1> QED BY <1>5, <1>6, <1>7 DEF Takes, Opened

-----------------------------------------------------------------------------
(* One direction: the sender's ratchet T, the receiver's ratchet R, the    *)
(* lossless frames W and the datagrams D on the way                        *)

\* Frames of W have growing seqs, below the sender's next; no datagram has one of theirs.
InOrder(T, W, D) ==
    /\ \A i \in 1..Len(W) : W[i].seq < T.seq /\ \A j \in 1..(i - 1) : W[j].seq < W[i].seq
    /\ \A d \in D : d.kind = "plain" /\ d.seq < T.seq /\ \A i \in 1..Len(W) : W[i].seq # d.seq

\* The receiver has the key of every lossless frame ahead of it, or in its store.
Ahead(R, W, lossy) ==
    \A i \in 1..Len(W) : W[i].seq >= R.seq \/ (lossy /\ Stored(R.skipped, W[i].seq))

\* f is sealed on the chain that the receiver has when it gets there: a fold that is
\* under way re-seeds at T.base.
Placed(T, R, f) ==
    /\ f.seq >= R.base
    /\ f.key = msg_key_at(IF f.seq < T.base THEN R ELSE T, f.seq)

\* The receiver is on the sender's chain, or one fold behind it, and that fold is in W.
OneFoldAtMost(T, R, W) ==
    /\ ~Has(W, "REKEY") => R.root = T.root /\ R.base = T.base /\ R.seq <= T.seq
    /\ \A k \in 1..Len(W) : W[k].kind = "REKEY" =>
          /\ W[k].root = R.root + 1 /\ T.root = R.root + 1
          /\ T.base = W[k].seq + 1 /\ R.seq <= W[k].seq

OneChain(T, R, W, D) ==
    /\ OneFoldAtMost(T, R, W)
    /\ \A i \in 1..Len(W) : Placed(T, R, W[i])
    /\ \A d \in D : d.seq < R.base \/ Placed(T, R, d)

\* A chat whose receiver is so far behind that it passes over every frame: no frame is
\* opened any more, and no frame is taken for a desync.
Stalled(T, R, W) ==
    /\ T.seq >= R.seq + MaxSkip
    /\ \A i \in 1..Len(W) : W[i].seq >= R.seq + MaxSkip

Align(T, R, W, D, lossy) ==
    /\ T.lab = R.lab /\ InOrder(T, W, D) /\ Ahead(R, W, lossy)
    /\ OneChain(T, R, W, D) \/ (~lossy /\ Stalled(T, R, W))

\* the numbers of the two ratchets and of the frames between them
Numbers(T, R, W, D) ==
    /\ T.seq \in Nat /\ T.base \in Nat /\ T.root \in Nat /\ T.base <= T.seq
    /\ R.seq \in Nat /\ R.base \in Nat /\ R.root \in Nat /\ R.base <= R.seq
    /\ W \in Seq(DataFrame) /\ Len(W) \in Nat /\ MaxSkip \in Nat \ {0} /\ SkippedMax \in Nat
    /\ \A i \in 1..Len(W) : W[i] \in DataFrame /\ W[i].seq \in Nat
    /\ \A d \in D : d \in DataFrame /\ d.seq \in Nat

\* They are what the types say.
LEMMA NumbersOK ==
    ASSUME NEW t, NEW b, SessionOK(t), SessionOK(b), NEW W \in Seq(DataFrame),
           NEW D \in SUBSET DataFrame
    PROVE  Numbers(t.send, b.recv, W, D) /\ t.send \in RatchetState /\ b.recv \in RatchetState
  <1>1. \A i \in 1..Len(W) : W[i] \in DataFrame
    OBVIOUS
  <1>2. \A f \in DataFrame : f.seq \in Nat
    BY DEF DataFrame
  <1>3. /\ t.send \in RatchetState /\ b.recv \in RatchetState
        /\ t.send.base <= t.send.seq /\ b.recv.base <= b.recv.seq
    BY DEF SessionOK, SessionType, Exact
  <1>4. \A r \in RatchetState : r.seq \in Nat /\ r.base \in Nat /\ r.root \in Nat
    BY DEF RatchetState
  <1> QED BY <1>1, <1>2, <1>3, <1>4, RatchetAssumption DEF Numbers

\* Nothing on the way is from before the receiver's chain.
LEMMA ChainBounds ==
    ASSUME NEW T, NEW R, NEW W, NEW D, Numbers(T, R, W, D), InOrder(T, W, D), OneFoldAtMost(T, R, W)
    PROVE  R.base <= T.base /\ R.seq <= T.seq
  <1>1. CASE ~Has(W, "REKEY")
    BY <1>1 DEF OneFoldAtMost, Numbers
  <1>2. CASE Has(W, "REKEY")
    <2>1. PICK k \in 1..Len(W) : W[k].kind = "REKEY"
      BY <1>2 DEF Has
    <2>2. T.base = W[k].seq + 1 /\ R.seq <= W[k].seq /\ W[k].seq < T.seq /\ W[k].seq \in Nat
      BY <2>1 DEF OneFoldAtMost, InOrder, Numbers
    <2> QED BY <2>2 DEF Numbers
  <1> QED BY <1>1, <1>2

\* A step that seals nothing, or loses a chain step.
LEMMA AlignIdle ==
    ASSUME NEW T, NEW R, NEW W, NEW D, NEW lossy, Numbers(T, R, W, D), Align(T, R, W, D, lossy),
           NEW U, U.lab = T.lab, U.root = T.root, U.base = T.base, U.seq \in {T.seq, T.seq + 1}
    PROVE  Align(U, R, W, D, lossy)
  <1>1. U.seq \in Nat /\ U.seq >= T.seq
    BY DEF Numbers
  <1>2. InOrder(U, W, D)
    <2>1. \A i \in 1..Len(W) : W[i].seq < U.seq
      BY <1>1 DEF Align, InOrder, Numbers
    <2>2. \A d \in D : d.seq < U.seq
      BY <1>1 DEF Align, InOrder, Numbers
    <2> QED BY <2>1, <2>2 DEF Align, InOrder
  <1>3. \A f : Placed(U, R, f) = Placed(T, R, f)
    BY DEF Placed, msg_key_at
  <1>4. ASSUME OneChain(T, R, W, D) PROVE OneChain(U, R, W, D)
    <2>1. R.seq <= T.seq
      BY <1>4, ChainBounds DEF Align, OneChain
    <2>2. R.seq <= U.seq
      BY <1>1, <2>1 DEF Numbers
    <2> QED BY <1>3, <1>4, <2>2 DEF OneChain, OneFoldAtMost
  <1>5. ASSUME Stalled(T, R, W) PROVE Stalled(U, R, W)
    BY <1>1, <1>5 DEF Stalled, Numbers
  <1> QED BY <1>2, <1>4, <1>5 DEF Align

\* A frame that is sealed and is no REKEY is on the sender's chain.
LEMMA PlainPlaced ==
    ASSUME NEW T, NEW R, NEW W, NEW D, Numbers(T, R, W, D), InOrder(T, W, D), OneFoldAtMost(T, R, W),
           NEW U, U.lab = T.lab, U.root = T.root, U.base = T.base,
           NEW g, g.seq = T.seq, g.key = msg_key_at(T, T.seq)
    PROVE  Placed(U, R, g) /\ \A f : Placed(U, R, f) = Placed(T, R, f)
  <1>1. R.base <= T.base
    BY ChainBounds
  <1>2. ~(g.seq < U.base) /\ g.seq >= R.base
    BY <1>1 DEF Numbers
  <1>3. \A f : Placed(U, R, f) = Placed(T, R, f)
    BY DEF Placed, msg_key_at
  <1> QED BY <1>2, <1>3 DEF Placed, msg_key_at

\* A datagram is sealed.
LEMMA AlignDatagram ==
    ASSUME NEW T, NEW R, NEW W, NEW D, NEW lossy, Numbers(T, R, W, D), Align(T, R, W, D, lossy), lossy,
           NEW U, U.lab = T.lab, U.root = T.root, U.base = T.base, U.seq = T.seq + 1,
           NEW g \in DataFrame, g.seq = T.seq, g.key = msg_key_at(T, T.seq), g.kind = "plain"
    PROVE  Align(U, R, W, D \cup {g}, lossy)
  <1>1. OneChain(T, R, W, D) /\ InOrder(T, W, D) /\ OneFoldAtMost(T, R, W)
    BY DEF Align, OneChain
  <1>2. Placed(U, R, g) /\ \A f : Placed(U, R, f) = Placed(T, R, f)
    BY <1>1, PlainPlaced
  <1>3. U.seq \in Nat /\ U.seq > T.seq /\ R.seq <= U.seq
    <2>1. R.seq <= T.seq
      BY <1>1, ChainBounds
    <2> QED BY <2>1 DEF Numbers
  <1>4. InOrder(U, W, D \cup {g})
    <2>1. \A i \in 1..Len(W) : W[i].seq < U.seq /\ W[i].seq # g.seq
      BY <1>1, <1>3 DEF InOrder, Numbers
    <2>2. \A d \in D : d.seq < U.seq
      BY <1>1, <1>3 DEF InOrder, Numbers
    <2>3. g.seq < U.seq
      BY DEF Numbers
    <2> QED BY <1>1, <2>1, <2>2, <2>3 DEF InOrder
  <1>5. OneChain(U, R, W, D \cup {g})
    BY <1>1, <1>2, <1>3 DEF OneChain, OneFoldAtMost
  <1> QED BY <1>4, <1>5 DEF Align

\* A lossless frame is sealed: it is ahead of the receiver, and a REKEY finds the
\* receiver on the sender's chain.
LEMMA AlignEmits ==
    ASSUME NEW a, NEW u, NEW R, NEW W, NEW D, NEW lossy, NEW g \in DataFrame,
           Numbers(a.send, R, W, D), Align(a.send, R, W, D, lossy), Emits(a, u, g),
           a.peer_have => ~Has(W, "REKEY")
    PROVE  Align(u.send, R, Append(W, g), D, lossy)
  <1> DEFINE T == a.send
             U == u.send
             X == Append(W, g)
             n == Len(W)
  <1>1. /\ n \in Nat /\ Len(X) = n + 1 /\ X[n + 1] = g
        /\ \A i \in 1..n : X[i] = W[i]
    BY AppendParts DEF Numbers
  <1>2. Has(X, "REKEY") <=> Has(W, "REKEY") \/ g.kind = "REKEY"
    BY HasAppend DEF Numbers
  <1>3. /\ g.seq = T.seq /\ g.key = msg_key_at(T, T.seq) /\ U.seq = T.seq + 1 /\ U.lab = T.lab
        /\ \/ /\ g.kind # "REKEY" /\ U.root = T.root /\ U.base = T.base
           \/ /\ g.kind = "REKEY" /\ a.peer_have /\ g.root = T.root + 1
              /\ U.root = T.root + 1 /\ U.base = T.seq + 1
    BY DEF Emits
  <1>4. Numbers(T, R, W, D) /\ T.lab = R.lab /\ InOrder(T, W, D) /\ Ahead(R, W, lossy)
        /\ (OneChain(T, R, W, D) \/ (~lossy /\ Stalled(T, R, W)))
    BY DEF Align
  <1> HIDE DEF T, U, X, n
  <1>5. /\ T.seq \in Nat /\ U.seq \in Nat /\ U.seq > T.seq /\ R.seq \in Nat /\ R.base \in Nat
        /\ T.base \in Nat /\ T.base <= T.seq /\ MaxSkip \in Nat /\ R.base <= R.seq
        /\ \A i \in 1..n : W[i].seq \in Nat /\ W[i].seq < T.seq
        /\ \A d \in D : d.seq \in Nat /\ d.seq < T.seq
    BY <1>3, <1>4 DEF Numbers, InOrder, n
  <1>6. \A i \in 1..Len(X) : i \in 1..n \/ i = n + 1
    BY <1>1
  <1>7. InOrder(U, X, D)
    <2>1. \A i \in 1..Len(X) : X[i].seq < U.seq
      <3>1. \A i \in 1..n : W[i].seq < U.seq
        BY <1>5
      <3>2. g.seq < U.seq
        BY <1>3, <1>5
      <3> QED BY <1>1, <1>6, <3>1, <3>2
    <2>2. ASSUME NEW i \in 1..Len(X), NEW j \in 1..(i - 1) PROVE X[j].seq < X[i].seq
      <3>1. j \in 1..n
        BY <1>1
      <3>2. CASE i = n + 1
        BY <1>1, <1>3, <1>5, <3>1, <3>2
      <3>3. CASE i \in 1..n
        BY <1>1, <1>4, <3>1, <3>3 DEF InOrder, n
      <3> QED BY <1>6, <3>2, <3>3
    <2>3. ASSUME NEW d \in D
          PROVE  d.kind = "plain" /\ d.seq < U.seq /\ \A i \in 1..Len(X) : X[i].seq # d.seq
      <3>1. d.kind = "plain" /\ \A i \in 1..n : W[i].seq # d.seq
        BY <1>4 DEF InOrder, n
      <3>2. d.seq < U.seq /\ d.seq # g.seq
        BY <1>3, <1>5
      <3> QED BY <1>1, <1>6, <3>1, <3>2
    <2> QED BY <2>1, <2>2, <2>3 DEF InOrder
  <1>8. R.seq <= T.seq
    <2>1. CASE OneChain(T, R, W, D)
      BY <1>4, <2>1, ChainBounds DEF OneChain
    <2>2. CASE Stalled(T, R, W)
      BY <1>5, <2>2 DEF Stalled
    <2> QED BY <1>4, <2>1, <2>2
  <1>9. Ahead(R, X, lossy)
    <2>1. g.seq >= R.seq
      BY <1>3, <1>5, <1>8
    <2> QED BY <1>1, <1>4, <1>6, <2>1 DEF Ahead, n
  <1>10. ASSUME Stalled(T, R, W) PROVE Stalled(U, R, X)
    <2>1. T.seq >= R.seq + MaxSkip /\ \A i \in 1..n : W[i].seq >= R.seq + MaxSkip
      BY <1>10 DEF Stalled, n
    <2>2. U.seq >= R.seq + MaxSkip /\ g.seq >= R.seq + MaxSkip
      BY <1>3, <1>5, <2>1
    <2> QED BY <1>1, <1>6, <2>1, <2>2 DEF Stalled
  <1>11. ASSUME OneChain(T, R, W, D), g.kind # "REKEY" PROVE OneChain(U, R, X, D)
    <2>1. U.root = T.root /\ U.base = T.base
      BY <1>3, <1>11
    <2>2. OneFoldAtMost(T, R, W)
      BY <1>11 DEF OneChain
    <2>3. Placed(U, R, g) /\ \A f : Placed(U, R, f) = Placed(T, R, f)
      BY <1>3, <1>4, <2>1, <2>2, PlainPlaced
    <2>4. OneFoldAtMost(U, R, X)
      <3>1. R.seq <= U.seq
        BY <1>5, <1>8
      <3>2. \A k \in 1..Len(X) : X[k].kind = "REKEY" => k \in 1..n /\ X[k] = W[k]
        BY <1>1, <1>6, <1>11
      <3> QED BY <1>2, <1>11, <2>1, <2>2, <3>1, <3>2 DEF OneFoldAtMost, n
    <2>5. \A i \in 1..Len(X) : Placed(U, R, X[i])
      BY <1>1, <1>6, <1>11, <2>3 DEF OneChain, n
    <2> QED BY <1>11, <2>3, <2>4, <2>5 DEF OneChain
  <1>12. ASSUME OneChain(T, R, W, D), g.kind = "REKEY" PROVE OneChain(U, R, X, D)
    <2>1. U.root = T.root + 1 /\ U.base = T.seq + 1 /\ g.root = T.root + 1 /\ ~Has(W, "REKEY")
      BY <1>3, <1>12
    <2>2. R.root = T.root /\ R.base = T.base
      BY <1>12, <2>1 DEF OneChain, OneFoldAtMost
    <2>3. \A f : Placed(T, R, f) => f.seq >= R.base /\ f.key = msg_key_at(R, f.seq)
      BY <1>4, <2>2 DEF Placed, msg_key_at
    <2>4. \A f : Placed(T, R, f) /\ f.seq < U.base => Placed(U, R, f)
      BY <2>3 DEF Placed
    <2>5. /\ \A i \in 1..n : W[i].seq < U.base
          /\ \A d \in D : d.seq < U.base
          /\ g.seq < U.base /\ g.seq >= R.base
      BY <1>3, <1>5, <1>8, <2>1
    <2>6. Placed(U, R, g)
      <3>1. g.key = msg_key_at(R, g.seq)
        BY <1>3, <1>4, <2>2 DEF msg_key_at
      <3> QED BY <2>5, <3>1 DEF Placed
    <2>7. \A i \in 1..Len(X) : Placed(U, R, X[i])
      BY <1>1, <1>6, <1>12, <2>4, <2>5, <2>6 DEF OneChain, n
    <2>8. \A d \in D : d.seq < R.base \/ Placed(U, R, d)
      BY <1>12, <2>4, <2>5 DEF OneChain
    <2>9. \A k \in 1..Len(X) : X[k].kind = "REKEY" => X[k] = g
      BY <1>1, <1>6, <2>1 DEF Has, n
    <2>10. OneFoldAtMost(U, R, X)
      BY <1>2, <1>3, <1>8, <1>12, <2>1, <2>2, <2>9 DEF OneFoldAtMost
    <2> QED BY <2>7, <2>8, <2>10 DEF OneChain
  <1>13. Align(U, R, X, D, lossy)
    BY <1>3, <1>4, <1>7, <1>9, <1>10, <1>11, <1>12 DEF Align
  <1> QED BY <1>13 DEF U, X

\* A step of the sender.
LEMMA AlignSteps ==
    ASSUME NEW a, NEW u, NEW b, NEW W \in Seq(DataFrame), NEW V, NEW X, NEW D \in SUBSET DataFrame,
           NEW lossy, SessionOK(a), SessionOK(b), Held(b, V, a, W),
           Align(a.send, b.recv, W, D, lossy), Steps(a, W, u, X)
    PROVE  Align(u.send, b.recv, X, D, lossy)
  <1>1. Numbers(a.send, b.recv, W, D)
    BY NumbersOK
  <1>2. a.peer_have => ~Has(W, "REKEY")
    BY DEF Held
  <1>3. CASE Idles(a, u) /\ X = W
    BY <1>1, <1>3, AlignIdle DEF Idles
  <1>4. ASSUME NEW f \in DataFrame, Emits(a, u, f), X = Append(W, f)
        PROVE  Align(u.send, b.recv, X, D, lossy)
    BY <1>1, <1>2, <1>4, AlignEmits
  <1> QED BY <1>3, <1>4 DEF Steps

\* The first lossless frame is on the receiver's own chain: a fold under way is not
\* before it.
LEMMA FirstOnChain ==
    ASSUME NEW T, NEW R, NEW W, NEW D, Numbers(T, R, W, D), T.lab = R.lab, InOrder(T, W, D),
           OneChain(T, R, W, D), 1 \in 1..Len(W)
    PROVE  On(R, W[1])
  <1> DEFINE f == W[1]
  <1>1. Placed(T, R, f) /\ OneFoldAtMost(T, R, W) /\ f.seq \in Nat
    BY DEF OneChain, Numbers
  <1>2. CASE ~Has(W, "REKEY")
    <2>1. msg_key_at(T, f.seq) = msg_key_at(R, f.seq)
      BY <1>1, <1>2 DEF OneFoldAtMost, msg_key_at
    <2> QED BY <1>1, <2>1 DEF Placed, On
  <1>3. CASE Has(W, "REKEY")
    <2>1. PICK k \in 1..Len(W) : W[k].kind = "REKEY"
      BY <1>3 DEF Has
    <2>2. T.base = W[k].seq + 1 /\ W[k].seq \in Nat
      BY <1>1, <2>1 DEF OneFoldAtMost, Numbers
    <2>3. f.seq <= W[k].seq
      <3>1. CASE k = 1
        BY <2>2, <3>1
      <3>2. CASE k # 1
        <4>1. 1 \in 1..(k - 1)
          BY <3>2
        <4>2. f.seq < W[k].seq
          BY <4>1 DEF InOrder
        <4> QED BY <1>1, <2>2, <4>2
      <3> QED BY <3>1, <3>2
    <2>4. f.seq < T.base
      BY <1>1, <2>2, <2>3
    <2> QED BY <1>1, <2>4 DEF Placed, On
  <1> QED BY <1>2, <1>3

\* The verdict on it: it opens, or it is MaxSkip ahead.
LEMMA FirstVerdict ==
    ASSUME NEW T, NEW R \in RatchetState, Exact(R), NEW W, NEW D, NEW lossy, Numbers(T, R, W, D),
           Align(T, R, W, D, lossy), 1 \in 1..Len(W)
    PROVE  \/ Verdict(R, W[1]) \in {"OK", "OK_RING"} /\ OneChain(T, R, W, D)
           \/ Verdict(R, W[1]) = "TOO_OLD" /\ W[1].seq >= R.seq + MaxSkip
  <1> DEFINE f == W[1]
  <1>1. f.seq \in Nat /\ R.seq \in Nat /\ MaxSkip \in Nat \ {0}
    BY DEF Numbers
  <1>2. CASE Stalled(T, R, W)
    <2>1. f.seq >= R.seq + MaxSkip
      BY <1>2 DEF Stalled
    <2>2. f.seq >= R.seq /\ f.seq - R.seq >= MaxSkip
      BY <1>1, <2>1
    <2> QED BY <2>1, <2>2 DEF Verdict
  <1>3. CASE OneChain(T, R, W, D)
    <2>1. On(R, f)
      BY <1>3, FirstOnChain DEF Align
    <2>2. CASE f.seq >= R.seq
      <3>1. CASE f.seq - R.seq >= MaxSkip
        <4>1. f.seq >= R.seq + MaxSkip
          BY <1>1, <3>1
        <4> QED BY <2>2, <3>1, <4>1 DEF Verdict
      <3>2. CASE ~(f.seq - R.seq >= MaxSkip)
        BY <1>3, <2>1, <2>2, <3>2 DEF Verdict, On
      <3> QED BY <3>1, <3>2
    <2>3. CASE ~(f.seq >= R.seq)
      <3>1. Stored(R.skipped, f.seq)
        BY <2>3 DEF Align, Ahead
      <3>2. R.skipped[TakeIndex(R.skipped, f.seq)].key = msg_key_at(R, f.seq)
        BY <1>1, <3>1, TakeFinds
      <3> QED BY <1>3, <2>1, <2>3, <3>1, <3>2 DEF Verdict, On
    <2> QED BY <2>2, <2>3
  <1> QED BY <1>2, <1>3 DEF Align

\* The order of what is left when the first frame is taken; every one of it comes later.
LEMMA ShiftOrder ==
    ASSUME NEW T, NEW W, NEW X, NEW D, InOrder(T, W, D), Shifts(W, X)
    PROVE  InOrder(T, X, D) /\ \A i \in 1..Len(X) : W[1].seq < X[i].seq
  <1>1. /\ Len(W) \in Nat \ {0} /\ Len(X) = Len(W) - 1
        /\ \A i \in 1..Len(X) : X[i] = W[i + 1] /\ i + 1 \in 1..Len(W)
    BY DEF Shifts
  <1>2. ASSUME NEW i \in 1..Len(X), NEW j \in 0..(i - 1) PROVE W[j + 1].seq < X[i].seq
    <2>1. j + 1 \in 1..((i + 1) - 1) /\ i + 1 \in 1..Len(W) /\ X[i] = W[i + 1]
      BY <1>1
    <2> QED BY <2>1 DEF InOrder
  <1>3. ASSUME NEW i \in 1..Len(X), NEW j \in 1..(i - 1) PROVE X[j].seq < X[i].seq
    <2>1. j \in 0..(i - 1) /\ j \in 1..Len(X)
      BY <1>1
    <2> QED BY <1>1, <1>2, <2>1
  <1>4. ASSUME NEW i \in 1..Len(X) PROVE W[1].seq < X[i].seq
    <2>1. 0 \in 0..(i - 1) /\ 0 + 1 = 1
      BY <1>1
    <2> QED BY <1>2, <2>1
  <1>5. \A i \in 1..Len(X) : X[i].seq < T.seq
    BY <1>1 DEF InOrder
  <1>6. \A d \in D : d.kind = "plain" /\ d.seq < T.seq /\ \A i \in 1..Len(X) : X[i].seq # d.seq
    BY <1>1 DEF InOrder
  <1> QED BY <1>3, <1>4, <1>5, <1>6 DEF InOrder

\* A chat passes a frame over: from here it passes every frame over.
LEMMA AlignPassesOver ==
    ASSUME NEW T, NEW R, NEW W, NEW X, NEW D, Numbers(T, R, W, D), Align(T, R, W, D, FALSE),
           Shifts(W, X), W[1].seq >= R.seq + MaxSkip
    PROVE  Align(T, R, X, D, FALSE)
  <1>1. InOrder(T, W, D)
    BY DEF Align
  <1>2. InOrder(T, X, D) /\ \A i \in 1..Len(X) : W[1].seq < X[i].seq
    BY <1>1, ShiftOrder
  <1>3. /\ \A i \in 1..Len(X) : X[i] = W[i + 1] /\ i + 1 \in 1..Len(W)
        /\ 1 \in 1..Len(W)
    BY DEF Shifts
  <1>4. /\ \A i \in 1..Len(X) : X[i].seq \in Nat
        /\ W[1].seq \in Nat /\ W[1].seq < T.seq /\ T.seq \in Nat /\ R.seq \in Nat /\ MaxSkip \in Nat
    BY <1>1, <1>3 DEF Numbers, InOrder
  <1>5. Stalled(T, R, X)
    BY <1>2, <1>4 DEF Stalled
  <1>6. Ahead(R, X, FALSE)
    BY <1>4, <1>5 DEF Stalled, Ahead
  <1> QED BY <1>2, <1>5, <1>6 DEF Align

\* A lossless frame is opened that is no REKEY.
LEMMA AlignCommits ==
    ASSUME NEW T, NEW R, NEW W, NEW X, NEW D, NEW lossy, NEW c, Numbers(T, R, W, D),
           Align(T, R, W, D, lossy), OneChain(T, R, W, D), Shifts(W, X),
           W[1].kind # "REKEY", Committed(R, W[1], c),
           lossy => \A i \in 1..Len(X) : c.seq - X[i].seq <= SkippedMax + 1
    PROVE  Align(T, c, X, D, lossy)
  <1> DEFINE f == W[1]
  <1>1. InOrder(T, W, D) /\ Ahead(R, W, lossy) /\ T.lab = R.lab /\ OneFoldAtMost(T, R, W)
    BY DEF Align, OneChain
  <1>2. InOrder(T, X, D) /\ \A i \in 1..Len(X) : f.seq < X[i].seq
    BY <1>1, ShiftOrder
  <1>3. /\ \A i \in 1..Len(X) : X[i] = W[i + 1] /\ i + 1 \in 1..Len(W)
        /\ 1 \in 1..Len(W) /\ Len(X) \in Nat /\ Len(W) = Len(X) + 1
    BY DEF Shifts
  <1>4. /\ \A i \in 1..Len(X) : X[i].seq \in Nat
        /\ f.seq \in Nat /\ f.seq < T.seq /\ T.seq \in Nat /\ R.seq \in Nat
    BY <1>1, <1>3 DEF Numbers, InOrder
  <1>5. /\ c.root = R.root /\ c.lab = R.lab /\ c.base = R.base
        /\ c.seq = IF f.seq >= R.seq THEN f.seq + 1 ELSE R.seq
    BY DEF Committed
  <1>6. R.seq <= T.seq
    BY <1>1, ChainBounds
  <1>7. \A g : Placed(T, c, g) = Placed(T, R, g)
    BY <1>5 DEF Placed, msg_key_at
  <1>8. ASSUME NEW i \in 1..Len(X), X[i].seq >= R.seq PROVE X[i].seq >= c.seq
    BY <1>2, <1>4, <1>5, <1>8
  <1>9. Ahead(c, X, lossy)
    <2> SUFFICES ASSUME NEW i \in 1..Len(X)
                 PROVE  X[i].seq >= c.seq \/ (lossy /\ Stored(c.skipped, X[i].seq))
      BY DEF Ahead
    <2>1. CASE X[i].seq >= R.seq
      BY <1>8, <2>1
    <2>2. CASE lossy /\ Stored(R.skipped, X[i].seq)
      <3>1. X[i].seq # f.seq /\ X[i].seq \in Nat
        BY <1>2, <1>4
      <3> QED BY <2>2, <3>1 DEF Committed
    <2> QED BY <1>1, <1>3, <2>1, <2>2 DEF Ahead
  <1>10. Has(W, "REKEY") => Has(X, "REKEY")
    <2> SUFFICES ASSUME NEW k \in 1..Len(W), W[k].kind = "REKEY" PROVE Has(X, "REKEY")
      BY DEF Has
    <2>1. k # 1
      OBVIOUS
    <2>2. k - 1 \in 1..Len(X) /\ (k - 1) + 1 = k
      BY <1>3, <2>1
    <2>3. X[k - 1] = W[k]
      BY <1>3, <2>2
    <2> QED BY <2>2, <2>3 DEF Has
  <1>11. OneFoldAtMost(T, c, X)
    <2>1. c.seq <= T.seq
      BY <1>4, <1>5, <1>6
    <2>2. ASSUME NEW k \in 1..Len(X), X[k].kind = "REKEY"
          PROVE  /\ X[k].root = c.root + 1 /\ T.root = c.root + 1
                 /\ T.base = X[k].seq + 1 /\ c.seq <= X[k].seq
      <3>1. X[k] = W[k + 1] /\ k + 1 \in 1..Len(W)
        BY <1>3
      <3>2. /\ X[k].root = R.root + 1 /\ T.root = R.root + 1
            /\ T.base = X[k].seq + 1 /\ R.seq <= X[k].seq
        BY <1>1, <2>2, <3>1 DEF OneFoldAtMost
      <3>3. c.seq <= X[k].seq
        BY <1>4, <1>5, <1>8, <3>2
      <3> QED BY <1>5, <3>2, <3>3
    <2> QED BY <1>1, <1>5, <1>10, <2>1, <2>2 DEF OneFoldAtMost
  <1>12. OneChain(T, c, X, D)
    BY <1>3, <1>5, <1>7, <1>11 DEF OneChain
  <1> QED BY <1>1, <1>2, <1>5, <1>9, <1>12 DEF Align

\* A REKEY is opened: the receiver folds onto the sender's chain, for the root is the
\* sender's when the REKEY was made for the pair the receiver holds.
LEMMA AlignFolds ==
    ASSUME NEW T, NEW R, NEW W, NEW X, NEW D, NEW lossy, NEW c, NEW v, Numbers(T, R, W, D),
           Align(T, R, W, D, lossy), OneChain(T, R, W, D), Shifts(W, X),
           W[1].kind = "REKEY", Committed(R, W[1], c), ~Has(X, "REKEY"),
           v = ratchet_fold(c, W[1].root)
    PROVE  Align(T, v, X, D, lossy)
  <1> DEFINE f == W[1]
  <1>1. InOrder(T, W, D) /\ T.lab = R.lab /\ OneFoldAtMost(T, R, W)
    BY DEF Align, OneChain
  <1>2. InOrder(T, X, D) /\ \A i \in 1..Len(X) : f.seq < X[i].seq
    BY <1>1, ShiftOrder
  <1>3. /\ \A i \in 1..Len(X) : X[i] = W[i + 1] /\ i + 1 \in 1..Len(W)
        /\ 1 \in 1..Len(W)
    BY DEF Shifts
  <1>4. /\ \A i \in 1..Len(X) : X[i].seq \in Nat
        /\ f \in DataFrame /\ f.seq \in Nat /\ f.seq < T.seq /\ T.seq \in Nat /\ R.seq \in Nat
        /\ R.base \in Nat /\ R.base <= R.seq
    BY <1>1, <1>3 DEF Numbers, InOrder
  <1>5. f.root = T.root /\ T.base = f.seq + 1 /\ R.seq <= f.seq
    BY <1>1, <1>3 DEF OneFoldAtMost
  <1>6. c \in RatchetState /\ c.lab = R.lab /\ c.seq = f.seq + 1 /\ f.root \in Nat
    BY <1>4, <1>5 DEF Committed, DataFrame
  <1>7. v.root = T.root /\ v.lab = T.lab /\ v.base = T.base /\ v.seq = T.base
    BY <1>1, <1>5, <1>6, FoldRing
  <1>8. \A i \in 1..Len(X) : X[i].seq >= T.base /\ X[i].seq >= v.seq
    BY <1>2, <1>4, <1>5, <1>7
  <1>9. ASSUME NEW g, Placed(T, R, g), ~(g.seq < T.base), g.seq \in Nat PROVE Placed(T, v, g)
    <2>1. g.seq >= v.base
      BY <1>4, <1>5, <1>7, <1>9
    <2> QED BY <1>9, <2>1 DEF Placed
  <1>10. \A i \in 1..Len(X) : Placed(T, v, X[i])
    <2> SUFFICES ASSUME NEW i \in 1..Len(X) PROVE Placed(T, v, X[i])
      OBVIOUS
    <2>1. Placed(T, R, X[i]) /\ X[i].seq \in Nat
      BY <1>3, <1>4 DEF OneChain
    <2>2. ~(X[i].seq < T.base)
      BY <1>4, <1>5, <1>8
    <2> QED BY <1>9, <2>1, <2>2
  <1>11. ASSUME NEW d \in D PROVE d.seq < v.base \/ Placed(T, v, d)
    <2>1. d.seq \in Nat /\ (d.seq < R.base \/ Placed(T, R, d))
      BY DEF Numbers, OneChain
    <2>2. CASE d.seq < T.base
      BY <1>7, <2>2
    <2>3. CASE ~(d.seq < T.base)
      <3>1. ~(d.seq < R.base)
        BY <1>4, <1>5, <2>1, <2>3
      <3> QED BY <1>9, <2>1, <2>3, <3>1
    <2> QED BY <2>2, <2>3
  <1>12. OneFoldAtMost(T, v, X)
    <2>1. v.seq <= T.seq
      BY <1>4, <1>5, <1>7
    <2> QED BY <1>7, <2>1 DEF OneFoldAtMost, Has
  <1>13. OneChain(T, v, X, D)
    BY <1>10, <1>11, <1>12 DEF OneChain
  <1>14. Ahead(v, X, lossy)
    BY <1>8 DEF Ahead
  <1> QED BY <1>2, <1>7, <1>13, <1>14 DEF Align

\* A lossless frame is opened.
LEMMA AlignOpened ==
    ASSUME NEW a, NEW b, NEW u, NEW V, NEW W, NEW X, NEW D, NEW lossy,
           Numbers(a.send, b.recv, W, D), Align(a.send, b.recv, W, D, lossy),
           OneChain(a.send, b.recv, W, D), Shifts(W, X), Held(b, V, a, W), Opened(b, W[1], u),
           lossy => \A i \in 1..Len(X) : u.recv.seq - X[i].seq <= SkippedMax + 1
    PROVE  Align(a.send, u.recv, X, D, lossy)
  <1> DEFINE f == W[1]
  <1>1. CASE f.kind # "REKEY" /\ Committed(b.recv, f, u.recv)
    BY <1>1, AlignCommits
  <1>2. ASSUME f.kind = "REKEY", NEW c, Committed(b.recv, f, c),
               u.recv = ratchet_fold(c, IF f.kem = b.pair /\ f.eph = b.pair THEN f.root ELSE NoKeys)
        PROVE  Align(a.send, u.recv, X, D, lossy)
    <2>1. /\ \A i \in 1..Len(X) : X[i] = W[i + 1] /\ i + 1 \in 1..Len(W)
          /\ 1 \in 1..Len(W) /\ Len(X) \in Nat
      BY DEF Shifts
    <2>2. f.kem = b.pair /\ f.eph = b.pair /\ \A j \in 1..Len(W) : W[j].kind = "REKEY" => j = 1
      BY <1>2, <2>1 DEF Held
    <2>3. ~Has(X, "REKEY")
      <3> SUFFICES ASSUME NEW i \in 1..Len(X), X[i].kind = "REKEY" PROVE FALSE
        BY DEF Has
      <3>1. i + 1 = 1
        BY <2>1, <2>2
      <3> QED BY <2>1, <3>1
    <2>4. u.recv = ratchet_fold(c, f.root)
      BY <1>2, <2>2
    <2> QED BY <1>2, <2>3, <2>4, AlignFolds
  <1> QED BY <1>1, <1>2 DEF Opened

\* A datagram that opens was sealed on the receiver's chain, so before the fold under way.
LEMMA AlignDatagramOpened ==
    ASSUME NEW T, NEW R, NEW W, NEW D, NEW d \in D, NEW c, Numbers(T, R, W, D),
           Align(T, R, W, D, TRUE), Committed(R, d, c),
           \A i \in 1..Len(W) : c.seq - W[i].seq <= SkippedMax + 1
    PROVE  Align(T, c, W, D \ {d}, TRUE)
  <1>1. /\ InOrder(T, W, D) /\ Ahead(R, W, TRUE) /\ T.lab = R.lab
        /\ OneChain(T, R, W, D) /\ OneFoldAtMost(T, R, W)
    BY DEF Align, OneChain
  <1>2. /\ \A i \in 1..Len(W) : W[i].seq \in Nat /\ W[i].seq # d.seq
        /\ d.seq \in Nat /\ d.seq < T.seq /\ T.seq \in Nat /\ R.seq \in Nat
        /\ T.base \in Nat /\ R.base \in Nat /\ R.root \in Nat
    BY <1>1 DEF Numbers, InOrder
  <1>3. /\ c.root = R.root /\ c.lab = R.lab /\ c.base = R.base /\ On(R, d)
        /\ c.seq = IF d.seq >= R.seq THEN d.seq + 1 ELSE R.seq
    BY DEF Committed
  <1>4. R.seq <= T.seq
    BY <1>1, ChainBounds
  <1>5. \A g : Placed(T, c, g) = Placed(T, R, g)
    BY <1>3 DEF Placed, msg_key_at
  <1>6. Ahead(c, W, TRUE)
    <2> SUFFICES ASSUME NEW i \in 1..Len(W)
                 PROVE  W[i].seq >= c.seq \/ Stored(c.skipped, W[i].seq)
      BY DEF Ahead
    <2>1. W[i].seq >= R.seq \/ Stored(R.skipped, W[i].seq)
      BY <1>1 DEF Ahead
    <2>2. CASE Stored(R.skipped, W[i].seq) \/ (R.seq <= W[i].seq /\ W[i].seq < d.seq)
      BY <1>2, <2>2 DEF Committed
    <2>3. CASE W[i].seq >= R.seq /\ ~(W[i].seq < d.seq)
      BY <1>2, <1>3, <2>3
    <2> QED BY <1>2, <2>1, <2>2, <2>3
  <1>7. OneFoldAtMost(T, c, W)
    <2>1. c.seq <= T.seq
      BY <1>2, <1>3, <1>4
    <2>2. ASSUME NEW k \in 1..Len(W), W[k].kind = "REKEY"
          PROVE  /\ W[k].root = c.root + 1 /\ T.root = c.root + 1
                 /\ T.base = W[k].seq + 1 /\ c.seq <= W[k].seq
      <3>1. /\ W[k].root = R.root + 1 /\ T.root = R.root + 1
            /\ T.base = W[k].seq + 1 /\ R.seq <= W[k].seq
        BY <1>1, <2>2 DEF OneFoldAtMost
      <3>2. d.seq < T.base
        <4> SUFFICES ASSUME ~(d.seq < T.base) PROVE FALSE
          OBVIOUS
        <4>1. ~(d.seq < R.base) /\ d.key = msg_key_at(R, d.seq)
          BY <1>2, <1>3 DEF On
        <4>2. d.key = msg_key_at(T, d.seq)
          BY <1>1, <4>1 DEF OneChain, Placed
        <4>3. T.root = R.root
          BY <4>1, <4>2 DEF msg_key_at
        <4> QED BY <1>2, <3>1, <4>3
      <3>3. c.seq <= W[k].seq
        BY <1>2, <1>3, <3>1, <3>2
      <3> QED BY <1>3, <3>1, <3>3
    <2> QED BY <1>1, <1>3, <2>1, <2>2 DEF OneFoldAtMost
  <1>8. OneChain(T, c, W, D \ {d})
    BY <1>1, <1>3, <1>5, <1>7 DEF OneChain
  <1>9. InOrder(T, W, D \ {d})
    BY <1>1 DEF InOrder
  <1> QED BY <1>1, <1>3, <1>6, <1>8, <1>9 DEF Align

\* A datagram that is dropped.
LEMMA AlignDropped ==
    ASSUME NEW T, NEW R, NEW W, NEW D, NEW d, NEW lossy, Align(T, R, W, D, lossy)
    PROVE  Align(T, R, W, D \ {d}, lossy)
  BY DEF Align, InOrder, OneChain

-----------------------------------------------------------------------------
(* The steps of the sender, put together                                   *)

\* Session a with W and datagrams D on the way goes on as u with X and E: the drain takes
\* up to two steps, and then a payload frame goes to the queue, or is a datagram.
Sends(a, W, u, X, D, E, lossy) ==
    /\ SessionOK(u)
    /\ \E b, Y, c, Z :
          /\ SessionOK(b) /\ Y \in Seq(DataFrame) /\ Steps(a, W, b, Y)
          /\ SessionOK(c) /\ Z \in Seq(DataFrame) /\ Steps(b, Y, c, Z)
          /\ \/ E = D /\ Steps(c, Z, u, X)
             \/ lossy /\ X = Z /\ \E g \in DataFrame : /\ Emits(c, u, g) /\ g.kind = "plain"
                                                       /\ E = D \cup {g}

\* A frame that is no REKEY and is not in the queue.
LEMMA EmitsIdles ==
    ASSUME NEW t, NEW u, NEW g, Emits(t, u, g), g.kind # "REKEY"
    PROVE  Idles(t, u)
  BY DEF Emits, Idles

\* The pairs of keys through a sender's action.
LEMMA SendsHeld ==
    ASSUME NEW a, NEW W \in Seq(DataFrame), NEW u, NEW X, NEW D, NEW E, NEW lossy,
           Sends(a, W, u, X, D, E, lossy),
           NEW o, NEW V \in Seq(DataFrame), Held(a, W, o, V), Held(o, V, a, W)
    PROVE  Held(u, X, o, V) /\ Held(o, V, u, X)
  <1>1. PICK b, Y, c, Z :
          /\ SessionOK(b) /\ Y \in Seq(DataFrame) /\ Steps(a, W, b, Y)
          /\ SessionOK(c) /\ Z \in Seq(DataFrame) /\ Steps(b, Y, c, Z)
          /\ \/ E = D /\ Steps(c, Z, u, X)
             \/ lossy /\ X = Z /\ \E g \in DataFrame : /\ Emits(c, u, g) /\ g.kind = "plain"
                                                       /\ E = D \cup {g}
    BY DEF Sends
  <1>2. Held(b, Y, o, V) /\ Held(o, V, b, Y)
    BY <1>1, HeldSteps
  <1>3. Held(c, Z, o, V) /\ Held(o, V, c, Z)
    BY <1>1, <1>2, HeldSteps
  <1>4. CASE Steps(c, Z, u, X)
    BY <1>1, <1>3, <1>4, HeldSteps
  <1>5. ASSUME X = Z, NEW g \in DataFrame, Emits(c, u, g), g.kind = "plain"
        PROVE  Held(u, X, o, V) /\ Held(o, V, u, X)
    <2>1. Idles(c, u)
      BY <1>5, EmitsIdles
    <2> QED BY <1>3, <1>5, <2>1, HeldIdle
  <1> QED BY <1>1, <1>4, <1>5

\* The chain of its direction through a sender's action.
LEMMA SendsAlign ==
    ASSUME NEW a, NEW W \in Seq(DataFrame), NEW u, NEW X, NEW D \in SUBSET DataFrame, NEW E,
           NEW lossy, SessionOK(a), Sends(a, W, u, X, D, E, lossy),
           NEW o, NEW V \in Seq(DataFrame), SessionOK(o), Held(a, W, o, V), Held(o, V, a, W),
           Align(a.send, o.recv, W, D, lossy)
    PROVE  Align(u.send, o.recv, X, E, lossy)
  <1>1. PICK b, Y, c, Z :
          /\ SessionOK(b) /\ Y \in Seq(DataFrame) /\ Steps(a, W, b, Y)
          /\ SessionOK(c) /\ Z \in Seq(DataFrame) /\ Steps(b, Y, c, Z)
          /\ \/ E = D /\ Steps(c, Z, u, X)
             \/ lossy /\ X = Z /\ \E g \in DataFrame : /\ Emits(c, u, g) /\ g.kind = "plain"
                                                       /\ E = D \cup {g}
    BY DEF Sends
  <1>2. Held(b, Y, o, V) /\ Held(o, V, b, Y) /\ Align(b.send, o.recv, Y, D, lossy)
    BY <1>1, HeldSteps, AlignSteps
  <1>3. Held(o, V, c, Z) /\ Align(c.send, o.recv, Z, D, lossy)
    BY <1>1, <1>2, HeldSteps, AlignSteps
  <1>4. CASE E = D /\ Steps(c, Z, u, X)
    BY <1>1, <1>3, <1>4, AlignSteps
  <1>5. ASSUME lossy, X = Z, NEW g \in DataFrame, Emits(c, u, g), g.kind = "plain", E = D \cup {g}
        PROVE  Align(u.send, o.recv, X, E, lossy)
    <2>1. Numbers(c.send, o.recv, Z, D)
      BY <1>1, NumbersOK
    <2>2. /\ g.seq = c.send.seq /\ g.key = msg_key_at(c.send, c.send.seq)
          /\ u.send.lab = c.send.lab /\ u.send.root = c.send.root /\ u.send.base = c.send.base
          /\ u.send.seq = c.send.seq + 1
      BY <1>5 DEF Emits
    <2> QED BY <1>3, <1>5, <2>1, <2>2, AlignDatagram
  <1> QED BY <1>1, <1>4, <1>5

\* A sender's action does not touch the receiving direction of its session.
LEMMA SendsRecv ==
    ASSUME NEW a, NEW W, NEW u, NEW X, NEW D, NEW E, NEW lossy, Sends(a, W, u, X, D, E, lossy)
    PROVE  u.recv = a.recv
  <1>1. ASSUME NEW t, NEW v, NEW Y, NEW Z, Steps(t, Y, v, Z) PROVE v.recv = t.recv
    BY <1>1 DEF Steps, Idles, Emits
  <1>2. PICK b, Y, c, Z :
          /\ Steps(a, W, b, Y) /\ Steps(b, Y, c, Z)
          /\ Steps(c, Z, u, X) \/ \E g \in DataFrame : Emits(c, u, g)
    BY DEF Sends
  <1> QED BY <1>1, <1>2 DEF Emits

\* The two passes of the drain.
LEMMA DrainSteps ==
    ASSUME NEW t, SessionOK(t), NEW w \in Seq(DataFrame), NEW d \in Drained(t, w)
    PROVE  /\ SessionOK(d.s) /\ d.w \in Seq(DataFrame) /\ Way(d.s, d.w) \in Seq(DataFrame)
           /\ \E b, Y : /\ SessionOK(b) /\ Y \in Seq(DataFrame)
                        /\ Steps(t, Way(t, w), b, Y) /\ Steps(b, Y, d.s, Way(d.s, d.w))
  <1>1. PICK c \in Pass(t, w) : d \in Pass(c.s, c.w)
    BY DEF Drained
  <1>2. SessionOK(c.s) /\ c.w \in Seq(DataFrame) /\ Steps(t, Way(t, w), c.s, Way(c.s, c.w))
    BY <1>1, PassSteps
  <1>3. SessionOK(d.s) /\ d.w \in Seq(DataFrame) /\ Steps(c.s, Way(c.s, c.w), d.s, Way(d.s, d.w))
    BY <1>1, <1>2, PassSteps
  <1>4. ASSUME NEW v, SessionOK(v), NEW x \in Seq(DataFrame) PROVE Way(v, x) \in Seq(DataFrame)
    BY <1>4, ConcatParts DEF Way, SessionOK, SessionType
  <1> QED BY <1>2, <1>3, <1>4

-----------------------------------------------------------------------------
(* The actions                                                             *)

\* Two peers.
LEMMA OtherPeer ==
    ASSUME NEW p \in Peer
    PROVE  /\ Other(p) \in Peer /\ Other(Other(p)) = p /\ Other(p) # p
           /\ \A q \in Peer : q = p \/ q = Other(p)
  BY DEF Peer, Other

\* Types, with what every session promises by itself; a chat parks nothing and has no
\* datagrams, and a datagram never carries a re-key header.
Base ==
    /\ s \in [Peer -> SessionType] /\ \A p \in Peer : SessionOK(s[p])
    /\ wire \in [Peer -> Seq(DataFrame)]
    /\ dgram \in [Peer -> SUBSET DataFrame]
    /\ \A p \in Peer : \A d \in dgram[p] : d.kind = "plain"
    /\ fault \in [Peer -> {"none", "restart", "ignored"}]
    /\ setup.lossy \in BOOLEAN
    /\ ~setup.lossy => \A p \in Peer : s[p].carrier = <<>> /\ dgram[p] = {}

\* What a sender's action does: session, queue and datagrams of one direction change.
SentAs(p, q, u, w, E) ==
    /\ s' = [s EXCEPT ![p] = u] /\ wire' = [wire EXCEPT ![q] = w]
    /\ dgram' = [dgram EXCEPT ![q] = E]
    /\ w \in Seq(DataFrame) /\ E \in SUBSET DataFrame /\ \A d \in E : d.kind = "plain"
    /\ Sends(s[p], OnTheWay(q), u, Way(u, w), dgram[q], E, setup.lossy)
    /\ ~setup.lossy => u.carrier = <<>> /\ E = {}
    /\ UNCHANGED <<fault, setup>>

SentBy(p) == \E u, w, E : SentAs(p, Other(p), u, w, E)

\* What is on the way from p, as its session and queue have it.
LEMMA WayOf ==
    ASSUME Base, NEW p \in Peer
    PROVE  /\ OnTheWay(Other(p)) = Way(s[p], wire[Other(p)])
           /\ OnTheWay(p) \in Seq(DataFrame) /\ OnTheWay(Other(p)) \in Seq(DataFrame)
           /\ wire[p] \in Seq(DataFrame) /\ wire[Other(p)] \in Seq(DataFrame)
           /\ SessionOK(s[p]) /\ s[p] \in SessionType /\ SessionOK(s[Other(p)])
           /\ s[p].carrier \in Seq(DataFrame)
           /\ dgram[p] \in SUBSET DataFrame /\ dgram[Other(p)] \in SUBSET DataFrame
  <1>1. Other(p) \in Peer /\ Other(Other(p)) = p
    BY OtherPeer
  <1>2. \A q \in Peer : s[q].carrier \in Seq(DataFrame) /\ wire[q] \in Seq(DataFrame)
    BY DEF Base, SessionType
  <1>3. \A q \in Peer : OnTheWay(q) \in Seq(DataFrame)
    BY <1>1, <1>2, OtherPeer, ConcatParts DEF OnTheWay
  <1> QED BY <1>1, <1>2, <1>3 DEF Base, OnTheWay, Way

\* A step is one step of three, the others idle.
LEMMA OneStepSends ==
    ASSUME NEW a, SessionOK(a), NEW W \in Seq(DataFrame), NEW u, SessionOK(u), NEW X, NEW D,
           NEW lossy, Steps(a, W, u, X)
    PROVE  Sends(a, W, u, X, D, D, lossy)
  <1>1. Steps(a, W, a, W)
    BY DEF Steps, Idles, SessionOK
  <1> QED BY <1>1 DEF Sends

\* The drain, and a payload frame behind it.
LEMMA DrainSends ==
    ASSUME NEW t, SessionOK(t), NEW w \in Seq(DataFrame), NEW d \in Drained(t, w),
           NEW D, NEW lossy
    PROVE  /\ Sends(t, Way(t, w), d.s, Way(d.s, d.w), D, D, lossy)
           /\ \A u, X : SessionOK(u) /\ Steps(d.s, Way(d.s, d.w), u, X)
                           => Sends(t, Way(t, w), u, X, D, D, lossy)
           /\ \A u : \A g \in DataFrame :
                 SessionOK(u) /\ Emits(d.s, u, g) /\ g.kind = "plain" /\ lossy
                    => Sends(t, Way(t, w), u, Way(d.s, d.w), D, D \cup {g}, lossy)
  <1>1. /\ SessionOK(d.s) /\ d.w \in Seq(DataFrame) /\ Way(d.s, d.w) \in Seq(DataFrame)
        /\ \E b, Y : /\ SessionOK(b) /\ Y \in Seq(DataFrame)
                     /\ Steps(t, Way(t, w), b, Y) /\ Steps(b, Y, d.s, Way(d.s, d.w))
    BY DrainSteps
  <1>2. Steps(d.s, Way(d.s, d.w), d.s, Way(d.s, d.w))
    BY <1>1 DEF Steps, Idles, SessionOK
  <1>3. \A u, X : SessionOK(u) /\ Steps(d.s, Way(d.s, d.w), u, X)
                           => Sends(t, Way(t, w), u, X, D, D, lossy)
    <2> SUFFICES ASSUME NEW u, NEW X, SessionOK(u), Steps(d.s, Way(d.s, d.w), u, X)
                 PROVE  Sends(t, Way(t, w), u, X, D, D, lossy)
      OBVIOUS
    <2> QED BY <1>1, Zenon DEF Sends
  <1>4. ASSUME NEW u, NEW g \in DataFrame, SessionOK(u), Emits(d.s, u, g), g.kind = "plain", lossy
        PROVE  Sends(t, Way(t, w), u, Way(d.s, d.w), D, D \cup {g}, lossy)
    BY <1>1, <1>4, Zenon DEF Sends
  <1> QED BY <1>1, <1>2, <1>3, <1>4

\* Sealing a frame without a header.
LEMMA PlainEmitted ==
    ASSUME NEW t, SessionOK(t), NEW e, e = emit_plain(t)
    PROVE  Emits(t, e.s, e.f) /\ e.s.carrier = t.carrier /\ e.f.kind = "plain"
           /\ SessionOK(e.s) /\ e.f \in DataFrame
  <1>1. t \in SessionType /\ t.send.base <= t.send.seq /\ Len(t.carrier) <= 1
    BY DEF SessionOK
  <1>2. Emits(t, e.s, e.f) /\ e.s.carrier = t.carrier /\ e.f.kind = "plain"
    BY <1>1, FrameEmitted DEF emit_plain
  <1>3. e.f \in DataFrame
    BY <1>2 DEF Emits
  <1>4. Steps(t, <<>>, e.s, Append(<<>>, e.f))
    BY <1>2, <1>3 DEF Steps
  <1> QED BY <1>1, <1>2, <1>3, <1>4, StepsOK

\* tt_session_send: a frame, or a chain step that is lost.
LEMMA TextSends ==
    ASSUME Base, NEW p \in Peer, NEW fits, SendText(p, fits)
    PROVE  SentBy(p)
  <1> DEFINE q == Other(p)
             a == s[p]
             t == Triggered(a)
             h == Header(t)
             e == emit_frame(t, h)
             W == wire[q]
  <1>1. /\ OnTheWay(q) = Way(a, W) /\ W \in Seq(DataFrame) /\ SessionOK(a)
        /\ a \in SessionType /\ ~setup.lossy /\ a.carrier = <<>> /\ dgram[q] = {} /\ q \in Peer
    BY WayOf, OtherPeer DEF Base, SendText
  <1>2. OnTheWay(q) = W
    BY <1>1 DEF Way
  <1>3. dgram' = [dgram EXCEPT ![q] = {}] /\ UNCHANGED <<fault, setup>>
    BY <1>1 DEF SendText, Base
  <1>4. ASSUME NEW u, NEW X \in Seq(DataFrame), Steps(a, W, u, X), u.carrier = <<>>,
               s' = [s EXCEPT ![p] = u], wire' = [wire EXCEPT ![q] = X]
        PROVE  SentBy(p)
    <2>0. Len(u.carrier) <= 1
      BY <1>4
    <2>1. SessionOK(u)
      BY <1>1, <1>4, <2>0, StepsOK
    <2>2. Way(u, X) = X
      BY <1>4 DEF Way
    <2>3. Sends(a, W, u, X, {}, {}, setup.lossy)
      BY <1>1, <1>4, <2>1, OneStepSends
    <2> HIDE DEF a, W, q
    <2>4. Sends(s[p], OnTheWay(q), u, Way(u, X), dgram[q], {}, setup.lossy)
      BY <1>1, <1>2, <2>2, <2>3 DEF a
    <2>5. {} \in SUBSET DataFrame /\ \A d \in {} : d.kind = "plain"
      OBVIOUS
    <2>6. SentAs(p, q, u, X, {})
      BY <1>3, <1>4, <2>4, <2>5 DEF SentAs
    <2> QED BY <2>6 DEF SentBy, q
  <1>5. CASE fits \/ h = "none"
    <2>1. s' = [s EXCEPT ![p] = e.s] /\ wire' = [wire EXCEPT ![q] = Append(W, e.f)]
      BY <1>1, <1>5 DEF SendText, Base
    <2>2. Emits(a, e.s, e.f) /\ e.s.carrier = a.carrier
      BY <1>1, FrameEmitted DEF SessionOK
    <2> HIDE DEF e, a, W, q
    <2>3. e.f \in DataFrame
      BY <2>2 DEF Emits
    <2>4. Append(W, e.f) \in Seq(DataFrame) /\ Steps(a, W, e.s, Append(W, e.f))
      BY <1>1, <2>2, <2>3 DEF Steps
    <2> QED BY <1>1, <1>4, <2>1, <2>2, <2>4
  <1>6. CASE ~(fits \/ h = "none")
    <2> DEFINE b == Built(t, h)
               u == [b EXCEPT !.send = send_key(@)]
    <2>1. s' = [s EXCEPT ![p] = u] /\ wire' = [wire EXCEPT ![q] = W]
      BY <1>1, <1>6 DEF SendText, Base
    <2>2. SameButFlags(a, t) /\ h \in HeaderKind
      BY <1>1, FlagsOnly, HeaderFits DEF HeaderKind
    <2>3. SameButFlags(t, b)
      BY <2>2, FlagsOnly DEF SameButFlags
    <2> HIDE DEF b, t, h
    <2>4. SameButFlags(a, b)
      BY <2>2, <2>3 DEF SameButFlags
    <2>5. b \in SessionType /\ b.send \in RatchetState
      BY <2>4 DEF SameButFlags, SessionType
    <2> DEFINE k == send_key(b.send)
    <2>6. /\ k \in RatchetState /\ k.seq = b.send.seq + 1 /\ k.lab = b.send.lab
          /\ k.root = b.send.root /\ k.base = b.send.base
      <3> DEFINE r == b.send
      <3>1. r \in RatchetState /\ k = send_key(r)
        BY <2>5
      <3> HIDE DEF r, k
      <3>2. k = [r EXCEPT !.seq = r.seq + 1] /\ r.seq + 1 \in Nat
        BY <3>1 DEF send_key, RatchetState
      <3>3. /\ k \in RatchetState /\ k.seq = r.seq + 1 /\ k.lab = r.lab
            /\ k.root = r.root /\ k.base = r.base
        BY <3>1, <3>2 DEF RatchetState
      <3> QED BY <3>3 DEF r
    <2> HIDE DEF k
    <2>7. u = [b EXCEPT !.send = k]
      BY DEF k
    <2> HIDE DEF u
    <2>8. /\ u \in SessionType /\ u.send = k /\ u.recv = b.recv /\ u.pair = b.pair
          /\ u.peer_have = b.peer_have /\ u.peer_kem = b.peer_kem /\ u.peer_eph = b.peer_eph
          /\ u.carrier = b.carrier
      BY <2>5, <2>6, <2>7 DEF SessionType
    <2>9. Idles(a, u) /\ u.carrier = a.carrier
      BY <2>4, <2>6, <2>8 DEF Idles, SameButFlags
    <2> HIDE DEF a, W, q
    <2>10. Steps(a, W, u, W)
      BY <2>9 DEF Steps
    <2> QED BY <1>1, <1>4, <2>1, <2>9, <2>10
  <1> QED BY <1>5, <1>6

\* The tunnel's actions that send: the drain alone, and a payload behind it.
LEMMA TunnelSends ==
    ASSUME Base, NEW p \in Peer, PollCarrier(p) \/ Blocked(p) \/ SendDatagram(p) \/ SendTcp(p)
    PROVE  SentBy(p)
  <1> DEFINE q == Other(p)
             a == s[p]
             W == wire[q]
  <1>1. /\ OnTheWay(q) = Way(a, W) /\ W \in Seq(DataFrame) /\ SessionOK(a)
        /\ dgram[q] \in SUBSET DataFrame /\ q \in Peer /\ \A d \in dgram[q] : d.kind = "plain"
    BY WayOf, OtherPeer DEF Base
  <1>2. setup.lossy /\ UNCHANGED <<fault, setup>>
    BY DEF PollCarrier, Blocked, SendDatagram, SendTcp
  <1> HIDE DEF a, W, q
  <1>3. ASSUME NEW u, NEW w \in Seq(DataFrame), NEW E \in SUBSET DataFrame,
               \A d \in E : d.kind = "plain",
               Sends(a, Way(a, W), u, Way(u, w), dgram[q], E, setup.lossy),
               s' = [s EXCEPT ![p] = u], wire' = [wire EXCEPT ![q] = w],
               dgram' = [dgram EXCEPT ![q] = E]
        PROVE  SentBy(p)
    <2>1. SentAs(p, q, u, w, E)
      BY <1>1, <1>2, <1>3 DEF SentAs, a
    <2> QED BY <2>1 DEF SentBy, q
  <1>4. UNCHANGED dgram => dgram' = [dgram EXCEPT ![q] = dgram[q]]
    BY <1>1 DEF Base
  <1>5. CASE PollCarrier(p) \/ Blocked(p)
    <2>1. PICK d \in Drained(a, W) : s' = [s EXCEPT ![p] = d.s] /\ wire' = [wire EXCEPT ![q] = d.w]
      BY <1>5 DEF PollCarrier, Blocked, a, W, q
    <2>2. UNCHANGED dgram
      BY <1>5 DEF PollCarrier, Blocked
    <2>3. d.w \in Seq(DataFrame)
      BY <1>1, DrainSteps
    <2>4. Sends(a, Way(a, W), d.s, Way(d.s, d.w), dgram[q], dgram[q], setup.lossy)
      BY <1>1, DrainSends
    <2> QED BY <1>1, <1>3, <1>4, <2>1, <2>2, <2>3, <2>4
  <1>6. CASE SendDatagram(p)
    <2>1. PICK d \in Drained(a, W) :
             /\ d.s.carrier = <<>>
             /\ \E e \in {emit_plain(d.s)} :
                   /\ s' = [s EXCEPT ![p] = e.s]
                   /\ dgram' = [dgram EXCEPT ![q] = @ \cup {e.f}]
             /\ wire' = [wire EXCEPT ![q] = d.w]
      BY <1>6 DEF SendDatagram, a, W, q
    <2>2. PICK e : /\ e = emit_plain(d.s) /\ s' = [s EXCEPT ![p] = e.s]
                   /\ dgram' = [dgram EXCEPT ![q] = dgram[q] \cup {e.f}]
      BY <1>1, <2>1 DEF Base
    <2>3. SessionOK(d.s) /\ d.w \in Seq(DataFrame)
      BY <1>1, DrainSteps
    <2>4. /\ Emits(d.s, e.s, e.f) /\ e.s.carrier = d.s.carrier /\ e.f.kind = "plain"
          /\ SessionOK(e.s) /\ e.f \in DataFrame
      BY <2>2, <2>3, PlainEmitted
    <2>5. Sends(a, Way(a, W), e.s, Way(d.s, d.w), dgram[q], dgram[q] \cup {e.f}, setup.lossy)
      BY <1>1, <1>2, <2>4, DrainSends
    <2>6. Way(e.s, d.w) = Way(d.s, d.w)
      BY <2>4 DEF Way
    <2>7. /\ dgram[q] \cup {e.f} \in SUBSET DataFrame
          /\ \A x \in dgram[q] \cup {e.f} : x.kind = "plain"
      BY <1>1, <2>4
    <2> QED BY <1>3, <2>1, <2>2, <2>3, <2>5, <2>6, <2>7
  <1>7. CASE SendTcp(p)
    <2>1. PICK d \in Drained(a, W) :
             /\ d.s.carrier = <<>>
             /\ \E e \in {emit_plain(d.s)} :
                   /\ s' = [s EXCEPT ![p] = e.s]
                   /\ wire' = [wire EXCEPT ![q] =
                         IF Len(d.w) < setup.flight THEN Append(d.w, e.f) ELSE d.w]
      BY <1>7 DEF SendTcp, a, W, q
    <2>2. PICK e : /\ e = emit_plain(d.s) /\ s' = [s EXCEPT ![p] = e.s]
                   /\ wire' = [wire EXCEPT ![q] =
                         IF Len(d.w) < setup.flight THEN Append(d.w, e.f) ELSE d.w]
      BY <2>1
    <2>3. SessionOK(d.s) /\ d.w \in Seq(DataFrame)
      BY <1>1, DrainSteps
    <2>4. /\ Emits(d.s, e.s, e.f) /\ e.s.carrier = d.s.carrier /\ e.f.kind = "plain"
          /\ SessionOK(e.s) /\ e.f \in DataFrame
      BY <2>2, <2>3, PlainEmitted
    <2>5. UNCHANGED dgram
      BY <1>7 DEF SendTcp
    <2>6. Way(d.s, d.w) = d.w
      BY <2>1, <2>3, <2>4, WayParts DEF Way
    <2>7. CASE Len(d.w) < setup.flight
      <3> DEFINE w == Append(d.w, e.f)
      <3>1. w \in Seq(DataFrame) /\ wire' = [wire EXCEPT ![q] = w]
        BY <2>2, <2>3, <2>4, <2>7
      <3>2. Way(e.s, w) = w
        BY <2>1, <2>4, <3>1, WayParts DEF Way
      <3>3. Steps(d.s, Way(d.s, d.w), e.s, Way(e.s, w))
        BY <2>4, <2>6, <3>2 DEF Steps
      <3>4. Sends(a, Way(a, W), e.s, Way(e.s, w), dgram[q], dgram[q], setup.lossy)
        BY <1>1, <2>4, <3>3, DrainSends
      <3> HIDE DEF w
      <3> QED BY <1>1, <1>3, <1>4, <2>2, <2>5, <3>1, <3>4
    <2>8. CASE ~(Len(d.w) < setup.flight)
      <3>1. wire' = [wire EXCEPT ![q] = d.w]
        BY <2>2, <2>8
      <3>2. Way(e.s, d.w) = Way(d.s, d.w)
        BY <2>4 DEF Way
      <3>3. Idles(d.s, e.s)
        BY <2>4, EmitsIdles
      <3>4. Steps(d.s, Way(d.s, d.w), e.s, Way(e.s, d.w))
        BY <3>2, <3>3 DEF Steps
      <3>5. Sends(a, Way(a, W), e.s, Way(e.s, d.w), dgram[q], dgram[q], setup.lossy)
        BY <1>1, <2>4, <3>4, DrainSends
      <3> QED BY <1>1, <1>3, <1>4, <2>2, <2>3, <2>5, <3>1, <3>5
    <2> QED BY <2>7, <2>8
  <1> QED BY <1>5, <1>6, <1>7

\* What Receive does: the first frame leaves the wire; it is opened, or it is a fault.
ReceivedAs(p, u) ==
    /\ wire[p] # <<>> /\ wire' = [wire EXCEPT ![p] = Tail(@)]
    /\ s' = [s EXCEPT ![p] = u]
    /\ \/ /\ Opens(s[p], Head(wire[p])) /\ Opened(s[p], Head(wire[p]), u) /\ UNCHANGED fault
       \/ /\ ~Opens(s[p], Head(wire[p])) /\ u = s[p]
          /\ fault' = [fault EXCEPT ![p] = Recovery(Verdict(s[p].recv, Head(wire[p])))]
    /\ UNCHANGED <<dgram, setup>>

\* It does so.
LEMMA Receives ==
    ASSUME Base, NEW p \in Peer, Receive(p)
    PROVE  \E u : ReceivedAs(p, u)
  <1> DEFINE f == Head(wire[p])
  <1>1. /\ SessionOK(s[p]) /\ wire[p] \in Seq(DataFrame) /\ wire[p] # <<>>
        /\ s = [s EXCEPT ![p] = s[p]]
    BY WayOf DEF Receive, Base
  <1>2. f \in DataFrame
    BY <1>1
  <1>3. CASE Opens(s[p], f)
    <2>1. Opened(s[p], f, Fed(s[p], f))
      BY <1>1, <1>2, <1>3, FedOpened
    <2>2. s' = [s EXCEPT ![p] = Fed(s[p], f)]
      BY <1>3 DEF Receive, Base
    <2>3. ReceivedAs(p, Fed(s[p], f))
      BY <1>3, <2>1, <2>2 DEF Receive, ReceivedAs
    <2> QED BY <2>3
  <1>4. CASE ~Opens(s[p], f)
    <2>1. ReceivedAs(p, s[p])
      BY <1>1, <1>4 DEF Receive, ReceivedAs
    <2> QED BY <2>1
  <1> QED BY <1>3, <1>4

\* What ReceiveDatagram does.
DatagramAs(p, f, u) ==
    /\ f \in dgram[p] /\ dgram' = [dgram EXCEPT ![p] = @ \ {f}]
    /\ s' = [s EXCEPT ![p] = u] /\ Takes(s[p], f, u)
    /\ UNCHANGED <<wire, fault, setup>>

\* It does so.
LEMMA DatagramReceives ==
    ASSUME Base, NEW p \in Peer, NEW f \in dgram[p], ReceiveDatagram(p, f)
    PROVE  \E u : DatagramAs(p, f, u)
  <1>1. SessionOK(s[p]) /\ f \in DataFrame /\ s = [s EXCEPT ![p] = s[p]]
    BY WayOf DEF Base
  <1>2. CASE Opens(s[p], f)
    <2>1. Opened(s[p], f, Fed(s[p], f))
      BY <1>1, <1>2, FedOpened
    <2>2. s' = [s EXCEPT ![p] = Fed(s[p], f)]
      BY <1>2 DEF ReceiveDatagram, Base
    <2>3. DatagramAs(p, f, Fed(s[p], f))
      BY <2>1, <2>2 DEF ReceiveDatagram, DatagramAs, Takes
    <2> QED BY <2>3
  <1>3. CASE ~Opens(s[p], f)
    <2>1. DatagramAs(p, f, s[p])
      BY <1>1, <1>3 DEF ReceiveDatagram, DatagramAs, Takes
    <2> QED BY <2>1
  <1> QED BY <1>2, <1>3

\* Every step is a sender's, a receiver's, a datagram's, or changes nothing of this.
LEMMA StepKinds ==
    ASSUME Base, [Next]_vars
    PROVE  \/ \E p \in Peer : SentBy(p)
           \/ \E p \in Peer : \E u : ReceivedAs(p, u)
           \/ \E p \in Peer : \E f \in dgram[p] : \E u : DatagramAs(p, f, u)
           \/ UNCHANGED <<s, wire, dgram, fault, setup>>
  <1>1. CASE UNCHANGED vars
    BY <1>1 DEF vars
  <1>2. ASSUME NEW p \in Peer, NEW fits \in {TRUE, ~setup.longTexts}, SendText(p, fits)
        PROVE  SentBy(p)
    BY <1>2, TextSends
  <1>3. ASSUME NEW p \in Peer, PollCarrier(p) \/ Blocked(p) \/ SendDatagram(p) \/ SendTcp(p)
        PROVE  SentBy(p)
    BY <1>3, TunnelSends
  <1>4. ASSUME NEW p \in Peer, Receive(p) PROVE \E u : ReceivedAs(p, u)
    BY <1>4, Receives
  <1>5. ASSUME NEW p \in Peer, NEW f \in dgram[p], ReceiveDatagram(p, f)
        PROVE  \E u : DatagramAs(p, f, u)
    BY <1>5, DatagramReceives
  <1> QED BY <1>1, <1>2, <1>3, <1>4, <1>5 DEF Next

\* The state after a sender's action.
LEMMA SentState ==
    ASSUME Base, NEW p \in Peer, NEW u, NEW w, NEW E, SentAs(p, Other(p), u, w, E)
    PROVE  LET q == Other(p) IN
           /\ s'[p] = u /\ s'[q] = s[q] /\ dgram'[q] = E /\ dgram'[p] = dgram[p]
           /\ OnTheWay(q)' = Way(u, w) /\ OnTheWay(p)' = OnTheWay(p)
           /\ wire'[q] = w /\ wire'[p] = wire[p]
  <1> DEFINE q == Other(p)
  <1>1. q \in Peer /\ Other(q) = p /\ q # p
    BY OtherPeer
  <1>2. /\ s' = [s EXCEPT ![p] = u] /\ wire' = [wire EXCEPT ![q] = w]
        /\ dgram' = [dgram EXCEPT ![q] = E]
    BY DEF SentAs
  <1> HIDE DEF q
  <1>3. /\ s'[p] = u /\ s'[q] = s[q] /\ dgram'[q] = E /\ dgram'[p] = dgram[p]
        /\ wire'[q] = w /\ wire'[p] = wire[p]
    BY <1>1, <1>2 DEF Base
  <1>4. OnTheWay(q)' = Way(u, w)
    BY <1>1, <1>3 DEF OnTheWay, Way
  <1>5. OnTheWay(p)' = wire'[p] \o s'[q].carrier
    BY DEF OnTheWay, q
  <1>6. OnTheWay(p)' = OnTheWay(p)
    BY <1>3, <1>5 DEF OnTheWay, q
  <1> QED BY <1>3, <1>4, <1>6 DEF q

\* The state after a lossless frame was received.
LEMMA ReceivedState ==
    ASSUME Base, NEW p \in Peer, NEW u, ReceivedAs(p, u)
    PROVE  LET q == Other(p) IN
           /\ s'[p] = u /\ s'[q] = s[q] /\ dgram' = dgram /\ setup' = setup
           /\ u.carrier = s[p].carrier /\ u.send = s[p].send /\ SessionOK(u)
           /\ Takes(s[p], OnTheWay(p)[1], u)
           /\ Shifts(OnTheWay(p), OnTheWay(p)') /\ OnTheWay(q)' = OnTheWay(q)
           /\ Head(wire[p]) = OnTheWay(p)[1]
           /\ wire' \in [Peer -> Seq(DataFrame)]
  <1> DEFINE q == Other(p)
             f == Head(wire[p])
  <1>1. q \in Peer /\ Other(q) = p /\ q # p
    BY OtherPeer
  <1>2. /\ s' = [s EXCEPT ![p] = u] /\ wire' = [wire EXCEPT ![p] = Tail(@)] /\ wire[p] # <<>>
        /\ dgram' = dgram /\ setup' = setup
        /\ Takes(s[p], f, u)
    BY DEF ReceivedAs, Takes
  <1>3. wire[p] \in Seq(DataFrame) /\ s[q].carrier \in Seq(DataFrame) /\ SessionOK(s[p])
    BY <1>1, WayOf
  <1> HIDE DEF q
  <1>4. /\ s'[p] = u /\ s'[q] = s[q] /\ wire'[p] = Tail(wire[p]) /\ wire'[q] = wire[q]
    BY <1>1, <1>2 DEF Base
  <1>5. /\ Shifts(wire[p] \o s[q].carrier, Tail(wire[p]) \o s[q].carrier)
        /\ Tail(wire[p]) \in Seq(DataFrame)
        /\ f = (wire[p] \o s[q].carrier)[1] /\ f \in DataFrame
    BY <1>2, <1>3, WayShifts
  <1>6. OnTheWay(p) = wire[p] \o s[q].carrier /\ OnTheWay(p)' = wire'[p] \o s'[q].carrier
    BY DEF OnTheWay, q
  <1>7. u.carrier = s[p].carrier /\ u.send = s[p].send
    BY <1>2 DEF Takes, Opened
  <1>8. OnTheWay(q)' = OnTheWay(q)
    BY <1>1, <1>4, <1>7 DEF OnTheWay
  <1>9. SessionOK(u)
    BY <1>2, <1>3, <1>5, TakesOK
  <1>10. wire' \in [Peer -> Seq(DataFrame)]
    BY <1>2, <1>5 DEF Base
  <1>11. Shifts(OnTheWay(p), OnTheWay(p)') /\ f = OnTheWay(p)[1]
    BY <1>4, <1>5, <1>6
  <1> HIDE DEF f
  <1>12. Takes(s[p], OnTheWay(p)[1], u) /\ Head(wire[p]) = OnTheWay(p)[1]
    BY <1>2, <1>11 DEF f
  <1> QED BY <1>2, <1>4, <1>7, <1>8, <1>9, <1>10, <1>11, <1>12 DEF q

\* The state after a datagram was received: it feeds the ratchet only.
LEMMA DatagramState ==
    ASSUME Base, NEW p \in Peer, NEW f \in dgram[p], NEW u, DatagramAs(p, f, u)
    PROVE  LET q == Other(p) IN
           /\ s'[p] = u /\ s'[q] = s[q] /\ dgram'[p] = dgram[p] \ {f} /\ dgram'[q] = dgram[q]
           /\ u.carrier = s[p].carrier /\ u.send = s[p].send /\ SessionOK(u)
           /\ u.pair = s[p].pair /\ u.peer_have = s[p].peer_have
           /\ u.peer_kem = s[p].peer_kem /\ u.peer_eph = s[p].peer_eph
           /\ u.recv = s[p].recv \/ Committed(s[p].recv, f, u.recv)
           /\ OnTheWay(p)' = OnTheWay(p) /\ OnTheWay(q)' = OnTheWay(q)
           /\ setup.lossy
  <1> DEFINE q == Other(p)
  <1>1. q \in Peer /\ Other(q) = p /\ q # p
    BY OtherPeer
  <1>2. /\ s' = [s EXCEPT ![p] = u] /\ wire' = wire /\ dgram' = [dgram EXCEPT ![p] = @ \ {f}]
        /\ Takes(s[p], f, u)
    BY DEF DatagramAs
  <1>3. SessionOK(s[p]) /\ f \in DataFrame /\ f.kind = "plain" /\ setup.lossy
    BY WayOf DEF Base
  <1> HIDE DEF q
  <1>4. s'[p] = u /\ s'[q] = s[q] /\ dgram'[p] = dgram[p] \ {f} /\ dgram'[q] = dgram[q]
    BY <1>1, <1>2 DEF Base
  <1>5. /\ u.carrier = s[p].carrier /\ u.send = s[p].send
        /\ u.pair = s[p].pair /\ u.peer_have = s[p].peer_have
        /\ u.peer_kem = s[p].peer_kem /\ u.peer_eph = s[p].peer_eph
        /\ u.recv = s[p].recv \/ Committed(s[p].recv, f, u.recv)
    BY <1>2, <1>3 DEF Takes, Opened
  <1>6. SessionOK(u)
    BY <1>2, <1>3, TakesOK
  <1>7. OnTheWay(q)' = OnTheWay(q)
    BY <1>1, <1>2, <1>4, <1>5 DEF OnTheWay
  <1>8. OnTheWay(p)' = wire'[p] \o s'[q].carrier /\ OnTheWay(p) = wire[p] \o s[q].carrier
    BY DEF OnTheWay, q
  <1>9. OnTheWay(p)' = OnTheWay(p)
    BY <1>2, <1>4, <1>8
  <1> QED BY <1>3, <1>4, <1>5, <1>6, <1>7, <1>9 DEF q

-----------------------------------------------------------------------------
(* Types                                                                   *)

\* A fresh session with its first frames behind it.
LEMMA StartSession ==
    ASSUME NEW p \in Peer
    PROVE  LET t == Exchanged(established(p)) IN
           /\ SessionOK(t) /\ t.carrier = <<>> /\ ~t.peer_have
           /\ t.send.root = 1 /\ t.send.base = 1 /\ t.send.seq = 1 + Before
           /\ t.recv.root = 1 /\ t.recv.base = 1 /\ t.recv.seq = 1 + Before
           /\ t.send.lab = IF p = 1 THEN "i" ELSE "r"
           /\ t.recv.lab = IF p = 1 THEN "r" ELSE "i"
  <1> DEFINE x == established(p)
             t == Exchanged(x)
             R(lab, n) == [root |-> 1, lab |-> lab, base |-> 1, seq |-> 1 + Before,
                           since_fold |-> n, skipped |-> <<>>]
             sl == IF p = 1 THEN "i" ELSE "r"
             rl == IF p = 1 THEN "r" ELSE "i"
  <1>1. Before \in Nat /\ 1 + Before \in Nat /\ 1 <= 1 + Before
    BY RekeyAssumption, RatchetAssumption
  <1>2. sl \in Label /\ rl \in Label
    BY DEF Label
  <1>3. <<>> \in Seq(Entry) /\ <<>> \in Seq(DataFrame) /\ Len(<<>>) = 0
    OBVIOUS
  <1>4. ASSUME NEW lab \in Label, NEW n \in Nat PROVE R(lab, n) \in RatchetState
    BY <1>1, <1>3 DEF RatchetState, Entry
  <1>5. t.send = R(sl, Before) /\ t.recv = R(rl, 0)
    <2>1. t.send = R(sl, Before)
      <3>1. x.send = ratchet_reset(1, sl)
        BY DEF established
      <3>2. t.send = [[x.send EXCEPT !.seq = 1 + Before] EXCEPT !.since_fold = Before]
        BY DEF Exchanged, established
      <3> HIDE DEF x, t, sl
      <3> DEFINE y == [x.send EXCEPT !.seq = 1 + Before]
      <3>3. y = [root |-> 1, lab |-> sl, base |-> 1, seq |-> 1 + Before, since_fold |-> 0,
                 skipped |-> <<>>]
        BY <3>1 DEF ratchet_reset
      <3>4. t.send = [y EXCEPT !.since_fold = Before]
        BY <3>2
      <3> HIDE DEF y
      <3> QED BY <3>3, <3>4
    <2>2. t.recv = R(rl, 0)
      <3>1. x.recv = ratchet_reset(1, rl)
        BY DEF established
      <3>2. t.recv = [x.recv EXCEPT !.seq = 1 + Before]
        BY DEF Exchanged, established
      <3> HIDE DEF x, t
      <3> QED BY <3>1, <3>2 DEF ratchet_reset
    <2> QED BY <2>1, <2>2
  <1>6. t.carrier = <<>> /\ t.peer_have = FALSE
    BY DEF Exchanged, established
  <1>7. t.send \in RatchetState /\ t.recv \in RatchetState
    <2> HIDE DEF t, x, sl, rl
    <2> QED BY <1>1, <1>2, <1>4, <1>5
  <1>8. t \in SessionType
    <2>1. x \in SessionType
      <3>1. ratchet_reset(1, sl) \in RatchetState /\ ratchet_reset(1, rl) \in RatchetState
        BY <1>2, <1>3 DEF ratchet_reset, RatchetState, Entry
      <3> HIDE DEF sl, rl
      <3>2. x = [send |-> ratchet_reset(1, sl), recv |-> ratchet_reset(1, rl), pair |-> 1,
                 peer_have |-> FALSE, peer_kem |-> 0, peer_eph |-> 0, rekey_due |-> FALSE,
                 awaiting_peer |-> FALSE, published |-> FALSE, post_fold_publish |-> FALSE,
                 publish_back |-> FALSE, carrier |-> <<>>]
        BY DEF established, NoKeys, sl, rl
      <3> HIDE DEF x
      <3> QED BY <1>3, <3>1, <3>2 DEF SessionType
    <2>2. t = [[[x EXCEPT !.send.seq = 1 + Before] EXCEPT !.send.since_fold = Before]
                  EXCEPT !.recv.seq = 1 + Before]
      BY DEF Exchanged
    <2> HIDE DEF t, x
    <2>3. ASSUME NEW y \in SessionType, NEW k \in Nat
          PROVE  /\ [y EXCEPT !.send.seq = k] \in SessionType
                 /\ [y EXCEPT !.send.since_fold = k] \in SessionType
                 /\ [y EXCEPT !.recv.seq = k] \in SessionType
      <3>1. ASSUME NEW r \in RatchetState
            PROVE  [r EXCEPT !.seq = k] \in RatchetState /\ [r EXCEPT !.since_fold = k] \in RatchetState
        BY DEF RatchetState
      <3>2. y.send \in RatchetState /\ y.recv \in RatchetState
        BY DEF SessionType
      <3>3. /\ [y.send EXCEPT !.seq = k] \in RatchetState
            /\ [y.send EXCEPT !.since_fold = k] \in RatchetState
            /\ [y.recv EXCEPT !.seq = k] \in RatchetState
        BY <3>1, <3>2
      <3>4. ASSUME NEW r \in RatchetState
            PROVE  [y EXCEPT !.send = r] \in SessionType /\ [y EXCEPT !.recv = r] \in SessionType
        BY DEF SessionType
      <3> QED BY <3>3, <3>4
    <2> QED BY <1>1, <2>1, <2>2, <2>3
  <1> HIDE DEF t, x, sl, rl
  <1>9. Exact(t.recv) /\ Len(t.recv.skipped) <= SkippedMax /\ t.send.base <= t.send.seq
    BY <1>1, <1>3, <1>5, RatchetAssumption DEF Exact, Spread
  <1>10. SessionOK(t)
    BY <1>3, <1>6, <1>8, <1>9 DEF SessionOK
  <1> QED BY <1>5, <1>6, <1>10 DEF t, x, sl, rl

\* It holds at the start.
LEMMA BaseInit == Init => Base
  <1> SUFFICES ASSUME Init PROVE Base
    OBVIOUS
  <1>1. \A p \in Peer : SessionOK(s[p]) /\ s[p].carrier = <<>>
    BY StartSession DEF Init
  <1>2. s \in [Peer -> SessionType]
    <2>1. \A p \in Peer : s[p] \in SessionType
      BY <1>1 DEF SessionOK
    <2> QED BY <2>1 DEF Init
  <1>3. setup.lossy \in BOOLEAN
    BY RekeyAssumption DEF Init, Setup
  <1>4. <<>> \in Seq(DataFrame)
    OBVIOUS
  <1> QED BY <1>1, <1>2, <1>3, <1>4 DEF Init, Base

\* And every step keeps it.
LEMMA BaseNext == Base /\ [Next]_vars => Base'
  <1> SUFFICES ASSUME Base, [Next]_vars PROVE Base'
    OBVIOUS
  <1>1. CASE UNCHANGED <<s, wire, dgram, fault, setup>>
    BY <1>1 DEF Base, SessionOK
  <1>2. ASSUME NEW p \in Peer, NEW u, NEW w, NEW E, SentAs(p, Other(p), u, w, E) PROVE Base'
    <2> DEFINE q == Other(p)
    <2>1. q \in Peer /\ q # p /\ \A x \in Peer : x = p \/ x = q
      BY OtherPeer
    <2>2. /\ s' = [s EXCEPT ![p] = u] /\ wire' = [wire EXCEPT ![q] = w]
          /\ dgram' = [dgram EXCEPT ![q] = E]
          /\ w \in Seq(DataFrame) /\ E \in SUBSET DataFrame /\ \A d \in E : d.kind = "plain"
          /\ ~setup.lossy => u.carrier = <<>> /\ E = {}
          /\ fault' = fault /\ setup' = setup /\ SessionOK(u)
      BY <1>2 DEF SentAs, Sends
    <2>3. /\ s'[p] = u /\ s'[q] = s[q] /\ dgram'[q] = E /\ dgram'[p] = dgram[p]
      BY <1>2, SentState
    <2> HIDE DEF q
    <2>4. u \in SessionType
      BY <2>2 DEF SessionOK
    <2>5. s' \in [Peer -> SessionType]
      BY <2>2, <2>4 DEF Base
    <2>6. \A x \in Peer : SessionOK(s'[x])
      BY <2>1, <2>2, <2>3 DEF Base
    <2>7. /\ wire' \in [Peer -> Seq(DataFrame)] /\ dgram' \in [Peer -> SUBSET DataFrame]
          /\ \A x \in Peer : \A d \in dgram'[x] : d.kind = "plain"
      BY <2>1, <2>2, <2>3 DEF Base
    <2>8. ~setup'.lossy => \A x \in Peer : s'[x].carrier = <<>> /\ dgram'[x] = {}
      BY <2>1, <2>2, <2>3 DEF Base
    <2>9. (\A x \in Peer : SessionOK(s[x]))'
      BY <2>6
    <2> QED BY <2>2, <2>5, <2>7, <2>8, <2>9 DEF Base
  <1>3. ASSUME NEW p \in Peer, NEW u, ReceivedAs(p, u) PROVE Base'
    <2> DEFINE q == Other(p)
    <2>1. q \in Peer /\ q # p /\ \A x \in Peer : x = p \/ x = q
      BY OtherPeer
    <2>2. /\ s'[p] = u /\ s'[q] = s[q] /\ dgram' = dgram /\ setup' = setup
          /\ u.carrier = s[p].carrier /\ SessionOK(u) /\ wire' \in [Peer -> Seq(DataFrame)]
      BY <1>3, ReceivedState
    <2>3. s' = [s EXCEPT ![p] = u] /\ u \in SessionType
      BY <1>3, <2>2 DEF ReceivedAs, SessionOK
    <2>4. fault' \in [Peer -> {"none", "restart", "ignored"}]
      <3>1. \A v : Recovery(v) \in {"none", "restart", "ignored"}
        BY DEF Recovery
      <3>2. fault' = fault \/ \E v : fault' = [fault EXCEPT ![p] = Recovery(v)]
        BY <1>3 DEF ReceivedAs
      <3> QED BY <3>1, <3>2 DEF Base
    <2> HIDE DEF q
    <2>5. s' \in [Peer -> SessionType]
      BY <2>3 DEF Base
    <2>6. \A x \in Peer : SessionOK(s'[x])
      BY <2>1, <2>2 DEF Base
    <2>7. ~setup.lossy => \A x \in Peer : s'[x].carrier = <<>>
      BY <2>1, <2>2 DEF Base
    <2>8. (\A x \in Peer : SessionOK(s[x]))'
      BY <2>6
    <2> QED BY <2>2, <2>4, <2>5, <2>7, <2>8 DEF Base
  <1>4. ASSUME NEW p \in Peer, NEW f \in dgram[p], NEW u, DatagramAs(p, f, u) PROVE Base'
    <2> DEFINE q == Other(p)
    <2>1. q \in Peer /\ q # p /\ \A x \in Peer : x = p \/ x = q
      BY OtherPeer
    <2>2. /\ s'[p] = u /\ s'[q] = s[q] /\ dgram'[p] = dgram[p] \ {f} /\ dgram'[q] = dgram[q]
          /\ SessionOK(u) /\ setup.lossy
      BY <1>4, DatagramState
    <2>3. /\ s' = [s EXCEPT ![p] = u] /\ u \in SessionType
          /\ wire' = wire /\ fault' = fault /\ setup' = setup
          /\ dgram' = [dgram EXCEPT ![p] = dgram[p] \ {f}]
      BY <1>4, <2>2 DEF DatagramAs, SessionOK, Base
    <2> HIDE DEF q
    <2>4. s' \in [Peer -> SessionType]
      BY <2>3 DEF Base
    <2>5. \A x \in Peer : SessionOK(s'[x])
      BY <2>1, <2>2 DEF Base
    <2>6. /\ dgram' \in [Peer -> SUBSET DataFrame]
          /\ \A x \in Peer : \A d \in dgram'[x] : d.kind = "plain"
      BY <2>1, <2>2, <2>3 DEF Base
    <2>7. (\A x \in Peer : SessionOK(s[x]))'
      BY <2>5
    <2> QED BY <2>2, <2>3, <2>4, <2>6, <2>7 DEF Base
  <1> QED BY <1>1, <1>2, <1>3, <1>4, StepKinds DEF SentBy

\* Types of the session, whatever the traffic: at most one carrier is ever parked, and the
\* skipped-key store never holds more keys than its array.
THEOREM TypeCorrect == Spec => []TypeOK
  <1>1. Base => TypeOK
    BY DEF Base, TypeOK, SessionOK
  <1> QED BY <1>1, BaseInit, BaseNext, PTL DEF Spec

-----------------------------------------------------------------------------
(* The pairs of keys                                                       *)

\* A REKEY never crosses a publication of the pair it is made for.  A peer publishes its
\* pair a second time when it falls due again (RekeyEvery frames) while the other one's fold
\* is still on the way; that publication then arrives after the pair was retired.
NoCrossing == \A p \in Peer : Apart(OnTheWay(Other(p)), OnTheWay(p))

\* Both peers' pairs.
PairsHeld ==
    \A p \in Peer : Held(s[p], OnTheWay(Other(p)), s[Other(p)], OnTheWay(p))

\* Nothing is on the way at first.
LEMMA HeldInit == Init => PairsHeld
  <1> SUFFICES ASSUME Init, NEW p \in Peer
               PROVE  Held(s[p], OnTheWay(Other(p)), s[Other(p)], OnTheWay(p))
    BY DEF PairsHeld
  <1>1. Other(p) \in Peer /\ Other(Other(p)) = p
    BY OtherPeer
  <1>2. \A x \in Peer : wire[x] = <<>> /\ s[x].carrier = <<>> /\ ~s[x].peer_have
    BY StartSession DEF Init
  <1>3. OnTheWay(p) = <<>> /\ OnTheWay(Other(p)) = <<>>
    <2>1. <<>> \o <<>> = <<>>
      OBVIOUS
    <2> QED BY <1>1, <1>2, <2>1 DEF OnTheWay
  <1>4. Len(<<>>) = 0
    OBVIOUS
  <1> QED BY <1>1, <1>2, <1>3, <1>4 DEF Held

\* As long as no fold crosses a publication, every step keeps them.
LEMMA HeldNext == Base /\ PairsHeld /\ NoCrossing /\ [Next]_vars => PairsHeld'
  <1> SUFFICES ASSUME Base, PairsHeld, NoCrossing, [Next]_vars PROVE PairsHeld'
    OBVIOUS
  <1>1. ASSUME NEW p \in Peer,
               Held(s'[p], OnTheWay(Other(p))', s'[Other(p)], OnTheWay(p)'),
               Held(s'[Other(p)], OnTheWay(p)', s'[p], OnTheWay(Other(p))')
        PROVE  PairsHeld'
    <2>1. Other(p) \in Peer /\ Other(Other(p)) = p /\ \A q \in Peer : q = p \/ q = Other(p)
      BY OtherPeer
    <2>2. \A q \in Peer : Held(s'[q], OnTheWay(Other(q))', s'[Other(q)], OnTheWay(q)')
      BY <1>1, <2>1
    <2> QED BY <2>2 DEF PairsHeld, Held
  <1>2. ASSUME NEW p \in Peer
        PROVE  /\ Held(s[p], OnTheWay(Other(p)), s[Other(p)], OnTheWay(p))
               /\ Held(s[Other(p)], OnTheWay(p), s[p], OnTheWay(Other(p)))
               /\ Apart(OnTheWay(Other(p)), OnTheWay(p)) /\ Apart(OnTheWay(p), OnTheWay(Other(p)))
    BY OtherPeer DEF PairsHeld, NoCrossing
  <1>3. CASE UNCHANGED <<s, wire, dgram, fault, setup>>
    <2>1. 1 \in Peer
      BY DEF Peer
    <2>2. s' = s /\ OnTheWay(1)' = OnTheWay(1) /\ OnTheWay(Other(1))' = OnTheWay(Other(1))
      BY <1>3 DEF OnTheWay
    <2> QED BY <1>1, <1>2, <2>1, <2>2
  <1>4. ASSUME NEW p \in Peer, NEW u, NEW w, NEW E, SentAs(p, Other(p), u, w, E) PROVE PairsHeld'
    <2> DEFINE q == Other(p)
    <2>1. /\ s'[p] = u /\ s'[q] = s[q]
          /\ OnTheWay(q)' = Way(u, w) /\ OnTheWay(p)' = OnTheWay(p)
      BY <1>4, SentState
    <2>2. Sends(s[p], OnTheWay(q), u, Way(u, w), dgram[q], E, setup.lossy)
      BY <1>4 DEF SentAs
    <2>3. OnTheWay(p) \in Seq(DataFrame) /\ OnTheWay(q) \in Seq(DataFrame)
      BY WayOf
    <2>4. Held(u, Way(u, w), s[q], OnTheWay(p)) /\ Held(s[q], OnTheWay(p), u, Way(u, w))
      BY <1>2, <2>2, <2>3, SendsHeld
    <2> QED BY <1>1, <2>1, <2>4
  <1>5. ASSUME NEW p \in Peer, NEW u, ReceivedAs(p, u) PROVE PairsHeld'
    <2> DEFINE q == Other(p)
    <2>1. /\ s'[p] = u /\ s'[q] = s[q] /\ Takes(s[p], OnTheWay(p)[1], u)
          /\ Shifts(OnTheWay(p), OnTheWay(p)') /\ OnTheWay(q)' = OnTheWay(q)
      BY <1>5, ReceivedState
    <2>2. OnTheWay(q) \in Seq(DataFrame)
      BY WayOf
    <2>3. Held(s[q], OnTheWay(p)', u, OnTheWay(q)) /\ Held(u, OnTheWay(q), s[q], OnTheWay(p)')
      BY <1>2, <2>1, <2>2, HeldTakes
    <2> QED BY <1>1, <2>1, <2>3
  <1>6. ASSUME NEW p \in Peer, NEW f \in dgram[p], NEW u, DatagramAs(p, f, u) PROVE PairsHeld'
    <2> DEFINE q == Other(p)
    <2>1. /\ s'[p] = u /\ s'[q] = s[q] /\ OnTheWay(p)' = OnTheWay(p) /\ OnTheWay(q)' = OnTheWay(q)
          /\ u.pair = s[p].pair /\ u.peer_have = s[p].peer_have
          /\ u.peer_kem = s[p].peer_kem /\ u.peer_eph = s[p].peer_eph
      BY <1>6, DatagramState
    <2>2. Held(u, OnTheWay(q), s[q], OnTheWay(p)) /\ Held(s[q], OnTheWay(p), u, OnTheWay(q))
      BY <1>2, <2>1 DEF Held
    <2> QED BY <1>1, <2>1, <2>2
  <1> QED BY <1>3, <1>4, <1>5, <1>6, StepKinds DEF SentBy

\* They are what the property says.
LEMMA HeldTargets == Base /\ PairsHeld => FoldTargetsLivePair
  <1> SUFFICES ASSUME Base, PairsHeld, NEW p \in Peer, NEW i \in 1..Len(OnTheWay(p)),
                      OnTheWay(p)[i].kind = "REKEY"
               PROVE  LET n == Cardinality({j \in 1..(i - 1) : OnTheWay(p)[j].kind = "REKEY"})
                      IN  OnTheWay(p)[i].kem = s[p].pair + n /\ OnTheWay(p)[i].eph = s[p].pair + n
    BY DEF FoldTargetsLivePair
  <1>1. /\ OnTheWay(p)[i].kem = s[p].pair /\ OnTheWay(p)[i].eph = s[p].pair
        /\ \A j \in 1..Len(OnTheWay(p)) : OnTheWay(p)[j].kind = "REKEY" => j = i
    BY DEF PairsHeld, Held
  <1>2. s[p].pair \in Nat /\ Len(OnTheWay(p)) \in Nat
    BY WayOf DEF SessionType
  <1>3. {j \in 1..(i - 1) : OnTheWay(p)[j].kind = "REKEY"} = {}
    <2> SUFFICES ASSUME NEW j \in 1..(i - 1), OnTheWay(p)[j].kind = "REKEY" PROVE FALSE
      OBVIOUS
    <2>1. j \in 1..Len(OnTheWay(p)) /\ j # i
      BY <1>2
    <2> QED BY <1>1, <2>1
  <1>4. Cardinality({}) = 0
    BY FS_EmptySet
  <1> DEFINE n == Cardinality({j \in 1..(i - 1) : OnTheWay(p)[j].kind = "REKEY"})
  <1>5. n = 0
    BY <1>3, <1>4
  <1> HIDE DEF n
  <1>6. OnTheWay(p)[i].kem = s[p].pair + n /\ OnTheWay(p)[i].eph = s[p].pair + n
    BY <1>1, <1>2, <1>5
  <1> QED BY <1>6 DEF n

\* Every REKEY that is parked or on the wire is made for the pair its receiver holds when it
\* arrives, on tunnels and chats, with whatever is lost, parked or reordered: as long as no
\* REKEY crosses a second publication of that pair.
THEOREM FoldsTargetLivePairs == Spec /\ []NoCrossing => []FoldTargetsLivePair
  <1>1. Init => Base /\ PairsHeld
    BY BaseInit, HeldInit
  <1>2. Base /\ PairsHeld /\ NoCrossing /\ [Next]_vars => Base' /\ PairsHeld'
    BY BaseNext, HeldNext
  <1> QED BY <1>1, <1>2, HeldTargets, PTL DEF Spec

-----------------------------------------------------------------------------
(* The chains                                                              *)

\* On a tunnel the datagrams do not run away from the lossless frames: no lossless frame is
\* MaxSkip ahead of its receiver, and none was passed by more than the SkippedMax keys
\* that the receiver can store (an older key is gone, and the frame with it).
KeptUp ==
    setup.lossy =>
        /\ BeyondSkipReinits
        /\ \A p \in Peer : \A i \in 1..Len(OnTheWay(p)) :
              s[p].recv.seq - OnTheWay(p)[i].seq <= SkippedMax + 1

\* Both directions.
AllAligned ==
    \A p \in Peer : Align(s[p].send, s[Other(p)].recv, OnTheWay(Other(p)), dgram[Other(p)],
                          setup.lossy)

\* The two sides of a fresh session start on one chain in each direction.
LEMMA AlignInit == Init => AllAligned
  <1> SUFFICES ASSUME Init, NEW p \in Peer
               PROVE  Align(s[p].send, s[Other(p)].recv, OnTheWay(Other(p)), dgram[Other(p)],
                            setup.lossy)
    BY DEF AllAligned
  <1> DEFINE q == Other(p)
             T == s[p].send
             R == s[q].recv
  <1>1. q \in Peer /\ Other(q) = p /\ (q = 1 <=> p # 1)
    BY DEF Peer, Other
  <1>2. /\ T.root = 1 /\ T.base = 1 /\ T.seq = 1 + Before
        /\ R.root = 1 /\ R.base = 1 /\ R.seq = 1 + Before
        /\ T.lab = IF p = 1 THEN "i" ELSE "r"
        /\ R.lab = IF q = 1 THEN "r" ELSE "i"
    BY <1>1, StartSession DEF Init
  <1>3. OnTheWay(q) = <<>> /\ dgram[q] = {}
    <2>1. <<>> \o <<>> = <<>>
      OBVIOUS
    <2>2. wire[q] = <<>> /\ s[p].carrier = <<>> /\ dgram[q] = {}
      BY <1>1, StartSession DEF Init
    <2> QED BY <1>1, <2>1, <2>2 DEF OnTheWay
  <1>4. Len(<<>>) = 0 /\ Before \in Nat
    BY RekeyAssumption, RatchetAssumption
  <1> HIDE DEF q, T, R
  <1>5. T.lab = R.lab /\ R.seq <= T.seq
    BY <1>1, <1>2, <1>4
  <1>6. Align(T, R, <<>>, {}, setup.lossy)
    BY <1>2, <1>4, <1>5 DEF Align, InOrder, Ahead, OneChain, OneFoldAtMost, Has
  <1> QED BY <1>3, <1>6 DEF q, T, R

\* Every step keeps them there, and no frame fails to open.
LEMMA AlignNext ==
    Base /\ PairsHeld /\ AllAligned /\ NoDesync /\ KeptUp' /\ [Next]_vars
        => AllAligned' /\ NoDesync'
  <1> SUFFICES ASSUME Base, PairsHeld, AllAligned, NoDesync, KeptUp', [Next]_vars
               PROVE  AllAligned' /\ NoDesync'
    OBVIOUS
  <1>1. ASSUME NEW p \in Peer,
               Align(s'[p].send, s'[Other(p)].recv, OnTheWay(Other(p))', dgram'[Other(p)], setup'.lossy),
               Align(s'[Other(p)].send, s'[p].recv, OnTheWay(p)', dgram'[p], setup'.lossy)
        PROVE  AllAligned'
    <2>1. Other(p) \in Peer /\ Other(Other(p)) = p /\ \A q \in Peer : q = p \/ q = Other(p)
      BY OtherPeer
    <2>2. \A q \in Peer :
             Align(s'[q].send, s'[Other(q)].recv, OnTheWay(Other(q))', dgram'[Other(q)], setup'.lossy)
      BY <1>1, <2>1
    <2> QED BY <2>2 DEF AllAligned, Align, InOrder, Ahead, OneChain, OneFoldAtMost, Placed, Stalled
  <1>2. ASSUME NEW p \in Peer
        PROVE  /\ Held(s[p], OnTheWay(Other(p)), s[Other(p)], OnTheWay(p))
               /\ Held(s[Other(p)], OnTheWay(p), s[p], OnTheWay(Other(p)))
               /\ Align(s[p].send, s[Other(p)].recv, OnTheWay(Other(p)), dgram[Other(p)], setup.lossy)
               /\ Align(s[Other(p)].send, s[p].recv, OnTheWay(p), dgram[p], setup.lossy)
    BY OtherPeer DEF PairsHeld, AllAligned
  <1>3. fault' = fault => NoDesync'
    BY DEF NoDesync
  <1>4. ASSUME NEW p \in Peer, setup'.lossy
        PROVE  \A i \in 1..Len(OnTheWay(p)') : s'[p].recv.seq - OnTheWay(p)'[i].seq <= SkippedMax + 1
    BY <1>4 DEF KeptUp
  <1>5. CASE UNCHANGED <<s, wire, dgram, fault, setup>>
    <2>1. 1 \in Peer
      BY DEF Peer
    <2>2. /\ s' = s /\ dgram' = dgram /\ setup' = setup /\ fault' = fault
          /\ OnTheWay(1)' = OnTheWay(1) /\ OnTheWay(Other(1))' = OnTheWay(Other(1))
      BY <1>5 DEF OnTheWay
    <2> QED BY <1>1, <1>2, <1>3, <2>1, <2>2
  <1>6. ASSUME NEW p \in Peer, NEW u, NEW w, NEW E, SentAs(p, Other(p), u, w, E)
        PROVE  AllAligned' /\ NoDesync'
    <2> DEFINE q == Other(p)
    <2>1. /\ s'[p] = u /\ s'[q] = s[q] /\ dgram'[q] = E /\ dgram'[p] = dgram[p]
          /\ OnTheWay(q)' = Way(u, w) /\ OnTheWay(p)' = OnTheWay(p)
      BY <1>6, SentState
    <2>2. /\ Sends(s[p], OnTheWay(q), u, Way(u, w), dgram[q], E, setup.lossy)
          /\ fault' = fault /\ setup' = setup
      BY <1>6 DEF SentAs
    <2>3. /\ OnTheWay(p) \in Seq(DataFrame) /\ OnTheWay(q) \in Seq(DataFrame)
          /\ SessionOK(s[p]) /\ SessionOK(s[q]) /\ dgram[q] \in SUBSET DataFrame
      BY WayOf
    <2>4. Align(u.send, s[q].recv, Way(u, w), E, setup.lossy)
      BY <1>2, <2>2, <2>3, SendsAlign
    <2>5. u.recv = s[p].recv
      BY <2>2, SendsRecv
    <2> QED BY <1>1, <1>2, <1>3, <2>1, <2>2, <2>4, <2>5
  <1>7. ASSUME NEW p \in Peer, NEW u, ReceivedAs(p, u) PROVE AllAligned' /\ NoDesync'
    <2> DEFINE q == Other(p)
               T == s[q].send
               R == s[p].recv
               W == OnTheWay(p)
               X == OnTheWay(p)'
               D == dgram[p]
    <2>1. /\ s'[p] = u /\ s'[q] = s[q] /\ dgram' = dgram /\ setup' = setup
          /\ u.send = s[p].send /\ Shifts(W, X) /\ OnTheWay(q)' = OnTheWay(q)
          /\ Head(wire[p]) = W[1]
      BY <1>7, ReceivedState
    <2>2. q \in Peer /\ SessionOK(s[p]) /\ SessionOK(s[q]) /\ W \in Seq(DataFrame) /\ D \in SUBSET DataFrame
      BY OtherPeer, WayOf
    <2>3. Numbers(T, R, W, D) /\ R \in RatchetState
      BY <2>2, NumbersOK
    <2>4. Align(T, R, W, D, setup.lossy) /\ Held(s[p], OnTheWay(q), s[q], W) /\ Exact(R)
          /\ 1 \in 1..Len(W)
      BY <1>2, <2>1, <2>2 DEF SessionOK, Shifts
    <2>5. \/ Verdict(R, W[1]) \in {"OK", "OK_RING"} /\ OneChain(T, R, W, D)
          \/ Verdict(R, W[1]) = "TOO_OLD" /\ W[1].seq >= R.seq + MaxSkip
      BY <2>3, <2>4, FirstVerdict
    <2>6. CASE Verdict(R, W[1]) \in {"OK", "OK_RING"}
      <3>1. Opens(s[p], Head(wire[p]))
        BY <2>1, <2>6 DEF Opens
      <3>2. Opened(s[p], W[1], u) /\ fault' = fault
        BY <1>7, <2>1, <3>1 DEF ReceivedAs
      <3>3. OneChain(T, R, W, D)
        BY <2>5, <2>6
      <3>4. setup.lossy => \A i \in 1..Len(X) : u.recv.seq - X[i].seq <= SkippedMax + 1
        BY <1>4, <2>1
      <3>5. Align(T, u.recv, X, D, setup.lossy)
        BY <2>1, <2>3, <2>4, <3>2, <3>3, <3>4, AlignOpened
      <3> QED BY <1>1, <1>2, <1>3, <2>1, <3>2, <3>5
    <2>7. CASE Verdict(R, W[1]) = "TOO_OLD" /\ W[1].seq >= R.seq + MaxSkip
      <3>1. ~Opens(s[p], Head(wire[p]))
        BY <2>1, <2>7 DEF Opens
      <3>2. u = s[p] /\ fault' = [fault EXCEPT ![p] = "ignored"]
        BY <1>7, <2>1, <2>7, <3>1 DEF ReceivedAs, Recovery
      <3>3. fault'[p] = "ignored"
        BY <3>2 DEF Base
      <3>4. ~setup.lossy
        BY <2>1, <3>3 DEF KeptUp, BeyondSkipReinits
      <3>5. setup.lossy = FALSE
        BY <3>4 DEF Base
      <3>6. Align(T, R, X, D, FALSE)
        BY <2>1, <2>3, <2>4, <2>7, <3>5, AlignPassesOver
      <3>7. NoDesync'
        BY <3>2 DEF NoDesync, Base
      <3> QED BY <1>1, <1>2, <2>1, <3>2, <3>5, <3>6, <3>7
    <2> QED BY <2>5, <2>6, <2>7
  <1>8. ASSUME NEW p \in Peer, NEW f \in dgram[p], NEW u, DatagramAs(p, f, u)
        PROVE  AllAligned' /\ NoDesync'
    <2> DEFINE q == Other(p)
               T == s[q].send
               R == s[p].recv
               W == OnTheWay(p)
               D == dgram[p]
    <2>1. /\ s'[p] = u /\ s'[q] = s[q] /\ dgram'[p] = D \ {f} /\ dgram'[q] = dgram[q]
          /\ u.send = s[p].send /\ (u.recv = R \/ Committed(R, f, u.recv))
          /\ OnTheWay(p)' = W /\ OnTheWay(q)' = OnTheWay(q) /\ setup.lossy
      BY <1>8, DatagramState
    <2>2. fault' = fault /\ setup' = setup
      BY <1>8 DEF DatagramAs
    <2>3. q \in Peer /\ SessionOK(s[p]) /\ SessionOK(s[q]) /\ W \in Seq(DataFrame) /\ D \in SUBSET DataFrame
      BY OtherPeer, WayOf
    <2>4. Numbers(T, R, W, D)
      BY <2>3, NumbersOK
    <2>5. Align(T, R, W, D, TRUE)
      BY <1>2, <2>1 DEF Base
    <2>6. \A i \in 1..Len(W) : u.recv.seq - W[i].seq <= SkippedMax + 1
      BY <1>4, <2>1, <2>2
    <2>7. Align(T, u.recv, W, D \ {f}, TRUE)
      <3>1. CASE u.recv = R
        BY <2>5, <3>1, AlignDropped
      <3>2. CASE Committed(R, f, u.recv)
        BY <2>4, <2>5, <2>6, <3>2, AlignDatagramOpened
      <3> QED BY <2>1, <3>1, <3>2
    <2>8. setup.lossy = TRUE
      BY <2>1 DEF Base
    <2> QED BY <1>1, <1>2, <1>3, <2>1, <2>2, <2>7, <2>8
  <1> QED BY <1>5, <1>6, <1>7, <1>8, StepKinds DEF SentBy

\* No lossless frame ever fails to open, for every interleaving of the two peers' re-keys,
\* every loss and reordering of datagrams and every queue that parks the carriers: as long
\* as no REKEY crosses a second publication, and on a tunnel the datagrams do not run away.
THEOREM NoDesyncHolds == Spec /\ []NoCrossing /\ []KeptUp => []NoDesync
  <1>1. Init => Base /\ PairsHeld /\ AllAligned /\ NoDesync
    <2>1. Init => NoDesync
      BY DEF Init, NoDesync
    <2> QED BY <2>1, BaseInit, HeldInit, AlignInit
  <1>2. Base /\ PairsHeld /\ AllAligned /\ NoDesync /\ NoCrossing /\ KeptUp' /\ [Next]_vars
          => Base' /\ PairsHeld' /\ AllAligned' /\ NoDesync'
    BY BaseNext, HeldNext, AlignNext
  <1> QED BY <1>1, <1>2, PTL DEF Spec

\* A chat needs the first condition only: texts whose header does not fit may lose
\* any number of chain steps.
THEOREM ChatNoDesync == Spec /\ [](~setup.lossy) /\ []NoCrossing => []NoDesync
  <1>1. ~setup.lossy => KeptUp
    BY DEF KeptUp
  <1> QED BY <1>1, NoDesyncHolds, PTL
=============================================================================
