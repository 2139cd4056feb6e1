------------------------- MODULE OfflineQueueProofs -------------------------
(***************************************************************************)
(* The offline queue implements TextQueue and keeps the order of typing,   *)
(* for any number of friends, any limit and any number of texts, flushes,  *)
(* restarts and crashes.                                                   *)
(***************************************************************************)
EXTENDS OfflineQueue, QueueLemmas, FiniteSetTheorems

Slots == 0..(Limit - 1)
Ring == [msgs : [Slots -> Nat], head : Slots, count : 0..Limit]
Token == [fn : 0..Friends, text : Nat]

\* The limit is positive, and so is the number of friends.
LEMMA Constants == Limit \in Nat \ {0} /\ Friends \in Nat \ {0}
  BY QueueAssumption

-----------------------------------------------------------------------------
(* The rings                                                               *)

\* The texts of a ring are a sequence as long as its count.
LEMMA TextsType ==
    ASSUME NEW r \in Ring
    PROVE  /\ Texts(r) \in Seq(Nat)
           /\ Len(Texts(r)) = r.count
           /\ \A i \in 1..r.count : Texts(r)[i] = r.msgs[(r.head + i - 1) % Limit]
           /\ r.count \in 0..Limit
  <1>1. Limit \in Nat \ {0} /\ r.head \in 0..(Limit - 1) /\ r.count \in 0..Limit
    BY Constants DEF Ring, Slots
  <1>2. \A i \in 1..r.count : (r.head + i - 1) % Limit \in Slots
    BY <1>1 DEF Slots
  <1>3. \A i \in 1..r.count : r.msgs[(r.head + i - 1) % Limit] \in Nat
    BY <1>2 DEF Ring
  <1> DEFINE n == r.count
             s == [i \in 1..n |-> r.msgs[(r.head + i - 1) % Limit]]
  <1>4. Texts(r) = s
    BY DEF Texts
  <1>5. n \in Nat /\ s \in [1..n -> Nat]
    BY <1>1, <1>3
  <1>6. s \in Seq(Nat) /\ Len(s) = n
    <2> HIDE DEF n, s
    <2> QED BY <1>5, FunctionIsSeq
  <1> QED BY <1>1, <1>4, <1>6

\* An empty ring.
LEMMA EmptyRingOK == EmptyRing \in Ring /\ EmptyRing.count = 0
  BY Constants DEF EmptyRing, Ring, Slots, Free

\* tt_oq_take_all empties the ring.
LEMMA TakeAllOK ==
    ASSUME NEW r \in Ring
    PROVE  tt_oq_take_all(r) \in Ring /\ tt_oq_take_all(r).count = 0
  <1>1. Limit \in Nat \ {0} /\ r.head \in 0..(Limit - 1) /\ r.count \in 0..Limit
    BY Constants DEF Ring, Slots
  <1>2. (r.head + r.count) % Limit \in Slots
    BY <1>1 DEF Slots
  <1> QED BY <1>1, <1>2 DEF tt_oq_take_all, Ring

\* tt_oq_add puts the text behind the others, in a full ring at the cost of the
\* oldest.
LEMMA AddOK ==
    ASSUME NEW r \in Ring, NEW text \in Nat
    PROVE  /\ tt_oq_add(r, text) \in Ring
           /\ Texts(tt_oq_add(r, text))
                = Append(IF r.count = Limit THEN Tail(Texts(r)) ELSE Texts(r), text)
  <1> DEFINE new  == tt_oq_add(r, text)
             full == r.count = Limit
             head == IF full THEN (r.head + 1) % Limit ELSE r.head
             n    == IF full THEN r.count - 1 ELSE r.count
             at   == (head + n) % Limit
             rest == IF full THEN Tail(Texts(r)) ELSE Texts(r)
  <1>1. Limit \in Nat \ {0} /\ r.head \in 0..(Limit - 1) /\ r.count \in 0..Limit
    BY Constants DEF Ring, Slots
  <1>2. head \in 0..(Limit - 1) /\ n \in 0..(Limit - 1)
    BY <1>1
  <1>3. at \in Slots
    <2> HIDE DEF head, n
    <2> QED BY <1>1, <1>2 DEF Slots
  <1>4. new = [msgs |-> [r.msgs EXCEPT ![at] = text], head |-> head, count |-> n + 1]
    BY DEF tt_oq_add
  <1>5. /\ new \in Ring /\ new.head = head /\ new.count = n + 1
        /\ new.msgs = [r.msgs EXCEPT ![at] = text]
    <2> HIDE DEF new, head, n, at
    <2> QED BY <1>1, <1>2, <1>3, <1>4 DEF Ring, Slots
  <1>6. rest \in Seq(Nat) /\ Len(rest) = n
    BY <1>1, TextsType
  <1>7. \A i \in 1..n : rest[i] = r.msgs[(head + (i - 1)) % Limit]
    <2>1. CASE ~full
      BY <2>1, <1>1, TextsType
    <2>2. CASE full
      <3> SUFFICES ASSUME NEW i \in 1..n
                   PROVE  rest[i] = r.msgs[(head + (i - 1)) % Limit]
        OBVIOUS
      <3>1. rest[i] = Texts(r)[i + 1] /\ i + 1 \in 1..r.count
        BY <2>2, <1>1, TextsType
      <3>2. rest[i] = r.msgs[(r.head + (i + 1) - 1) % Limit]
        BY <3>1, TextsType
      <3>3. /\ 1 \in 0..Limit /\ i - 1 \in 0..Limit /\ (i - 1) + 1 <= Limit
            /\ r.head + (i + 1) - 1 = r.head + ((i - 1) + 1)
        BY <2>2, <1>1
      <3>4. (((r.head + 1) % Limit) + (i - 1)) % Limit = (r.head + ((i - 1) + 1)) % Limit
        BY <1>1, <3>3, HeadMoves, Zenon
      <3> QED BY <2>2, <3>2, <3>3, <3>4
    <2> QED BY <2>1, <2>2
  <1> HIDE DEF new, head, n, at, rest
  <1>8. ASSUME NEW i \in 1..(n + 1)
        PROVE  Texts(new)[i] = Append(rest, text)[i]
    <2>1. Texts(new)[i] = new.msgs[(head + i - 1) % Limit] /\ head + i - 1 = head + (i - 1)
      BY <1>2, <1>5, TextsType
    <2>2. CASE i = n + 1
      <3>1. (head + i - 1) % Limit = at
        BY <2>2, <1>2 DEF at
      <3> QED BY <2>1, <2>2, <3>1, <1>3, <1>5, <1>6 DEF Ring
    <2>3. CASE i # n + 1
      <3>1. i \in 1..n /\ i - 1 \in 0..(Limit - 1) /\ i - 1 # n
        BY <2>3, <1>1, <1>2
      <3>2. (head + (i - 1)) % Limit # at
        BY <1>1, <1>2, <3>1, PlacesDiffer DEF at
      <3>3. (head + (i - 1)) % Limit \in Slots
        BY <1>1, <1>2, <3>1 DEF Slots
      <3>4. Texts(new)[i] = r.msgs[(head + (i - 1)) % Limit]
        BY <2>1, <3>2, <3>3, <1>5 DEF Ring
      <3> QED BY <3>1, <3>4, <1>6, <1>7
    <2> QED BY <2>2, <2>3
  <1>9. /\ Texts(new) \in Seq(Nat) /\ Append(rest, text) \in Seq(Nat)
        /\ Len(Texts(new)) = n + 1 /\ Len(Append(rest, text)) = n + 1
    BY <1>5, <1>6, TextsType
  <1>10. Texts(new) = Append(rest, text)
    BY <1>8, <1>9
  <1> QED BY <1>5, <1>10 DEF new, rest

\* Up to Limit texts added to an empty ring are its texts.
LEMMA AddAllOK ==
    ASSUME NEW r \in Ring, r.count = 0, NEW texts \in Seq(Nat), Len(texts) <= Limit
    PROVE  AddAll(r, texts) \in Ring /\ Texts(AddAll(r, texts)) = texts
  <1> DEFINE n == Len(texts)
             step == [x \in Ring \X (1..n) |-> tt_oq_add(x[1], texts[x[2]])]
             Def(g) == [i \in 0..n |-> IF i = 0 THEN r ELSE tt_oq_add(g[i - 1], texts[i])]
             F == CHOOSE g : g = Def(g)
             Good == {i \in 0..n : F[i] \in Ring /\ Texts(F[i]) = SubSeq(texts, 1, i)}
  <1>0. n \in Nat /\ n <= Limit /\ Limit \in Nat
    BY Constants
  <1>1. step \in [Ring \X (1..n) -> Ring]
    <2>1. ASSUME NEW x \in Ring \X (1..n)
          PROVE  tt_oq_add(x[1], texts[x[2]]) \in Ring
      <3>1. x[1] \in Ring /\ texts[x[2]] \in Nat
        OBVIOUS
      <3> QED BY <3>1, AddOK
    <2> QED BY <2>1
  <1>2. PICK f : IsRecursive(f, n, Ring, r, step)
    <2> HIDE DEF n, step
    <2> QED BY <1>0, <1>1, Recursion
  <1>3. f = Def(f)
    <2>0. f \in [0..n -> Ring] /\ f[0] = r /\ \A i \in 1..n : f[i] = step[<<f[i - 1], i>>]
      BY <1>2 DEF IsRecursive
    <2>1. ASSUME NEW i \in 1..n
          PROVE  f[i] = tt_oq_add(f[i - 1], texts[i])
      <3>1. <<f[i - 1], i>> \in Ring \X (1..n)
        BY <1>0, <2>0
      <3> QED BY <2>0, <3>1
    <2>2. \A i \in 0..n : f[i] = IF i = 0 THEN r ELSE tt_oq_add(f[i - 1], texts[i])
      BY <2>1, <1>0, <2>0
    <2> QED BY <2>0, <2>2
  <1>4. F = Def(F)
    <2> HIDE DEF Def
    <2> QED BY <1>3
  <1>5. AddAll(r, texts) = F[n]
    BY Zenon DEF AddAll
  <1> HIDE DEF F
  <1>6. F[0] = r /\ \A i \in 1..n : F[i] = tt_oq_add(F[i - 1], texts[i])
    <2>1. \A i \in 0..n : F[i] = IF i = 0 THEN r ELSE tt_oq_add(F[i - 1], texts[i])
      BY <1>4, Zenon
    <2> QED BY <2>1, <1>0
  <1> HIDE DEF Def, step
  <1>7. 0 \in Good
    BY <1>0, <1>6, TextsType
  <1>8. ASSUME NEW i \in 0..(n - 1), i \in Good
        PROVE  i + 1 \in Good
    <2>1. /\ i + 1 \in 1..n /\ (i + 1) - 1 = i /\ F[i] \in Ring /\ texts[i + 1] \in Nat
          /\ Texts(F[i]) = SubSeq(texts, 1, i)
      BY <1>0, <1>8
    <2>2. F[i + 1] = tt_oq_add(F[i], texts[i + 1])
      BY <1>6, <2>1
    <2>3. F[i].count # Limit
      <3>1. F[i].count = i
        BY <2>1, <1>0, TextsType
      <3> QED BY <3>1, <1>0
    <2>4. /\ F[i + 1] \in Ring
          /\ Texts(F[i + 1]) = Append(SubSeq(texts, 1, i), texts[i + 1])
      BY <2>1, <2>2, <2>3, AddOK
    <2>5. Append(SubSeq(texts, 1, i), texts[i + 1]) = SubSeq(texts, 1, i + 1)
      BY <2>1, <1>0
    <2>6. i + 1 \in 0..n /\ Texts(F[i + 1]) = SubSeq(texts, 1, i + 1)
      BY <1>0, <2>4, <2>5
    <2> QED BY <2>4, <2>6, Zenon
  <1>9. n \in Good
    <2> HIDE DEF Good
    <2>1. \A i \in 0..n : i \in Good
      BY <1>0, <1>7, <1>8, UpTo
    <2> QED BY <2>1, <1>0
  <1> QED BY <1>5, <1>9

-----------------------------------------------------------------------------
(* The file                                                                *)

\* the tokens of friend m in f are those behind place s, and carry the texts t
Block(f, m, s, t) ==
    /\ s \in Nat /\ s + Len(t) <= Len(f)
    /\ \A i \in 1..Len(f) : f[i].fn = m <=> s + 1 <= i /\ i <= s + Len(t)
    /\ \A k \in 1..Len(t) : f[s + k].text = t[k]

\* Tokens of others may follow.
LEMMA BlockBefore ==
    ASSUME NEW f \in Seq(Token), NEW g \in Seq(Token), NEW m, NEW s, NEW t \in Seq(Nat),
           Block(f, m, s, t), \A i \in 1..Len(g) : g[i].fn # m
    PROVE  Block(f \o g, m, s, t)
  <1> DEFINE h == f \o g
  <1>1. h \in Seq(Token) /\ Len(h) = Len(f) + Len(g) /\ Len(f) \in Nat /\ Len(g) \in Nat
        /\ s \in Nat /\ Len(t) \in Nat /\ s + Len(t) <= Len(f)
    BY DEF Block
  <1>2. \A i \in 1..Len(f) : h[i] = f[i]
    OBVIOUS
  <1>3. \A i \in 1..Len(g) : h[Len(f) + i] = g[i]
    OBVIOUS
  <1> HIDE DEF h
  <1>4. ASSUME NEW i \in 1..Len(h)
        PROVE  h[i].fn = m <=> s + 1 <= i /\ i <= s + Len(t)
    <2>1. CASE i \in 1..Len(f)
      BY <2>1, <1>2 DEF Block
    <2>2. CASE i \notin 1..Len(f)
      <3>1. i - Len(f) \in 1..Len(g) /\ i = Len(f) + (i - Len(f)) /\ ~(i <= s + Len(t))
        BY <2>2, <1>1
      <3>2. h[i] = g[i - Len(f)]
        BY <3>1, <1>3
      <3> QED BY <3>1, <3>2
    <2> QED BY <2>1, <2>2
  <1>5. ASSUME NEW k \in 1..Len(t)
        PROVE  h[s + k].text = t[k]
    <2>1. s + k \in 1..Len(f)
      BY <1>1
    <2> QED BY <2>1, <1>2 DEF Block
  <1>6. Block(h, m, s, t)
    BY <1>1, <1>4, <1>5 DEF Block
  <1> QED BY <1>6 DEF h

\* Tokens of others may come before.
LEMMA BlockBehind ==
    ASSUME NEW f \in Seq(Token), NEW g \in Seq(Token), NEW m, NEW s, NEW t \in Seq(Nat),
           Block(g, m, s, t), \A i \in 1..Len(f) : f[i].fn # m
    PROVE  Block(f \o g, m, Len(f) + s, t)
  <1> DEFINE h == f \o g
  <1>1. h \in Seq(Token) /\ Len(h) = Len(f) + Len(g) /\ Len(f) \in Nat /\ Len(g) \in Nat
        /\ s \in Nat /\ Len(t) \in Nat /\ s + Len(t) <= Len(g)
    BY DEF Block
  <1>2. \A i \in 1..Len(f) : h[i] = f[i]
    OBVIOUS
  <1>3. \A i \in 1..Len(g) : h[Len(f) + i] = g[i]
    OBVIOUS
  <1> HIDE DEF h
  <1>4. ASSUME NEW i \in 1..Len(h)
        PROVE  h[i].fn = m <=> Len(f) + s + 1 <= i /\ i <= Len(f) + s + Len(t)
    <2>1. CASE i \in 1..Len(f)
      <3>1. ~(Len(f) + s + 1 <= i)
        BY <2>1, <1>1
      <3>2. h[i].fn # m
        BY <2>1, <1>2
      <3> QED BY <3>1, <3>2
    <2>2. CASE i \notin 1..Len(f)
      <3> DEFINE j == i - Len(f)
      <3>1. j \in 1..Len(g) /\ i = Len(f) + j
        BY <2>2, <1>1
      <3>2. h[i] = g[j]
        BY <3>1, <1>3
      <3>3. g[j].fn = m <=> s + 1 <= j /\ j <= s + Len(t)
        BY <3>1 DEF Block
      <3> HIDE DEF j
      <3> QED BY <1>1, <3>1, <3>2, <3>3
    <2> QED BY <2>1, <2>2
  <1>5. ASSUME NEW k \in 1..Len(t)
        PROVE  h[Len(f) + s + k].text = t[k]
    <2>1. s + k \in 1..Len(g) /\ Len(f) + s + k = Len(f) + (s + k)
      BY <1>1
    <2>2. h[Len(f) + (s + k)] = g[s + k]
      BY <2>1, <1>3
    <2> QED BY <2>1, <2>2 DEF Block
  <1>6. Block(h, m, Len(f) + s, t)
    BY <1>1, <1>4, <1>5 DEF Block
  <1> QED BY <1>6 DEF h

\* Saved finds the block.
LEMMA BlockIsSaved ==
    ASSUME NEW f \in Seq(Token), NEW m, NEW s, NEW t \in Seq(Nat), Block(f, m, s, t)
    PROVE  Saved(f, m) = t
  <1> DEFINE Of    == {i \in 1..Len(f) : f[i].fn = m}
             first == CHOOSE i \in Of : \A j \in Of : i <= j
  <1>1. s \in Nat /\ Len(t) \in Nat /\ Len(f) \in Nat /\ s + Len(t) <= Len(f)
    BY DEF Block
  <1>2. Of = (s + 1)..(s + Len(t))
    BY <1>1 DEF Block
  <1>3. Cardinality(Of) = Len(t)
    <2>1. s + 1 \in Int /\ s + Len(t) \in Int
      BY <1>1
    <2>2. Cardinality((s + 1)..(s + Len(t)))
            = IF s + 1 > s + Len(t) THEN 0 ELSE (s + Len(t)) - (s + 1) + 1
      BY <2>1, FS_Interval
    <2> HIDE DEF Of
    <2> QED BY <1>1, <1>2, <2>2
  <1>4. Saved(f, m) = [k \in 1..Len(t) |-> f[first + k - 1].text]
    <2> HIDE DEF first
    <2>1. Saved(f, m) = [k \in 1..Cardinality(Of) |-> f[first + k - 1].text]
      BY Zenon DEF Saved, first
    <2> QED BY <1>3, <2>1
  <1>5. Len(t) # 0 => first = s + 1
    <2> HAVE Len(t) # 0
    <2>1. s + 1 \in Of /\ \A j \in Of : s + 1 <= j
      BY <1>1, <1>2, SMTT(30)
    <2>2. first \in Of /\ \A j \in Of : first <= j
      BY <2>1
    <2>3. Of \subseteq Nat
      BY <1>1
    <2> HIDE DEF Of, first
    <2> QED BY <2>1, <2>2, <2>3, <1>1
  <1> HIDE DEF Of, first
  <1>6. \A k \in 1..Len(t) : f[first + k - 1].text = t[k]
    <2> SUFFICES ASSUME NEW k \in 1..Len(t)
                 PROVE  f[first + k - 1].text = t[k]
      OBVIOUS
    <2>1. first + k - 1 = s + k
      BY <1>1, <1>5
    <2> QED BY <2>1 DEF Block
  <1>7. t = [k \in 1..Len(t) |-> t[k]]
    OBVIOUS
  <1> QED BY <1>4, <1>6, <1>7

\* F[i] is the first i of the sequences, one behind the other, and flat is all
IsFlat(F, flat, n, T, seqs) ==
    /\ F \in [1..n -> Seq(T)]
    /\ F[1] = seqs[1]
    /\ \A i \in 2..n : F[i] = F[i - 1] \o seqs[i]
    /\ flat = F[n]

\* FlattenSeq puts one sequence behind the other.
LEMMA FlattenOK ==
    ASSUME NEW T, NEW n \in Nat \ {0}, NEW seqs \in [1..n -> Seq(T)]
    PROVE  \E F : IsFlat(F, FlattenSeq(seqs), n, T, seqs)
  <1> DEFINE step == [x \in Seq(T) \X (1..n) |->
                        IF x[2] = 1 THEN seqs[x[2]] ELSE x[1] \o seqs[x[2]]]
             Def(g) == [i \in 1..n |-> IF i = 1 THEN seqs[i] ELSE g[i - 1] \o seqs[i]]
             F == CHOOSE g : g = Def(g)
  <1>0. n \in Nat /\ <<>> \in Seq(T) /\ Len(seqs) = n
    <2>1. Len(seqs) = n
      BY FunctionIsSeq
    <2> QED BY <2>1
  <1>1. step \in [Seq(T) \X (1..n) -> Seq(T)]
    OBVIOUS
  <1>2. PICK f : IsRecursive(f, n, Seq(T), <<>>, step)
    <2> HIDE DEF step
    <2> QED BY <1>0, <1>1, Recursion
  <1> DEFINE g == [i \in 1..n |-> f[i]]
  <1>3. g = Def(g) /\ g \in [1..n -> Seq(T)]
    <2>0. f \in [0..n -> Seq(T)] /\ \A i \in 1..n : f[i] = step[<<f[i - 1], i>>]
      BY <1>2 DEF IsRecursive
    <2>1. ASSUME NEW i \in 1..n
          PROVE  f[i] = IF i = 1 THEN seqs[i] ELSE f[i - 1] \o seqs[i]
      <3>1. <<f[i - 1], i>> \in Seq(T) \X (1..n)
        BY <1>0, <2>0
      <3> QED BY <2>0, <3>1
    <2>2. \A i \in 1..n : g[i] = f[i] /\ (i # 1 => g[i - 1] = f[i - 1])
      BY <1>0
    <2>3. \A i \in 1..n : g[i] = IF i = 1 THEN seqs[i] ELSE g[i - 1] \o seqs[i]
      <3> HIDE DEF g
      <3> QED BY <2>1, <2>2
    <2>4. g \in [1..n -> Seq(T)]
      BY <2>0
    <2> HIDE DEF g
    <2> QED BY <2>3, <2>4
  <1>4. F = Def(F)
    <2> HIDE DEF Def, g
    <2> QED BY <1>3
  <1>5. FlattenSeq(seqs) = F[n]
    <2>1. Len(seqs) # 0
      BY <1>0
    <2> QED BY <1>0, <2>1, Zenon DEF FlattenSeq
  <1> HIDE DEF F
  <1>6. F[1] = seqs[1] /\ \A i \in 2..n : F[i] = F[i - 1] \o seqs[i]
    <2>1. \A i \in 1..n : F[i] = IF i = 1 THEN seqs[i] ELSE F[i - 1] \o seqs[i]
      BY <1>4, Zenon
    <2>2. 1 \in 1..n /\ \A i \in 2..n : i \in 1..n /\ i # 1
      BY <1>0
    <2> QED BY <2>1, <2>2
  <1>7. F \in [1..n -> Seq(T)]
    <2> DEFINE Good == {i \in 0..n : i = 0 \/ F[i] \in Seq(T)}
    <2>1. 0 \in Good
      BY <1>0
    <2>2. ASSUME NEW i \in 0..(n - 1), i \in Good
          PROVE  i + 1 \in Good
      <3>1. CASE i = 0
        BY <3>1, <1>0, <1>6
      <3>2. CASE i # 0
        <4>1. i + 1 \in 2..n /\ (i + 1) - 1 = i /\ F[i] \in Seq(T) /\ i + 1 \in 1..n
          BY <3>2, <2>2
        <4>2. F[i + 1] = F[i] \o seqs[i + 1] /\ seqs[i + 1] \in Seq(T)
          BY <4>1, <1>6
        <4>3. F[i + 1] \in Seq(T)
          BY <4>1, <4>2
        <4> QED BY <4>1, <4>3
      <3> QED BY <3>1, <3>2
    <2>3. \A i \in 0..n : i \in Good
      <3> HIDE DEF Good
      <3> QED BY <1>0, <2>1, <2>2, UpTo
    <2>4. \A i \in 1..n : F[i] \in Seq(T)
      BY <2>3
    <2>5. F = [i \in 1..n |-> F[i]]
      BY <1>4
    <2> QED BY <2>4, <2>5
  <1>8. IsFlat(F, FlattenSeq(seqs), n, T, seqs)
    BY <1>5, <1>6, <1>7 DEF IsFlat
  <1> QED BY <1>8

\* what tt_oq_save makes of rings with these texts: the mark first, then nothing
\* but entries, and each friend's entries are the texts
FileOf(f, waiting) ==
    /\ f \in Seq(Token) /\ Len(f) >= 1 /\ f[1] = Mark
    /\ \A i \in 2..Len(f) : f[i].fn \in Friend
    /\ \A fn \in Friend : Saved(f, fn) = waiting[fn]

Waiting(q) == [fn \in Friend |-> Texts(q[fn])]

\* tt_oq_save writes such a file.
LEMMA SaveOK ==
    ASSUME NEW q \in [Friend -> Ring]
    PROVE  FileOf(tt_oq_save(q), Waiting(q))
  <1> DEFINE Entries(fn) == [i \in 1..q[fn].count |-> [fn |-> fn, text |-> Texts(q[fn])[i]]]
             seqs == [fn \in Friend |-> Entries(fn)]
             flat == FlattenSeq(seqs)
  <1>0. Friends \in Nat \ {0} /\ Friend = 1..Friends
    BY Constants DEF Friend
  <1>1. ASSUME NEW fn \in Friend
        PROVE  /\ Entries(fn) \in Seq(Token)
               /\ \A i \in 1..Len(Entries(fn)) : Entries(fn)[i].fn = fn
               /\ Block(Entries(fn), fn, 0, Texts(q[fn]))
               /\ Texts(q[fn]) \in Seq(Nat)
    <2> DEFINE n == q[fn].count
               t == Texts(q[fn])
               e == Entries(fn)
    <2>1. t \in Seq(Nat) /\ Len(t) = n /\ n \in Nat
      BY TextsType
    <2>2. \A i \in 1..n : t[i] \in Nat
      BY <2>1
    <2> HIDE DEF t, n
    <2>3. e = [i \in 1..n |-> [fn |-> fn, text |-> t[i]]]
      BY DEF t, n
    <2> HIDE DEF e
    <2>4. e \in [1..n -> Token]
      BY <1>0, <2>2, <2>3 DEF Token
    <2>5. e \in Seq(Token) /\ Len(e) = n
      BY <2>1, <2>4, FunctionIsSeq
    <2>6. \A i \in 1..n : e[i].fn = fn /\ e[i].text = t[i]
      BY <2>3
    <2>7. Block(e, fn, 0, t)
      <3>1. 0 \in Nat /\ 0 + Len(t) <= Len(e)
        BY <2>1, <2>5
      <3>2. \A i \in 1..Len(e) : e[i].fn = fn <=> 0 + 1 <= i /\ i <= 0 + Len(t)
        BY <2>1, <2>5, <2>6
      <3>3. \A k \in 1..Len(t) : e[0 + k].text = t[k]
        BY <2>1, <2>6
      <3> QED BY <3>1, <3>2, <3>3 DEF Block
    <2> QED BY <2>1, <2>5, <2>6, <2>7 DEF e, t
  <1> HIDE DEF Entries
  <1>2. seqs \in [1..Friends -> Seq(Token)] /\ \A fn \in Friend : seqs[fn] = Entries(fn)
    BY <1>0, <1>1
  <1> HIDE DEF seqs
  <1>a. PICK F : IsFlat(F, flat, Friends, Token, seqs)
    BY <1>0, <1>2, FlattenOK
  <1>3. /\ F \in [1..Friends -> Seq(Token)] /\ F[1] = seqs[1]
        /\ \A i \in 2..Friends : F[i] = F[i - 1] \o seqs[i]
        /\ flat = F[Friends]
    BY <1>a DEF IsFlat
  <1> DEFINE P(n) == /\ \A i \in 1..Len(F[n]) : F[n][i].fn \in 1..n
                     /\ \A m \in 1..n : \E s : Block(F[n], m, s, Texts(q[m]))
             Good == {n \in 0..Friends : n = 0 \/ P(n)}
  <1>4. \A n \in 0..Friends : n \in Good
    <2>1. 0 \in Good
      BY <1>0
    <2>2. ASSUME NEW n \in 0..(Friends - 1), n \in Good
          PROVE  n + 1 \in Good
      <3>0. n + 1 \in 1..Friends /\ n + 1 \in Friend
        BY <1>0
      <3>1. CASE n = 0
        <4>1. F[1] = Entries(1) /\ 1 \in Friend
          BY <3>0, <3>1, <1>2, <1>3
        <4>2. P(1)
          <5>1. \A i \in 1..Len(F[1]) : F[1][i].fn \in 1..1
            BY <4>1, <1>1
          <5>2. Block(F[1], 1, 0, Texts(q[1]))
            BY <4>1, <1>1
          <5> QED BY <5>1, <5>2
        <4> HIDE DEF P
        <4> QED BY <3>0, <3>1, <4>2
      <3>2. CASE n # 0
        <4>a. P(n)
          <5> HIDE DEF P
          <5> QED BY <3>2, <2>2
        <4>b. /\ n \in 1..Friends /\ n + 1 \in 2..Friends /\ (n + 1) - 1 = n
              /\ F[n] \in Seq(Token) /\ Entries(n + 1) \in Seq(Token)
          BY <3>0, <3>2, <1>0, <1>1, <1>3
        <4>1. /\ P(n) /\ n \in 1..Friends /\ n + 1 \in 2..Friends /\ (n + 1) - 1 = n
              /\ F[n] \in Seq(Token) /\ Entries(n + 1) \in Seq(Token)
          BY <4>a, <4>b
        <4>2. F[n + 1] = F[n] \o Entries(n + 1)
          BY <4>1, <3>0, <1>2, <1>3
        <4>3. \A i \in 1..Len(F[n + 1]) : F[n + 1][i].fn \in 1..(n + 1)
          <5> SUFFICES ASSUME NEW i \in 1..Len(F[n + 1])
                       PROVE  F[n + 1][i].fn \in 1..(n + 1)
            OBVIOUS
          <5>1. CASE i \in 1..Len(F[n])
            <6>1. F[n + 1][i] = F[n][i]
              BY <5>1, <4>1, <4>2
            <6>2. F[n][i].fn \in 1..n
              BY <5>1, <4>1
            <6> QED BY <6>1, <6>2, <4>1
          <5>2. CASE i \notin 1..Len(F[n])
            <6>1. /\ i - Len(F[n]) \in 1..Len(Entries(n + 1))
                  /\ F[n + 1][i] = Entries(n + 1)[i - Len(F[n])]
              <7> DEFINE a == F[n]
                         b == Entries(n + 1)
                         j == i - Len(a)
              <7>1. a \in Seq(Token) /\ b \in Seq(Token) /\ i \in 1..Len(a \o b)
                BY <4>1, <4>2
              <7> HIDE DEF a, b
              <7>2. j \in 1..Len(b) /\ i = Len(a) + j /\ i \notin 1..Len(a)
                BY <5>2, <7>1 DEF a
              <7>3. (a \o b)[i] = b[j]
                BY <7>1, <7>2
              <7> QED BY <7>2, <7>3, <4>2 DEF a, b
            <6>2. F[n + 1][i].fn = n + 1
              BY <6>1, <3>0, <1>1
            <6> QED BY <6>2, <4>1
          <5> QED BY <5>1, <5>2
        <4>4. ASSUME NEW m \in 1..(n + 1)
              PROVE  \E s : Block(F[n + 1], m, s, Texts(q[m]))
          <5>1. m \in Friend /\ Texts(q[m]) \in Seq(Nat)
            BY <4>1, <1>0, <1>1
          <5>2. CASE m = n + 1
            <6>1. \A i \in 1..Len(F[n]) : F[n][i].fn # m
              BY <5>2, <4>1
            <6>2. Block(Entries(m), m, 0, Texts(q[m]))
              BY <5>1, <1>1
            <6> QED BY <4>1, <4>2, <5>1, <5>2, <6>1, <6>2, BlockBehind
          <5>3. CASE m # n + 1
            <6>1. PICK s : Block(F[n], m, s, Texts(q[m]))
              BY <5>3, <4>1
            <6>2. \A i \in 1..Len(Entries(n + 1)) : Entries(n + 1)[i].fn # m
              BY <5>3, <3>0, <1>1
            <6> QED BY <4>1, <4>2, <5>1, <6>1, <6>2, BlockBefore
          <5> QED BY <5>2, <5>3
        <4>5. P(n + 1)
          BY <4>3, <4>4
        <4> HIDE DEF P
        <4> QED BY <3>0, <4>5
      <3> QED BY <3>1, <3>2
    <2> HIDE DEF Good
    <2> QED BY <1>0, <2>1, <2>2, UpTo
  <1>5. P(Friends)
    <2> HIDE DEF P
    <2> QED BY <1>0, <1>4
  <1> DEFINE f == <<Mark>> \o flat
  <1>6. tt_oq_save(q) = f
    BY Zenon DEF tt_oq_save, Entries, seqs
  <1>7. /\ flat \in Seq(Token) /\ <<Mark>> \in Seq(Token) /\ Len(<<Mark>>) = 1
        /\ <<Mark>>[1] = Mark /\ Mark.fn = 0
    <2>1. Mark \in Token /\ Mark.fn = 0
      BY <1>0 DEF Token, Mark
    <2>2. flat \in Seq(Token)
      <3> HIDE DEF flat
      <3> QED BY <1>0, <1>3
    <2> HIDE DEF flat
    <2> QED BY <2>1, <2>2
  <1> HIDE DEF flat
  <1>8. f \in Seq(Token) /\ Len(f) = Len(flat) + 1 /\ Len(flat) \in Nat /\ f[1] = Mark
    BY <1>7
  <1>9. \A i \in 2..Len(f) : f[i].fn \in Friend
    <2> SUFFICES ASSUME NEW i \in 2..Len(f)
                 PROVE  f[i].fn \in Friend
      OBVIOUS
    <2>1. i - 1 \in 1..Len(flat) /\ f[i] = flat[i - 1]
      BY <1>7, <1>8
    <2> QED BY <2>1, <1>0, <1>3, <1>5
  <1>10. ASSUME NEW fn \in Friend
         PROVE  Saved(f, fn) = Waiting(q)[fn]
    <2>1. PICK s : Block(flat, fn, s, Texts(q[fn]))
      BY <1>0, <1>3, <1>5
    <2>2. \A i \in 1..Len(<<Mark>>) : <<Mark>>[i].fn # fn
      BY <1>0, <1>7
    <2>3. Block(f, fn, Len(<<Mark>>) + s, Texts(q[fn]))
      BY <1>1, <1>7, <2>1, <2>2, BlockBehind
    <2>4. Saved(f, fn) = Texts(q[fn])
      BY <1>1, <1>8, <2>3, BlockIsSaved
    <2> QED BY <2>4 DEF Waiting
  <1> HIDE DEF f
  <1> QED BY <1>6, <1>8, <1>9, <1>10 DEF FileOf

-----------------------------------------------------------------------------
(* Loading the file                                                        *)

\* the mark and then nothing but entries, or nothing at all
FileShape(f) ==
    \/ f = <<>>
    \/ /\ f \in Seq(Token) /\ Len(f) >= 1 /\ f[1] = Mark
       /\ \A i \in 2..Len(f) : f[i].fn \in Friend

\* Saved gives a sequence; it starts with the first entry of the file, if that is
\* the friend's, and is empty if the file has no entry.
LEMMA SavedOK ==
    ASSUME NEW f, FileShape(f), NEW fn \in Friend
    PROVE  /\ IsSeq(Saved(f, fn))
           /\ Len(f) >= 2 /\ f[2].fn = fn => /\ Len(Saved(f, fn)) >= 1
                                             /\ Saved(f, fn)[1] = f[2].text
           /\ Len(f) < 2 => Saved(f, fn) = <<>>
  <1> DEFINE Of    == {i \in 1..Len(f) : f[i].fn = fn}
             first == CHOOSE i \in Of : \A j \in Of : i <= j
             s     == [k \in 1..Cardinality(Of) |-> f[first + k - 1].text]
  <1>0. Friends \in Nat \ {0} /\ Friend = 1..Friends
    BY Constants DEF Friend
  <1>1. Saved(f, fn) = s
    BY Zenon DEF Saved
  <1>2. Len(f) \in Nat
    BY DEF FileShape
  <1>3. IsFiniteSet(Of) /\ Cardinality(Of) \in Nat /\ (Cardinality(Of) = 0 <=> Of = {})
    <2>1. IsFiniteSet(1..Len(f))
      BY <1>2, FS_Interval
    <2>2. Of \subseteq 1..Len(f)
      OBVIOUS
    <2> HIDE DEF Of
    <2>3. IsFiniteSet(Of)
      BY <2>1, <2>2, FS_Subset
    <2> QED BY <2>3, FS_CardinalityType, FS_EmptySet
  <1>4. IsSeq(s) /\ Len(s) = Cardinality(Of)
    <2> HIDE DEF first, Of
    <2>1. DOMAIN s = 1..Cardinality(Of) /\ s = [k \in 1..Cardinality(Of) |-> s[k]]
      OBVIOUS
    <2> HIDE DEF s
    <2> QED BY <1>3, <2>1, IsSeqOf
  <1>5. ASSUME Len(f) >= 2, f[2].fn = fn
        PROVE  Len(s) >= 1 /\ s[1] = f[2].text
    <2>1. f # <<>> /\ f[1].fn = 0 /\ 0 # fn
      BY <1>0, <1>5 DEF FileShape, Mark
    <2>2. 2 \in Of /\ \A j \in Of : 2 <= j
      BY <1>2, <1>5, <2>1
    <2>3. Cardinality(Of) \in Nat \ {0}
      <3> HIDE DEF Of
      <3> QED BY <1>3, <2>2
    <2>4. first = 2
      <3>1. first \in Of /\ \A j \in Of : first <= j
        BY <2>2
      <3>2. Of \subseteq Nat
        BY <1>2
      <3> HIDE DEF Of, first
      <3> QED BY <2>2, <3>1, <3>2
    <2> HIDE DEF Of, first
    <2> QED BY <1>4, <2>3, <2>4
  <1>6. Len(f) < 2 => s = <<>>
    <2> HAVE Len(f) < 2
    <2>1. Of = {}
      <3>1. \A i \in 1..Len(f) : i = 1 /\ f[i].fn = 0 /\ 0 # fn
        BY <1>0, <1>2 DEF FileShape, Mark
      <3> QED BY <3>1
    <2> HIDE DEF Of, first
    <2>2. Cardinality(Of) = 0
      BY <1>3, <2>1
    <2> QED BY <2>2
  <1> HIDE DEF s, Of, first
  <1> QED BY <1>1, <1>4, <1>5, <1>6

\* No text is the beginning of every sequence.
LEMMA EmptyPrefix ==
    ASSUME NEW t, IsSeq(t)
    PROVE  IsPrefix(<<>>, t)
  BY DEF IsSeq, IsPrefix

\* One text is the beginning of a sequence that starts with it.
LEMMA OnePrefix ==
    ASSUME NEW x, NEW t, IsSeq(t), Len(t) >= 1, t[1] = x
    PROVE  IsPrefix(<<x>>, t)
  <1> DEFINE S == {t[i] : i \in 1..Len(t)}
  <1>1. t \in Seq(S) /\ x \in S
    BY SeqOfElements DEF IsSeq
  <1> HIDE DEF S
  <1>2. <<x>> \in Seq(S) /\ Len(<<x>>) = 1 /\ <<x>>[1] = x
    BY <1>1
  <1> DEFINE u == <<x>>
  <1> HIDE DEF u
  <1>3. u \in Seq(S) /\ Len(u) = 1 /\ u[1] = x
    BY <1>2 DEF u
  <1>4. /\ SubSeq(u, 1, 1) \in Seq(S) /\ Len(SubSeq(u, 1, 1)) = 1 /\ SubSeq(u, 1, 1)[1] = x
        /\ SubSeq(t, 1, 1) \in Seq(S) /\ Len(SubSeq(t, 1, 1)) = 1 /\ SubSeq(t, 1, 1)[1] = x
    BY <1>1, <1>3
  <1>5. SubSeq(u, 1, 1) = SubSeq(t, 1, 1)
    BY <1>4
  <1> QED BY <1>1, <1>3, <1>5 DEF IsPrefix, u

Nobody == [fn \in Friend |-> <<>>]

\* w is what a start finds in a queue that was saved as q
Found(q, w) ==
    \/ (\A fn \in Friend : q[fn] = <<>>) /\ w = Nobody
    \/ \E fn \in Friend : q[fn] # <<>> /\ w = [Nobody EXCEPT ![fn] = <<Head(q[fn])>>]

\* tt_oq_load gives rings, and in each an initial part of what was saved for the
\* friend: it takes one entry for one mark, and the file has one mark.
LEMMA LoadOK ==
    ASSUME NEW f, FileShape(f)
    PROVE  /\ tt_oq_load(f) \in [Friend -> Ring]
           /\ \A fn \in Friend : IsPrefix(Texts(tt_oq_load(f)[fn]), Saved(f, fn))
           /\ Found([fn \in Friend |-> Saved(f, fn)], Waiting(tt_oq_load(f)))
  <1> DEFINE Pair(i) == /\ 2 * i <= Len(f)
                        /\ f[2 * i - 1] = Mark
                        /\ f[2 * i].fn \in Friend
             Read == {i \in 1..Len(f) : \A j \in 1..i : Pair(j)}
             c == Cardinality(Read)
             E == [fn \in Friend |-> EmptyRing]
             Def(g) == [i \in 0..c |->
                          IF i = 0 THEN E
                          ELSE [g[i - 1] EXCEPT ![f[2 * i].fn] = tt_oq_add(@, f[2 * i].text)]]
             F == CHOOSE g : g = Def(g)
             E2 == [E EXCEPT ![f[2].fn] = tt_oq_add(@, f[2].text)]
             w == [i \in 0..c |-> IF i = 0 THEN E ELSE E2]
  <1>0. Friends \in Nat \ {0} /\ Friend = 1..Friends /\ Limit \in Nat \ {0}
    BY Constants DEF Friend
  <1>1. Len(f) \in Nat
    BY DEF FileShape
  <1>2. IF Len(f) >= 2 THEN Read = {1} ELSE Read = {}
    <2>1. ~Pair(2)
      <3>1. ASSUME Pair(2) PROVE FALSE
        <4>1. 4 <= Len(f) /\ f[3] = Mark
          BY <3>1
        <4>2. f[3].fn \in Friend
          BY <4>1, <1>1 DEF FileShape
        <4> QED BY <4>1, <4>2, <1>0 DEF Mark
      <3> QED BY <3>1
    <2>2. Len(f) >= 2 => Pair(1)
      BY <1>1 DEF FileShape
    <2>3. Len(f) < 2 => ~Pair(1)
      BY <1>1
    <2> HIDE DEF Pair
    <2> QED BY <1>1, <2>1, <2>2, <2>3
  <1>3. c = IF Len(f) >= 2 THEN 1 ELSE 0
    <2>1. Cardinality({1}) = 1 /\ Cardinality({}) = 0
      BY FS_Singleton, FS_EmptySet
    <2> HIDE DEF Read
    <2> QED BY <1>2, <2>1
  <1> HIDE DEF c
  <1>4. w = Def(w)
    <2>1. \A i \in 0..c : i # 0 => i = 1 /\ w[i - 1] = E
      BY <1>3
    <2>2. \A i \in 0..c : w[i] = Def(w)[i]
      <3> SUFFICES ASSUME NEW i \in 0..c PROVE w[i] = Def(w)[i]
        OBVIOUS
      <3>1. CASE i = 0
        BY <3>1, <1>3
      <3>2. CASE i # 0
        <4>1. i = 1 /\ w[i - 1] = E /\ w[i] = E2 /\ 2 * i = 2
          BY <3>2, <2>1
        <4>2. Def(w)[i] = [w[i - 1] EXCEPT ![f[2 * i].fn] = tt_oq_add(@, f[2 * i].text)]
          BY <3>2
        <4> HIDE DEF w, E, Def
        <4> QED BY <4>1, <4>2
      <3> QED BY <3>1, <3>2
    <2> HIDE DEF E, E2
    <2> QED BY <2>2
  <1>5. F = Def(F)
    <2> HIDE DEF Def, w
    <2> QED BY <1>4
  <1>6. tt_oq_load(f) = F[c]
    BY Zenon DEF tt_oq_load, c
  <1> HIDE DEF F
  <1>7. F[0] = E /\ (c = 1 => F[1] = E2)
    <2>1. \A i \in 0..c : F[i] = IF i = 0 THEN E
              ELSE [F[i - 1] EXCEPT ![f[2 * i].fn] = tt_oq_add(@, f[2 * i].text)]
      BY <1>5, Zenon
    <2>2. F[0] = E
      <3>1. 0 \in 0..c
        BY <1>3
      <3> HIDE DEF E
      <3> QED BY <2>1, <3>1, Zenon
    <2>3. ASSUME c = 1 PROVE F[1] = E2
      <3>1. F[1] = [F[1 - 1] EXCEPT ![f[2 * 1].fn] = tt_oq_add(@, f[2 * 1].text)]
        <4> HIDE DEF E
        <4> QED BY <2>1, <2>3
      <3>2. 1 - 1 = 0 /\ 2 * 1 = 2
        OBVIOUS
      <3> HIDE DEF E
      <3> QED BY <3>1, <3>2, <2>2
    <2> QED BY <2>2, <2>3
  <1>8. Texts(EmptyRing) = <<>> /\ EmptyRing \in Ring /\ EmptyRing.count # Limit
    BY <1>0, EmptyRingOK, TextsType
  <1>9. E \in [Friend -> Ring]
    BY <1>8
  <1>10. ASSUME NEW fn \in Friend
         PROVE  IsPrefix(<<>>, Saved(f, fn))
    BY SavedOK, EmptyPrefix
  <1>11. CASE Len(f) < 2
    <2>1. tt_oq_load(f) = E
      BY <1>11, <1>1, <1>3, <1>6, <1>7
    <2>2. \A fn \in Friend : Saved(f, fn) = <<>>
      BY <1>11, SavedOK
    <2>3. Waiting(E) = Nobody
      BY <1>8 DEF Waiting, Nobody
    <2>4. Found([fn \in Friend |-> Saved(f, fn)], Waiting(E))
      BY <2>2, <2>3 DEF Found
    <2> HIDE DEF E
    <2>5. \A fn \in Friend : IsPrefix(Texts(tt_oq_load(f)[fn]), Saved(f, fn))
      BY <2>1, <1>8, <1>10 DEF E
    <2> QED BY <2>1, <2>4, <2>5, <1>9
  <1>12. CASE Len(f) >= 2
    <2>1. tt_oq_load(f) = E2
      BY <1>12, <1>3, <1>6, <1>7
    <2>2. f[2].fn \in Friend /\ f[2].text \in Nat
      <3>1. f \in Seq(Token) /\ 2 \in 2..Len(f) /\ 2 \in 1..Len(f)
        BY <1>12, <1>1 DEF FileShape
      <3>2. f[2] \in Token
        BY <3>1
      <3> QED BY <1>12, <3>1, <3>2 DEF FileShape, Token
    <2> DEFINE r == tt_oq_add(EmptyRing, f[2].text)
    <2>3. r \in Ring /\ Texts(r) = <<f[2].text>>
      <3>1. Append(<<>>, f[2].text) = <<f[2].text>>
        OBVIOUS
      <3>2. Texts(r) = Append(<<>>, f[2].text)
        BY <2>2, <1>8, AddOK
      <3> QED BY <2>2, <1>8, <3>1, <3>2, AddOK
    <2> HIDE DEF r
    <2>4. E2 = [E EXCEPT ![f[2].fn] = r]
      BY <2>2 DEF r
    <2>5. E2 \in [Friend -> Ring]
      BY <2>3, <2>4, <1>9
    <2>6. ASSUME NEW fn \in Friend
          PROVE  IsPrefix(Texts(E2[fn]), Saved(f, fn))
      <3>1. CASE fn = f[2].fn
        <4>1. E2[fn] = r
          BY <3>1, <2>4
        <4>2. /\ IsSeq(Saved(f, fn)) /\ Len(Saved(f, fn)) >= 1
              /\ Saved(f, fn)[1] = f[2].text
          BY <3>1, <1>12, SavedOK
        <4> QED BY <4>1, <4>2, <2>3, OnePrefix
      <3>2. CASE fn # f[2].fn
        <4>1. E2[fn] = EmptyRing
          BY <3>2, <2>4
        <4> QED BY <4>1, <1>8, <1>10
      <3> QED BY <3>1, <3>2
    <2> DEFINE m == f[2].fn
               q == [fn \in Friend |-> Saved(f, fn)]
    <2>7. q[m] # <<>> /\ Head(q[m]) = f[2].text
      <3>1. /\ IsSeq(Saved(f, m)) /\ Len(Saved(f, m)) >= 1
            /\ Saved(f, m)[1] = f[2].text /\ q[m] = Saved(f, m)
        BY <2>2, <1>12, SavedOK
      <3>2. Saved(f, m) # <<>>
        BY <3>1
      <3> QED BY <3>1, <3>2
    <2>8. Waiting(E2) = [Nobody EXCEPT ![m] = <<f[2].text>>]
      <3>1. \A fn \in Friend : E2[fn] = IF fn = m THEN r ELSE EmptyRing
        BY <2>2, <2>4
      <3> HIDE DEF E2, E, m
      <3>2. \A fn \in Friend : Texts(E2[fn]) = IF fn = m THEN <<f[2].text>> ELSE <<>>
        BY <3>1, <2>3, <1>8
      <3> QED BY <3>2 DEF Waiting, Nobody
    <2> HIDE DEF E2, E, q
    <2>9. Found(q, Waiting(E2))
      BY <2>2, <2>7, <2>8 DEF Found
    <2> QED BY <2>1, <2>5, <2>6, <2>9 DEF q
  <1> QED BY <1>1, <1>11, <1>12

-----------------------------------------------------------------------------
(* The order of typing                                                     *)

\* Accepted leaves texts out and keeps the order of the others.
LEMMA AcceptedOK ==
    ASSUME NEW texts \in Seq(Nat), NEW refused
    PROVE  LET taken == Accepted(texts, refused) IN
           /\ taken \in Seq(Nat)
           /\ \A j \in 1..Len(taken) : \E i \in 1..Len(texts) : taken[j] = texts[i]
           /\ Increasing(texts) => Increasing(taken)
  <1> DEFINE n == Len(texts)
             step == [x \in Seq(Nat) \X (1..n) |->
                        IF texts[x[2]] \in refused THEN x[1] ELSE Append(x[1], texts[x[2]])]
             Def(g) == [i \in 0..n |->
                          IF i = 0 THEN <<>>
                          ELSE IF texts[i] \in refused THEN g[i - 1]
                          ELSE Append(g[i - 1], texts[i])]
             F == CHOOSE g : g = Def(g)
             P(i) == /\ F[i] \in Seq(Nat)
                     /\ \A j \in 1..Len(F[i]) : \E m \in 1..i : F[i][j] = texts[m]
                     /\ Increasing(texts) => Increasing(F[i])
             Good == {i \in 0..n : P(i)}
  <1>0. n \in Nat /\ <<>> \in Seq(Nat)
    OBVIOUS
  <1>1. step \in [Seq(Nat) \X (1..n) -> Seq(Nat)]
    OBVIOUS
  <1>2. PICK f : IsRecursive(f, n, Seq(Nat), <<>>, step)
    <2> HIDE DEF n, step
    <2> QED BY <1>0, <1>1, Recursion
  <1>3. f = Def(f)
    <2>0. f \in [0..n -> Seq(Nat)] /\ f[0] = <<>> /\ \A i \in 1..n : f[i] = step[<<f[i - 1], i>>]
      BY <1>2 DEF IsRecursive
    <2>1. ASSUME NEW i \in 1..n
          PROVE  f[i] = IF texts[i] \in refused THEN f[i - 1] ELSE Append(f[i - 1], texts[i])
      <3>1. f[i - 1] \in Seq(Nat)
        <4>1. i - 1 \in 0..n
          BY <1>0
        <4> QED BY <2>0, <4>1
      <3>2. <<f[i - 1], i>> \in Seq(Nat) \X (1..n)
        BY <3>1
      <3> QED BY <2>0, <3>2
    <2>2. \A i \in 0..n : f[i] = IF i = 0 THEN <<>>
                                 ELSE IF texts[i] \in refused THEN f[i - 1]
                                 ELSE Append(f[i - 1], texts[i])
      <3> SUFFICES ASSUME NEW i \in 0..n
                   PROVE  f[i] = IF i = 0 THEN <<>>
                                 ELSE IF texts[i] \in refused THEN f[i - 1]
                                 ELSE Append(f[i - 1], texts[i])
        OBVIOUS
      <3>1. i # 0 => i \in 1..n
        BY <1>0
      <3> HIDE DEF n
      <3> QED BY <2>1, <2>0, <3>1
    <2> QED BY <2>0, <2>2
  <1>4. F = Def(F)
    <2> HIDE DEF Def
    <2> QED BY <1>3
  <1>5. Accepted(texts, refused) = F[n]
    BY Zenon DEF Accepted
  <1> HIDE DEF F
  <1>6. /\ F[0] = <<>>
        /\ \A i \in 1..n : F[i] = IF texts[i] \in refused THEN F[i - 1]
                                  ELSE Append(F[i - 1], texts[i])
    <2>1. \A i \in 0..n : F[i] = IF i = 0 THEN <<>>
                                 ELSE IF texts[i] \in refused THEN F[i - 1]
                                 ELSE Append(F[i - 1], texts[i])
      BY <1>4, Zenon
    <2> QED BY <2>1, <1>0
  <1> HIDE DEF Def, step
  <1>7. P(0)
    BY <1>6 DEF Increasing
  <1>8. ASSUME NEW i \in 0..(n - 1), P(i)
        PROVE  P(i + 1)
    <2>1. i + 1 \in 1..n /\ (i + 1) - 1 = i /\ texts[i + 1] \in Nat
      BY <1>0
    <2> DEFINE a == F[i]
               b == F[i + 1]
    <2>2. /\ a \in Seq(Nat) /\ \A j \in 1..Len(a) : \E m \in 1..i : a[j] = texts[m]
          /\ Increasing(texts) => Increasing(a)
      BY <1>8
    <2>3. b = IF texts[i + 1] \in refused THEN a ELSE Append(a, texts[i + 1])
      BY <1>6, <2>1
    <2> HIDE DEF a, b
    <2>4. b \in Seq(Nat) /\ \A j \in 1..Len(b) : \E m \in 1..(i + 1) : b[j] = texts[m]
      BY <2>1, <2>2, <2>3
    <2>5. ASSUME Increasing(texts) PROVE Increasing(b)
      <3>1. CASE texts[i + 1] \in refused
        BY <3>1, <2>2, <2>3, <2>5
      <3>2. CASE texts[i + 1] \notin refused
        <4>1. \A j \in 1..Len(a) : a[j] < texts[i + 1]
          <5> SUFFICES ASSUME NEW j \in 1..Len(a)
                       PROVE  a[j] < texts[i + 1]
            OBVIOUS
          <5>1. PICK m \in 1..i : a[j] = texts[m]
            BY <2>2
          <5>2. m \in 1..Len(texts) /\ i + 1 \in 1..Len(texts) /\ m < i + 1
            BY <2>1
          <5> QED BY <5>1, <5>2, <2>5 DEF Increasing
        <4>2. /\ Len(b) = Len(a) + 1 /\ b[Len(a) + 1] = texts[i + 1]
              /\ \A j \in 1..Len(a) : b[j] = a[j]
          BY <2>1, <2>2, <2>3, <3>2
        <4>3. \A j, m \in 1..Len(a) : j < m => a[j] < a[m]
          BY <2>2, <2>5 DEF Increasing
        <4> SUFFICES ASSUME NEW j \in 1..Len(b), NEW m \in 1..Len(b), j < m
                     PROVE  b[j] < b[m]
          BY DEF Increasing
        <4>4. j \in 1..Len(a) /\ (m \in 1..Len(a) \/ m = Len(a) + 1)
          <5>1. Len(a) \in Nat
            BY <2>2
          <5> QED BY <5>1, <4>2
        <4> QED BY <4>1, <4>2, <4>3, <4>4
      <3> QED BY <3>1, <3>2
    <2> QED BY <2>4, <2>5 DEF b
  <1>9. \A i \in 0..n : i \in Good
    <2> HIDE DEF P
    <2>1. 0 \in Good
      BY <1>0, <1>7
    <2>2. \A i \in 0..(n - 1) : i \in Good => i + 1 \in Good
      BY <1>0, <1>8
    <2> HIDE DEF Good
    <2> QED BY <1>0, <2>1, <2>2, UpTo
  <1>10. P(n)
    <2> HIDE DEF P
    <2> QED BY <1>0, <1>9
  <1> QED BY <1>5, <1>10

\* what was sent is increasing, and so is what waits, which comes after it; all
\* are texts typed so far
Ordered(s, w, n) ==
    /\ Increasing(s) /\ Increasing(w)
    /\ \A i \in 1..Len(s), j \in 1..Len(w) : s[i] < w[j]
    /\ \A i \in 1..Len(s) : s[i] <= n
    /\ \A j \in 1..Len(w) : w[j] <= n

\* Then one sequence after the other is increasing.
LEMMA OrderedConcat ==
    ASSUME NEW s \in Seq(Nat), NEW w \in Seq(Nat), NEW n, Ordered(s, w, n)
    PROVE  Increasing(s \o w)
  <1> SUFFICES ASSUME NEW i \in 1..Len(s \o w), NEW j \in 1..Len(s \o w), i < j
               PROVE  (s \o w)[i] < (s \o w)[j]
    BY DEF Increasing
  <1>1. CASE j <= Len(s)
    <2>1. i \in 1..Len(s) /\ j \in 1..Len(s) /\ (s \o w)[i] = s[i] /\ (s \o w)[j] = s[j]
      BY <1>1
    <2> QED BY <2>1 DEF Ordered, Increasing
  <1>2. CASE i <= Len(s) /\ Len(s) < j
    <2>1. /\ i \in 1..Len(s) /\ j - Len(s) \in 1..Len(w)
          /\ (s \o w)[i] = s[i] /\ (s \o w)[j] = w[j - Len(s)]
      BY <1>2
    <2> QED BY <2>1 DEF Ordered
  <1>3. CASE Len(s) < i
    <2>1. /\ i - Len(s) \in 1..Len(w) /\ j - Len(s) \in 1..Len(w) /\ i - Len(s) < j - Len(s)
          /\ (s \o w)[i] = w[i - Len(s)] /\ (s \o w)[j] = w[j - Len(s)]
      BY <1>3
    <2> QED BY <2>1 DEF Ordered, Increasing
  <1> QED BY <1>1, <1>2, <1>3

\* A text typed now waits behind the others.
LEMMA OrderedAppend ==
    ASSUME NEW s \in Seq(Nat), NEW w \in Seq(Nat), NEW n \in Nat, Ordered(s, w, n)
    PROVE  Ordered(s, Append(w, n + 1), n + 1)
  <1> DEFINE v == Append(w, n + 1)
  <1>1. /\ v \in Seq(Nat) /\ Len(v) = Len(w) + 1 /\ v[Len(w) + 1] = n + 1
        /\ \A j \in 1..Len(w) : v[j] = w[j]
    OBVIOUS
  <1> HIDE DEF v
  <1>0. Len(w) \in Nat /\ \A j \in 1..Len(v) : j \in 1..Len(w) \/ j = Len(w) + 1
    BY <1>1
  <1>2. Increasing(v)
    <2> SUFFICES ASSUME NEW i \in 1..Len(v), NEW j \in 1..Len(v), i < j
                 PROVE  v[i] < v[j]
      BY DEF Increasing
    <2>1. i \in 1..Len(w) /\ v[i] = w[i] /\ w[i] \in Nat /\ w[i] <= n
      BY <1>0, <1>1, SMTT(30) DEF Ordered
    <2>2. CASE j = Len(w) + 1
      BY <1>1, <2>1, <2>2
    <2>3. CASE j \in 1..Len(w)
      BY <1>1, <2>1, <2>3 DEF Ordered, Increasing
    <2> QED BY <1>0, <2>2, <2>3
  <1>3. \A i \in 1..Len(s), j \in 1..Len(v) : s[i] < v[j]
    <2> SUFFICES ASSUME NEW i \in 1..Len(s), NEW j \in 1..Len(v)
                 PROVE  s[i] < v[j]
      OBVIOUS
    <2>1. s[i] \in Nat /\ s[i] <= n
      BY DEF Ordered
    <2>2. CASE j = Len(w) + 1
      BY <1>1, <2>1, <2>2
    <2>3. CASE j \in 1..Len(w)
      BY <1>1, <2>3 DEF Ordered
    <2> QED BY <1>0, <2>2, <2>3
  <1>4. ASSUME NEW j \in 1..Len(v) PROVE v[j] <= n + 1
    <2>1. CASE j = Len(w) + 1
      BY <1>1, <2>1
    <2>2. CASE j \in 1..Len(w)
      <3>1. v[j] = w[j] /\ w[j] \in Nat /\ w[j] <= n
        BY <1>1, <2>2, SMTT(30) DEF Ordered
      <3> QED BY <3>1
    <2> QED BY <1>0, <2>1, <2>2
  <1>5. \A i \in 1..Len(s) : s[i] <= n + 1
    BY DEF Ordered
  <1>6. Ordered(s, v, n + 1)
    BY <1>2, <1>3, <1>4, <1>5 DEF Ordered
  <1> QED BY <1>6 DEF v

\* More may have been typed, for somebody else.
LEMMA OrderedLater ==
    ASSUME NEW s \in Seq(Nat), NEW w \in Seq(Nat), NEW n \in Nat, Ordered(s, w, n)
    PROVE  Ordered(s, w, n + 1)
  BY DEF Ordered

\* A part of what waits may be all that is left.
LEMMA OrderedPart ==
    ASSUME NEW s \in Seq(Nat), NEW w \in Seq(Nat), NEW n \in Nat, Ordered(s, w, n),
           NEW d \in Nat, NEW v \in Seq(Nat), d + Len(v) <= Len(w),
           \A j \in 1..Len(v) : v[j] = w[d + j]
    PROVE  Ordered(s, v, n)
  <1>1. \A j \in 1..Len(v) : d + j \in 1..Len(w)
    OBVIOUS
  <1>2. Increasing(v)
    <2> SUFFICES ASSUME NEW i \in 1..Len(v), NEW j \in 1..Len(v), i < j
                 PROVE  v[i] < v[j]
      BY DEF Increasing
    <2>1. d + i < d + j /\ v[i] = w[d + i] /\ v[j] = w[d + j]
      OBVIOUS
    <2> QED BY <1>1, <2>1 DEF Ordered, Increasing
  <1>3. \A i \in 1..Len(s), j \in 1..Len(v) : s[i] < v[j]
    <2> SUFFICES ASSUME NEW i \in 1..Len(s), NEW j \in 1..Len(v)
                 PROVE  s[i] < v[j]
      OBVIOUS
    <2>1. d + j \in 1..Len(w) /\ v[j] = w[d + j]
      BY <1>1
    <2> QED BY <2>1 DEF Ordered
  <1>4. \A j \in 1..Len(v) : v[j] <= n
    BY <1>1 DEF Ordered
  <1> QED BY <1>2, <1>3, <1>4 DEF Ordered

\* The first k texts that wait are sent, but for those that are refused.
LEMMA OrderedMove ==
    ASSUME NEW s \in Seq(Nat), NEW w \in Seq(Nat), NEW n \in Nat, Ordered(s, w, n),
           NEW k \in 0..Len(w), NEW refused
    PROVE  /\ s \o Accepted(SubSeq(w, 1, k), refused) \in Seq(Nat)
           /\ SubSeq(w, k + 1, Len(w)) \in Seq(Nat)
           /\ Len(SubSeq(w, k + 1, Len(w))) = Len(w) - k
           /\ Ordered(s \o Accepted(SubSeq(w, 1, k), refused), SubSeq(w, k + 1, Len(w)), n)
  <1> DEFINE g == SubSeq(w, 1, k)
             v == SubSeq(w, k + 1, Len(w))
             a == Accepted(g, refused)
  <1>1. g \in Seq(Nat) /\ Len(g) = k /\ \A i \in 1..k : g[i] = w[i]
    OBVIOUS
  <1>2. v \in Seq(Nat) /\ Len(v) = Len(w) - k /\ \A i \in 1..Len(v) : v[i] = w[k + i]
    OBVIOUS
  <1> HIDE DEF g, v
  <1>3. Increasing(g)
    <2> SUFFICES ASSUME NEW i \in 1..k, NEW j \in 1..k, i < j
                 PROVE  g[i] < g[j]
      BY <1>1 DEF Increasing
    <2>1. i \in 1..Len(w) /\ j \in 1..Len(w)
      OBVIOUS
    <2> QED BY <1>1, <2>1 DEF Ordered, Increasing
  <1>4. /\ a \in Seq(Nat) /\ Increasing(a)
        /\ \A j \in 1..Len(a) : \E i \in 1..k : a[j] = w[i]
    <2>1. /\ a \in Seq(Nat) /\ Increasing(a)
          /\ \A j \in 1..Len(a) : \E i \in 1..Len(g) : a[j] = g[i]
      BY <1>1, <1>3, AcceptedOK
    <2> HIDE DEF a
    <2> QED BY <1>1, <2>1
  <1> HIDE DEF a
  <1>5. Ordered(s, a, n)
    <2>1. \A i \in 1..Len(s), j \in 1..Len(a) : s[i] < a[j]
      BY <1>4 DEF Ordered
    <2>2. \A j \in 1..Len(a) : a[j] <= n
      <3> SUFFICES ASSUME NEW j \in 1..Len(a)
                   PROVE  a[j] <= n
        OBVIOUS
      <3>1. PICK i \in 1..k : a[j] = w[i]
        BY <1>4
      <3>2. i \in 1..Len(w)
        OBVIOUS
      <3> QED BY <3>1, <3>2 DEF Ordered
    <2> QED BY <1>4, <2>1, <2>2 DEF Ordered
  <1>6. Increasing(s \o a)
    BY <1>4, <1>5, OrderedConcat
  <1>7. Ordered(s, v, n)
    <2>1. k + Len(v) <= Len(w) /\ k \in Nat
      BY <1>2
    <2> QED BY <1>2, <2>1, OrderedPart
  <1>8. \A j \in 1..Len(a), m \in 1..Len(v) : a[j] < v[m]
    <2> SUFFICES ASSUME NEW j \in 1..Len(a), NEW m \in 1..Len(v)
                 PROVE  a[j] < v[m]
      OBVIOUS
    <2>1. PICK i \in 1..k : a[j] = w[i]
      BY <1>4
    <2>2. v[m] = w[k + m] /\ k + m \in 1..Len(w) /\ i < k + m /\ i \in 1..Len(w)
      BY <1>2, SMTT(30)
    <2> QED BY <2>1, <2>2 DEF Ordered, Increasing
  <1> DEFINE t == s \o a
  <1>9. /\ t \in Seq(Nat) /\ Len(t) = Len(s) + Len(a)
        /\ \A i \in 1..Len(s) : t[i] = s[i]
        /\ \A i \in (Len(s) + 1)..Len(t) : i - Len(s) \in 1..Len(a) /\ t[i] = a[i - Len(s)]
    BY <1>4
  <1> HIDE DEF t
  <1>10. \A i \in 1..Len(t) : i \in 1..Len(s) \/ i \in (Len(s) + 1)..Len(t)
    BY <1>4, <1>9
  <1>11. \A i \in 1..Len(t), m \in 1..Len(v) : t[i] < v[m]
    BY <1>7, <1>8, <1>9, <1>10 DEF Ordered
  <1>12. \A i \in 1..Len(t) : t[i] <= n
    BY <1>5, <1>9, <1>10 DEF Ordered
  <1>13. Ordered(t, v, n)
    BY <1>6, <1>7, <1>11, <1>12 DEF Ordered, t
  <1> QED BY <1>2, <1>9, <1>13 DEF a, g, v, t
-----------------------------------------------------------------------------
(* The inductive invariant and the steps                                   *)

\* The rings are rings, the file is one that tt_oq_save wrote.
QueueTypeOK ==
    /\ oq \in [Friend -> Ring]
    /\ FileShape(file)
    /\ typed \in Nat
    /\ sent \in [Friend -> Seq(Nat)]
    /\ spent \in [flushes : Nat, restarts : Nat, crashes : Nat]

\* As long as nothing was repeated after a crash, the order is kept; that nothing
\* waits that was not typed yet is what the next text needs.
IInv ==
    /\ QueueTypeOK
    /\ spent.crashes = 0 => \A fn \in Friend : Ordered(sent[fn], Texts(oq[fn]), typed)

\* One ring of q is replaced.
LEMMA RingReplaced ==
    ASSUME NEW q \in [Friend -> Ring], NEW fn \in Friend, NEW r \in Ring
    PROVE  /\ [q EXCEPT ![fn] = r] \in [Friend -> Ring]
           /\ Waiting([q EXCEPT ![fn] = r]) = [Waiting(q) EXCEPT ![fn] = Texts(r)]
  BY DEF Waiting

\* A file that tt_oq_save wrote.
LEMMA FileWritten ==
    ASSUME NEW q \in [Friend -> Ring]
    PROVE  /\ FileShape(tt_oq_save(q))
           /\ [fn \in Friend |-> Saved(tt_oq_save(q), fn)] = Waiting(q)
  BY SaveOK DEF FileOf, FileShape, Waiting

\* Both specifications leave out the same texts.
LEMMA SameAccepted ==
    ASSUME NEW texts, NEW refused
    PROVE  Abstract!Accepted(texts, refused) = Accepted(texts, refused)
  BY Zenon DEF Accepted, Abstract!Accepted

\* At the start all is empty, here and there.
LEMMA InitOK == Init => IInv /\ Abstract!Init
  <1> SUFFICES ASSUME Init PROVE IInv /\ Abstract!Init
    OBVIOUS
  <1>1. EmptyRing \in Ring /\ Texts(EmptyRing) = <<>>
    BY EmptyRingOK, TextsType
  <1>2. FileShape(file) /\ \A fn \in Friend : Saved(file, fn) = <<>>
    BY SavedOK DEF Init, FileShape
  <1>3. Ordered(<<>>, <<>>, 0)
    BY DEF Ordered, Increasing
  <1>4. IInv
    BY <1>1, <1>2, <1>3 DEF Init, IInv, QueueTypeOK
  <1>5. Abstract!Init
    BY <1>1, <1>2 DEF Init, Abstract!Init, Abstract!None, Abstract!Friend, Friend
  <1> QED BY <1>4, <1>5

\* A text typed: Type(fn) of the abstract queue.
LEMMA SendMessageOK ==
    ASSUME IInv, NEW fn \in Friend, SendMessage(fn)
    PROVE  IInv' /\ Abstract!Type(fn)
  <1> DEFINE r == tt_oq_add(oq[fn], typed + 1)
             w == Texts(oq[fn])
             rest == IF oq[fn].count = Limit THEN Tail(w) ELSE w
  <1>0. /\ oq \in [Friend -> Ring] /\ typed \in Nat /\ oq[fn] \in Ring /\ sent[fn] \in Seq(Nat)
        /\ sent \in [Friend -> Seq(Nat)] /\ typed + 1 \in Nat /\ Limit \in Nat \ {0}
    BY Constants DEF IInv, QueueTypeOK
  <1>1. oq' = [oq EXCEPT ![fn] = r]
    BY <1>0 DEF SendMessage
  <1>2. r \in Ring /\ Texts(r) = Append(rest, typed + 1)
    BY <1>0, AddOK
  <1>3. w \in Seq(Nat) /\ Len(w) = oq[fn].count /\ w[1] = Head(w)
    BY <1>0, TextsType
  <1> HIDE DEF r
  <1>4. oq' \in [Friend -> Ring] /\ Waiting(oq') = [Waiting(oq) EXCEPT ![fn] = Append(rest, typed + 1)]
    <2>1. /\ [oq EXCEPT ![fn] = r] \in [Friend -> Ring]
          /\ Waiting([oq EXCEPT ![fn] = r]) = [Waiting(oq) EXCEPT ![fn] = Texts(r)]
      BY <1>0, <1>2, RingReplaced
    <2> HIDE DEF rest
    <2> QED BY <2>1, <1>1, <1>2
  <1>5. FileShape(file') /\ [m \in Friend |-> Saved(file', m)] = Waiting(oq')
    BY <1>4, FileWritten DEF SendMessage
  <1> HIDE DEF w
  <1>6. rest \in Seq(Nat) /\ \E d \in Nat : /\ d + Len(rest) <= Len(w)
                                            /\ \A j \in 1..Len(rest) : rest[j] = w[d + j]
    <2>1. CASE oq[fn].count = Limit
      <3>1. /\ rest \in Seq(Nat) /\ 1 + Len(rest) <= Len(w)
            /\ \A j \in 1..Len(rest) : rest[j] = w[1 + j]
        BY <2>1, <1>0, <1>3
      <3> HIDE DEF rest
      <3> QED BY <3>1
    <2>2. CASE oq[fn].count # Limit
      <3>1. /\ rest \in Seq(Nat) /\ 0 + Len(rest) <= Len(w)
            /\ \A j \in 1..Len(rest) : rest[j] = w[0 + j]
        BY <2>2, <1>3
      <3> HIDE DEF rest
      <3> QED BY <3>1
    <2> QED BY <2>1, <2>2
  <1>7. ASSUME spent'.crashes = 0, NEW m \in Friend
        PROVE  Ordered(sent'[m], Texts(oq'[m]), typed')
    <2>1. spent.crashes = 0 /\ sent' = sent /\ typed' = typed + 1
      BY <1>7 DEF SendMessage
    <2>2. \A x \in Friend : Ordered(sent[x], Texts(oq[x]), typed)
      BY <2>1 DEF IInv
    <2>3. CASE m = fn
      <3>1. Ordered(sent[fn], w, typed)
        BY <2>2 DEF w
      <3>2. Ordered(sent[fn], rest, typed)
        <4> HIDE DEF rest
        <4> QED BY <1>0, <1>3, <1>6, <3>1, OrderedPart
      <3>3. Ordered(sent[fn], Append(rest, typed + 1), typed + 1)
        <4> HIDE DEF rest
        <4> QED BY <1>0, <1>6, <3>2, OrderedAppend
      <3>4. Texts(oq'[fn]) = Append(rest, typed + 1)
        BY <1>0, <1>1, <1>2
      <3> QED BY <2>1, <2>3, <3>3, <3>4
    <2>4. CASE m # fn
      <3>1. oq'[m] = oq[m] /\ sent[m] \in Seq(Nat) /\ Texts(oq[m]) \in Seq(Nat)
        BY <2>4, <1>0, <1>1, TextsType
      <3>2. Ordered(sent[m], Texts(oq[m]), typed + 1)
        BY <2>2, <3>1, <1>0, OrderedLater
      <3> QED BY <2>1, <3>1, <3>2
    <2> QED BY <2>3, <2>4
  <1>8. IInv'
    BY <1>0, <1>4, <1>5, <1>7 DEF IInv, QueueTypeOK, SendMessage
  <1>9. Abstract!Type(fn)
    <2>1. Waiting(oq)[fn] = w
      BY DEF w, Waiting
    <2>2. Waiting(oq') = [Waiting(oq) EXCEPT ![fn] =
              Append(IF Len(Waiting(oq)[fn]) = Limit THEN Tail(Waiting(oq)[fn])
                     ELSE Waiting(oq)[fn], typed + 1)]
      BY <1>3, <1>4, <2>1
    <2>3. lost' = IF Len(Waiting(oq)[fn]) = Limit THEN lost \cup {Head(Waiting(oq)[fn])} ELSE lost
      BY <1>3, <2>1 DEF SendMessage, w
    <2> QED BY <1>5, <2>2, <2>3 DEF Abstract!Type, SendMessage, Waiting
  <1> QED BY <1>8, <1>9

\* A flush: Hand(fn, k, refused) of the abstract queue.
LEMMA FlushOK ==
    ASSUME IInv, NEW fn \in Friend, NEW k \in 0..Limit, NEW encrypted, NEW refused,
           Flush(fn, k, encrypted, refused)
    PROVE  /\ IInv'
           /\ k \in 0..Len(Waiting(oq)[fn])
           /\ refused \subseteq Range(SubSeq(Waiting(oq)[fn], 1, k))
           /\ Abstract!Hand(fn, k, refused)
  <1> DEFINE w == Texts(oq[fn])
             left == SubSeq(w, k + 1, Len(w))
             out == Accepted(SubSeq(w, 1, k), refused)
             r == AddAll(tt_oq_take_all(oq[fn]), left)
  <1>0. /\ oq \in [Friend -> Ring] /\ typed \in Nat /\ oq[fn] \in Ring /\ sent[fn] \in Seq(Nat)
        /\ sent \in [Friend -> Seq(Nat)] /\ Limit \in Nat \ {0} /\ FileShape(file)
        /\ spent \in [flushes : Nat, restarts : Nat, crashes : Nat]
    BY Constants DEF IInv, QueueTypeOK
  <1>1. w \in Seq(Nat) /\ Len(w) = oq[fn].count /\ Len(w) \in 0..Limit
    BY <1>0, TextsType
  <1>2. k \in 0..Len(w)
    BY <1>0, <1>1 DEF Flush
  <1>3. /\ oq' = [oq EXCEPT ![fn] = r] /\ sent' = [sent EXCEPT ![fn] = @ \o out]
        /\ typed' = typed /\ lost' = lost \cup refused
        /\ file' = file \/ file' = tt_oq_save(oq')
        /\ refused \subseteq Range(SubSeq(w, 1, k))
    BY Zenon DEF Flush, Requeued
  <1>4. spent' \in [flushes : Nat, restarts : Nat, crashes : Nat] /\ spent'.crashes = spent.crashes
    <2>1. spent' = [spent EXCEPT !.flushes = @ + 1]
      BY Zenon DEF Flush
    <2> QED BY <1>0, <2>1, SMTT(30)
  <1> HIDE DEF w
  <1>5. left \in Seq(Nat) /\ Len(left) <= Limit
    BY <1>0, <1>1, <1>2, SMTT(30)
  <1>6. r \in Ring /\ Texts(r) = left
    <2> HIDE DEF left
    <2>1. tt_oq_take_all(oq[fn]) \in Ring /\ tt_oq_take_all(oq[fn]).count = 0
      BY <1>0, TakeAllOK
    <2> QED BY <2>1, <1>5, AddAllOK
  <1> HIDE DEF left, r
  <1>7. oq' \in [Friend -> Ring] /\ Waiting(oq') = [Waiting(oq) EXCEPT ![fn] = left]
    <2>1. /\ [oq EXCEPT ![fn] = r] \in [Friend -> Ring]
          /\ Waiting([oq EXCEPT ![fn] = r]) = [Waiting(oq) EXCEPT ![fn] = Texts(r)]
      BY <1>0, <1>6, RingReplaced
    <2> QED BY <2>1, <1>3, <1>6
  <1>8. /\ FileShape(file')
        /\ \/ [m \in Friend |-> Saved(file', m)] = [m \in Friend |-> Saved(file, m)]
           \/ [m \in Friend |-> Saved(file', m)] = Waiting(oq')
    <2>1. CASE file' = file
      BY <2>1, <1>0
    <2>2. CASE file' = tt_oq_save(oq')
      BY <2>2, <1>7, FileWritten
    <2> QED BY <1>3, <2>1, <2>2
  <1>9. out \in Seq(Nat) /\ sent' \in [Friend -> Seq(Nat)]
    <2>1. SubSeq(w, 1, k) \in Seq(Nat)
      BY <1>1, <1>2
    <2>2. out \in Seq(Nat)
      BY <2>1, AcceptedOK
    <2> HIDE DEF out
    <2> QED BY <2>2, <1>0, <1>3
  <1>10. ASSUME spent'.crashes = 0, NEW m \in Friend
         PROVE  Ordered(sent'[m], Texts(oq'[m]), typed')
    <2>1. \A x \in Friend : Ordered(sent[x], Texts(oq[x]), typed)
      BY <1>4, <1>10 DEF IInv
    <2>2. CASE m = fn
      <3>1. Ordered(sent[fn], w, typed)
        BY <2>1 DEF w
      <3>2. Ordered(sent[fn] \o out, left, typed)
        BY <3>1, <1>0, <1>1, <1>2, OrderedMove DEF left
      <3>3. sent'[fn] = sent[fn] \o out /\ Texts(oq'[fn]) = left
        <4> HIDE DEF out
        <4> QED BY <1>0, <1>3, <1>6
      <3> HIDE DEF out
      <3> QED BY <2>2, <3>2, <3>3, <1>3
    <2>3. CASE m # fn
      <3> HIDE DEF out
      <3> QED BY <2>1, <2>3, <1>0, <1>3
    <2> QED BY <2>2, <2>3
  <1>11. IInv'
    BY <1>0, <1>3, <1>4, <1>7, <1>8, <1>9, <1>10 DEF IInv, QueueTypeOK
  <1>12. Waiting(oq)[fn] = w
    BY DEF w, Waiting
  <1>13. Abstract!Hand(fn, k, refused)
    <2>1. Waiting(oq') = [Waiting(oq) EXCEPT ![fn] = SubSeq(@, k + 1, Len(@))]
      BY <1>7, <1>12 DEF left, Waiting
    <2>2. sent' = [sent EXCEPT ![fn] =
                     @ \o Abstract!Accepted(SubSeq(Waiting(oq)[fn], 1, k), refused)]
      BY <1>3, <1>12, SameAccepted, Zenon
    <2> QED BY <1>3, <1>8, <2>1, <2>2 DEF Abstract!Hand, Waiting
  <1> QED BY <1>2, <1>3, <1>11, <1>12, <1>13

\* The texts of a friend are taken and not sent: Forget(fn) of the abstract queue.
LEMMA ForgetOK ==
    ASSUME IInv, NEW fn \in Friend,
           oq' = [oq EXCEPT ![fn] = tt_oq_take_all(@)],
           file' = tt_oq_save(oq'),
           lost' = lost \cup Range(Texts(oq[fn])),
           typed' = typed, sent' = sent, spent'.crashes = spent.crashes,
           spent' \in [flushes : Nat, restarts : Nat, crashes : Nat]
    PROVE  IInv' /\ Abstract!Forget(fn)
  <1> DEFINE r == tt_oq_take_all(oq[fn])
  <1>0. /\ oq \in [Friend -> Ring] /\ typed \in Nat /\ oq[fn] \in Ring
        /\ sent \in [Friend -> Seq(Nat)] /\ sent[fn] \in Seq(Nat)
    BY DEF IInv, QueueTypeOK
  <1>1. r \in Ring /\ Texts(r) = <<>>
    <2>1. r \in Ring /\ r.count = 0
      BY <1>0, TakeAllOK
    <2> HIDE DEF r
    <2>2. Texts(r) \in Seq(Nat) /\ Len(Texts(r)) = 0
      BY <2>1, TextsType
    <2> QED BY <2>1, <2>2
  <1>2. oq' = [oq EXCEPT ![fn] = r]
    OBVIOUS
  <1> HIDE DEF r
  <1>3. oq' \in [Friend -> Ring] /\ Waiting(oq') = [Waiting(oq) EXCEPT ![fn] = <<>>]
    <2>1. /\ [oq EXCEPT ![fn] = r] \in [Friend -> Ring]
          /\ Waiting([oq EXCEPT ![fn] = r]) = [Waiting(oq) EXCEPT ![fn] = Texts(r)]
      BY <1>0, <1>1, RingReplaced
    <2> QED BY <2>1, <1>1, <1>2
  <1>4. FileShape(file') /\ [m \in Friend |-> Saved(file', m)] = Waiting(oq')
    BY <1>3, FileWritten
  <1>5. ASSUME spent'.crashes = 0, NEW m \in Friend
        PROVE  Ordered(sent'[m], Texts(oq'[m]), typed')
    <2>1. \A x \in Friend : Ordered(sent[x], Texts(oq[x]), typed)
      BY <1>5 DEF IInv
    <2>2. CASE m = fn
      <3>1. Ordered(sent[fn], <<>>, typed)
        BY <2>1 DEF Ordered, Increasing
      <3>2. Texts(oq'[fn]) = <<>>
        BY <1>0, <1>1, <1>2
      <3> QED BY <2>2, <3>1, <3>2
    <2>3. CASE m # fn
      BY <2>1, <2>3, <1>0, <1>2
    <2> QED BY <2>2, <2>3
  <1>6. IInv'
    BY <1>0, <1>3, <1>4, <1>5 DEF IInv, QueueTypeOK
  <1>7. lost' = lost \cup Range(Waiting(oq)[fn])
    BY DEF Waiting
  <1>8. Abstract!Forget(fn)
    BY <1>3, <1>4, <1>7 DEF Abstract!Forget, Abstract!Range, Range, Waiting
  <1> QED BY <1>6, <1>8

\* An initial part keeps the order.
LEMMA OrderedPrefix ==
    ASSUME NEW s \in Seq(Nat), NEW w \in Seq(Nat), NEW n \in Nat, Ordered(s, w, n),
           NEW v \in Seq(Nat), IsPrefix(v, w)
    PROVE  Ordered(s, v, n)
  <1>1. Len(v) <= Len(w) /\ SubSeq(v, 1, Len(v)) = SubSeq(w, 1, Len(v))
    BY DEF IsPrefix
  <1>2. \A j \in 1..Len(v) : v[j] = SubSeq(v, 1, Len(v))[j]
    OBVIOUS
  <1>3. \A j \in 1..Len(v) : w[j] = SubSeq(w, 1, Len(v))[j]
    BY <1>1
  <1>4. \A j \in 1..Len(v) : v[j] = w[0 + j]
    BY <1>1, <1>2, <1>3
  <1>5. 0 \in Nat /\ 0 + Len(v) <= Len(w)
    BY <1>1
  <1> QED BY <1>4, <1>5, OrderedPart

\* The texts that wait, here and in the abstract queue.
LEMMA SameQueued ==
    ASSUME NEW q
    PROVE  Queued(q) = Abstract!All(Waiting(q))
  <1>1. \A fn \in Friend : Waiting(q)[fn] = Texts(q[fn])
    BY DEF Waiting
  <1>2. {Range(Texts(q[fn])) : fn \in Friend} = {Range(Waiting(q)[fn]) : fn \in Friend}
    BY <1>1
  <1> QED BY <1>2 DEF Queued, Abstract!All, Abstract!Friend, Friend, Abstract!Range, Range

\* What a start finds is what Recover lets come back.
LEMMA FoundRecovers ==
    ASSUME NEW q, Found(q, Waiting(oq')), [m \in Friend |-> Saved(file', m)] = q,
           lost' = lost \cup (Queued(oq) \ Queued(oq')), typed' = typed, sent' = sent
    PROVE  Abstract!Recover(q)
  <1>1. lost' = lost \cup (Abstract!All(Waiting(oq)) \ Abstract!All(Waiting(oq')))
    BY SameQueued, Zenon
  <1> HIDE DEF Abstract!All
  <1> QED BY <1>1 DEF Abstract!Recover, Abstract!None, Abstract!Friend, Friend, Waiting,
                      Found, Nobody

\* A restart: Recover(waiting) of the abstract queue.
LEMMA RestartOK ==
    ASSUME IInv, Restart
    PROVE  IInv' /\ Abstract!Recover(Waiting(oq))
  <1>0. /\ oq \in [Friend -> Ring] /\ typed \in Nat /\ sent \in [Friend -> Seq(Nat)]
        /\ spent \in [flushes : Nat, restarts : Nat, crashes : Nat]
    BY DEF IInv, QueueTypeOK
  <1>1. file' = tt_oq_save(oq) /\ oq' = tt_oq_load(file') /\ typed' = typed /\ sent' = sent
        /\ lost' = lost \cup (Queued(oq) \ Queued(oq'))
    BY DEF Restart
  <1>2. spent' \in [flushes : Nat, restarts : Nat, crashes : Nat] /\ spent'.crashes = spent.crashes
    BY <1>0 DEF Restart
  <1>3. FileShape(file') /\ [m \in Friend |-> Saved(file', m)] = Waiting(oq)
    BY <1>0, <1>1, FileWritten
  <1>4. /\ oq' \in [Friend -> Ring]
        /\ \A m \in Friend : IsPrefix(Texts(oq'[m]), Saved(file', m))
        /\ Found([m \in Friend |-> Saved(file', m)], Waiting(oq'))
    BY <1>1, <1>3, LoadOK
  <1>5. \A m \in Friend : Saved(file', m) = Texts(oq[m]) /\ Waiting(oq)[m] = Texts(oq[m])
    BY <1>3 DEF Waiting
  <1>6. ASSUME spent'.crashes = 0, NEW m \in Friend
        PROVE  Ordered(sent'[m], Texts(oq'[m]), typed')
    <2>1. Ordered(sent[m], Texts(oq[m]), typed)
      BY <1>2, <1>6 DEF IInv
    <2>2. /\ sent[m] \in Seq(Nat) /\ Texts(oq[m]) \in Seq(Nat) /\ Texts(oq'[m]) \in Seq(Nat)
          /\ IsPrefix(Texts(oq'[m]), Texts(oq[m]))
      BY <1>0, <1>4, <1>5, TextsType
    <2> QED BY <2>1, <2>2, <1>0, <1>1, OrderedPrefix
  <1>7. IInv'
    BY <1>0, <1>1, <1>2, <1>3, <1>4, <1>6 DEF IInv, QueueTypeOK
  <1>8. Abstract!Recover(Waiting(oq))
    BY <1>1, <1>3, <1>4, FoundRecovers
  <1> QED BY <1>7, <1>8

\* A crash: Recover(saved) of the abstract queue.
LEMMA CrashOK ==
    ASSUME IInv, Crash
    PROVE  IInv' /\ Abstract!Recover([m \in Friend |-> Saved(file, m)])
  <1>0. /\ FileShape(file) /\ typed \in Nat /\ sent \in [Friend -> Seq(Nat)]
        /\ spent \in [flushes : Nat, restarts : Nat, crashes : Nat]
    BY DEF IInv, QueueTypeOK
  <1>1. oq' = tt_oq_load(file) /\ file' = file /\ typed' = typed /\ sent' = sent
        /\ lost' = lost \cup (Queued(oq) \ Queued(oq'))
    BY DEF Crash
  <1>2. spent' \in [flushes : Nat, restarts : Nat, crashes : Nat] /\ spent'.crashes # 0
    BY <1>0, SMTT(30) DEF Crash
  <1>3. /\ oq' \in [Friend -> Ring]
        /\ Found([m \in Friend |-> Saved(file, m)], Waiting(oq'))
    BY <1>0, <1>1, LoadOK
  <1>4. IInv'
    BY <1>0, <1>1, <1>2, <1>3 DEF IInv, QueueTypeOK
  <1>5. Abstract!Recover([m \in Friend |-> Saved(file, m)])
    BY <1>1, <1>3, FoundRecovers
  <1> QED BY <1>4, <1>5

\* Every step keeps the invariant and is a step of the abstract queue, or none.
LEMMA StepOK == IInv /\ [Next]_vars => IInv' /\ [Abstract!Next]_(Abstract!vars)
  <1> SUFFICES ASSUME IInv, [Next]_vars
               PROVE  IInv' /\ [Abstract!Next]_(Abstract!vars)
    OBVIOUS
  <1>0. spent \in [flushes : Nat, restarts : Nat, crashes : Nat]
    BY DEF IInv, QueueTypeOK
  <1>1. ASSUME NEW fn \in Friend, SendMessage(fn)
        PROVE  IInv' /\ Abstract!Next
    BY <1>1, SendMessageOK, Zenon DEF Abstract!Next, Abstract!Friend, Friend
  <1>2. ASSUME NEW fn \in Friend, NEW k \in 0..Limit, NEW encrypted, NEW refused,
               Flush(fn, k, encrypted, refused)
        PROVE  IInv' /\ Abstract!Next
    <2>1. /\ IInv'
          /\ k \in 0..Len(Waiting(oq)[fn])
          /\ refused \in SUBSET Abstract!Range(SubSeq(Waiting(oq)[fn], 1, k))
          /\ Abstract!Hand(fn, k, refused)
      BY <1>2, FlushOK DEF Abstract!Range, Range
    <2> QED BY <2>1, Zenon DEF Abstract!Next, Abstract!Friend, Friend, Waiting
  <1>3. ASSUME NEW fn \in Friend, FlushBlocked(fn)
        PROVE  IInv' /\ Abstract!Next
    <2>1. spent' \in [flushes : Nat, restarts : Nat, crashes : Nat] /\ spent'.crashes = spent.crashes
      BY <1>0, <1>3 DEF FlushBlocked
    <2>2. IInv' /\ Abstract!Forget(fn)
      BY <1>3, <2>1, ForgetOK DEF FlushBlocked
    <2> QED BY <2>2, Zenon DEF Abstract!Next, Abstract!Friend, Friend
  <1>4. ASSUME NEW fn \in Friend, DeleteFriend(fn)
        PROVE  IInv' /\ Abstract!Next
    <2>1. spent' \in [flushes : Nat, restarts : Nat, crashes : Nat] /\ spent'.crashes = spent.crashes
      BY <1>0, <1>4 DEF DeleteFriend
    <2>2. IInv' /\ Abstract!Forget(fn)
      BY <1>4, <2>1, ForgetOK DEF DeleteFriend
    <2> QED BY <2>2, Zenon DEF Abstract!Next, Abstract!Friend, Friend
  <1>5. ASSUME Restart
        PROVE  IInv' /\ Abstract!Next
    BY <1>5, RestartOK, Zenon DEF Abstract!Next, Waiting
  <1>6. ASSUME Crash
        PROVE  IInv' /\ Abstract!Next
    BY <1>6, CrashOK, Zenon DEF Abstract!Next
  <1>7. ASSUME UNCHANGED vars
        PROVE  IInv' /\ UNCHANGED Abstract!vars
    BY <1>7 DEF vars, Abstract!vars, IInv, QueueTypeOK
  <1> QED BY <1>1, <1>2, <1>3, <1>4, <1>5, <1>6, <1>7, Zenon DEF Next

\* Each friend gets the texts in the order they were typed and none twice, for any
\* number of friends and any limit: tt_oq_add with a full ring, flushes that are cut
\* short and restarts included, as long as the program does not crash.
THEOREM TextsInOrder == Spec => []InOrder
  <1>1. IInv => InOrder
    <2> SUFFICES ASSUME IInv, NEW fn \in Friend
                 PROVE  /\ oq[fn].head < Limit /\ oq[fn].count <= Limit
                        /\ spent.crashes = 0 => Increasing(sent[fn] \o Texts(oq[fn]))
      BY DEF InOrder
    <2>1. oq[fn] \in Ring /\ sent[fn] \in Seq(Nat) /\ typed \in Nat
      BY DEF IInv, QueueTypeOK
    <2>2. oq[fn].head < Limit /\ oq[fn].count <= Limit
      BY <2>1, Constants DEF Ring, Slots
    <2>3. ASSUME spent.crashes = 0
          PROVE  Increasing(sent[fn] \o Texts(oq[fn]))
      <3>1. Ordered(sent[fn], Texts(oq[fn]), typed)
        BY <2>3 DEF IInv
      <3> QED BY <2>1, <3>1, TextsType, OrderedConcat
    <2> QED BY <2>2, <2>3
  <1> QED BY <1>1, InitOK, StepOK, PTL DEF Spec

\* The rings and the file of tokens implement the abstract queue: no text
\* disappears, comes back or overtakes another in a way TextQueue does not allow,
\* whatever the order of typing, flushes, restarts and crashes.  TextQueue counts the
\* texts that tt_oq_load leaves in the file as lost.
THEOREM QueueImplemented == Spec => ImplementsTextQueue
  BY InitOK, StepOK, PTL DEF Spec, ImplementsTextQueue, Abstract!Spec
=============================================================================
