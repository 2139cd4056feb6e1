---------------------------- MODULE QueueLemmas ----------------------------
(***************************************************************************)
(* Facts about queues that the proofs of several components rest on: the   *)
(* arithmetic of an index that runs round an array, as in the rings of the *)
(* event queues and of the offline queue, and what Append, Tail and \o do  *)
(* to a sequence whose elements are records of different kinds.            *)
(***************************************************************************)
EXTENDS Integers, Sequences, WellFoundedInduction, TLAPS

-----------------------------------------------------------------------------
(* Rings                                                                   *)

\* The place of the i-th entry after the head is a slot of the array.
LEMMA PlaceInRing ==
    ASSUME NEW cap \in Nat \ {0}, NEW head \in 0..(cap - 1), NEW i \in 0..cap
    PROVE  (head + i) % cap \in 0..(cap - 1)
  BY SMT

\* Entries less than one round apart have places of their own.
LEMMA PlacesDiffer ==
    ASSUME NEW cap \in Nat \ {0}, NEW head \in 0..(cap - 1),
           NEW i \in 0..(cap - 1), NEW j \in 0..(cap - 1), i # j
    PROVE  (head + i) % cap # (head + j) % cap
  <1>1. head + i \in Nat /\ head + i < 2 * cap /\ head + j \in Nat /\ head + j < 2 * cap
    OBVIOUS
  <1>2. (head + i) % cap = IF head + i < cap THEN head + i ELSE head + i - cap
    BY <1>1, SMT
  <1>3. (head + j) % cap = IF head + j < cap THEN head + j ELSE head + j - cap
    BY <1>1, SMT
  <1> QED BY <1>2, <1>3

\* When the head moves on by k, what was i + k places behind it is i behind.
LEMMA HeadMoves ==
    ASSUME NEW cap \in Nat \ {0}, NEW head \in 0..(cap - 1),
           NEW k \in 0..cap, NEW i \in 0..cap, i + k <= cap
    PROVE  (((head + k) % cap) + i) % cap = (head + (i + k)) % cap
  <1> DEFINE h == (head + k) % cap
  <1>1. head + k \in Nat /\ head + k < 2 * cap
    OBVIOUS
  <1>2. h = IF head + k < cap THEN head + k ELSE head + k - cap
    BY <1>1, SMT
  <1>3. h + i \in Nat /\ h + i < 2 * cap
    BY <1>2
  <1>4. (h + i) % cap = IF h + i < cap THEN h + i ELSE h + i - cap
    BY <1>3, SMT
  <1>5. head + (i + k) \in Nat /\ head + (i + k) < 2 * cap
    OBVIOUS
  <1>6. (head + (i + k)) % cap
          = IF head + (i + k) < cap THEN head + (i + k) ELSE head + (i + k) - cap
    BY <1>5, SMT
  <1> HIDE DEF h
  <1>7. (h + i) % cap = (head + (i + k)) % cap
    BY <1>2, <1>4, <1>6
  <1> QED BY <1>7 DEF h

-----------------------------------------------------------------------------
(* Sequences of anything                                                   *)

\* s is a sequence, whatever its elements are
IsSeq(s) == Len(s) \in Nat /\ s = [i \in 1..Len(s) |-> s[i]]

\* A sequence is one over the set of its elements.
LEMMA SeqOfElements ==
    ASSUME NEW s, IsSeq(s), NEW S, \A i \in 1..Len(s) : s[i] \in S
    PROVE  s \in Seq(S)
  BY DEF IsSeq

\* The other way round.
LEMMA ElementOfSeqIsSeq ==
    ASSUME NEW S, NEW s \in Seq(S)
    PROVE  IsSeq(s)
  BY DEF IsSeq

\* A function on 1..n is a sequence of length n.
LEMMA IsSeqOf ==
    ASSUME NEW s, NEW n \in Nat, DOMAIN s = 1..n, s = [i \in 1..n |-> s[i]]
    PROVE  IsSeq(s) /\ Len(s) = n
  <1>1. s \in Seq({s[i] : i \in 1..n})
    OBVIOUS
  <1>2. Len(s) = n
    BY <1>1
  <1> QED BY <1>2 DEF IsSeq

\* The same, with the set its elements are from.
LEMMA FunctionIsSeq ==
    ASSUME NEW n \in Nat, NEW S, NEW f \in [1..n -> S]
    PROVE  f \in Seq(S) /\ Len(f) = n
  OBVIOUS

\* The empty queue.
LEMMA EmptyIsSeq == IsSeq(<<>>) /\ Len(<<>>) = 0
  BY DEF IsSeq

\* Append adds one element at the end.
LEMMA AppendIsSeq ==
    ASSUME NEW s, IsSeq(s), NEW x
    PROVE  /\ IsSeq(Append(s, x))
           /\ Len(Append(s, x)) = Len(s) + 1
           /\ \A i \in 1..Len(s) : Append(s, x)[i] = s[i]
           /\ Append(s, x)[Len(s) + 1] = x
  <1> DEFINE S == {s[i] : i \in 1..Len(s)} \cup {x}
  <1>1. s \in Seq(S) /\ x \in S
    BY SeqOfElements
  <1> HIDE DEF S
  <1>2. Append(s, x) \in Seq(S) /\ Len(Append(s, x)) = Len(s) + 1
    BY <1>1
  <1>3. IsSeq(Append(s, x))
    BY <1>2, ElementOfSeqIsSeq
  <1> QED BY <1>1, <1>2, <1>3

\* Tail drops the head.
LEMMA TailIsSeq ==
    ASSUME NEW s, IsSeq(s), s # <<>>
    PROVE  /\ IsSeq(Tail(s)) /\ Len(s) \in Nat \ {0}
           /\ Len(Tail(s)) = Len(s) - 1
           /\ Head(s) = s[1]
           /\ \A i \in 1..Len(Tail(s)) : Tail(s)[i] = s[i + 1]
  <1> DEFINE S == {s[i] : i \in 1..Len(s)}
  <1>1. s \in Seq(S)
    BY SeqOfElements
  <1> HIDE DEF S
  <1>2. Tail(s) \in Seq(S) /\ Len(Tail(s)) = Len(s) - 1 /\ Len(s) \in Nat \ {0}
    BY <1>1
  <1>3. IsSeq(Tail(s))
    BY <1>2, ElementOfSeqIsSeq
  <1> QED BY <1>1, <1>2, <1>3

\* One sequence after the other.
LEMMA ConcatIsSeq ==
    ASSUME NEW s, IsSeq(s), NEW t, IsSeq(t)
    PROVE  /\ IsSeq(s \o t)
           /\ Len(s \o t) = Len(s) + Len(t)
           /\ \A i \in 1..Len(s) : (s \o t)[i] = s[i]
           /\ \A i \in (Len(s) + 1)..(Len(s) + Len(t)) : (s \o t)[i] = t[i - Len(s)]
  <1> DEFINE S == {s[i] : i \in 1..Len(s)} \cup {t[i] : i \in 1..Len(t)}
  <1>1. s \in Seq(S) /\ t \in Seq(S)
    BY SeqOfElements
  <1> HIDE DEF S
  <1>2. s \o t \in Seq(S) /\ Len(s \o t) = Len(s) + Len(t)
    BY <1>1
  <1>3. IsSeq(s \o t)
    BY <1>2, ElementOfSeqIsSeq
  <1> QED BY <1>1, <1>2, <1>3

-----------------------------------------------------------------------------
(* Induction, with sets for predicates                                     *)

\* A set of numbers has a least one.
LEMMA LeastNumber ==
    ASSUME NEW S \in SUBSET Nat, S # {}
    PROVE  \E n \in S : \A m \in S : n <= m
  <1>1. PICK n \in S : \A m \in S : ~(<<m, n>> \in OpToRel(<, Nat))
    BY NatLessThanWellFounded, WFMin
  <1>2. ASSUME NEW m \in S
        PROVE  n <= m
    <2>1. ~(m < n)
      BY <1>1 DEF OpToRel
    <2> QED BY <2>1
  <1> QED BY <1>2

\* A set that has 0 and with every i below n also i + 1 has all of 0..n.
LEMMA UpTo ==
    ASSUME NEW n \in Nat, NEW S, 0 \in S, \A i \in 0..(n - 1) : i \in S => i + 1 \in S
    PROVE  \A i \in 0..n : i \in S
  <1> DEFINE Bad == {i \in 0..n : i \notin S}
  <1> SUFFICES ASSUME Bad # {} PROVE FALSE
    OBVIOUS
  <1>1. PICK i \in Bad : \A j \in Bad : i <= j
    <2>1. Bad \in SUBSET Nat
      OBVIOUS
    <2> HIDE DEF Bad
    <2> QED BY <2>1, LeastNumber
  <1>2. i \in Nat \ {0} /\ i <= n /\ i \notin S
    OBVIOUS
  <1>3. i - 1 \in 0..(n - 1) /\ i - 1 \notin Bad
    BY <1>1, <1>2
  <1>4. i - 1 \in S /\ (i - 1) + 1 = i
    BY <1>3
  <1> QED BY <1>2, <1>3, <1>4

\* f is what a recursive definition on 0..n describes
IsRecursive(f, n, S, base, step) ==
    /\ f \in [0..n -> S] /\ f[0] = base
    /\ \A i \in 1..n : f[i] = step[<<f[i - 1], i>>]

\* A recursive definition on 0..n whose step is a function defines something.
LEMMA Recursion ==
    ASSUME NEW n \in Nat, NEW S, NEW base \in S, NEW step \in [S \X (1..n) -> S]
    PROVE  \E f : IsRecursive(f, n, S, base, step)
  <1> DEFINE Upto(m, f) == /\ f \in [0..m -> S] /\ f[0] = base
                           /\ \A i \in 1..m : f[i] = step[<<f[i - 1], i>>]
             Good == {m \in 0..n : \E f : Upto(m, f)}
  <1>1. 0 \in Good
    <2>1. Upto(0, [i \in 0..0 |-> base])
      OBVIOUS
    <2>2. \E f : Upto(0, f)
      BY <2>1
    <2> HIDE DEF Upto
    <2> QED BY <2>2
  <1>2. ASSUME NEW m \in 0..(n - 1), m \in Good
        PROVE  m + 1 \in Good
    <2>1. PICK f : Upto(m, f)
      BY <1>2
    <2>2. <<f[m], m + 1>> \in S \X (1..n)
      BY <2>1
    <2> DEFINE g == [i \in 0..(m + 1) |-> IF i = m + 1 THEN step[<<f[m], m + 1>>] ELSE f[i]]
    <2>3. g \in [0..(m + 1) -> S] /\ g[0] = base
      BY <2>1, <2>2
    <2>4. ASSUME NEW i \in 1..(m + 1)
          PROVE  g[i] = step[<<g[i - 1], i>>]
      <3>1. CASE i = m + 1
        <4>1. g[i] = step[<<f[m], i>>] /\ g[i - 1] = f[m]
          BY <3>1
        <4> HIDE DEF g
        <4> QED BY <4>1
      <3>2. CASE i # m + 1
        <4>1. g[i] = f[i] /\ g[i - 1] = f[i - 1] /\ i \in 1..m
          BY <3>2
        <4> HIDE DEF g
        <4> QED BY <4>1, <2>1
      <3> QED BY <3>1, <3>2
    <2>5. Upto(m + 1, g)
      BY <2>3, <2>4
    <2>6. \E h : Upto(m + 1, h)
      BY <2>5
    <2> HIDE DEF Upto
    <2> QED BY <2>6
  <1>3. \A m \in 0..n : m \in Good
    <2> HIDE DEF Good
    <2> QED BY <1>1, <1>2, UpTo
  <1>4. n \in Good
    BY <1>3, SMTT(30)
  <1> QED BY <1>4 DEF IsRecursive

-----------------------------------------------------------------------------
(* A flag, and a queue of what will set and clear it.                      *)

\* What the flag b is once es is worked off: the last element of on or off decides.
Latch(b, es, on, off) ==
    \/ \E k \in 1..Len(es) : es[k] \in on /\ \A j \in (k + 1)..Len(es) : es[j] \notin off
    \/ b /\ \A k \in 1..Len(es) : es[k] \notin off

\* With nothing queued it is the flag.
LEMMA LatchEmpty ==
    ASSUME NEW b, NEW on, NEW off
    PROVE  Latch(b, <<>>, on, off) <=> b
  BY EmptyIsSeq DEF Latch

\* A new element at the end decides, if it is of on or off.
LEMMA LatchAdd ==
    ASSUME NEW es, IsSeq(es), NEW e, NEW b, NEW on, NEW off
    PROVE  Latch(b, Append(es, e), on, off) <=> e \in on \/ (e \notin off /\ Latch(b, es, on, off))
  <1> DEFINE n == Len(es)
             t == Append(es, e)
  <1>1. /\ n \in Nat /\ Len(t) = n + 1 /\ t[n + 1] = e
        /\ \A i \in 1..n : t[i] = es[i]
    BY AppendIsSeq DEF IsSeq
  <1> HIDE DEF n, t
  <1>2. Latch(b, es, on, off) <=>
            \/ \E k \in 1..n : es[k] \in on /\ \A j \in (k + 1)..n : es[j] \notin off
            \/ b /\ \A k \in 1..n : es[k] \notin off
    BY DEF Latch, n
  <1>3. Latch(b, t, on, off) <=>
            \/ \E k \in 1..(n + 1) : t[k] \in on /\ \A j \in (k + 1)..(n + 1) : t[j] \notin off
            \/ b /\ \A k \in 1..(n + 1) : t[k] \notin off
    BY <1>1 DEF Latch
  <1>4. ASSUME Latch(b, t, on, off), e \notin on
        PROVE  e \notin off /\ Latch(b, es, on, off)
    <2>1. CASE \E k \in 1..(n + 1) : t[k] \in on /\ \A j \in (k + 1)..(n + 1) : t[j] \notin off
      <3>1. PICK k \in 1..(n + 1) : t[k] \in on /\ \A j \in (k + 1)..(n + 1) : t[j] \notin off
        BY <2>1
      <3>2. k \in 1..n
        BY <1>1, <1>4, <3>1
      <3>3. n + 1 \in (k + 1)..(n + 1)
        BY <1>1, <3>2
      <3>4. e \notin off
        BY <1>1, <3>1, <3>3
      <3>5. es[k] \in on /\ \A j \in (k + 1)..n : es[j] \notin off
        BY <1>1, <3>1, <3>2
      <3>6. \E i \in 1..n : es[i] \in on /\ \A j \in (i + 1)..n : es[j] \notin off
        BY <3>2, <3>5
      <3> QED BY <1>2, <3>4, <3>6, Zenon
    <2>2. CASE b /\ \A k \in 1..(n + 1) : t[k] \notin off
      <3>1. n + 1 \in 1..(n + 1) /\ \A k \in 1..n : k \in 1..(n + 1)
        BY <1>1
      <3>2. e \notin off /\ \A k \in 1..n : es[k] \notin off
        BY <1>1, <2>2, <3>1
      <3> QED BY <1>2, <2>2, <3>2, Zenon
    <2> QED BY <1>3, <1>4, <2>1, <2>2
  <1>5. ASSUME e \in on
        PROVE  Latch(b, t, on, off)
    <2>1. n + 1 \in 1..(n + 1) /\ t[n + 1] \in on /\ \A j \in (n + 2)..(n + 1) : t[j] \notin off
      BY <1>1, <1>5
    <2> QED BY <1>1, <1>3, <2>1
  <1>6. ASSUME e \notin off, Latch(b, es, on, off)
        PROVE  Latch(b, t, on, off)
    <2>1. \A j \in 1..(n + 1) : j \in 1..n \/ t[j] \notin off
      BY <1>1, <1>6
    <2>2. CASE \E k \in 1..n : es[k] \in on /\ \A j \in (k + 1)..n : es[j] \notin off
      <3>1. PICK k \in 1..n : es[k] \in on /\ \A j \in (k + 1)..n : es[j] \notin off
        BY <2>2
      <3>2. k \in 1..(n + 1) /\ t[k] \in on /\ \A j \in (k + 1)..(n + 1) : t[j] \notin off
        BY <1>1, <2>1, <3>1
      <3> QED BY <1>3, <3>2
    <2>3. CASE b /\ \A k \in 1..n : es[k] \notin off
      BY <1>1, <1>3, <2>1, <2>3
    <2> QED BY <1>2, <1>6, <2>2, <2>3
  <1>7. Latch(b, t, on, off) <=> e \in on \/ (e \notin off /\ Latch(b, es, on, off))
    BY <1>4, <1>5, <1>6
  <1> QED BY <1>7 DEF t

\* Taking the first element, and doing what it says, changes nothing.
LEMMA LatchTake ==
    ASSUME NEW es, IsSeq(es), es # <<>>, NEW b, NEW c, NEW on, NEW off,
           c <=> Head(es) \in on \/ (b /\ Head(es) \notin off)
    PROVE  Latch(c, Tail(es), on, off) <=> Latch(b, es, on, off)
  <1> DEFINE n == Len(es)
             t == Tail(es)
             h == Head(es)
  <1>1. /\ n \in Nat \ {0} /\ Len(t) = n - 1 /\ h = es[1]
        /\ \A i \in 1..(n - 1) : t[i] = es[i + 1]
    BY TailIsSeq
  <1>0. c <=> h \in on \/ (b /\ h \notin off)
    OBVIOUS
  <1> HIDE DEF n, t, h
  <1>2. Latch(b, es, on, off) <=>
            \/ \E k \in 1..n : es[k] \in on /\ \A j \in (k + 1)..n : es[j] \notin off
            \/ b /\ \A k \in 1..n : es[k] \notin off
    BY DEF Latch, n
  <1>3. Latch(c, t, on, off) <=>
            \/ \E k \in 1..(n - 1) : t[k] \in on /\ \A j \in (k + 1)..(n - 1) : t[j] \notin off
            \/ c /\ \A k \in 1..(n - 1) : t[k] \notin off
    BY <1>1 DEF Latch
  <1>8. ASSUME NEW k \in 1..n
        PROVE  (\A j \in (k + 1)..n : es[j] \notin off) <=> (\A j \in k..(n - 1) : t[j] \notin off)
    <2>1. ASSUME \A j \in (k + 1)..n : es[j] \notin off, NEW j \in k..(n - 1)
          PROVE  t[j] \notin off
      <3>1. j + 1 \in (k + 1)..n /\ j \in 1..(n - 1)
        BY <1>1
      <3> QED BY <1>1, <2>1, <3>1
    <2>2. ASSUME \A j \in k..(n - 1) : t[j] \notin off, NEW j \in (k + 1)..n
          PROVE  es[j] \notin off
      <3>1. j - 1 \in k..(n - 1) /\ j - 1 \in 1..(n - 1) /\ (j - 1) + 1 = j
        BY <1>1
      <3>2. t[j - 1] = es[j]
        BY <1>1, <3>1
      <3> QED BY <2>2, <3>1, <3>2
    <2> QED BY <2>1, <2>2
  <1>4. ASSUME Latch(b, es, on, off)
        PROVE  Latch(c, t, on, off)
    <2>1. CASE \E k \in 1..n : es[k] \in on /\ \A j \in (k + 1)..n : es[j] \notin off
      <3>1. PICK k \in 1..n : es[k] \in on /\ \A j \in (k + 1)..n : es[j] \notin off
        BY <2>1
      <3>2. \A j \in k..(n - 1) : t[j] \notin off
        BY <1>8, <3>1
      <3>3. CASE k = 1
        BY <1>0, <1>1, <1>3, <3>1, <3>2, <3>3
      <3>4. CASE k # 1
        <4>1. k - 1 \in 1..(n - 1) /\ t[k - 1] = es[k] /\ (k - 1) + 1 = k
          BY <1>1, <3>4
        <4> QED BY <1>3, <3>1, <3>2, <4>1
      <3> QED BY <3>3, <3>4
    <2>2. CASE b /\ \A k \in 1..n : es[k] \notin off
      <3>1. 1 \in 1..n
        BY <1>1
      <3>2. \A j \in 1..(n - 1) : t[j] \notin off
        BY <1>8, <2>2, <3>1
      <3> QED BY <1>0, <1>1, <1>3, <2>2, <3>1, <3>2
    <2> QED BY <1>2, <1>4, <2>1, <2>2
  <1>5. ASSUME Latch(c, t, on, off)
        PROVE  Latch(b, es, on, off)
    <2>1. CASE \E k \in 1..(n - 1) : t[k] \in on /\ \A j \in (k + 1)..(n - 1) : t[j] \notin off
      <3>1. PICK k \in 1..(n - 1) : t[k] \in on /\ \A j \in (k + 1)..(n - 1) : t[j] \notin off
        BY <2>1
      <3>2. k + 1 \in 1..n /\ es[k + 1] = t[k]
        BY <1>1
      <3>3. \A j \in ((k + 1) + 1)..n : es[j] \notin off
        BY <1>8, <3>1, <3>2
      <3> QED BY <1>2, <3>1, <3>2, <3>3
    <2>2. CASE c /\ \A k \in 1..(n - 1) : t[k] \notin off
      <3>1. 1 \in 1..n
        BY <1>1
      <3>2. \A j \in (1 + 1)..n : es[j] \notin off
        BY <1>8, <2>2, <3>1
      <3>3. CASE h \in on
        BY <1>1, <1>2, <3>1, <3>2, <3>3
      <3>4. CASE b /\ h \notin off
        <4>1. \A k \in 1..n : es[k] \notin off
          BY <1>1, <3>2, <3>4
        <4> QED BY <1>2, <3>4, <4>1
      <3> QED BY <1>0, <2>2, <3>3, <3>4
    <2> QED BY <1>3, <1>5, <2>1, <2>2
  <1>6. Latch(c, t, on, off) <=> Latch(b, es, on, off)
    BY <1>4, <1>5
  <1> QED BY <1>6 DEF t

\* Putting one element behind a queue with \o is appending it.
LEMMA ConcatOne ==
    ASSUME NEW s, IsSeq(s), NEW x
    PROVE  s \o <<x>> = Append(s, x)
  <1>1. <<x>> \in Seq({x}) /\ Len(<<x>>) = 1 /\ <<x>>[1] = x
    OBVIOUS
  <1>2. IsSeq(<<x>>)
    BY <1>1, ElementOfSeqIsSeq
  <1> DEFINE t == s \o <<x>>
             u == Append(s, x)
             n == Len(s)
  <1>3. /\ IsSeq(t) /\ Len(t) = n + Len(<<x>>)
        /\ \A i \in 1..n : t[i] = s[i]
        /\ \A i \in (n + 1)..(n + Len(<<x>>)) : t[i] = <<x>>[i - n]
    BY <1>2, ConcatIsSeq
  <1>4. IsSeq(u) /\ Len(u) = n + 1 /\ u[n + 1] = x /\ \A i \in 1..n : u[i] = s[i]
    BY AppendIsSeq
  <1>5. n \in Nat
    BY DEF IsSeq
  <1> HIDE DEF t, u, n
  <1>6. Len(t) = n + 1 /\ t[n + 1] = x
    BY <1>1, <1>3, <1>5
  <1>7. \A i \in 1..(n + 1) : t[i] = u[i]
    BY <1>3, <1>4, <1>5, <1>6
  <1>8. t = u
    BY <1>3, <1>4, <1>6, <1>7 DEF IsSeq
  <1> QED BY <1>8 DEF t, u

\* Two elements, one after the other.
LEMMA ConcatTwo ==
    ASSUME NEW s, IsSeq(s), NEW x, NEW y
    PROVE  s \o (<<x>> \o <<y>>) = Append(Append(s, x), y)
  <1>1. <<x>> \in Seq({x, y}) /\ <<y>> \in Seq({x, y})
    OBVIOUS
  <1>2. IsSeq(<<x>>) /\ IsSeq(<<y>>)
    BY <1>1, ElementOfSeqIsSeq
  <1>3. IsSeq(Append(s, x)) /\ Append(s, x) = s \o <<x>>
    BY AppendIsSeq, ConcatOne
  <1>4. (s \o <<x>>) \o <<y>> = Append(Append(s, x), y)
    BY <1>3, ConcatOne
  <1> DEFINE S == {s[i] : i \in 1..Len(s)} \cup {x, y}
  <1>5. s \in Seq(S) /\ <<x>> \in Seq(S) /\ <<y>> \in Seq(S)
    BY SeqOfElements
  <1>6. (s \o <<x>>) \o <<y>> = s \o (<<x>> \o <<y>>)
    <2> HIDE DEF S
    <2> QED BY <1>5
  <1> QED BY <1>4, <1>6
=============================================================================
