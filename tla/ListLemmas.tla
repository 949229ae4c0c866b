----------------------------- MODULE ListLemmas -----------------------------
(***************************************************************************)
(* Facts about sequences that stand for linked lists without repetition:   *)
(* what adding an element at either end and removing one do to the set of  *)
(* the elements. Then facts about sequences that stand for texts: where    *)
(* they are cut and put together; and the least and greatest positions.    *)
(***************************************************************************)
EXTENDS Integers, SequencesExt, SequenceTheorems, WellFoundedInduction, TLAPS

\* A part of a sequence is a sequence over the same set.
LEMMA SeqSub ==
  ASSUME NEW S, NEW q \in Seq(S), NEW m \in Nat, NEW n \in Nat, m >= 1, n <= Len(q)
  PROVE  SubSeq(q, m, n) \in Seq(S)
BY SubSeqProperties

\* So is the tail, and the head is an element of the set.
LEMMA SeqTail ==
  ASSUME NEW S, NEW q \in Seq(S), q # << >>
  PROVE  Tail(q) \in Seq(S) /\ Head(q) \in S
OBVIOUS

\* A sequence of one element.
LEMMA SeqOne ==
  ASSUME NEW S, NEW x \in S
  PROVE  <<x>> \in Seq(S)
OBVIOUS

\* Removing an element shifts those that follow it.
LEMMA SeqRemoveAt ==
  ASSUME NEW S, NEW q \in Seq(S), NEW p \in 1..Len(q)
  PROVE  /\ RemoveAt(q, p) \in Seq(S)
         /\ Len(RemoveAt(q, p)) = Len(q) - 1
         /\ \A i \in 1..(p - 1) : RemoveAt(q, p)[i] = q[i]
         /\ \A i \in p..(Len(q) - 1) : RemoveAt(q, p)[i] = q[i + 1]
<1> DEFINE a == SubSeq(q, 1, p - 1)
           b == SubSeq(q, p + 1, Len(q))
<1>0. Len(q) \in Nat /\ p - 1 \in Nat /\ p + 1 \in Nat
  BY LenProperties
<1>1. a \in Seq(S) /\ Len(a) = p - 1 /\ \A i \in 1..(p - 1) : a[i] = q[i]
  BY <1>0, SubSeqProperties
<1>2. b \in Seq(S) /\ Len(b) = Len(q) - p /\ \A i \in 1..(Len(q) - p) : b[i] = q[p + i]
  BY <1>0, SubSeqProperties
<1> HIDE DEF a, b
<1>3. /\ a \o b \in Seq(S) /\ Len(a \o b) = Len(a) + Len(b)
      /\ \A i \in 1..(Len(a) + Len(b)) : (a \o b)[i] = IF i <= Len(a) THEN a[i] ELSE b[i - Len(a)]
  BY <1>1, <1>2, ConcatProperties
<1>4. RemoveAt(q, p) = a \o b
  BY DEF RemoveAt, a, b
<1>5. \A i \in p..(Len(q) - 1) : (a \o b)[i] = q[i + 1]
  <2> TAKE i \in p..(Len(q) - 1)
  <2>1. (a \o b)[i] = b[i - (p - 1)] /\ i - (p - 1) \in 1..(Len(q) - p)
    BY <1>0, <1>1, <1>2, <1>3
  <2>2. p + (i - (p - 1)) = i + 1
    BY <1>0
  <2> QED BY <2>1, <2>2, <1>2
<1>6. \A i \in 1..(p - 1) : (a \o b)[i] = q[i]
  BY <1>0, <1>1, <1>2, <1>3
<1>7. Len(a \o b) = Len(q) - 1
  BY <1>0, <1>1, <1>2, <1>3
<1> QED BY <1>3, <1>4, <1>5, <1>6, <1>7

\* The elements of a sequence, by position.
LEMMA RangeIs ==
  ASSUME NEW S, NEW q \in Seq(S)
  PROVE  /\ \A x : x \in Range(q) <=> \E i \in 1..Len(q) : q[i] = x
         /\ Range(q) \subseteq S
<1>1. DOMAIN q = 1..Len(q)
  BY LenProperties
<1> QED BY <1>1, ElementOfSeq DEF Range

\* A list without repetition, by position.
LEMMA InjectiveIs ==
  ASSUME NEW S, NEW q \in Seq(S)
  PROVE  IsInjective(q) <=> \A i, j \in 1..Len(q) : q[i] = q[j] => i = j
<1>1. DOMAIN q = 1..Len(q)
  BY LenProperties
<1> QED BY <1>1 DEF IsInjective

\* The empty list.
LEMMA EmptyList ==
  Range(<< >>) = {} /\ IsInjective(<< >>)
BY DEF Range, IsInjective

\* Leaving the head of a list removes one element from its set.
LEMMA TailList ==
  ASSUME NEW S, NEW q \in Seq(S), q # << >>, IsInjective(q)
  PROVE  /\ Tail(q) \in Seq(S) /\ Head(q) \in Range(q)
         /\ IsInjective(Tail(q))
         /\ Range(Tail(q)) = Range(q) \ {Head(q)}
<1>1. /\ Len(q) \in Nat /\ Len(q) >= 1 /\ Head(q) = q[1]
      /\ Tail(q) \in Seq(S) /\ Len(Tail(q)) = Len(q) - 1
      /\ \A i \in 1..Len(Tail(q)) : Tail(q)[i] = q[i + 1]
  BY HeadTailProperties, LenProperties, EmptySeq
<1>2. \A i, j \in 1..Len(q) : q[i] = q[j] => i = j
  BY InjectiveIs
<1>3. Head(q) \in Range(q)
  BY <1>1, RangeIs
<1>4. IsInjective(Tail(q))
  <2>1. ASSUME NEW i \in 1..Len(Tail(q)), NEW j \in 1..Len(Tail(q)), Tail(q)[i] = Tail(q)[j]
        PROVE  i = j
    <3>1. i \in Nat /\ j \in Nat /\ i + 1 \in 1..Len(q) /\ j + 1 \in 1..Len(q)
      BY <1>1
    <3>2. q[i + 1] = q[j + 1]
      BY <1>1, <2>1
    <3>3. i + 1 = j + 1
      BY <1>2, <3>1, <3>2
    <3> QED BY <3>1, <3>3
  <2> QED BY <2>1, <1>1, InjectiveIs
<1>5. ASSUME NEW x \in Range(Tail(q)) PROVE x \in Range(q) \ {Head(q)}
  <2>0. Tail(q) \in Seq(S)
    BY <1>1
  <2>1. PICK i \in 1..Len(Tail(q)) : Tail(q)[i] = x
    BY <1>5, <2>0, RangeIs
  <2>2. q[i + 1] = x /\ i + 1 \in 1..Len(q) /\ i + 1 # 1
    BY <2>1, <1>1
  <2> QED BY <2>2, <1>1, <1>2, RangeIs
<1>6. ASSUME NEW x \in Range(q) \ {Head(q)} PROVE x \in Range(Tail(q))
  <2>1. PICK i \in 1..Len(q) : q[i] = x
    BY RangeIs
  <2>2. i # 1 /\ i - 1 \in 1..Len(Tail(q))
    BY <2>1, <1>1
  <2>3. Tail(q)[i - 1] = q[(i - 1) + 1] /\ (i - 1) + 1 = i
    BY <2>2, <1>1
  <2>4. Tail(q)[i - 1] = x
    BY <2>1, <2>3
  <2> DEFINE t == Tail(q)
  <2>5. t \in Seq(S) /\ i - 1 \in 1..Len(t) /\ t[i - 1] = x
    BY <2>2, <2>4, <1>1
  <2> HIDE DEF t
  <2>6. x \in Range(t)
    BY <2>5, RangeIs
  <2> QED BY <2>6 DEF t
<1> QED BY <1>1, <1>3, <1>4, <1>5, <1>6

\* Adding a new element at the end of a list.
LEMMA AppendList ==
  ASSUME NEW S, NEW q \in Seq(S), NEW x \in S, x \notin Range(q), IsInjective(q)
  PROVE  /\ Append(q, x) \in Seq(S) /\ IsInjective(Append(q, x))
         /\ Range(Append(q, x)) = Range(q) \cup {x}
<1> DEFINE r == Append(q, x)
<1>1. /\ r \in Seq(S) /\ Len(r) = Len(q) + 1 /\ Len(q) \in Nat
      /\ \A i \in 1..Len(q) : r[i] = q[i]
      /\ r[Len(q) + 1] = x
  BY AppendProperties, LenProperties
<1> HIDE DEF r
<1>2. \A i, j \in 1..Len(q) : q[i] = q[j] => i = j
  BY InjectiveIs
<1>3. \A i \in 1..Len(q) : q[i] # x /\ q[i] \in Range(q)
  BY RangeIs
<1>4. \A i, j \in 1..Len(r) : r[i] = r[j] => i = j
  BY <1>1, <1>2, <1>3
<1>5. Range(r) = Range(q) \cup {x}
  <2>1. ASSUME NEW y \in Range(r) PROVE y \in Range(q) \cup {x}
    <3>1. PICK i \in 1..Len(r) : r[i] = y
      BY <1>1, RangeIs
    <3> QED BY <3>1, <1>1, <1>3
  <2>2. ASSUME NEW y \in Range(q) PROVE y \in Range(r)
    <3>1. PICK i \in 1..Len(q) : q[i] = y
      BY RangeIs
    <3>2. i \in 1..Len(r) /\ r[i] = y
      BY <3>1, <1>1
    <3> QED BY <3>2, <1>1, RangeIs
  <2>3. x \in Range(r)
    <3>1. Len(q) + 1 \in 1..Len(r)
      BY <1>1
    <3> QED BY <3>1, <1>1, RangeIs
  <2> QED BY <2>1, <2>2, <2>3
<1>6. IsInjective(r)
  BY <1>1, <1>4, InjectiveIs
<1> QED BY <1>1, <1>5, <1>6 DEF r

\* Adding a new element at the head of a list.
LEMMA ConsList ==
  ASSUME NEW S, NEW q \in Seq(S), NEW x \in S, x \notin Range(q), IsInjective(q)
  PROVE  /\ <<x>> \o q \in Seq(S) /\ IsInjective(<<x>> \o q)
         /\ Range(<<x>> \o q) = Range(q) \cup {x}
<1> DEFINE r == <<x>> \o q
<1>1. /\ r \in Seq(S) /\ Len(r) = Len(q) + 1 /\ Len(q) \in Nat
      /\ r[1] = x
      /\ \A i \in 2..(Len(q) + 1) : r[i] = q[i - 1]
  BY ConcatProperties, LenProperties, SeqOne
<1> HIDE DEF r
<1>2. \A i, j \in 1..Len(q) : q[i] = q[j] => i = j
  BY InjectiveIs
<1>3. \A i \in 1..Len(q) : q[i] # x /\ q[i] \in Range(q)
  BY RangeIs
<1>4. \A i, j \in 1..Len(r) : r[i] = r[j] => i = j
  <2> TAKE i, j \in 1..Len(r)
  <2> HAVE r[i] = r[j]
  <2>1. i = 1 => j = 1
    BY <1>1, <1>3
  <2>2. j = 1 => i = 1
    BY <1>1, <1>3
  <2>3. i # 1 /\ j # 1 => i - 1 \in 1..Len(q) /\ j - 1 \in 1..Len(q) /\ q[i - 1] = q[j - 1]
    BY <1>1
  <2> QED BY <2>1, <2>2, <2>3, <1>2
<1>5. Range(r) = Range(q) \cup {x}
  <2>1. ASSUME NEW y \in Range(r) PROVE y \in Range(q) \cup {x}
    <3>1. PICK i \in 1..Len(r) : r[i] = y
      BY <1>1, RangeIs
    <3>2. i # 1 => i - 1 \in 1..Len(q) /\ q[i - 1] = y
      BY <3>1, <1>1
    <3> QED BY <3>1, <3>2, <1>1, <1>3
  <2>2. ASSUME NEW y \in Range(q) PROVE y \in Range(r)
    <3>1. PICK i \in 1..Len(q) : q[i] = y
      BY RangeIs
    <3>2. i + 1 \in 1..Len(r) /\ i + 1 \in 2..(Len(q) + 1) /\ (i + 1) - 1 = i
      BY <1>1
    <3>3. r[i + 1] = y
      BY <3>1, <3>2, <1>1
    <3> QED BY <3>2, <3>3, <1>1, RangeIs
  <2>3. x \in Range(r)
    <3>1. 1 \in 1..Len(r)
      BY <1>1
    <3> QED BY <3>1, <1>1, RangeIs
  <2> QED BY <2>1, <2>2, <2>3
<1>6. IsInjective(r)
  BY <1>1, <1>4, InjectiveIs
<1> QED BY <1>1, <1>5, <1>6 DEF r

\* Removing an element, wherever it is in the list.
LEMMA RemoveList ==
  ASSUME NEW S, NEW q \in Seq(S), NEW p \in 1..Len(q), IsInjective(q)
  PROVE  /\ RemoveAt(q, p) \in Seq(S) /\ IsInjective(RemoveAt(q, p))
         /\ Range(RemoveAt(q, p)) = Range(q) \ {q[p]}
<1> DEFINE r == RemoveAt(q, p)
<1>1. /\ r \in Seq(S) /\ Len(r) = Len(q) - 1 /\ Len(q) \in Nat
      /\ \A i \in 1..(p - 1) : r[i] = q[i]
      /\ \A i \in p..(Len(q) - 1) : r[i] = q[i + 1]
  BY SeqRemoveAt, LenProperties
<1> HIDE DEF r
<1>2. \A i, j \in 1..Len(q) : q[i] = q[j] => i = j
  BY InjectiveIs
<1>3. \A i, j \in 1..Len(r) : r[i] = r[j] => i = j
  <2> TAKE i, j \in 1..Len(r)
  <2> HAVE r[i] = r[j]
  <2> DEFINE up(k) == IF k < p THEN k ELSE k + 1
  <2>0. p \in Nat
    BY <1>1
  <2>1. \A k \in 1..Len(r) : up(k) \in 1..Len(q) /\ r[k] = q[up(k)]
    <3> TAKE k \in 1..Len(r)
    <3>1. CASE k < p
      <4>1. k \in 1..(p - 1) /\ k \in 1..Len(q)
        BY <2>0, <3>1, <1>1
      <4> QED BY <3>1, <4>1, <1>1
    <3>2. CASE ~(k < p)
      <4>1. k \in p..(Len(q) - 1) /\ k + 1 \in 1..Len(q)
        BY <3>2, <1>1
      <4> QED BY <3>2, <4>1, <1>1
    <3> QED BY <3>1, <3>2
  <2>2. up(i) = up(j)
    BY <2>1, <1>2
  <2> QED BY <2>2, <1>1
<1>4. ASSUME NEW y \in Range(r) PROVE y \in Range(q) \ {q[p]}
  <2>1. PICK i \in 1..Len(r) : r[i] = y
    BY <1>1, RangeIs
  <2>2. CASE i < p
    <3>1. i \in 1..(p - 1) /\ i \in 1..Len(q) /\ i # p
      BY <2>2, <1>1
    <3>2. q[i] = y
      BY <2>1, <3>1, <1>1
    <3> QED BY <3>1, <3>2, <1>2, RangeIs
  <2>3. CASE ~(i < p)
    <3>1. i \in p..(Len(q) - 1) /\ i + 1 \in 1..Len(q) /\ i + 1 # p
      BY <2>3, <1>1
    <3>2. q[i + 1] = y
      BY <2>1, <3>1, <1>1
    <3> QED BY <3>1, <3>2, <1>2, RangeIs
  <2> QED BY <2>2, <2>3
<1>5. ASSUME NEW y \in Range(q) \ {q[p]} PROVE y \in Range(r)
  <2>1. PICK i \in 1..Len(q) : q[i] = y
    BY RangeIs
  <2>2. CASE i < p
    <3>1. i \in 1..(p - 1) /\ i \in 1..Len(r)
      BY <2>2, <1>1
    <3> QED BY <2>1, <3>1, <1>1, RangeIs
  <2>3. CASE ~(i < p)
    <3>1. i # p
      BY <2>1
    <3>2. i - 1 \in p..(Len(q) - 1) /\ i - 1 \in 1..Len(r) /\ (i - 1) + 1 = i
      BY <2>3, <3>1, <1>1
    <3>3. r[i - 1] = y
      BY <2>1, <3>2, <1>1
    <3> QED BY <3>2, <3>3, <1>1, RangeIs
  <2> QED BY <2>2, <2>3
<1>6. IsInjective(r)
  BY <1>1, <1>3, InjectiveIs
<1> QED BY <1>1, <1>4, <1>5, <1>6 DEF r

-----------------------------------------------------------------------------
(* Least and greatest positions.                                           *)

\* A set of natural numbers has a least element.
LEMMA LeastNat ==
  ASSUME NEW S \in SUBSET Nat, S # {}
  PROVE  \E i \in S : \A j \in S : i <= j
<1>1. PICK i \in S : \A j \in S : ~(<<j, i>> \in OpToRel(<, Nat))
  BY WFMin, NatLessThanWellFounded
<1>2. ASSUME NEW j \in S PROVE i <= j
  <2>1. ~(<<j, i>> \in OpToRel(<, Nat))
    BY <1>1
  <2>2. ~(j < i)
    BY <2>1 DEF OpToRel
  <2> QED BY <2>2
<1> QED BY <1>2

\* A set of positions has a greatest element.
LEMMA GreatestNat ==
  ASSUME NEW n \in Nat, NEW S \in SUBSET (0..n), S # {}
  PROVE  \E i \in S : \A j \in S : j <= i
<1> DEFINE T == {k \in 0..n : n - k \in S}
<1>1. T \in SUBSET Nat /\ T # {}
  <2>1. PICK j \in S : TRUE
    OBVIOUS
  <2>2. n - j \in 0..n /\ n - (n - j) = j
    OBVIOUS
  <2>3. n - j \in T
    BY <2>2
  <2>4. T \subseteq Nat
    OBVIOUS
  <2> HIDE DEF T
  <2> QED BY <2>3, <2>4
<1> HIDE DEF T
<1>2. PICK k \in T : \A m \in T : k <= m
  BY <1>1, LeastNat
<1>3. k \in 0..n /\ n - k \in S
  BY DEF T
<1>4. ASSUME NEW j \in S PROVE j <= n - k
  <2>1. n - j \in 0..n /\ n - (n - j) = j
    OBVIOUS
  <2>2. n - j \in T
    BY <2>1 DEF T
  <2> QED BY <2>2, <1>2, <1>3
<1> QED BY <1>3, <1>4

-----------------------------------------------------------------------------
(* Texts.                                                                  *)

\* The two parts of a text that is cut.
LEMMA CutSeq ==
  ASSUME NEW S, NEW q \in Seq(S), NEW n \in 0..Len(q)
  PROVE  /\ SubSeq(q, 1, n) \in Seq(S) /\ Len(SubSeq(q, 1, n)) = n
         /\ \A i \in 1..n : SubSeq(q, 1, n)[i] = q[i]
         /\ SubSeq(q, n + 1, Len(q)) \in Seq(S)
         /\ Len(SubSeq(q, n + 1, Len(q))) = Len(q) - n
         /\ \A i \in 1..(Len(q) - n) : SubSeq(q, n + 1, Len(q))[i] = q[n + i]
         /\ SubSeq(q, 1, n) \o SubSeq(q, n + 1, Len(q)) = q
<1>1. Len(q) \in Nat /\ q \in [1..Len(q) -> S]
  BY LenProperties
<1>2. /\ SubSeq(q, 1, n) \in Seq(S) /\ Len(SubSeq(q, 1, n)) = n
      /\ \A i \in 1..n : SubSeq(q, 1, n)[i] = q[i]
  BY <1>1, SubSeqProperties
<1>3. /\ SubSeq(q, n + 1, Len(q)) \in Seq(S)
      /\ Len(SubSeq(q, n + 1, Len(q))) = Len(q) - n
      /\ \A i \in 1..(Len(q) - n) : SubSeq(q, n + 1, Len(q))[i] = q[n + i]
  <2> DEFINE m == n + 1
             r == SubSeq(q, m, Len(q))
  <2>1. m \in Int /\ Len(q) \in Int /\ \A i \in m..Len(q) : q[i] \in S
    BY <1>1
  <2>2. /\ r \in Seq(S) /\ Len(r) = IF m <= Len(q) THEN Len(q) - m + 1 ELSE 0
        /\ \A i \in 1..(Len(q) - m + 1) : r[i] = q[m + i - 1]
    <3> HIDE DEF m
    <3> QED BY <2>1, SubSeqProperties
  <2> HIDE DEF r
  <2>3. Len(r) = Len(q) - n
    <3>1. CASE m <= Len(q)
      BY <1>1, <2>2, <3>1
    <3>2. CASE ~(m <= Len(q))
      <4>0. Len(q) \in Nat /\ n \in Nat /\ n <= Len(q)
        BY <1>1
      <4>1. n = Len(q) /\ Len(q) - n = 0
        BY <4>0, <3>2
      <4> QED BY <2>2, <3>2, <4>1
    <3> QED BY <3>1, <3>2
  <2>4. ASSUME NEW i \in 1..(Len(q) - n) PROVE r[i] = q[n + i]
    <3>1. i \in 1..(Len(q) - m + 1) /\ m + i - 1 = n + i
      BY <1>1
    <3> HIDE DEF m
    <3>2. r[i] = q[m + i - 1]
      BY <2>2, <3>1
    <3> QED BY <3>1, <3>2
  <2> QED BY <2>2, <2>3, <2>4 DEF r
<1>4. SubSeq(q, 1, n) \o SubSeq(q, n + 1, Len(q)) = q
  <2>1. 1 \in 1..(Len(q) + 1) /\ n \in (1 - 1)..Len(q) /\ Len(q) \in n..Len(q)
    BY <1>1
  <2>2. SubSeq(q, 1, n) \o SubSeq(q, n + 1, Len(q)) = SubSeq(q, 1, Len(q))
    BY <2>1, ConcatAdjacentSubSeq
  <2> QED BY <2>2, SubSeqFull
<1> QED BY <1>2, <1>3, <1>4

\* Two texts put together are the same at the same length and characters.
LEMMA SplitConcat ==
  ASSUME NEW S, NEW q \in Seq(S), NEW r \in Seq(S)
  PROVE  /\ SubSeq(q \o r, 1, Len(q)) = q
         /\ SubSeq(q \o r, Len(q) + 1, Len(q \o r)) = r
<1> DEFINE t == q \o r
<1>1. /\ Len(q) \in Nat /\ Len(r) \in Nat
      /\ t \in Seq(S) /\ Len(t) = Len(q) + Len(r)
      /\ \A i \in 1..(Len(q) + Len(r)) : t[i] = IF i <= Len(q) THEN q[i] ELSE r[i - Len(q)]
  BY LenProperties, ConcatProperties
<1> HIDE DEF t
<1> DEFINE a == SubSeq(t, 1, Len(q))
           b == SubSeq(t, Len(q) + 1, Len(t))
<1>2. /\ a \in Seq(S) /\ Len(a) = Len(q) /\ \A i \in 1..Len(q) : a[i] = t[i]
      /\ b \in Seq(S) /\ Len(b) = Len(r) /\ \A i \in 1..Len(r) : b[i] = t[Len(q) + i]
  <2>1. Len(q) \in 0..Len(t) /\ Len(t) - Len(q) = Len(r)
    BY <1>1
  <2> QED BY <2>1, <1>1, CutSeq
<1> HIDE DEF a, b
<1>3. a = q
  BY <1>1, <1>2, SeqEqual
<1>4. b = r
  <2>1. ASSUME NEW i \in 1..Len(r) PROVE b[i] = r[i]
    <3>1. Len(q) + i \in 1..(Len(q) + Len(r)) /\ ~(Len(q) + i <= Len(q))
          /\ (Len(q) + i) - Len(q) = i
      BY <1>1
    <3> QED BY <3>1, <1>1, <1>2
  <2> QED BY <2>1, <1>2, SeqEqual
<1> QED BY <1>3, <1>4 DEF t, a, b

\* Three texts put together, whichever two are put together first. The equality is
\* named: the provers search for a long time in the concatenations it contains.
Associates(a, b, d) == (a \o b) \o d = a \o (b \o d)

\* Putting texts together is associative.
LEMMA ConcatAssociates ==
  ASSUME NEW S, NEW a \in Seq(S), NEW b \in Seq(S), NEW d \in Seq(S)
  PROVE  Associates(a, b, d)
BY DEF Associates

\* A text cut in the first of its two parts.
LEMMA CutFirst ==
  ASSUME NEW S, NEW q \in Seq(S), NEW r \in Seq(S), NEW n \in 0..Len(q)
  PROVE  /\ SubSeq(q \o r, 1, n) = SubSeq(q, 1, n)
         /\ SubSeq(q \o r, n + 1, Len(q \o r)) = SubSeq(q, n + 1, Len(q)) \o r
<1> DEFINE a == SubSeq(q, 1, n)
           b == SubSeq(q, n + 1, Len(q))
<1>1. a \in Seq(S) /\ b \in Seq(S) /\ Len(a) = n /\ a \o b = q
  BY CutSeq
<1> HIDE DEF a, b
<1>2. q \o r = a \o (b \o r) /\ b \o r \in Seq(S)
  <2>0. a \in Seq(S) /\ b \in Seq(S)
    BY <1>1
  <2>1. Associates(a, b, r)
    BY <2>0, ConcatAssociates
  <2>2. b \o r \in Seq(S)
    BY <1>1, ConcatProperties
  <2> QED BY <1>1, <2>1, <2>2 DEF Associates
<1>3. /\ SubSeq(a \o (b \o r), 1, n) = a
      /\ SubSeq(a \o (b \o r), n + 1, Len(a \o (b \o r))) = b \o r
  BY <1>1, <1>2, SplitConcat
<1> QED BY <1>2, <1>3 DEF a, b

\* A text cut in the second of its two parts.
LEMMA CutSecond ==
  ASSUME NEW S, NEW q \in Seq(S), NEW r \in Seq(S), NEW n \in 0..Len(r)
  PROVE  /\ SubSeq(q \o r, 1, Len(q) + n) = q \o SubSeq(r, 1, n)
         /\ SubSeq(q \o r, Len(q) + n + 1, Len(q \o r)) = SubSeq(r, n + 1, Len(r))
<1> DEFINE a == SubSeq(r, 1, n)
           b == SubSeq(r, n + 1, Len(r))
<1>1. a \in Seq(S) /\ b \in Seq(S) /\ Len(a) = n /\ a \o b = r
  BY CutSeq
<1> HIDE DEF a, b
<1>2. q \o r = (q \o a) \o b /\ q \o a \in Seq(S) /\ Len(q \o a) = Len(q) + n
  <2>0. a \in Seq(S) /\ b \in Seq(S)
    BY <1>1
  <2>1. Associates(q, a, b)
    BY <2>0, ConcatAssociates
  <2>2. q \o a \in Seq(S) /\ Len(q \o a) = Len(q) + n
    BY <1>1, ConcatProperties
  <2> QED BY <1>1, <2>1, <2>2 DEF Associates
<1> DEFINE c == q \o a
<1> HIDE DEF c
<1>3. /\ SubSeq(c \o b, 1, Len(c)) = c
      /\ SubSeq(c \o b, Len(c) + 1, Len(c \o b)) = b
  <2>1. c \in Seq(S)
    BY <1>2 DEF c
  <2> QED BY <1>1, <2>1, SplitConcat
<1> QED BY <1>2, <1>3 DEF a, b, c

\* The beginning of the second of two parts.
LEMMA CutMiddle ==
  ASSUME NEW S, NEW q \in Seq(S), NEW r \in Seq(S), NEW n \in 0..Len(r)
  PROVE  SubSeq(q \o r, Len(q) + 1, Len(q) + n) = SubSeq(r, 1, n)
<1> DEFINE t == q \o r
           x == Len(q)
           m == x + 1
           e == x + n
           a == SubSeq(t, m, e)
           b == SubSeq(r, 1, n)
<1>1. /\ x \in Nat /\ Len(r) \in Nat /\ n \in Nat /\ n <= Len(r)
      /\ t \in Seq(S) /\ Len(t) = x + Len(r)
      /\ \A i \in 1..(x + Len(r)) : t[i] = IF i <= x THEN q[i] ELSE r[i - x]
  BY LenProperties, ConcatProperties
<1>2. b \in Seq(S) /\ Len(b) = n /\ \A i \in 1..n : b[i] = r[i]
  BY CutSeq
<1> HIDE DEF b, t, x
<1>3. m \in Int /\ e \in Int /\ \A i \in m..e : t[i] \in S
  <2>1. ASSUME NEW i \in m..e PROVE i \in 1..Len(t)
    BY <1>1
  <2> QED BY <1>1, <2>1, ElementOfSeq
<1>4. /\ a \in Seq(S) /\ Len(a) = IF m <= e THEN e - m + 1 ELSE 0
      /\ \A i \in 1..(e - m + 1) : a[i] = t[m + i - 1]
  <2> HIDE DEF m, e
  <2> QED BY <1>3, SubSeqProperties
<1> HIDE DEF a
<1>5. Len(a) = n
  <2>1. CASE m <= e
    BY <1>1, <1>4, <2>1
  <2>2. CASE ~(m <= e)
    <3>1. n = 0
      BY <1>1, <2>2
    <3> QED BY <1>4, <2>2, <3>1
  <2> QED BY <2>1, <2>2
<1>6. ASSUME NEW i \in 1..n PROVE a[i] = b[i]
  <2>1. /\ i \in 1..(e - m + 1) /\ m + i - 1 = x + i
        /\ x + i \in 1..(x + Len(r)) /\ ~(x + i <= x) /\ (x + i) - x = i
    BY <1>1
  <2> HIDE DEF m, e
  <2>2. a[i] = t[x + i]
    BY <1>4, <2>1
  <2> QED BY <1>1, <1>2, <2>1, <2>2
<1>7. a = b
  BY <1>2, <1>4, <1>5, <1>6, SeqEqual
<1> QED BY <1>7 DEF a, b, t, x

\* The length of a text ended by z, or by its end.
LEMMA FirstOccurrence ==
  ASSUME NEW S, NEW d \in Seq(S), NEW z
  PROVE  LET n == IF \E i \in 1..Len(d) : d[i] = z
                  THEN CHOOSE i \in 0..(Len(d) - 1) :
                          d[i + 1] = z /\ \A j \in 1..i : d[j] # z
                  ELSE Len(d)
         IN /\ n \in 0..Len(d)
            /\ (\A i \in 1..Len(d) : d[i] # z) => n = Len(d)
            /\ (\E i \in 1..Len(d) : d[i] = z) =>
                   /\ n < Len(d) /\ d[n + 1] = z
                   /\ \A j \in 1..n : d[j] # z
<1> DEFINE n == IF \E i \in 1..Len(d) : d[i] = z
                THEN CHOOSE i \in 0..(Len(d) - 1) :
                        d[i + 1] = z /\ \A j \in 1..i : d[j] # z
                ELSE Len(d)
<1>0. Len(d) \in Nat
  BY LenProperties
<1>1. CASE \A i \in 1..Len(d) : d[i] # z
  BY <1>0, <1>1
<1>2. CASE \E i \in 1..Len(d) : d[i] = z
  <2> DEFINE T == {i \in 1..Len(d) : d[i] = z}
             P(i) == d[i + 1] = z /\ \A j \in 1..i : d[j] # z
  <2>1. T \in SUBSET Nat /\ T # {}
    BY <1>0, <1>2
  <2>2. PICK m \in T : \A j \in T : m <= j
    <3> HIDE DEF T
    <3> QED BY <2>1, LeastNat
  <2>3. m \in 1..Len(d) /\ d[m] = z /\ \A j \in 1..Len(d) : d[j] = z => m <= j
    BY <2>2
  <2>4. m - 1 \in 0..(Len(d) - 1) /\ (m - 1) + 1 = m
    BY <1>0, <2>3
  <2>5. \A j \in 1..(m - 1) : d[j] # z
    <3> TAKE j \in 1..(m - 1)
    <3>1. j \in 1..Len(d) /\ ~(m <= j)
      BY <1>0, <2>3
    <3> QED BY <2>3, <3>1
  <2>6. P(m - 1)
    BY <2>3, <2>4, <2>5
  <2>7. \E i \in 0..(Len(d) - 1) : P(i)
    BY <2>4, <2>6
  <2>8. n = CHOOSE i \in 0..(Len(d) - 1) : P(i)
    BY <1>2
  <2> HIDE DEF P, n
  <2>9. n \in 0..(Len(d) - 1) /\ P(n)
    BY <2>7, <2>8
  <2>10. n \in 0..Len(d) /\ n < Len(d)
    BY <1>0, <2>9
  <2> QED BY <1>2, <2>9, <2>10 DEF P, n
<1> QED BY <1>1, <1>2
=============================================================================
