------------------------- MODULE RsysAffinityProofs -------------------------
(***************************************************************************)
(* Theorems about RsysAffinity, for every number of CPUs, every width of   *)
(* the integers and every list of shells. What is read is proved for       *)
(* numbers that fit in an unsigned int: a bigger one wraps.                *)
(***************************************************************************)
EXTENDS RsysAffinity, FiniteSetTheorems, SequenceTheorems, WellFoundedInduction, TLAPS

\* The colons among the first n tokens of the list.
Colons(n) == {j \in 1..n : shells[j].k = ":"}

Reading == {"field", "state_2", "state_3", "shell"}

\* The shells read so far are the colons already passed, and a shell ends at
\* the colon or at the end of the list, which is not passed yet.
CountInv ==
    /\ state \in Reading => Len(cpu_affinity) = Cardinality(Colons(p - 1))
    /\ state = "shell" => Ends(At(shells, p))
    /\ state # "aborted"

AffinityInv == TypeOK /\ CountInv

\* A list is a sequence of tokens.
LEMMA ListIs ==
  ASSUME NEW l \in Lists
  PROVE  l \in Seq(Token) /\ Len(l) \in Nat /\ \A j \in 1..Len(l) : l[j] \in Token
<1>1. PICK m \in 0..MaxTokens : l \in [1..m -> Token]
  BY DEF Lists
<1>2. m \in Nat
  BY <1>1, AffinityAssumption
<1>3. l \in Seq(Token)
  BY <1>1, <1>2, IsASeq
<1> QED BY <1>3, LenProperties, ElementOfSeq

\* A number read is a CPU.
LEMMA ClampIs ==
  ASSUME NEW n \in Nat
  PROVE  Clamp(n) \in Cpus
<1>1. n % Width \in Nat
  BY AffinityAssumption
<1> QED BY <1>1, AffinityAssumption DEF Clamp, Cpus

\* A CPU is a small number.
LEMMA CpusAre == 0 \in Cpus /\ Cpus = 0..(NbCpus - 1) /\ NbCpus - 1 \in Cpus
BY AffinityAssumption DEF Cpus

\* An interval between two CPUs is made of CPUs.
LEMMA IntervalIs ==
  ASSUME NEW a \in Cpus, NEW b \in Cpus
  PROVE  a..b \subseteq Cpus
<1>1. a \in Nat /\ b \in Nat /\ b <= NbCpus - 1 /\ NbCpus - 1 \in Nat
  BY AffinityAssumption DEF Cpus
<1> QED BY <1>1 DEF Cpus

\* The colons passed are counted one by one.
LEMMA ColonsStep ==
  ASSUME shells \in Lists, NEW n \in 1..Len(shells)
  PROVE  /\ shells[n].k # ":" => Colons(n) = Colons(n - 1)
         /\ shells[n].k = ":" =>
                Cardinality(Colons(n)) = Cardinality(Colons(n - 1)) + 1
         /\ Cardinality(Colons(n)) \in Nat /\ Cardinality(Colons(n - 1)) \in Nat
<1>1. Len(shells) \in Nat /\ n \in Nat /\ n - 1 \in Nat
  BY ListIs
<1>2. ASSUME NEW m \in Nat PROVE IsFiniteSet(Colons(m)) /\ Cardinality(Colons(m)) \in Nat
  <2>1. IsFiniteSet(1..m)
    BY FS_Interval
  <2>2. Colons(m) \subseteq 1..m
    BY DEF Colons
  <2> QED BY <2>1, <2>2, FS_Subset, FS_CardinalityType
<1>3. shells[n].k # ":" => Colons(n) = Colons(n - 1)
  BY <1>1 DEF Colons
<1>4. ASSUME shells[n].k = ":"
      PROVE  Colons(n) = Colons(n - 1) \cup {n} /\ n \notin Colons(n - 1)
  BY <1>1, <1>4 DEF Colons
<1>5. shells[n].k = ":" => Cardinality(Colons(n)) = Cardinality(Colons(n - 1)) + 1
  BY <1>1, <1>2, <1>4, FS_AddElement
<1> QED BY <1>1, <1>2, <1>3, <1>5

\* The kind of a token before the end of the list.
LEMMA AtIs ==
  ASSUME TypeOK
  PROVE  /\ Len(shells) \in Nat /\ p \in Nat /\ p - 1 \in Nat
         /\ At(shells, p) # "end" =>
                /\ p \in 1..Len(shells) /\ shells[p] \in Token
                /\ shells[p].k = At(shells, p)
                /\ p + 1 \in 1..(Len(shells) + 1) /\ (p + 1) - 1 = p
         /\ At(shells, p) = "end" => p - 1 = Len(shells)
         /\ At(shells, p) = "number" => shells[p].n \in Nat
<1>1. shells \in Lists /\ p \in 1..(Len(shells) + 1)
  BY DEF TypeOK
<1>2. Len(shells) \in Nat /\ \A j \in 1..Len(shells) : shells[j] \in Token
  BY <1>1, ListIs
<1>3. \A t \in Token : t.k # "end" /\ (t.k = "number" => t.n \in Nat)
  BY AffinityAssumption DEF Token, Separators
<1>4. p \in 1..Len(shells) \/ p = Len(shells) + 1
  BY <1>1, <1>2
<1>5. CASE p \in 1..Len(shells)
  <2>1. ~(p > Len(shells))
    BY <1>2, <1>5
  <2>2. At(shells, p) = shells[p].k /\ shells[p] \in Token
    BY <1>2, <1>5, <2>1 DEF At
  <2> QED BY <1>2, <1>3, <1>5, <2>2
<1>6. CASE p = Len(shells) + 1
  <2>1. p > Len(shells)
    BY <1>2, <1>6
  <2>2. At(shells, p) = "end"
    BY <2>1 DEF At
  <2> QED BY <1>2, <1>6, <2>2
<1> QED BY <1>4, <1>5, <1>6

\* A step that consumes a token other than a colon counts no shell.
LEMMA ConsumeCounts ==
  ASSUME AffinityInv, state \in Reading, At(shells, p) \notin {"end", ":"},
         p' = p + 1, UNCHANGED << shells, cpu_affinity >>
  PROVE  p' \in 1..(Len(shells) + 1) /\ Len(cpu_affinity') = Cardinality(Colons(p - 1)')
<1>1. /\ p \in 1..Len(shells) /\ shells[p].k # ":" /\ (p + 1) - 1 = p
      /\ p + 1 \in 1..(Len(shells) + 1)
  BY AtIs DEF AffinityInv
<1>2. Colons(p) = Colons(p - 1)
  BY <1>1, ColonsStep DEF AffinityInv, TypeOK
<1>3. Colons(p - 1)' = Colons(p)
  BY <1>1 DEF Colons
<1>4. Len(cpu_affinity) = Cardinality(Colons(p - 1))
  BY DEF AffinityInv, CountInv
<1> QED BY <1>1, <1>2, <1>3, <1>4

\* A step that consumes nothing counts no shell.
LEMMA StayCounts ==
  ASSUME AffinityInv, state \in Reading, UNCHANGED << shells, p, cpu_affinity >>
  PROVE  Len(cpu_affinity') = Cardinality(Colons(p - 1)')
<1>1. Colons(p - 1)' = Colons(p - 1)
  BY DEF Colons
<1> QED BY <1>1 DEF AffinityInv, CountInv

\* Every step of the automaton keeps the invariant.
LEMMA AffinityNext == AffinityInv /\ [Next]_vars => AffinityInv'
<1> SUFFICES ASSUME AffinityInv, [Next]_vars PROVE AffinityInv'
  OBVIOUS
<1>0. /\ shells \in Lists /\ p \in 1..(Len(shells) + 1) /\ start \in Cpus
      /\ cpu_bitmap \subseteq Cpus /\ cpu_affinity \in Seq(SUBSET Cpus)
  BY DEF AffinityInv, TypeOK
<1>1. ASSUME SyntaxError PROVE AffinityInv'
  BY <1>0, <1>1 DEF SyntaxError, AffinityInv, TypeOK, CountInv, Reading
<1>2. ASSUME state \in Reading, Ends(At(shells, p)), state' = "shell",
             cpu_bitmap' \subseteq Cpus, UNCHANGED << shells, p, start, cpu_affinity >>
      PROVE  AffinityInv'
  <2>1. Len(cpu_affinity') = Cardinality(Colons(p - 1)')
    BY <1>2, StayCounts
  <2> QED BY <1>0, <1>2, <2>1 DEF AffinityInv, TypeOK, CountInv
<1>3. ASSUME state \in Reading, At(shells, p) \notin {"end", ":"}, p' = p + 1,
             state' \in {"field", "state_2", "state_3", "error"} \/
                 (state' = "shell" /\ Ends(At(shells, p + 1))),
             start' \in Cpus, cpu_bitmap' \subseteq Cpus,
             UNCHANGED << shells, cpu_affinity >>
      PROVE  AffinityInv'
  <2>1. p' \in 1..(Len(shells) + 1) /\ Len(cpu_affinity') = Cardinality(Colons(p - 1)')
    BY <1>3, ConsumeCounts
  <2> QED BY <1>0, <1>3, <2>1 DEF AffinityInv, TypeOK, CountInv
<1>4. CASE NewField
  <2>1. state \in Reading
    BY <1>4 DEF NewField, Reading
  <2>2. CASE At(shells, p) = "number" /\ start' = Clamp(shells[p].n)
    <3>1. start' \in Cpus
      BY <2>2, AtIs, ClampIs DEF AffinityInv
    <3> QED BY <1>0, <1>1, <1>3, <1>4, <2>1, <2>2, <3>1 DEF NewField, Ends
  <2>3. CASE At(shells, p) # "number"
    BY <1>0, <1>1, <1>2, <1>3, <1>4, <2>1, <2>3, CpusAre DEF NewField, Ends
  <2> QED BY <1>4, <2>2, <2>3 DEF NewField, Ends
<1>5. CASE state_2
  <2>1. state \in Reading /\ cpu_bitmap \cup {start} \subseteq Cpus
    BY <1>0, <1>5 DEF state_2, Reading
  <2> QED BY <1>0, <1>1, <1>2, <1>3, <1>5, <2>1 DEF state_2
<1>6. CASE state_3
  <2>1. state \in Reading /\ cpu_bitmap \cup (start..(NbCpus - 1)) \subseteq Cpus
    BY <1>0, <1>6, CpusAre, IntervalIs DEF state_3, Reading
  <2>2. CASE Ends(At(shells, p))
    BY <1>0, <1>1, <1>2, <1>6, <2>1, <2>2 DEF state_3, Ends
  <2>3. CASE At(shells, p) = "number" /\ ~SyntaxError
    <3>1. cpu_bitmap \cup (start..Clamp(shells[p].n)) \subseteq Cpus
      <4>1. Clamp(shells[p].n) \in Cpus
        BY <2>3, AtIs, ClampIs DEF AffinityInv
      <4> QED BY <1>0, <4>1, IntervalIs
    <3>2. /\ cpu_bitmap' = cpu_bitmap \cup (start..Clamp(shells[p].n)) /\ p' = p + 1
          /\ state' = IF Ends(At(shells, p + 1)) THEN "shell"
                      ELSE IF At(shells, p + 1) = "," THEN "field" ELSE "error"
          /\ UNCHANGED <<shells, start, cpu_affinity>>
      BY <1>6, <2>3 DEF state_3, Ends
    <3> QED BY <1>0, <1>3, <2>1, <2>3, <3>1, <3>2
  <2> QED BY <1>1, <1>6, <2>2, <2>3 DEF state_3
<1>7. CASE NextShell
  <2>1. /\ state = "shell" /\ state \in Reading /\ cpu_bitmap' = {}
        /\ cpu_affinity' = Append(cpu_affinity, cpu_bitmap)
        /\ UNCHANGED << shells, start >>
    BY <1>7 DEF NextShell, Reading
  <2>2. /\ cpu_affinity' \in Seq(SUBSET Cpus)
        /\ Len(cpu_affinity') = Len(cpu_affinity) + 1
    BY <1>0, <2>1, AppendProperties
  <2>3. Len(cpu_affinity) = Cardinality(Colons(p - 1)) /\ Ends(At(shells, p))
    BY <2>1 DEF AffinityInv, CountInv
  <2>4. CASE At(shells, p) = ":"
    <3>1. p \in 1..Len(shells) /\ shells[p].k = ":" /\ p + 1 \in 1..(Len(shells) + 1) /\ (p + 1) - 1 = p
      BY <2>4, AtIs DEF AffinityInv
    <3>2. Cardinality(Colons(p)) = Cardinality(Colons(p - 1)) + 1
      BY <1>0, <3>1, ColonsStep
    <3>3. p' = p + 1 /\ state' = "field"
      BY <1>7, <2>4 DEF NextShell
    <3>4. Colons(p - 1)' = Colons(p)
      BY <2>1, <3>1, <3>3 DEF Colons
    <3> QED BY <1>0, <2>1, <2>2, <2>3, <3>1, <3>2, <3>3, <3>4 DEF AffinityInv, TypeOK, CountInv
  <2>5. CASE At(shells, p) # ":"
    <3>1. At(shells, p) = "end"
      BY <2>3, <2>5 DEF Ends
    <3>2. p - 1 = Len(shells)
      BY <3>1, AtIs DEF AffinityInv
    <3>3. rsysd_nb_shells = Cardinality(Colons(p - 1)) + 1
      BY <3>2 DEF rsysd_nb_shells, Colons
    <3>4. Len(cpu_affinity) \in Nat
      BY <1>0, LenProperties
    <3>5. Len(cpu_affinity) = rsysd_nb_shells - 1
      BY <2>3, <3>3, <3>4
    <3>6. state' = "created" /\ p' = p
      BY <1>7, <2>5, <3>5 DEF NextShell
    <3> QED BY <1>0, <2>1, <2>2, <3>6 DEF AffinityInv, TypeOK, CountInv, Reading
  <2> QED BY <2>4, <2>5
<1>8. CASE UNCHANGED vars
  BY <1>8 DEF vars, AffinityInv, TypeOK, CountInv, Colons
<1> QED BY <1>4, <1>5, <1>6, <1>7, <1>8 DEF Next

\* The automaton starts with no shell and no colon passed.
LEMMA AffinityInit == Init => AffinityInv
<1> SUFFICES ASSUME Init PROVE AffinityInv
  OBVIOUS
<1>1. Len(shells) \in Nat /\ 1 \in 1..(Len(shells) + 1)
  BY ListIs DEF Init
<1>2. TypeOK
  BY <1>1, CpusAre, EmptySeq DEF Init, TypeOK
<1>3. Colons(p - 1) = {}
  BY DEF Init, Colons
<1>4. Len(cpu_affinity) = 0 /\ Cardinality(Colons(p - 1)) = 0
  BY <1>3, FS_EmptySet, EmptySeq DEF Init
<1> QED BY <1>2, <1>4 DEF Init, AffinityInv, CountInv

\* Whatever the list, rsysd_get_affinity() and the loop that calls it stay in
\* the list, and in the bitmap: no CPU of a shell is beyond the last one.
THEOREM AffinityTypes == Spec => []TypeOK
<1>1. AffinityInv => TypeOK
  BY DEF AffinityInv
<1> QED BY <1>1, AffinityInit, AffinityNext, PTL DEF Spec

\* The loop of rsysd_create_shells() fills the table of shells exactly: the
\* automaton stops at each colon that was counted to allocate it, and its
\* assertion holds.
THEOREM TableFilled == Spec => []ShellsCounted
<1>1. AffinityInv => ShellsCounted
  BY DEF AffinityInv, CountInv, ShellsCounted
<1> QED BY <1>1, AffinityInit, AffinityNext, PTL DEF Spec

-----------------------------------------------------------------------------
(* The fields of a list, by position.                                      *)

\* The kinds of the tokens of a field.
Kinds(f) == [j \in 1..Len(f) |-> f[j].k]

\* A text of one token, of two, of three.
LEMMA KindsAre ==
  ASSUME NEW f \in Seq(Token), NEW x, NEW y, NEW z
  PROVE  /\ Kinds(f) = << >> <=> Len(f) = 0
         /\ Kinds(f) = << x >> <=> Len(f) = 1 /\ f[1].k = x
         /\ Kinds(f) = << x, y >> <=> Len(f) = 2 /\ f[1].k = x /\ f[2].k = y
         /\ Kinds(f) = << x, y, z >> <=>
                Len(f) = 3 /\ f[1].k = x /\ f[2].k = y /\ f[3].k = z
<1> DEFINE g == Kinds(f)
           n == Len(f)
<1>1. n \in Nat
  BY LenProperties
<1>2. DOMAIN g = 1..n /\ \A j \in 1..n : g[j] = f[j].k
  BY DEF Kinds
<1>3. g = [j \in DOMAIN g |-> g[j]]
  BY DEF Kinds
<1> HIDE DEF g, n
<1>4. g = << >> <=> n = 0
  BY <1>1, <1>2, <1>3
<1>5. g = << x >> <=> n = 1 /\ f[1].k = x
  BY <1>1, <1>2, <1>3
<1>6. g = << x, y >> <=> n = 2 /\ f[1].k = x /\ f[2].k = y
  BY <1>1, <1>2, <1>3
<1>7. g = << x, y, z >> <=> n = 3 /\ f[1].k = x /\ f[2].k = y /\ f[3].k = z
  BY <1>1, <1>2, <1>3
<1> QED BY <1>4, <1>5, <1>6, <1>7 DEF g, n

\* A set of natural numbers has a least element.
LEMMA LeastOf ==
  ASSUME NEW S \in SUBSET Nat, S # {}
  PROVE  \E i \in S : \A j \in S : i <= j
<1>1. PICK i \in S : \A j \in S : ~(<<j, i>> \in OpToRel(<, Nat))
  BY WFMin, NatLessThanWellFounded
<1>2. ASSUME NEW j \in S PROVE i <= j
  <2>1. ~(<<j, i>> \in OpToRel(<, Nat))
    BY <1>1
  <2>2. ~(j < i)
    BY <2>1 DEF OpToRel
  <2> QED BY <2>2
<1> QED BY <1>2

\* What is at a place of the list.
Hyphen(j) == j \in 1..Len(shells) /\ shells[j].k = "-"
Number(j) == j \in 1..Len(shells) /\ shells[j].k = "number"

\* The field between the positions c and d, and what it asks for.
FieldAt(c, d) == SubSeq(shells, c + 1, d - 1)
Asked(c, d) == First(FieldAt(c, d))..Last(FieldAt(c, d))

\* The same by position.
Shape(c, d) ==
    \/ d = c + 1
    \/ d = c + 2 /\ (Number(c + 1) \/ Hyphen(c + 1))
    \/ d = c + 3 /\ Number(c + 1) /\ Hyphen(c + 2)
    \/ d = c + 3 /\ Hyphen(c + 1) /\ Number(c + 2)
    \/ d = c + 4 /\ Number(c + 1) /\ Hyphen(c + 2) /\ Number(c + 3)
FirstAt(c, d) == IF d > c + 1 /\ Number(c + 1) THEN DocCpu(shells[c + 1].n) ELSE 0
LastAt(c, d) == IF d > c + 1 /\ Number(d - 1) THEN DocCpu(shells[d - 1].n) ELSE NbCpus - 1

\* The tokens of a field are those of the list.
LEMMA FieldIs ==
  ASSUME shells \in Lists, NEW c \in Nat, NEW d \in Nat, c < d, d <= Len(shells) + 1
  PROVE  /\ FieldAt(c, d) \in Seq(Token) /\ Len(FieldAt(c, d)) = d - c - 1
         /\ d - c - 1 \in Nat /\ Len(shells) \in Nat
         /\ \A j \in 1..(d - c - 1) : /\ FieldAt(c, d)[j] = shells[c + j]
                                     /\ c + j \in 1..Len(shells)
<1> DEFINE a == c + 1
           b == d - 1
<1>1. Len(shells) \in Nat /\ \A j \in 1..Len(shells) : shells[j] \in Token
  BY ListIs
<1>2. a \in Int /\ b \in Int /\ \A j \in a..b : shells[j] \in Token
  BY <1>1
<1> HIDE DEF a, b
<1>3. /\ SubSeq(shells, a, b) \in Seq(Token)
      /\ Len(SubSeq(shells, a, b)) = IF a <= b THEN b - a + 1 ELSE 0
      /\ \A j \in 1..(b - a + 1) : SubSeq(shells, a, b)[j] = shells[a + j - 1]
  BY <1>2, SubSeqProperties
<1> DEFINE f == SubSeq(shells, a, b)
<1>4. f = FieldAt(c, d)
  BY DEF f, FieldAt, a, b
<1> HIDE DEF f
<1>5. b - a + 1 = d - c - 1 /\ d - c - 1 \in Nat /\ (a <= b \/ d - c - 1 = 0)
  BY DEF a, b
<1>6. Len(f) = d - c - 1
  BY <1>3, <1>5 DEF f
<1>7. ASSUME NEW j \in 1..(d - c - 1) PROVE f[j] = shells[c + j] /\ c + j \in 1..Len(shells)
  <2>1. a + j - 1 = c + j /\ c + j \in 1..Len(shells)
    BY <1>1, <1>7 DEF a
  <2> QED BY <1>3, <1>5, <1>7, <2>1 DEF f
<1> QED BY <1>1, <1>3, <1>4, <1>5, <1>6, <1>7 DEF f

\* Whether a field is one of the manual's, and its CPUs, by position.
LEMMA FieldShape ==
  ASSUME shells \in Lists, NEW c \in Nat, NEW d \in Nat, c < d, d <= Len(shells) + 1
  PROVE  /\ IsField(FieldAt(c, d)) <=> Shape(c, d) /\ FirstAt(c, d) <= LastAt(c, d)
         /\ Asked(c, d) = FirstAt(c, d)..LastAt(c, d)
<1> DEFINE f == FieldAt(c, d)
           n == d - c - 1
<1>1. f \in Seq(Token) /\ Len(f) = n /\ n \in Nat
  BY FieldIs
<1>2. ASSUME NEW j \in 1..n
      PROVE  /\ f[j].k = "number" <=> Number(c + j)
             /\ f[j].k = "-" <=> Hyphen(c + j)
             /\ f[j] = shells[c + j]
  BY <1>2, FieldIs DEF Number, Hyphen
<1>3. First(f) = FirstAt(c, d)
  <2>1. f # << >> <=> n # 0
    BY <1>1, EmptySeq
  <2>2. CASE n = 0
    BY <2>1, <2>2 DEF First, FirstAt
  <2>3. CASE n # 0
    <3>1. 1 \in 1..n /\ d > c + 1
      BY <1>1, <2>3
    <3> QED BY <1>2, <2>1, <2>3, <3>1 DEF First, FirstAt
  <2> QED BY <2>2, <2>3
<1>4. Last(f) = LastAt(c, d)
  <2>1. f # << >> <=> n # 0
    BY <1>1, EmptySeq
  <2>2. CASE n = 0
    BY <2>1, <2>2 DEF Last, LastAt
  <2>3. CASE n # 0
    <3>1. n \in 1..n /\ d > c + 1 /\ c + n = d - 1
      BY <1>1, <2>3
    <3> QED BY <1>1, <1>2, <2>1, <2>3, <3>1 DEF Last, LastAt
  <2> QED BY <2>2, <2>3
<1>5. IsField(f) <=> /\ Kinds(f) \in {<< >>, <<"number">>, <<"-">>, <<"number", "-">>,
                                     <<"-", "number">>, <<"number", "-", "number">>}
                     /\ First(f) <= Last(f)
  BY DEF IsField, Kinds
<1> HIDE DEF f
<1>6. Kinds(f) \in {<< >>, <<"number">>, <<"-">>, <<"number", "-">>,
                    <<"-", "number">>, <<"number", "-", "number">>}
      <=> \/ n = 0
          \/ n = 1 /\ (f[1].k = "number" \/ f[1].k = "-")
          \/ n = 2 /\ (\/ f[1].k = "number" /\ f[2].k = "-"
                       \/ f[1].k = "-" /\ f[2].k = "number")
          \/ n = 3 /\ f[1].k = "number" /\ f[2].k = "-" /\ f[3].k = "number"
  <2>1. \A x, y, z : /\ Kinds(f) = << >> <=> Len(f) = 0
                     /\ Kinds(f) = << x >> <=> Len(f) = 1 /\ f[1].k = x
                     /\ Kinds(f) = << x, y >> <=> Len(f) = 2 /\ f[1].k = x /\ f[2].k = y
                     /\ Kinds(f) = << x, y, z >> <=>
                            Len(f) = 3 /\ f[1].k = x /\ f[2].k = y /\ f[3].k = z
    BY <1>1, KindsAre, Zenon
  <2> HIDE DEF n
  <2>2. /\ Kinds(f) = << >> <=> Len(f) = 0
        /\ Kinds(f) = << "number" >> <=> Len(f) = 1 /\ f[1].k = "number"
        /\ Kinds(f) = << "-" >> <=> Len(f) = 1 /\ f[1].k = "-"
        /\ Kinds(f) = << "number", "-" >> <=> Len(f) = 2 /\ f[1].k = "number" /\ f[2].k = "-"
        /\ Kinds(f) = << "-", "number" >> <=> Len(f) = 2 /\ f[1].k = "-" /\ f[2].k = "number"
        /\ Kinds(f) = << "number", "-", "number" >> <=>
               Len(f) = 3 /\ f[1].k = "number" /\ f[2].k = "-" /\ f[3].k = "number"
    BY <2>1
  <2> DEFINE k == Kinds(f)
  <2> HIDE DEF k
  <2> QED BY <1>1, <2>2 DEF k
<1>7. Shape(c, d) <=> \/ n = 0
                      \/ n = 1 /\ (f[1].k = "number" \/ f[1].k = "-")
                      \/ n = 2 /\ (\/ f[1].k = "number" /\ f[2].k = "-"
                                   \/ f[1].k = "-" /\ f[2].k = "number")
                      \/ n = 3 /\ f[1].k = "number" /\ f[2].k = "-" /\ f[3].k = "number"
  <2>1. (d = c + 1 <=> n = 0) /\ (d = c + 2 <=> n = 1) /\ (d = c + 3 <=> n = 2)
        /\ (d = c + 4 <=> n = 3)
    OBVIOUS
  <2>2. /\ n = 1 => 1 \in 1..n
        /\ n = 2 => 1 \in 1..n /\ 2 \in 1..n
        /\ n = 3 => 1 \in 1..n /\ 2 \in 1..n /\ 3 \in 1..n
    OBVIOUS
  <2> HIDE DEF n
  <2>3. /\ 1 \in 1..n => /\ f[1].k = "number" <=> Number(c + 1)
                         /\ f[1].k = "-" <=> Hyphen(c + 1)
        /\ 2 \in 1..n => /\ f[2].k = "number" <=> Number(c + 2)
                         /\ f[2].k = "-" <=> Hyphen(c + 2)
        /\ 3 \in 1..n => /\ f[3].k = "number" <=> Number(c + 3)
                         /\ f[3].k = "-" <=> Hyphen(c + 3)
    BY <1>2
  <2>4. CASE n = 0
    BY <2>1, <2>4 DEF Shape
  <2>5. CASE n = 1
    BY <2>1, <2>2, <2>3, <2>5 DEF Shape
  <2>6. CASE n = 2
    BY <2>1, <2>2, <2>3, <2>6 DEF Shape
  <2>7. CASE n = 3
    BY <2>1, <2>2, <2>3, <2>7 DEF Shape
  <2> QED BY <2>1, <2>4, <2>5, <2>6, <2>7 DEF Shape
<1> QED BY <1>3, <1>4, <1>5, <1>6, <1>7 DEF f, Asked

-----------------------------------------------------------------------------
(* Which fields a shell has.                                               *)

\* The separator of the fields.
Comma == ","

Colon(j) == j \in 1..Len(shells) /\ shells[j].k = ":"

\* The places between which the fields are: the ends of the list, the commas and
\* the colons.
Delim(j) ==
    \/ j = 0 \/ j = Len(shells) + 1
    \/ j \in 1..Len(shells) /\ (shells[j].k = Comma \/ shells[j].k = ":")

\* A field lies between the positions c and d.
Span(c, d) ==
    /\ c \in 0..(Len(shells) + 1) /\ d \in 0..(Len(shells) + 1)
    /\ c < d /\ Delim(c) /\ Delim(d)
    /\ \A e \in (c + 1)..(d - 1) : ~Delim(e)

\* The number of the shell it is a field of.
ShellOf(c) == Cardinality(Colons(c)) + 1

\* The colons are counted.
LEMMA ColonsAre ==
  ASSUME NEW m \in Nat
  PROVE  /\ IsFiniteSet(Colons(m)) /\ Cardinality(Colons(m)) \in Nat
         /\ m = 0 => Cardinality(Colons(m)) = 0
<1>1. IsFiniteSet(1..m)
  BY FS_Interval
<1>2. Colons(m) \subseteq 1..m
  BY DEF Colons
<1>3. IsFiniteSet(Colons(m)) /\ Cardinality(Colons(m)) \in Nat
  BY <1>1, <1>2, FS_Subset, FS_CardinalityType
<1>4. m = 0 => Colons(m) = {}
  BY <1>2
<1> QED BY <1>3, <1>4, FS_EmptySet

\* There are as many of them at a later position, or more.
LEMMA ColonsGrow ==
  ASSUME NEW m \in Nat, NEW k \in Nat, m <= k
  PROVE  /\ Cardinality(Colons(m)) <= Cardinality(Colons(k))
         /\ \A e \in (m + 1)..k :
                shells[e].k = ":" => Cardinality(Colons(m)) < Cardinality(Colons(k))
         /\ (\A e \in (m + 1)..k : shells[e].k # ":") => Colons(m) = Colons(k)
<1>1. Colons(m) \subseteq Colons(k)
  BY DEF Colons
<1>2. /\ IsFiniteSet(Colons(m)) /\ IsFiniteSet(Colons(k))
      /\ Cardinality(Colons(m)) \in Nat /\ Cardinality(Colons(k)) \in Nat
  BY ColonsAre
<1>3. Cardinality(Colons(m)) <= Cardinality(Colons(k))
  BY <1>1, <1>2, FS_Subset
<1>4. ASSUME NEW e \in (m + 1)..k, shells[e].k = ":"
      PROVE  Cardinality(Colons(m)) < Cardinality(Colons(k))
  <2>1. e \in Colons(k) /\ e \notin Colons(m)
    BY <1>4 DEF Colons
  <2>2. Cardinality(Colons(m)) # Cardinality(Colons(k))
    BY <1>1, <1>2, <2>1, FS_Subset
  <2> QED BY <1>2, <1>3, <2>2
<1>5. ASSUME \A e \in (m + 1)..k : shells[e].k # ":" PROVE Colons(m) = Colons(k)
  <2>1. ASSUME NEW e \in Colons(k) PROVE e \in Colons(m)
    <3>1. e \in 1..k /\ shells[e].k = ":"
      BY DEF Colons
    <3>2. ~(e \in (m + 1)..k)
      BY <1>5, <3>1
    <3> QED BY <3>1, <3>2 DEF Colons
  <2> QED BY <1>1, <2>1
<1> QED BY <1>3, <1>4, <1>5

\* Each of the shells that are counted begins somewhere.
LEMMA ShellBegins ==
  ASSUME shells \in Lists, NEW i \in 1..rsysd_nb_shells
  PROVE  \E a \in 0..Len(shells) : (a = 0 \/ Colon(a)) /\ ShellOf(a) = i
<1> DEFINE n == Len(shells)
           S == {m \in 0..n : Cardinality(Colons(m)) >= i - 1}
<1>1. n \in Nat
  BY ListIs
<1>2. rsysd_nb_shells = Cardinality(Colons(n)) + 1 /\ Cardinality(Colons(n)) \in Nat
  BY <1>1, ColonsAre DEF rsysd_nb_shells, Colons
<1>3. i \in Nat /\ i >= 1 /\ i - 1 <= Cardinality(Colons(n))
  BY <1>2
<1>4. S \in SUBSET Nat /\ n \in S
  BY <1>1, <1>3
<1>5. PICK a \in S : \A j \in S : a <= j
  BY <1>4, LeastOf
<1>6. a \in 0..n /\ a \in Nat /\ Cardinality(Colons(a)) >= i - 1 /\ Cardinality(Colons(a)) \in Nat
  BY <1>1, <1>5, ColonsAre
<1>7. CASE a = 0
  <2>1. Cardinality(Colons(a)) = 0
    BY <1>6, <1>7, ColonsAre
  <2>2. ShellOf(a) = i
    BY <1>3, <1>6, <2>1 DEF ShellOf
  <2> QED BY <1>6, <1>7, <2>2
<1>8. CASE a # 0
  <2> DEFINE b == a - 1
  <2>1. b \in 0..n /\ b \in Nat /\ ~(a <= b) /\ a \in 1..n
    BY <1>1, <1>6, <1>8
  <2>2. /\ shells[a].k # ":" => Colons(a) = Colons(b)
        /\ shells[a].k = ":" => Cardinality(Colons(a)) = Cardinality(Colons(b)) + 1
    BY <2>1, ColonsStep
  <2> HIDE DEF b
  <2>3. ~(Cardinality(Colons(b)) >= i - 1)
    BY <1>5, <2>1
  <2>4. Cardinality(Colons(b)) < i - 1 /\ Cardinality(Colons(b)) \in Nat
    BY <1>3, <2>1, <2>3, ColonsAre
  <2>5. shells[a].k = ":" /\ Cardinality(Colons(a)) = i - 1
    BY <1>3, <1>6, <2>2, <2>4
  <2>6. Colon(a) /\ ShellOf(a) = i
    BY <1>3, <2>1, <2>5 DEF Colon, ShellOf
  <2> QED BY <1>6, <2>6
<1> QED BY <1>7, <1>8

\* The places a and b are those around the text of shell i.
ShellText(a, b, i) ==
    /\ a \in 0..Len(shells) /\ b \in (a + 1)..(Len(shells) + 1)
    /\ a = 0 \/ Colon(a)
    /\ b = Len(shells) + 1 \/ Colon(b)
    /\ \A e \in (a + 1)..(b - 1) : ~Colon(e)
    /\ ShellOf(a) = i

\* There are such places, for each shell.
LEMMA ShellTextIs ==
  ASSUME shells \in Lists, NEW i \in 1..rsysd_nb_shells
  PROVE  \E a, b \in Nat : ShellText(a, b, i)
<1> DEFINE n == Len(shells)
<1>1. n \in Nat
  BY ListIs
<1>2. PICK a \in 0..n : (a = 0 \/ Colon(a)) /\ ShellOf(a) = i
  BY ShellBegins
<1> DEFINE S == {e \in (a + 1)..(n + 1) : e = n + 1 \/ Colon(e)}
<1>3. n + 1 \in S /\ S \in SUBSET Nat
  BY <1>1, <1>2
<1>4. PICK b \in S : \A e \in S : b <= e
  BY <1>3, LeastOf
<1>5. b \in (a + 1)..(n + 1) /\ (b = n + 1 \/ Colon(b))
  BY <1>4
<1>6. ASSUME NEW e \in (a + 1)..(b - 1) PROVE ~Colon(e)
  <2>1. e \in (a + 1)..(n + 1) /\ ~(b <= e)
    BY <1>1, <1>2, <1>5, <1>6
  <2> QED BY <1>4, <2>1
<1>7. a \in Nat /\ b \in Nat
  BY <1>1, <1>2, <1>5
<1> QED BY <1>2, <1>5, <1>6, <1>7 DEF ShellText

\* The affinity of a shell is the text between those places.
LEMMA AffinityIs ==
  ASSUME shells \in Lists, NEW i \in Nat, NEW a \in Nat, NEW b \in Nat, ShellText(a, b, i)
  PROVE  Affinity(shells, i) = FieldAt(a, b)
<1> DEFINE n == Len(shells)
           cuts == {0, n + 1} \cup {j \in 1..n : shells[j].k = ":"}
           P(ab) == /\ ab[1] < ab[2] /\ \A c \in cuts : c <= ab[1] \/ c >= ab[2]
                    /\ Cardinality(Colons(ab[1])) = i - 1
<1>1. n \in Nat /\ a \in 0..n /\ b \in (a + 1)..(n + 1)
  BY ListIs DEF ShellText
<1>2. cuts \subseteq Nat /\ \A c : c \in cuts <=> c = 0 \/ c = n + 1 \/ Colon(c)
  BY <1>1 DEF Colon
<1>3. a \in cuts /\ b \in cuts /\ \A e \in cuts : e <= a \/ e >= b
  <2>1. a \in cuts /\ b \in cuts
    BY <1>1, <1>2 DEF ShellText
  <2>2. ASSUME NEW e \in cuts, ~(e <= a), ~(e >= b) PROVE FALSE
    <3>1. e \in Nat
      BY <1>2
    <3>2. e \in (a + 1)..(b - 1) /\ e # 0 /\ e # n + 1
      BY <1>1, <2>2, <3>1
    <3> QED BY <1>2, <3>2 DEF ShellText
  <2> QED BY <2>1, <2>2
<1>4. Cardinality(Colons(a)) = i - 1
  <2>1. Cardinality(Colons(a)) \in Nat
    BY ColonsAre
  <2>2. Cardinality(Colons(a)) + 1 = i
    BY DEF ShellText, ShellOf
  <2> QED BY <2>1, <2>2
<1>5. P(<<a, b>>)
  BY <1>1, <1>3, <1>4
<1>6. ASSUME NEW ab \in cuts \X cuts, P(ab) PROVE ab = <<a, b>>
  <2> DEFINE x == ab[1]
             y == ab[2]
  <2>1. x \in cuts /\ y \in cuts /\ ab = <<x, y>>
    OBVIOUS
  <2>2. x < y /\ (\A c \in cuts : c <= x \/ c >= y) /\ Cardinality(Colons(x)) = i - 1
    BY <1>6
  <2> HIDE DEF x, y, cuts
  <2>3. x \in Nat /\ y \in Nat /\ y <= n + 1
    BY <1>1, <1>2, <2>1 DEF Colon
  <2>4. ~(x < a)
    <3> SUFFICES ASSUME x < a PROVE FALSE
      OBVIOUS
    <3>1. shells[a].k = ":" /\ a \in (x + 1)..a
      BY <1>1, <2>3 DEF ShellText, Colon
    <3>2. Cardinality(Colons(x)) < Cardinality(Colons(a))
      BY <2>3, <3>1, ColonsGrow
    <3> QED BY <1>4, <2>2, <3>2
  <2>5. ~(a < x)
    <3> SUFFICES ASSUME a < x PROVE FALSE
      OBVIOUS
    <3>1. Colon(x)
      BY <1>1, <1>2, <2>1, <2>2, <2>3
    <3>2. shells[x].k = ":" /\ x \in (a + 1)..x
      BY <1>1, <2>3, <3>1 DEF Colon
    <3>3. Cardinality(Colons(a)) < Cardinality(Colons(x))
      BY <2>3, <3>2, ColonsGrow
    <3> QED BY <1>4, <2>2, <3>3
  <2>6. x = a
    BY <2>3, <2>4, <2>5
  <2>7. (b <= x \/ b >= y) /\ (y <= a \/ y >= b)
    BY <1>3, <2>1, <2>2
  <2>8. y = b
    BY <1>1, <2>2, <2>3, <2>6, <2>7
  <2> QED BY <2>1, <2>6, <2>8
<1>7. <<a, b>> \in cuts \X cuts
  BY <1>3
<1>8. Pieces(shells, ":") = {ab \in cuts \X cuts : ab[1] < ab[2] /\ \A c \in cuts : c <= ab[1] \/ c >= ab[2]}
  BY DEF Pieces
<1> HIDE DEF cuts
<1>9. (CHOOSE ab \in Pieces(shells, ":") : Cardinality(Colons(ab[1])) = i - 1) = <<a, b>>
  <2>1. <<a, b>> \in Pieces(shells, ":") /\ Cardinality(Colons(<<a, b>>[1])) = i - 1
    BY <1>4, <1>5, <1>7, <1>8
  <2>2. ASSUME NEW ab \in Pieces(shells, ":"), Cardinality(Colons(ab[1])) = i - 1
        PROVE  ab = <<a, b>>
    BY <1>6, <1>8, <2>2
  <2> QED BY <2>1, <2>2
<1>10. \A m : {j \in 1..m : shells[j].k = ":"} = Colons(m)
  BY DEF Colons
<1> DEFINE best == CHOOSE ab \in Pieces(shells, ":") :
               Cardinality({j \in 1..ab[1] : shells[j].k = ":"}) = i - 1
<1>11. best = <<a, b>>
  BY <1>9, <1>10
<1>12. Affinity(shells, i) = SubSeq(shells, best[1] + 1, best[2] - 1)
  BY DEF Affinity, Piece
<1> HIDE DEF best
<1> QED BY <1>11, <1>12 DEF FieldAt

\* The fields of a shell are those between the two places of its text.
LEMMA SpanOf ==
  ASSUME shells \in Lists, NEW i \in Nat, NEW a \in Nat, NEW b \in Nat, ShellText(a, b, i),
         NEW c \in Nat, NEW d \in Nat, Span(c, d)
  PROVE  ShellOf(c) = i <=> a <= c /\ d <= b
<1> DEFINE n == Len(shells)
<1>1. /\ n \in Nat /\ a \in 0..n /\ b \in (a + 1)..(n + 1)
      /\ c \in 0..n /\ d \in (c + 1)..(n + 1)
  <2>1. n \in Nat
    BY ListIs
  <2> QED BY <2>1 DEF ShellText, Span
<1>2. Cardinality(Colons(a)) \in Nat /\ Cardinality(Colons(c)) \in Nat
  BY ColonsAre
<1>3. ShellOf(c) = i <=> Cardinality(Colons(c)) = Cardinality(Colons(a))
  BY <1>2 DEF ShellOf, ShellText
<1>4. ASSUME c < a PROVE Cardinality(Colons(c)) < Cardinality(Colons(a))
  <2>1. shells[a].k = ":" /\ a \in (c + 1)..a
    BY <1>1, <1>4 DEF ShellText, Colon
  <2> QED BY <1>4, <2>1, ColonsGrow
<1>5. ASSUME b < d PROVE Cardinality(Colons(a)) < Cardinality(Colons(c))
  <2>1. b # n + 1 /\ Colon(b)
    BY <1>1, <1>5 DEF ShellText
  <2>2. shells[b].k = ":" /\ Delim(b)
    BY <2>1 DEF Colon, Delim
  <2>3. ~(b \in (c + 1)..(d - 1))
    BY <2>2 DEF Span
  <2>4. a <= c /\ b \in (a + 1)..c
    BY <1>1, <1>5, <2>3
  <2> QED BY <2>2, <2>4, ColonsGrow
<1>6. ASSUME a <= c, d <= b PROVE Colons(a) = Colons(c)
  <2>1. ASSUME NEW e \in (a + 1)..c PROVE shells[e].k # ":"
    <3>1. e \in (a + 1)..(b - 1) /\ e \in 1..n
      BY <1>1, <1>6, <2>1
    <3>2. ~Colon(e)
      BY <3>1 DEF ShellText
    <3> QED BY <3>1, <3>2 DEF Colon
  <2> QED BY <1>6, <2>1, ColonsGrow
<1> HIDE DEF n
<1>7. (c < a \/ a <= c) /\ (b < d \/ d <= b)
  BY <1>1
<1> QED BY <1>1, <1>2, <1>3, <1>4, <1>5, <1>6, <1>7

\* The places x and y of the text between a and b are c and d in the list.
Within(a, b, x, y, c, d) ==
    /\ a \in Nat /\ b \in Nat /\ x \in Nat /\ y \in Nat /\ c \in Nat /\ d \in Nat
    /\ a < b /\ b <= Len(shells) + 1
    /\ c = a + x /\ d = a + y /\ c < d /\ d <= b

\* A part of the text of a shell, by the positions of the list.
LEMMA PartIs ==
  ASSUME shells \in Lists, NEW a, NEW b, NEW x, NEW y, NEW c, NEW d,
         Within(a, b, x, y, c, d)
  PROVE  Piece(FieldAt(a, b), << x, y >>) = FieldAt(c, d)
<1> DEFINE s == FieldAt(a, b)
           u == x + 1
           v == y - 1
           n == d - c - 1
           m == b - a - 1
<1>1. a \in Nat /\ b \in Nat /\ a < b /\ b <= Len(shells) + 1
  BY DEF Within
<1>2. /\ s \in Seq(Token) /\ Len(s) = m /\ m \in Nat /\ Len(shells) \in Nat
      /\ \A j \in 1..m : s[j] = shells[a + j]
  BY <1>1, FieldIs
<1>3. c \in Nat /\ d \in Nat /\ c < d /\ d <= Len(shells) + 1
  BY <1>2 DEF Within
<1> HIDE DEF s, m
<1>4. /\ FieldAt(c, d) \in Seq(Token) /\ Len(FieldAt(c, d)) = n
      /\ \A j \in 1..n : FieldAt(c, d)[j] = shells[c + j]
  BY <1>3, FieldIs
<1>5. u \in Int /\ v \in Int /\ v - u + 1 = n /\ (u <= v \/ n = 0)
  BY DEF Within
<1>6. /\ \A j \in 1..n : u + j - 1 \in 1..m /\ a + (u + j - 1) = c + j
      /\ \A j \in u..v : j \in 1..m
  BY DEF Within, m
<1> HIDE DEF u, v, n
<1>7. \A j \in u..v : s[j] \in Token
  <2>1. \A j \in 1..Len(s) : s[j] \in Token
    BY <1>2, ElementOfSeq
  <2> QED BY <1>2, <1>6, <2>1
<1>8. /\ SubSeq(s, u, v) \in Seq(Token)
      /\ Len(SubSeq(s, u, v)) = IF u <= v THEN v - u + 1 ELSE 0
      /\ \A j \in 1..(v - u + 1) : SubSeq(s, u, v)[j] = s[u + j - 1]
  BY <1>5, <1>7, SubSeqProperties
<1>9. Len(SubSeq(s, u, v)) = n
  BY <1>5, <1>8
<1>10. ASSUME NEW j \in 1..n PROVE SubSeq(s, u, v)[j] = FieldAt(c, d)[j]
  <2>1. s[u + j - 1] = shells[c + j]
    BY <1>2, <1>6
  <2> QED BY <1>4, <1>5, <1>8, <2>1
<1>11. SubSeq(s, u, v) = FieldAt(c, d)
  BY <1>4, <1>8, <1>9, <1>10, SeqEqual
<1> QED BY <1>11 DEF Piece, s, u, v

\* The places where the text of a shell is cut into fields.
Cuts(s) == {0, Len(s) + 1} \cup {j \in 1..Len(s) : s[j].k = Comma}

\* They are those of the delimiters of the list.
LEMMA CutIs ==
  ASSUME shells \in Lists, NEW i \in Nat, NEW a \in Nat, NEW b \in Nat, ShellText(a, b, i)
  PROVE  /\ a < b /\ b <= Len(shells) + 1 /\ Len(shells) \in Nat
         /\ \A x \in Nat, e \in Nat :
                e = a + x /\ e <= b => (x \in Cuts(FieldAt(a, b)) <=> Delim(e))
         /\ \A x \in Cuts(FieldAt(a, b)) : x \in Nat /\ a + x <= b
<1> DEFINE s == FieldAt(a, b)
           m == b - a - 1
<1>1. /\ Len(shells) \in Nat /\ a < b /\ b <= Len(shells) + 1
      /\ Delim(a) /\ Delim(b)
  BY ListIs DEF ShellText, Delim, Colon
<1>2. Len(s) = m /\ m \in Nat /\ \A j \in 1..m : s[j] = shells[a + j]
  BY <1>1, FieldIs
<1>3. a + m + 1 = b
  OBVIOUS
<1> HIDE DEF s, m
<1>4. \A x : x \in Cuts(s) <=> x = 0 \/ x = m + 1 \/ (x \in 1..m /\ s[x].k = Comma)
  BY <1>2 DEF Cuts
<1>5. ASSUME NEW x \in Cuts(s) PROVE x \in Nat /\ a + x <= b
  BY <1>2, <1>3, <1>4
<1>6. ASSUME NEW x \in Nat, NEW e \in Nat, e = a + x, e <= b
      PROVE  x \in Cuts(s) <=> Delim(e)
  <2>1. x = 0 \/ x = m + 1 \/ x \in 1..m
    BY <1>2, <1>3, <1>6
  <2>2. CASE x = 0
    <3>1. e = a
      BY <1>6, <2>2
    <3> QED BY <1>1, <1>4, <2>2, <3>1
  <2>3. CASE x = m + 1
    <3>1. e = b
      BY <1>2, <1>3, <1>6, <2>3
    <3> QED BY <1>1, <1>4, <2>3, <3>1
  <2>4. CASE x \in 1..m
    <3>1. e \in (a + 1)..(b - 1) /\ e \in 1..Len(shells) /\ x # 0 /\ x # m + 1
      BY <1>1, <1>2, <1>3, <1>6, <2>4
    <3>2. s[x] = shells[e]
      BY <1>2, <1>6, <2>4
    <3>3. ~Colon(e)
      BY <3>1 DEF ShellText
    <3>4. e # 0 /\ e # Len(shells) + 1
      BY <1>1, <3>1
    <3>5. Delim(e) <=> shells[e].k = Comma
      BY <3>1, <3>3, <3>4 DEF Delim, Colon
    <3> QED BY <1>4, <2>4, <3>1, <3>2, <3>5
  <2> QED BY <2>1, <2>2, <2>3, <2>4
<1> QED BY <1>1, <1>5, <1>6 DEF s

\* The pieces of the text of a shell are the fields of the list between its two
\* places.
LEMMA PieceIs ==
  ASSUME shells \in Lists, NEW i \in Nat, NEW a \in Nat, NEW b \in Nat, ShellText(a, b, i),
         NEW x \in Nat, NEW y \in Nat, NEW c \in Nat, NEW d \in Nat,
         c = a + x, d = a + y, d <= b, c < d
  PROVE  /\ <<x, y>> \in Pieces(FieldAt(a, b), Comma) <=> Span(c, d)
         /\ Piece(FieldAt(a, b), <<x, y>>) = FieldAt(c, d)
<1> DEFINE s == FieldAt(a, b)
           cuts == Cuts(s)
<1>1. /\ a < b /\ b <= Len(shells) + 1 /\ Len(shells) \in Nat
      /\ \A z \in Nat, e \in Nat : e = a + z /\ e <= b => (z \in cuts <=> Delim(e))
      /\ \A z \in cuts : z \in Nat /\ a + z <= b
  BY CutIs
<1>2. x < y /\ a + y <= b /\ c <= b
  OBVIOUS
<1>3. Piece(s, <<x, y>>) = FieldAt(c, d)
  <2>1. Within(a, b, x, y, c, d)
    BY <1>1 DEF Within
  <2> QED BY <2>1, PartIs
<1>4. Pieces(s, Comma) = {xy \in cuts \X cuts : xy[1] < xy[2] /\ \A e \in cuts : e <= xy[1] \/ e >= xy[2]}
  BY DEF Pieces, Cuts
<1> HIDE DEF s, cuts
<1>5. <<x, y>> \in Pieces(s, Comma) <=>
          x \in cuts /\ y \in cuts /\ \A e \in cuts : e <= x \/ e >= y
  BY <1>2, <1>4
<1>6. (x \in cuts <=> Delim(c)) /\ (y \in cuts <=> Delim(d))
  BY <1>1, <1>2
<1>7. ASSUME \A e \in cuts : e <= x \/ e >= y, NEW e \in (c + 1)..(d - 1)
      PROVE  ~Delim(e)
  <2> DEFINE h == e - a
  <2>1. h \in Nat /\ e \in Nat /\ e = a + h /\ e <= b /\ ~(h <= x) /\ ~(h >= y)
    BY <1>2
  <2> HIDE DEF h
  <2>2. h \notin cuts
    BY <1>7, <2>1
  <2> QED BY <1>1, <2>1, <2>2
<1>8. ASSUME \A e \in (c + 1)..(d - 1) : ~Delim(e), NEW z \in cuts
      PROVE  z <= x \/ z >= y
  <2> DEFINE e == a + z
  <2>1. z \in Nat /\ e \in Nat /\ e <= b
    BY <1>1
  <2>2. e = a + z
    OBVIOUS
  <2> HIDE DEF e
  <2>3. Delim(e)
    BY <1>1, <2>1, <2>2
  <2>4. ~(e \in (c + 1)..(d - 1))
    BY <1>8, <2>3
  <2> QED BY <2>1, <2>2, <2>4
<1>9. Span(c, d) <=> Delim(c) /\ Delim(d) /\ \A e \in (c + 1)..(d - 1) : ~Delim(e)
  <2>1. c \in 0..(Len(shells) + 1) /\ d \in 0..(Len(shells) + 1) /\ c < d
    BY <1>1, <1>2
  <2> QED BY <2>1 DEF Span
<1>10. <<x, y>> \in Pieces(s, Comma) <=> Span(c, d)
  BY <1>5, <1>6, <1>7, <1>8, <1>9
<1> QED BY <1>3, <1>10 DEF s

\* The fields the manual gives to a shell are those of the list between two
\* places of delimiters, which the automaton goes through.
LEMMA FieldsAre ==
  ASSUME shells \in Lists, NEW i \in 1..rsysd_nb_shells
  PROVE  /\ \A c, d \in Nat : Span(c, d) /\ ShellOf(c) = i =>
                FieldAt(c, d) \in Fields(Affinity(shells, i))
         /\ \A f \in Fields(Affinity(shells, i)) :
                \E c, d \in Nat : Span(c, d) /\ ShellOf(c) = i /\ f = FieldAt(c, d)
<1>0. i \in Nat
  <2>1. Len(shells) \in Nat
    BY ListIs
  <2>2. Cardinality(Colons(Len(shells))) \in Nat
    BY <2>1, ColonsAre
  <2> QED BY <2>2 DEF rsysd_nb_shells, Colons
<1>1. PICK a \in Nat, b \in Nat : ShellText(a, b, i)
  BY ShellTextIs
<1> DEFINE s == FieldAt(a, b)
<1>2. Affinity(shells, i) = s
  BY <1>0, <1>1, AffinityIs
<1>3. \A z \in Cuts(s) : z \in Nat /\ a + z <= b
  BY <1>0, <1>1, CutIs
<1>4. ASSUME NEW x \in Nat, NEW y \in Nat, NEW c \in Nat, NEW d \in Nat,
             c = a + x, d = a + y, d <= b, c < d
      PROVE  /\ <<x, y>> \in Pieces(s, Comma) <=> Span(c, d)
             /\ Piece(s, <<x, y>>) = FieldAt(c, d)
  BY <1>0, <1>1, <1>4, PieceIs DEF s
<1>5. Pieces(s, Comma) = {xy \in Cuts(s) \X Cuts(s) :
          xy[1] < xy[2] /\ \A e \in Cuts(s) : e <= xy[1] \/ e >= xy[2]}
  BY DEF Pieces, Cuts
<1> HIDE DEF s
<1>8. Fields(s) = {Piece(s, xy) : xy \in Pieces(s, Comma)}
  BY DEF Fields, Comma
<1>6. ASSUME NEW c \in Nat, NEW d \in Nat, Span(c, d), ShellOf(c) = i
      PROVE  FieldAt(c, d) \in Fields(Affinity(shells, i))
  <2>1. a <= c /\ d <= b /\ c < d
    BY <1>0, <1>1, <1>6, SpanOf DEF Span
  <2> DEFINE x == c - a
             y == d - a
  <2>2. x \in Nat /\ y \in Nat /\ c = a + x /\ d = a + y
    BY <2>1
  <2> HIDE DEF x, y
  <2>3. <<x, y>> \in Pieces(s, Comma) /\ Piece(s, <<x, y>>) = FieldAt(c, d)
    BY <1>4, <1>6, <2>1, <2>2
  <2> QED BY <1>2, <1>8, <2>3
<1>7. ASSUME NEW f \in Fields(Affinity(shells, i))
      PROVE  \E c, d \in Nat : Span(c, d) /\ ShellOf(c) = i /\ f = FieldAt(c, d)
  <2>1. PICK xy \in Pieces(s, Comma) : f = Piece(s, xy)
    BY <1>2, <1>8
  <2>2. PICK x \in Cuts(s), y \in Cuts(s) : xy = <<x, y>>
    BY <1>5, <2>1
  <2>3. x < y
    BY <1>5, <2>1, <2>2
  <2>4. x \in Nat /\ y \in Nat /\ a + y <= b
    BY <1>3
  <2> DEFINE c == a + x
             d == a + y
  <2>5. c \in Nat /\ d \in Nat /\ c = a + x /\ d = a + y /\ c < d /\ a <= c /\ d <= b
    BY <2>3, <2>4
  <2> HIDE DEF c, d
  <2>6. Span(c, d) /\ f = FieldAt(c, d)
    BY <1>4, <2>1, <2>2, <2>4, <2>5
  <2>7. ShellOf(c) = i
    BY <1>0, <1>1, <2>5, <2>6, SpanOf
  <2> QED BY <2>5, <2>6, <2>7
<1> QED BY <1>6, <1>7

\* A field is of one of the shells that are counted.
LEMMA SpanShell ==
  ASSUME shells \in Lists, NEW c \in Nat, NEW d \in Nat, Span(c, d)
  PROVE  ShellOf(c) \in 1..rsysd_nb_shells
<1> DEFINE n == Len(shells)
<1>1. n \in Nat /\ c <= n
  <2>1. n \in Nat
    BY ListIs
  <2> QED BY <2>1 DEF Span
<1>2. rsysd_nb_shells = Cardinality(Colons(n)) + 1
  BY DEF rsysd_nb_shells, Colons
<1>3. /\ Cardinality(Colons(n)) \in Nat /\ Cardinality(Colons(c)) \in Nat
      /\ Cardinality(Colons(c)) <= Cardinality(Colons(n))
  BY <1>1, ColonsAre, ColonsGrow
<1> QED BY <1>2, <1>3 DEF ShellOf
-----------------------------------------------------------------------------
(* What has been read, by position.                                        *)

\* The CPUs of shell i, those of the current shell when it is not read yet.
BitsOf(A, b, i) == IF i <= Len(A) THEN A[i] ELSE b

\* Every field up to the place m is one of the manual's, and its CPUs are given
\* to its shell.
Given(m, A, b) ==
    \A c, d \in Nat : Span(c, d) /\ d <= m =>
        IsField(FieldAt(c, d)) /\ Asked(c, d) \subseteq BitsOf(A, b, ShellOf(c))

\* A shell has only CPUs that a field of it up to the place m asks for.
OnlyAsked(m, A, b) ==
    \A i \in 1..(Len(A) + 1) : \A x \in BitsOf(A, b, i) :
        \E c, d \in Nat : Span(c, d) /\ d <= m /\ ShellOf(c) = i /\ x \in Asked(c, d)

\* A token that is no delimiter ends no field.
LEMMA TokenRead ==
  ASSUME shells \in Lists, NEW m \in Nat, NEW A \in Seq(SUBSET Cpus), NEW b, NEW e \in Nat,
         e = m + 1, ~Delim(e)
  PROVE  /\ Given(m, A, b) => Given(e, A, b)
         /\ OnlyAsked(m, A, b) => OnlyAsked(e, A, b)
<1>1. ASSUME NEW c \in Nat, NEW d \in Nat, Span(c, d), d <= e PROVE d <= m
  <2>1. d # e
    BY <1>1 DEF Span
  <2> QED BY <1>1, <2>1
<1>2. \A d \in Nat : d <= m => d <= e
  OBVIOUS
<1>3. Given(m, A, b) => Given(e, A, b)
  BY <1>1 DEF Given
<1>4. OnlyAsked(m, A, b) => OnlyAsked(e, A, b)
  BY <1>2 DEF OnlyAsked
<1> QED BY <1>3, <1>4

\* More CPUs for the current shell take none away.
LEMMA MoreCpus ==
  ASSUME NEW m \in Nat, NEW A \in Seq(SUBSET Cpus), NEW b, NEW b2, b \subseteq b2, Given(m, A, b)
  PROVE  Given(m, A, b2)
BY DEF Given, BitsOf

\* The fields up to the end of a field are those before, and this one.
LEMMA SpanLast ==
  ASSUME NEW m \in Nat, NEW c \in Nat, NEW e \in Nat, Span(c, e), c <= m, m < e,
         NEW x \in Nat, NEW y \in Nat, Span(x, y), y <= e
  PROVE  y <= m \/ (x = c /\ y = e)
<1>1. /\ c < e /\ Delim(c) /\ \A z \in (c + 1)..(e - 1) : ~Delim(z)
      /\ x < y /\ Delim(x) /\ Delim(y) /\ \A z \in (x + 1)..(y - 1) : ~Delim(z)
  BY DEF Span
<1>2. ASSUME ~(y <= m) PROVE y = e
  <2>1. ~(y \in (c + 1)..(e - 1))
    BY <1>1
  <2> QED BY <1>2, <2>1
<1>3. ASSUME y = e PROVE x = c
  <2>1. ~(x \in (c + 1)..(e - 1)) /\ ~(c \in (x + 1)..(y - 1))
    BY <1>1
  <2> QED BY <1>1, <1>3, <2>1
<1> QED BY <1>2, <1>3

\* The end of a field of the current shell, whose CPUs it gets.
LEMMA FieldRead ==
  ASSUME NEW m \in Nat, NEW A \in Seq(SUBSET Cpus), NEW b, NEW b2,
         NEW c \in Nat, NEW e \in Nat, Span(c, e), c <= m, m < e,
         ShellOf(c) = Len(A) + 1, IsField(FieldAt(c, e)), b2 = b \cup Asked(c, e)
  PROVE  /\ Given(m, A, b) => Given(e, A, b2)
         /\ OnlyAsked(m, A, b) => OnlyAsked(e, A, b2)
<1>1. Len(A) \in Nat
  BY LenProperties
<1>2. BitsOf(A, b, ShellOf(c)) = b /\ BitsOf(A, b2, ShellOf(c)) = b2
  BY <1>1 DEF BitsOf
<1>3. ASSUME Given(m, A, b), NEW x \in Nat, NEW y \in Nat, Span(x, y), y <= e
      PROVE  IsField(FieldAt(x, y)) /\ Asked(x, y) \subseteq BitsOf(A, b2, ShellOf(x))
  <2>1. y <= m \/ (x = c /\ y = e)
    BY <1>3, SpanLast
  <2>2. CASE y <= m
    <3>1. IsField(FieldAt(x, y)) /\ Asked(x, y) \subseteq BitsOf(A, b, ShellOf(x))
      BY <1>3, <2>2 DEF Given
    <3>2. BitsOf(A, b, ShellOf(x)) \subseteq BitsOf(A, b2, ShellOf(x))
      BY DEF BitsOf
    <3> QED BY <3>1, <3>2
  <2>3. CASE x = c /\ y = e
    BY <1>2, <2>3
  <2> QED BY <2>1, <2>2, <2>3
<1>4. ASSUME OnlyAsked(m, A, b), NEW i \in 1..(Len(A) + 1), NEW z \in BitsOf(A, b2, i)
      PROVE  \E x, y \in Nat : Span(x, y) /\ y <= e /\ ShellOf(x) = i /\ z \in Asked(x, y)
  <2>1. CASE z \in BitsOf(A, b, i)
    <3>1. PICK x \in Nat, y \in Nat : Span(x, y) /\ y <= m /\ ShellOf(x) = i /\ z \in Asked(x, y)
      BY <1>4, <2>1 DEF OnlyAsked
    <3> QED BY <3>1
  <2>2. CASE z \notin BitsOf(A, b, i)
    <3>1. i = Len(A) + 1 /\ z \in Asked(c, e)
      BY <1>1, <1>4, <2>2 DEF BitsOf
    <3> QED BY <3>1
  <2> QED BY <2>1, <2>2
<1>5. Given(m, A, b) => Given(e, A, b2)
  BY <1>3 DEF Given
<1>6. OnlyAsked(m, A, b) => OnlyAsked(e, A, b2)
  BY <1>4 DEF OnlyAsked
<1> QED BY <1>5, <1>6

\* The current shell is put in the table, and the next one has no CPU yet.
LEMMA ShellRead ==
  ASSUME NEW m \in Nat, NEW A \in Seq(SUBSET Cpus), NEW b \in SUBSET Cpus,
         \A c \in Nat : c < m => ShellOf(c) \in 1..(Len(A) + 1)
  PROVE  /\ Given(m, A, b) => Given(m, Append(A, b), {})
         /\ OnlyAsked(m, A, b) => OnlyAsked(m, Append(A, b), {})
<1> DEFINE n == Len(A)
           B == Append(A, b)
<1>1. n \in Nat /\ Len(B) = n + 1 /\ \A i \in 1..(n + 1) : B[i] = IF i <= n THEN A[i] ELSE b
  BY AppendProperties, LenProperties
<1> HIDE DEF n, B
<1>2. ASSUME NEW i \in 1..(n + 1) PROVE BitsOf(B, {}, i) = BitsOf(A, b, i)
  BY <1>1 DEF BitsOf, n
<1>3. \A x : x \notin BitsOf(B, {}, n + 2)
  BY <1>1 DEF BitsOf
<1>4. ASSUME Given(m, A, b) PROVE Given(m, B, {})
  <2>1. ASSUME NEW c \in Nat, NEW d \in Nat, Span(c, d), d <= m
        PROVE  IsField(FieldAt(c, d)) /\ Asked(c, d) \subseteq BitsOf(B, {}, ShellOf(c))
    <3>1. c < m
      BY <2>1 DEF Span
    <3>2. ShellOf(c) \in 1..(n + 1)
      BY <3>1 DEF n
    <3>3. IsField(FieldAt(c, d)) /\ Asked(c, d) \subseteq BitsOf(A, b, ShellOf(c))
      BY <1>4, <2>1 DEF Given
    <3> QED BY <1>2, <3>2, <3>3
  <2> QED BY <2>1 DEF Given
<1>5. ASSUME OnlyAsked(m, A, b) PROVE OnlyAsked(m, B, {})
  <2>1. ASSUME NEW i \in 1..(Len(B) + 1), NEW x \in BitsOf(B, {}, i)
        PROVE  \E c, d \in Nat : Span(c, d) /\ d <= m /\ ShellOf(c) = i /\ x \in Asked(c, d)
    <3>1. i \in 1..(n + 1)
      BY <1>1, <1>3, <2>1
    <3>2. x \in BitsOf(A, b, i)
      BY <1>2, <2>1, <3>1
    <3> QED BY <1>5, <3>1, <3>2 DEF OnlyAsked, n
  <2> QED BY <2>1 DEF OnlyAsked
<1> QED BY <1>4, <1>5 DEF B

\* A field begins at each delimiter but the last.
LEMMA SpanFrom ==
  ASSUME shells \in Lists, NEW c \in Nat, c <= Len(shells), Delim(c)
  PROVE  \E d \in Nat : Span(c, d)
<1> DEFINE n == Len(shells)
           S == {d \in (c + 1)..(n + 1) : Delim(d)}
<1>1. n \in Nat
  BY ListIs
<1>2. n + 1 \in S /\ S \in SUBSET Nat
  BY <1>1 DEF Delim
<1>3. PICK d \in S : \A e \in S : d <= e
  BY <1>2, LeastOf
<1>4. d \in Nat /\ d \in (c + 1)..(n + 1) /\ Delim(d)
  BY <1>1, <1>3
<1>5. ASSUME NEW e \in (c + 1)..(d - 1) PROVE ~Delim(e)
  <2>1. e \in (c + 1)..(n + 1) /\ ~(d <= e)
    BY <1>1, <1>4, <1>5
  <2> QED BY <1>3, <2>1
<1>6. c \in 0..(n + 1) /\ d \in 0..(n + 1) /\ c < d
  BY <1>1, <1>4
<1>7. Span(c, d)
  BY <1>4, <1>5, <1>6 DEF Span
<1> QED BY <1>4, <1>7

-----------------------------------------------------------------------------
(* The tokens, and the numbers.                                            *)

\* The comma is no other separator.
LEMMA CommaIs == Comma \notin {"number", "-", ":", "other", "end"}
BY Zenon DEF Comma

\* What the automaton sees at a place.
LEMMA AtKind ==
  ASSUME shells \in Lists, NEW j \in Nat, j >= 1, j <= Len(shells) + 1
  PROVE  /\ At(shells, j) = "number" <=> Number(j)
         /\ At(shells, j) = "-" <=> Hyphen(j)
         /\ At(shells, j) = ":" <=> Colon(j)
         /\ Delim(j) <=> Ends(At(shells, j)) \/ At(shells, j) = Comma
         /\ Number(j) => ~Delim(j) /\ ~Hyphen(j) /\ At(shells, j) # "other"
         /\ Hyphen(j) => ~Delim(j) /\ At(shells, j) # "other"
         /\ Delim(j) => At(shells, j) # "other"
         /\ At(shells, j) = "end" <=> j = Len(shells) + 1
         /\ j <= Len(shells) => At(shells, j) = shells[j].k
         /\ At(shells, j) \in {"number", "-", ":", Comma, "other", "end"}
<1> DEFINE k == At(shells, j)
<1>1. Len(shells) \in Nat
  BY ListIs
<1>2. CASE j = Len(shells) + 1
  <2>1. k = "end" /\ j > Len(shells) /\ ~(j \in 1..Len(shells)) /\ j # 0
    BY <1>1, <1>2 DEF At
  <2>2. ~Number(j) /\ ~Hyphen(j) /\ ~Colon(j) /\ Delim(j) /\ Ends(k)
    BY <1>2, <2>1 DEF Number, Hyphen, Colon, Delim, Ends
  <2> HIDE DEF k
  <2>3. ~(j <= Len(shells))
    BY <1>1, <2>1
  <2> QED BY <1>2, <2>1, <2>2, <2>3, CommaIs DEF k
<1>3. CASE j # Len(shells) + 1
  <2>1. j \in 1..Len(shells) /\ j # 0 /\ ~(j > Len(shells))
    BY <1>1, <1>3
  <2>2. k = shells[j].k /\ shells[j] \in Token
    BY <2>1, ListIs DEF At
  <2>3. k \in {"number", "-", ":", Comma, "other"}
    <3>1. \A t \in Token : t.k \in {"number", "-", ":", Comma, "other"}
      BY Zenon DEF Token, Separators, Comma
    <3> QED BY <2>2, <3>1
  <2>4. /\ Number(j) <=> k = "number"
        /\ Hyphen(j) <=> k = "-"
        /\ Colon(j) <=> k = ":"
        /\ Delim(j) <=> k = Comma \/ k = ":"
    BY <1>3, <2>1, <2>2 DEF Number, Hyphen, Colon, Delim
  <2> HIDE DEF k
  <2>5. Ends(k) <=> k = ":"
    BY <2>3, CommaIs DEF Ends
  <2>6. k # "end"
    BY <2>3, CommaIs
  <2> QED BY <1>3, <2>2, <2>3, <2>4, <2>5, <2>6, CommaIs DEF k
<1> QED BY <1>2, <1>3

\* Two numbers are never next to each other.
LEMMA NumbersApart ==
  ASSUME shells \in Lists, NEW j \in Nat, NEW e \in Nat, e = j + 1, Number(j)
  PROVE  ~Number(e)
<1>1. \A i \in 1..(Len(shells) - 1) : shells[i].k = "number" => shells[i + 1].k # "number"
  BY DEF Lists
<1>2. Len(shells) \in Nat
  BY ListIs
<1>3. ASSUME e \in 1..Len(shells) PROVE j \in 1..(Len(shells) - 1)
  BY <1>2, <1>3 DEF Number
<1> QED BY <1>1, <1>3 DEF Number

\* Every number that is written is one the program's unsigned int holds.
NumbersFit == Numbers \subseteq 0..(Width - 1)

\* Such a number is read as the manual says.
LEMMA ClampDoc ==
  ASSUME NumbersFit, NEW n \in Numbers
  PROVE  Clamp(n) = DocCpu(n) /\ DocCpu(n) \in Cpus
<1>1. n \in Nat /\ n < Width /\ Width \in Nat /\ NbCpus \in Nat /\ NbCpus >= 1
  BY AffinityAssumption DEF NumbersFit
<1>2. n % Width = n
  BY <1>1
<1>3. ~(n < NbCpus) <=> n >= NbCpus
  BY <1>1
<1>4. Clamp(n) = DocCpu(n)
  BY <1>2, <1>3 DEF Clamp, DocCpu
<1>5. DocCpu(n) \in Cpus
  BY <1>1 DEF DocCpu, Cpus
<1> QED BY <1>4, <1>5

\* The number at a place.
LEMMA NumberIs ==
  ASSUME NumbersFit, shells \in Lists, NEW j, Number(j)
  PROVE  Clamp(shells[j].n) = DocCpu(shells[j].n) /\ DocCpu(shells[j].n) \in Cpus
<1>1. shells[j] \in Token /\ shells[j].k = "number"
  BY ListIs DEF Number
<1>2. \A t \in Token : t.k = "number" => t.n \in Numbers
  BY DEF Token, Separators
<1> QED BY <1>1, <1>2, ClampDoc

-----------------------------------------------------------------------------
(* The fields, as the automaton goes through them.                         *)

\* An interval begins behind the place c, with the CPU lo, and its hyphen is at q.
Opened(c, q, lo) ==
    /\ Delim(c) /\ Hyphen(q)
    /\ \/ q = c + 1 /\ lo = 0
       \/ q = c + 2 /\ Number(c + 1) /\ lo = Clamp(shells[c + 1].n)

\* A single number is behind the place c, at q.
Single(c, q, lo) == Delim(c) /\ Number(q) /\ q = c + 1 /\ lo = Clamp(shells[q].n)

\* A token is no delimiter.
LEMMA TokensAre ==
  ASSUME shells \in Lists, NEW j \in Nat
  PROVE  /\ Number(j) => ~Delim(j) /\ ~Hyphen(j) /\ j >= 1 /\ j <= Len(shells)
         /\ Hyphen(j) => ~Delim(j) /\ ~Number(j) /\ j >= 1 /\ j <= Len(shells)
<1>1. Len(shells) \in Nat
  BY ListIs
<1>2. Number(j) \/ Hyphen(j) => j >= 1 /\ j <= Len(shells) /\ j <= Len(shells) + 1
  BY <1>1 DEF Number, Hyphen
<1> QED BY <1>2, AtKind

\* Where the fields end.
LEMMA SpansAre ==
  ASSUME shells \in Lists, NEW c \in Nat, NEW q \in Nat, NEW lo, NEW e \in Nat, Delim(e),
         e <= Len(shells) + 1
  PROVE  /\ Delim(c) /\ e = c + 1 => Span(c, e)
         /\ Single(c, q, lo) /\ e = q + 1 => Span(c, e)
         /\ Opened(c, q, lo) /\ e = q + 1 => Span(c, e)
         /\ \A j \in Nat : Opened(c, q, lo) /\ Number(j) /\ j = q + 1 /\ e = j + 1 => Span(c, e)
<1>1. Len(shells) \in Nat
  BY ListIs
<1>2. ASSUME Delim(c), c < e, \A z \in (c + 1)..(e - 1) : Number(z) \/ Hyphen(z)
      PROVE  Span(c, e)
  <2>1. \A z \in (c + 1)..(e - 1) : ~Delim(z)
    BY <1>2, TokensAre
  <2>2. c \in 0..(Len(shells) + 1) /\ e \in 0..(Len(shells) + 1)
    BY <1>1, <1>2
  <2> QED BY <1>2, <2>1, <2>2 DEF Span
<1>3. ASSUME Delim(c), e = c + 1 PROVE Span(c, e)
  BY <1>2, <1>3
<1>4. ASSUME Single(c, q, lo), e = q + 1 PROVE Span(c, e)
  <2>1. Delim(c) /\ Number(q) /\ q = c + 1
    BY <1>4 DEF Single
  <2>2. c < e /\ \A z \in (c + 1)..(e - 1) : z = q
    BY <1>4, <2>1
  <2> QED BY <1>2, <2>1, <2>2
<1>5. ASSUME Opened(c, q, lo)
      PROVE  c < q /\ Delim(c) /\ Hyphen(q) /\ \A z \in (c + 1)..(q - 1) : Number(z)
  <2>1. Delim(c) /\ Hyphen(q) /\ (q = c + 1 \/ (q = c + 2 /\ Number(c + 1)))
    BY <1>5 DEF Opened
  <2>2. q = c + 2 => \A z \in (c + 1)..(q - 1) : z = c + 1
    OBVIOUS
  <2> QED BY <2>1, <2>2
<1>6. ASSUME Opened(c, q, lo), e = q + 1 PROVE Span(c, e)
  <2>1. c < e /\ \A z \in (c + 1)..(e - 1) : z = q \/ z \in (c + 1)..(q - 1)
    BY <1>5, <1>6
  <2> QED BY <1>2, <1>5, <1>6, <2>1
<1>7. ASSUME NEW j \in Nat, Opened(c, q, lo), Number(j), j = q + 1, e = j + 1
      PROVE  Span(c, e)
  <2>1. c < e /\ \A z \in (c + 1)..(e - 1) : z = q \/ z = j \/ z \in (c + 1)..(q - 1)
    BY <1>5, <1>7
  <2> QED BY <1>2, <1>5, <1>7, <2>1
<1> QED BY <1>3, <1>4, <1>6, <1>7

\* What a field asks for.
LEMMA AskedAre ==
  ASSUME NumbersFit, shells \in Lists, NEW c \in Nat, NEW e \in Nat, Span(c, e)
  PROVE  /\ IsField(FieldAt(c, e)) <=> Shape(c, e) /\ FirstAt(c, e) <= LastAt(c, e)
         /\ Asked(c, e) = FirstAt(c, e)..LastAt(c, e)
         /\ NbCpus - 1 \in Nat /\ Cpus = 0..(NbCpus - 1)
         /\ \A j : Number(j) =>
                Clamp(shells[j].n) = DocCpu(shells[j].n) /\ DocCpu(shells[j].n) \in Cpus
         /\ \A j \in Nat : Number(j) => ~Hyphen(j)
<1>1. c < e /\ e <= Len(shells) + 1
  <2>1. Len(shells) \in Nat
    BY ListIs
  <2> QED BY <2>1 DEF Span
<1>2. NbCpus - 1 \in Nat /\ Cpus = 0..(NbCpus - 1)
  BY AffinityAssumption DEF Cpus
<1>3. \A j : Number(j) => Clamp(shells[j].n) = DocCpu(shells[j].n) /\ DocCpu(shells[j].n) \in Cpus
  BY NumberIs
<1>4. \A j \in Nat : Number(j) => ~Hyphen(j)
  BY TokensAre
<1> QED BY <1>1, <1>2, <1>3, <1>4, FieldShape

\* An empty field asks for every CPU.
LEMMA EmptyField ==
  ASSUME NumbersFit, shells \in Lists, NEW c \in Nat, NEW e \in Nat, Delim(c), Delim(e),
         e <= Len(shells) + 1, e = c + 1
  PROVE  Span(c, e) /\ IsField(FieldAt(c, e)) /\ Asked(c, e) = Cpus
<1>0. PICK q \in Nat, lo \in Nat : q = 0 /\ lo = 0
  OBVIOUS
<1>1. Span(c, e)
  BY <1>0, SpansAre
<1>2. /\ IsField(FieldAt(c, e)) <=> Shape(c, e) /\ FirstAt(c, e) <= LastAt(c, e)
      /\ Asked(c, e) = FirstAt(c, e)..LastAt(c, e)
      /\ NbCpus - 1 \in Nat /\ Cpus = 0..(NbCpus - 1)
  BY <1>1, AskedAre
<1>3. Shape(c, e) /\ FirstAt(c, e) = 0 /\ LastAt(c, e) = NbCpus - 1
  BY DEF Shape, FirstAt, LastAt
<1> QED BY <1>1, <1>2, <1>3

\* A number alone asks for one.
LEMMA SingleField ==
  ASSUME NumbersFit, shells \in Lists, NEW c \in Nat, NEW q \in Nat, NEW lo, NEW e \in Nat,
         Single(c, q, lo), Delim(e), e <= Len(shells) + 1, e = q + 1
  PROVE  Span(c, e) /\ IsField(FieldAt(c, e)) /\ Asked(c, e) = {lo} /\ c <= q
<1>1. Span(c, e)
  BY SpansAre
<1>2. /\ IsField(FieldAt(c, e)) <=> Shape(c, e) /\ FirstAt(c, e) <= LastAt(c, e)
      /\ Asked(c, e) = FirstAt(c, e)..LastAt(c, e)
      /\ NbCpus - 1 \in Nat /\ Cpus = 0..(NbCpus - 1)
  BY <1>1, AskedAre
<1>3. \A z : Number(z) => Clamp(shells[z].n) = DocCpu(shells[z].n) /\ DocCpu(shells[z].n) \in Cpus
  BY <1>1, AskedAre
<1>4. \A z \in Nat : Number(z) => ~Hyphen(z)
  BY <1>1, AskedAre
<1>5. Number(c + 1) /\ e = c + 2 /\ e - 1 = c + 1 /\ e > c + 1 /\ lo = Clamp(shells[c + 1].n)
  BY DEF Single
<1>6. Shape(c, e) /\ FirstAt(c, e) = lo /\ LastAt(c, e) = lo /\ lo \in Cpus
  BY <1>3, <1>5 DEF Shape, FirstAt, LastAt
<1>7. lo <= lo /\ lo..lo = {lo}
  BY <1>2, <1>6
<1>8. c <= q
  BY DEF Single
<1> QED BY <1>1, <1>2, <1>6, <1>7, <1>8

\* An interval that ends with its hyphen goes to the biggest CPU.
LEMMA OpenField ==
  ASSUME NumbersFit, shells \in Lists, NEW c \in Nat, NEW q \in Nat, NEW lo, NEW e \in Nat,
         Opened(c, q, lo), Delim(e), e <= Len(shells) + 1, e = q + 1
  PROVE  Span(c, e) /\ IsField(FieldAt(c, e)) /\ Asked(c, e) = lo..(NbCpus - 1) /\ c <= q
<1>1. Span(c, e)
  BY SpansAre
<1>2. /\ IsField(FieldAt(c, e)) <=> Shape(c, e) /\ FirstAt(c, e) <= LastAt(c, e)
      /\ Asked(c, e) = FirstAt(c, e)..LastAt(c, e)
      /\ NbCpus - 1 \in Nat /\ Cpus = 0..(NbCpus - 1)
  BY <1>1, AskedAre
<1>3. \A z : Number(z) => Clamp(shells[z].n) = DocCpu(shells[z].n) /\ DocCpu(shells[z].n) \in Cpus
  BY <1>1, AskedAre
<1>4. \A z \in Nat : Number(z) => ~Hyphen(z)
  BY <1>1, AskedAre
<1>5. Hyphen(q) /\ ~Number(e - 1) /\ e > c + 1 /\ c <= q
  BY <1>4 DEF Opened
<1>6. LastAt(c, e) = NbCpus - 1
  BY <1>5 DEF LastAt
<1>7. Shape(c, e) /\ FirstAt(c, e) = lo /\ lo \in Cpus
  <2>1. CASE q = c + 1
    <3>1. lo = 0 /\ e = c + 2 /\ Hyphen(c + 1) /\ ~Number(c + 1)
      BY <1>4, <2>1 DEF Opened
    <3> QED BY <1>2, <3>1 DEF Shape, FirstAt
  <2>2. CASE q # c + 1
    <3>1. q = c + 2 /\ Number(c + 1) /\ lo = Clamp(shells[c + 1].n)
      BY <2>2 DEF Opened
    <3>2. e = c + 3 /\ Hyphen(c + 2)
      BY <1>5, <3>1
    <3> QED BY <1>3, <1>5, <3>1, <3>2 DEF Shape, FirstAt
  <2> QED BY <2>1, <2>2
<1>8. lo <= NbCpus - 1
  BY <1>2, <1>7
<1> QED BY <1>1, <1>2, <1>5, <1>6, <1>7, <1>8

\* One that ends with a number is a field when it is in order.
LEMMA ClosedField ==
  ASSUME NumbersFit, shells \in Lists, NEW c \in Nat, NEW q \in Nat, NEW lo, NEW j \in Nat,
         NEW e \in Nat, Opened(c, q, lo), Number(j), j = q + 1, e = j + 1, Delim(e),
         e <= Len(shells) + 1
  PROVE  /\ Span(c, e) /\ c <= q
         /\ IsField(FieldAt(c, e)) <=> lo <= Clamp(shells[j].n)
         /\ Asked(c, e) = lo..Clamp(shells[j].n)
<1>1. Span(c, e)
  BY SpansAre
<1>2. /\ IsField(FieldAt(c, e)) <=> Shape(c, e) /\ FirstAt(c, e) <= LastAt(c, e)
      /\ Asked(c, e) = FirstAt(c, e)..LastAt(c, e)
      /\ NbCpus - 1 \in Nat /\ Cpus = 0..(NbCpus - 1)
  BY <1>1, AskedAre
<1>3. \A z : Number(z) => Clamp(shells[z].n) = DocCpu(shells[z].n) /\ DocCpu(shells[z].n) \in Cpus
  BY <1>1, AskedAre
<1>4. \A z \in Nat : Number(z) => ~Hyphen(z)
  BY <1>1, AskedAre
<1>5. Hyphen(q) /\ e - 1 = j /\ e > c + 1 /\ c <= q
  BY DEF Opened
<1>6. LastAt(c, e) = Clamp(shells[j].n)
  BY <1>3, <1>5 DEF LastAt
<1>7. Shape(c, e) /\ FirstAt(c, e) = lo
  <2>1. CASE q = c + 1
    <3>1. lo = 0 /\ e = c + 3 /\ Hyphen(c + 1) /\ ~Number(c + 1) /\ Number(c + 2)
      BY <1>4, <2>1 DEF Opened
    <3> QED BY <3>1 DEF Shape, FirstAt
  <2>2. CASE q # c + 1
    <3>1. q = c + 2 /\ Number(c + 1) /\ lo = Clamp(shells[c + 1].n)
      BY <2>2 DEF Opened
    <3>2. e = c + 4 /\ Hyphen(c + 2) /\ Number(c + 3)
      BY <1>5, <3>1
    <3> QED BY <1>3, <1>5, <3>1, <3>2 DEF Shape, FirstAt
  <2> QED BY <2>1, <2>2
<1> QED BY <1>1, <1>2, <1>5, <1>6, <1>7

\* What no field is.
LEMMA SpansBad ==
  ASSUME NumbersFit, shells \in Lists, NEW c \in Nat, NEW q \in Nat, NEW lo, NEW e \in Nat,
         Span(c, e)
  PROVE  /\ \A j \in Nat : c < j /\ j < e /\ ~Number(j) /\ ~Hyphen(j) => ~IsField(FieldAt(c, e))
         /\ \A j \in Nat : Opened(c, q, lo) /\ Hyphen(j) /\ j = q + 1 /\ j < e =>
                ~IsField(FieldAt(c, e))
         /\ \A j \in Nat : Opened(c, q, lo) /\ Number(j) /\ j = q + 1 /\ j + 1 < e =>
                ~IsField(FieldAt(c, e))
<1>1. IsField(FieldAt(c, e)) => Shape(c, e)
  <2>1. Len(shells) \in Nat
    BY ListIs
  <2>2. c < e /\ e <= Len(shells) + 1
    BY <2>1 DEF Span
  <2> QED BY <2>2, FieldShape
<1>2. \A j \in Nat : Number(j) => ~Hyphen(j)
  BY TokensAre
<1>3. ASSUME NEW j \in Nat, c < j, j < e, ~Number(j), ~Hyphen(j) PROVE ~Shape(c, e)
  <2>1. ASSUME Shape(c, e) PROVE FALSE
    <3>1. j = c + 1 \/ j = c + 2 \/ j = c + 3
      BY <1>3, <2>1 DEF Shape
    <3> QED BY <1>3, <2>1, <3>1 DEF Shape
  <2> QED BY <2>1
<1>4. ASSUME NEW j \in Nat, Opened(c, q, lo), Hyphen(j), j = q + 1, j < e PROVE ~Shape(c, e)
  <2>1. CASE q = c + 1
    <3>1. Hyphen(c + 1) /\ Hyphen(c + 2) /\ c + 2 < e
      BY <1>4, <2>1 DEF Opened
    <3>2. ~Number(c + 1) /\ ~Number(c + 2)
      BY <1>2, <3>1
    <3> QED BY <3>1, <3>2 DEF Shape
  <2>2. CASE q # c + 1
    <3>1. q = c + 2
      BY <1>4, <2>2 DEF Opened
    <3>2. Hyphen(c + 3) /\ c + 3 < e
      BY <1>4, <3>1
    <3>3. ~Number(c + 3)
      BY <1>2, <3>2
    <3> QED BY <3>2, <3>3 DEF Shape
  <2> QED BY <2>1, <2>2
<1>5. ASSUME NEW j \in Nat, Opened(c, q, lo), Number(j), j = q + 1, j + 1 < e
      PROVE  ~Shape(c, e)
  <2>1. CASE q = c + 1
    <3>1. Hyphen(c + 1) /\ c + 3 < e
      BY <1>5, <2>1 DEF Opened
    <3>2. ~Number(c + 1)
      BY <1>2, <3>1
    <3> QED BY <3>1, <3>2 DEF Shape
  <2>2. CASE q # c + 1
    <3>1. q = c + 2
      BY <1>5, <2>2 DEF Opened
    <3>2. c + 4 < e
      BY <1>5, <3>1
    <3> QED BY <3>2 DEF Shape
  <2> QED BY <2>1, <2>2
<1> QED BY <1>1, <1>3, <1>4, <1>5

-----------------------------------------------------------------------------
(* The invariant of the reading.                                           *)

\* The states in which the list has not been refused.
Going == Reading \cup {"created"}

\* The field behind an interval: the comma has not been consumed, and is again
\* the token the automaton looks at.
Behind == state = "field" /\ ~Delim(p - 1)

\* The place up to which the fields have been given to the shells.
Mark == IF state \in {"shell", "created"} \/ Behind THEN p ELSE p - 1

\* The fields that are none of the manual's.
BadField == \E c, d \in Nat : Span(c, d) /\ ~IsField(FieldAt(c, d))

\* Where in a field the automaton is, and the start of the interval.
Cursor ==
    /\ Behind => At(shells, p) = Comma /\ Number(p - 1) /\ Hyphen(p - 2)
    /\ state = "state_2" => \E c \in Nat : Single(c, p - 1, start)
    /\ state = "state_3" => \E c \in Nat : Opened(c, p - 1, start)
    /\ state = "created" => p = Len(shells) + 1 /\ Len(cpu_affinity) = rsysd_nb_shells

FieldsRead == state \in Going => Given(Mark, cpu_affinity, cpu_bitmap)
BitsAsked == state \in Going /\ IntervalsLast => OnlyAsked(Mark, cpu_affinity, cpu_bitmap)
ErrorIs == state = "error" => ~IntervalsLast \/ BadField

ListInv == Cursor /\ FieldsRead /\ BitsAsked /\ ErrorIs

\* No comma is behind a hyphen of the same shell.
HyphensLast ==
    \A j, k \in 1..Len(shells) :
        shells[j].k = "-" /\ shells[k].k = Comma /\ j < k =>
            \E l \in j..k : shells[l].k = ":"

\* That is what it means that the intervals come last.
LEMMA HyphensAre == IntervalsLast <=> HyphensLast
BY Zenon DEF IntervalsLast, HyphensLast, Comma

\* The list is not changed, and neither are its fields.
LEMMA SameList ==
  ASSUME UNCHANGED shells
  PROVE  /\ \A j : At(shells, j)' = At(shells, j)
         /\ \A j : Delim(j)' <=> Delim(j)
         /\ \A j : Number(j)' <=> Number(j)
         /\ \A j : Hyphen(j)' <=> Hyphen(j)
         /\ \A c, d : Span(c, d)' <=> Span(c, d)
         /\ \A c, d : FieldAt(c, d)' = FieldAt(c, d)
         /\ \A c, d : Asked(c, d)' = Asked(c, d)
         /\ \A c : ShellOf(c)' = ShellOf(c)
         /\ \A c, q, lo : Single(c, q, lo)' <=> Single(c, q, lo)
         /\ \A c, q, lo : Opened(c, q, lo)' <=> Opened(c, q, lo)
         /\ IntervalsLast' <=> IntervalsLast
         /\ BadField' <=> BadField
         /\ rsysd_nb_shells' = rsysd_nb_shells
         /\ Len(shells') = Len(shells)
<1>1. \A j : At(shells, j)' = At(shells, j)
  BY DEF At
<1>2. \A j : Delim(j)' <=> Delim(j)
  BY DEF Delim
<1>3. \A j : Number(j)' <=> Number(j)
  BY DEF Number
<1>4. \A j : Hyphen(j)' <=> Hyphen(j)
  BY DEF Hyphen
<1>5. \A c, d : Span(c, d)' <=> Span(c, d)
  BY <1>2 DEF Span
<1>6. \A c, d : FieldAt(c, d)' = FieldAt(c, d)
  BY DEF FieldAt
<1>7. \A c, d : Asked(c, d)' = Asked(c, d)
  BY <1>6 DEF Asked
<1>8. \A c : ShellOf(c)' = ShellOf(c)
  BY DEF ShellOf, Colons
<1>9. \A c, q, lo : Single(c, q, lo)' <=> Single(c, q, lo)
  BY <1>2, <1>3 DEF Single
<1>10. \A c, q, lo : Opened(c, q, lo)' <=> Opened(c, q, lo)
  BY <1>2, <1>3, <1>4 DEF Opened
<1>11. IntervalsLast' <=> IntervalsLast
  <2>1. HyphensLast' <=> HyphensLast
    BY DEF HyphensLast
  <2>2. IntervalsLast <=> HyphensLast
    BY Zenon, HyphensAre
  <2>3. IntervalsLast' <=> HyphensLast'
    BY Zenon DEF IntervalsLast, HyphensLast, Comma
  <2> QED BY <2>1, <2>2, <2>3
<1>12. BadField' <=> BadField
  BY <1>5, <1>6 DEF BadField
<1>13. rsysd_nb_shells' = rsysd_nb_shells
  BY DEF rsysd_nb_shells
<1> QED BY <1>1, <1>2, <1>3, <1>4, <1>5, <1>6, <1>7, <1>8, <1>9, <1>10, <1>11, <1>12, <1>13

\* How a step that does not fail keeps the invariant.
LEMMA Goes ==
  ASSUME UNCHANGED shells, state' # "error", Cursor',
         NEW m, NEW A, NEW b, m = Mark', A = cpu_affinity', b = cpu_bitmap',
         Given(m, A, b), IntervalsLast => OnlyAsked(m, A, b)
  PROVE  ListInv'
<1>1. /\ \A c, d : Span(c, d)' <=> Span(c, d)
      /\ \A c, d : FieldAt(c, d)' = FieldAt(c, d)
      /\ \A c, d : Asked(c, d)' = Asked(c, d)
      /\ \A c : ShellOf(c)' = ShellOf(c)
      /\ IntervalsLast' <=> IntervalsLast
  BY SameList
<1>2. Given(m, A, b) => Given(Mark, cpu_affinity, cpu_bitmap)'
  <2> SUFFICES ASSUME Given(m, A, b), NEW c \in Nat, NEW d \in Nat, Span(c, d), d <= m
               PROVE  /\ IsField(FieldAt(c, d))
                      /\ Asked(c, d) \subseteq BitsOf(A, b, ShellOf(c))
    BY <1>1 DEF Given, BitsOf
  <2> QED BY DEF Given
<1>3. OnlyAsked(m, A, b) => OnlyAsked(Mark, cpu_affinity, cpu_bitmap)'
  BY <1>1 DEF OnlyAsked, BitsOf
<1>4. FieldsRead'
  BY <1>2 DEF FieldsRead
<1>5. BitsAsked'
  BY <1>1, <1>3 DEF BitsAsked
<1>6. ErrorIs'
  BY DEF ErrorIs
<1> QED BY <1>4, <1>5, <1>6 DEF ListInv

\* How one that fails keeps it.
LEMMA Fails ==
  ASSUME SyntaxError, ~IntervalsLast \/ BadField
  PROVE  ListInv'
<1>1. UNCHANGED shells /\ state' = "error"
  BY DEF SyntaxError
<1>2. (IntervalsLast' <=> IntervalsLast) /\ (BadField' <=> BadField)
  BY <1>1, SameList
<1>3. ErrorIs'
  BY <1>2 DEF ErrorIs
<1>4. Cursor' /\ FieldsRead' /\ BitsAsked'
  BY <1>1 DEF Cursor, Behind, FieldsRead, BitsAsked, Going, Reading
<1> QED BY <1>3, <1>4 DEF ListInv

\* What the automaton knows while it reads.
LEMMA Here ==
  ASSUME AffinityInv, ListInv, state \in Reading
  PROVE  /\ shells \in Lists /\ Len(shells) \in Nat
         /\ p \in Nat /\ p - 1 \in Nat /\ p >= 1 /\ p <= Len(shells) + 1
         /\ cpu_affinity \in Seq(SUBSET Cpus) /\ cpu_bitmap \in SUBSET Cpus
         /\ ShellOf(p - 1) = Len(cpu_affinity) + 1
         /\ Given(Mark, cpu_affinity, cpu_bitmap)
         /\ IntervalsLast => OnlyAsked(Mark, cpu_affinity, cpu_bitmap)
         /\ state \in {"field", "state_2", "state_3"} /\ ~Behind => Mark = p - 1
<1>1. /\ shells \in Lists /\ p \in 1..(Len(shells) + 1)
      /\ cpu_affinity \in Seq(SUBSET Cpus) /\ cpu_bitmap \in SUBSET Cpus
  BY DEF AffinityInv, TypeOK
<1>2. Len(shells) \in Nat
  BY <1>1, ListIs
<1>3. p \in Nat /\ p - 1 \in Nat /\ p >= 1 /\ p <= Len(shells) + 1
  BY <1>1, <1>2
<1>4. ShellOf(p - 1) = Len(cpu_affinity) + 1
  BY DEF AffinityInv, CountInv, ShellOf
<1>5. /\ Given(Mark, cpu_affinity, cpu_bitmap)
      /\ IntervalsLast => OnlyAsked(Mark, cpu_affinity, cpu_bitmap)
  BY DEF ListInv, FieldsRead, BitsAsked, Going
<1>6. state \in {"field", "state_2", "state_3"} /\ ~Behind => Mark = p - 1
  BY DEF Mark
<1> QED BY <1>1, <1>2, <1>3, <1>4, <1>5, <1>6

\* No shell ends within a field.
LEMMA ShellHere ==
  ASSUME shells \in Lists, NEW c \in Nat, NEW m \in Nat, NEW e \in Nat,
         Span(c, e), c <= m, m < e
  PROVE  ShellOf(c) = ShellOf(m)
<1>1. ASSUME NEW z \in (c + 1)..m PROVE shells[z].k # ":"
  <2>1. Len(shells) \in Nat
    BY ListIs
  <2>2. z \in (c + 1)..(e - 1) /\ z \in 1..Len(shells)
    BY <1>1, <2>1 DEF Span
  <2>3. ~Delim(z)
    BY <2>2 DEF Span
  <2> QED BY <2>2, <2>3 DEF Delim
<1> QED BY <1>1, ColonsGrow DEF ShellOf

\* A step to the next token of a field.
LEMMA TokenStep ==
  ASSUME AffinityInv, ListInv, state \in {"field", "state_2", "state_3"}, ~Behind,
         ~Delim(p), UNCHANGED << shells, cpu_affinity, cpu_bitmap >>,
         Mark' = p, state' # "error", Cursor'
  PROVE  ListInv'
<1>1. state \in Reading
  BY DEF Reading
<1>2. PICK m \in Nat, e \in Nat, A \in Seq(SUBSET Cpus), b \in SUBSET Cpus :
          m = p - 1 /\ e = p /\ A = cpu_affinity /\ b = cpu_bitmap
  BY <1>1, Here
<1>3. shells \in Lists /\ Given(m, A, b) /\ (IntervalsLast => OnlyAsked(m, A, b))
  <2>1. Mark = m
    BY <1>1, <1>2, Here
  <2> QED BY <1>1, <1>2, <2>1, Here
<1>4. e = m + 1 /\ ~Delim(e)
  BY <1>2
<1>5. Given(e, A, b) /\ (IntervalsLast => OnlyAsked(e, A, b))
  BY <1>3, <1>4, TokenRead
<1>6. e = Mark' /\ A = cpu_affinity' /\ b = cpu_bitmap'
  BY <1>2
<1> QED BY <1>5, <1>6, Goes

\* A step that ends a field.
LEMMA FieldStep ==
  ASSUME AffinityInv, ListInv, state \in {"field", "state_2", "state_3"}, ~Behind,
         NEW c \in Nat, NEW e \in Nat, Span(c, e), c <= p - 1, p - 1 < e,
         IsField(FieldAt(c, e)), cpu_bitmap' = cpu_bitmap \cup Asked(c, e),
         UNCHANGED << shells, cpu_affinity >>,
         Mark' = e, state' # "error", Cursor'
  PROVE  ListInv'
<1>1. state \in Reading
  BY DEF Reading
<1>2. PICK m \in Nat, A \in Seq(SUBSET Cpus), b \in SUBSET Cpus :
          m = p - 1 /\ A = cpu_affinity /\ b = cpu_bitmap
  BY <1>1, Here
<1>8. PICK b2 : b2 = cpu_bitmap'
  OBVIOUS
<1>3. /\ shells \in Lists /\ Given(m, A, b) /\ (IntervalsLast => OnlyAsked(m, A, b))
      /\ ShellOf(m) = Len(A) + 1
  <2>1. Mark = m
    BY <1>1, <1>2, Here
  <2> QED BY <1>1, <1>2, <2>1, Here
<1>4. c <= m /\ m < e /\ b2 = b \cup Asked(c, e)
  BY <1>2, <1>8
<1>5. ShellOf(c) = Len(A) + 1
  BY <1>3, <1>4, ShellHere
<1>6. Given(e, A, b2) /\ (IntervalsLast => OnlyAsked(e, A, b2))
  BY <1>3, <1>4, <1>5, FieldRead
<1>7. e = Mark' /\ A = cpu_affinity' /\ b2 = cpu_bitmap'
  BY <1>2, <1>8
<1> QED BY <1>6, <1>7, Goes

\* Where the automaton is after a step.
LEMMA NextCursor ==
  ASSUME UNCHANGED shells, NEW q, NEW j, NEW lo, q = p', j = p' - 1, lo = start'
  PROVE  /\ Behind' <=> state' = "field" /\ ~Delim(j)
         /\ Mark' = IF state' \in {"shell", "created"} \/ Behind' THEN q ELSE j
         /\ Cursor' <=>
                /\ Behind' => At(shells, q) = Comma /\ Number(j) /\ Hyphen(q - 2)
                /\ state' = "state_2" => \E c \in Nat : Single(c, j, lo)
                /\ state' = "state_3" => \E c \in Nat : Opened(c, j, lo)
                /\ state' = "created" =>
                       q = Len(shells) + 1 /\ Len(cpu_affinity') = rsysd_nb_shells
<1>1. Delim(p - 1)' <=> Delim(j)
  BY DEF Delim
<1>2. Behind' <=> state' = "field" /\ ~Delim(j)
  BY <1>1 DEF Behind
<1>3. Mark' = IF state' \in {"shell", "created"} \/ Behind' THEN q ELSE j
  BY DEF Mark
<1>4. At(shells, p)' = At(shells, q)
  BY DEF At
<1>5. (Number(p - 1)' <=> Number(j)) /\ (Hyphen(p - 2)' <=> Hyphen(q - 2))
  BY DEF Number, Hyphen
<1>6. (\E c \in Nat : Single(c, p - 1, start))' <=> \E c \in Nat : Single(c, j, lo)
  BY DEF Single, Delim, Number
<1>7. (\E c \in Nat : Opened(c, p - 1, start))' <=> \E c \in Nat : Opened(c, j, lo)
  BY DEF Opened, Delim, Number, Hyphen
<1>8. rsysd_nb_shells' = rsysd_nb_shells
  BY SameList
<1> QED BY <1>2, <1>3, <1>4, <1>5, <1>6, <1>7, <1>8 DEF Cursor


-----------------------------------------------------------------------------
(* The steps.                                                              *)

\* A new field: it is empty, or begins with a number or a hyphen.
LEMMA NewFieldReads ==
  ASSUME NumbersFit, AffinityInv, ListInv, NewField
  PROVE  ListInv'
<1>1. /\ state = "field"
      /\ \/ /\ Ends(At(shells, p))
            /\ cpu_bitmap' = Cpus /\ state' = "shell"
            /\ UNCHANGED << shells, p, start, cpu_affinity >>
         \/ /\ At(shells, p) = "number"
            /\ start' = Clamp(shells[p].n) /\ p' = p + 1 /\ state' = "state_2"
            /\ UNCHANGED << shells, cpu_bitmap, cpu_affinity >>
         \/ /\ At(shells, p) = "-"
            /\ start' = 0 /\ p' = p + 1 /\ state' = "state_3"
            /\ UNCHANGED << shells, cpu_bitmap, cpu_affinity >>
         \/ /\ At(shells, p) = Comma
            /\ cpu_bitmap' = Cpus /\ p' = p + 1
            /\ UNCHANGED << shells, state, start, cpu_affinity >>
         \/ At(shells, p) = "other" /\ SyntaxError
  BY Zenon DEF NewField, Comma
<1>2. PICK q \in Nat, c \in Nat : q = p /\ c = p - 1
  BY <1>1, Here DEF Reading
<1>3. /\ shells \in Lists /\ q >= 1 /\ q <= Len(shells) + 1 /\ q = c + 1 /\ Len(shells) \in Nat
      /\ cpu_bitmap \in SUBSET Cpus /\ cpu_affinity \in Seq(SUBSET Cpus)
  BY <1>1, <1>2, Here DEF Reading
<1>4. /\ At(shells, q) = "number" <=> Number(q)
      /\ At(shells, q) = "-" <=> Hyphen(q)
      /\ Delim(q) <=> Ends(At(shells, q)) \/ At(shells, q) = Comma
      /\ Number(q) => ~Delim(q) /\ ~Hyphen(q) /\ At(shells, q) # "other"
      /\ Hyphen(q) => ~Delim(q) /\ At(shells, q) # "other"
      /\ Delim(q) => At(shells, q) # "other"
      /\ At(shells, q) = "end" <=> q = Len(shells) + 1
  BY <1>3, AtKind
<1>5. Ends(Comma) = FALSE /\ Comma \notin {"number", "-", "other"}
  BY CommaIs DEF Ends
<1>6. ~Behind <=> Delim(c)
  BY <1>1, <1>2 DEF Behind
<1>7. Behind => At(shells, q) = Comma /\ Number(c) /\ Hyphen(q - 2)
  BY <1>2 DEF ListInv, Cursor
<1>8. ASSUME cpu_bitmap' = Cpus, ~Behind, Delim(q), UNCHANGED << shells, cpu_affinity >>,
             Mark' = q, state' # "error", Cursor'
      PROVE  ListInv'
  <2>1. Span(c, q) /\ IsField(FieldAt(c, q)) /\ Asked(c, q) = Cpus
    BY <1>3, <1>6, <1>8, EmptyField
  <2>2. cpu_bitmap' = cpu_bitmap \cup Asked(c, q)
    BY <1>3, <1>8, <2>1
  <2>3. c <= p - 1 /\ p - 1 < q
    BY <1>2
  <2> QED BY <1>1, <1>8, <2>1, <2>2, <2>3, FieldStep
<1>9. CASE /\ Ends(At(shells, p))
           /\ cpu_bitmap' = Cpus /\ state' = "shell"
           /\ UNCHANGED << shells, p, start, cpu_affinity >>
  <2>1. ~Behind /\ Delim(q)
    BY <1>2, <1>4, <1>5, <1>7, <1>9
  <2>2. Mark' = q /\ Cursor'
    BY <1>2, <1>9 DEF Mark, Cursor, Behind
  <2> QED BY <1>8, <1>9, <2>1, <2>2
<1>10. CASE /\ At(shells, p) = "number"
            /\ start' = Clamp(shells[p].n) /\ p' = p + 1 /\ state' = "state_2"
            /\ UNCHANGED << shells, cpu_bitmap, cpu_affinity >>
  <2>1. Number(q) /\ ~Behind /\ ~Delim(q) /\ Delim(c)
    BY <1>2, <1>4, <1>5, <1>6, <1>7, <1>10
  <2>2. PICK lo : lo = start'
    OBVIOUS
  <2>3. Single(c, q, lo)
    BY <1>2, <1>3, <1>10, <2>1, <2>2 DEF Single
  <2>4. PICK r \in Nat : r = p' /\ q = p' - 1
    BY <1>2, <1>10
  <2>5. Mark' = q /\ Cursor'
    BY <1>10, <2>2, <2>3, <2>4, NextCursor
  <2>6. ~Delim(p)
    BY <1>2, <2>1
  <2> QED BY <1>1, <1>2, <1>10, <2>1, <2>5, <2>6, TokenStep
<1>11. CASE /\ At(shells, p) = "-"
            /\ start' = 0 /\ p' = p + 1 /\ state' = "state_3"
            /\ UNCHANGED << shells, cpu_bitmap, cpu_affinity >>
  <2>1. Hyphen(q) /\ ~Behind /\ ~Delim(q) /\ Delim(c)
    BY <1>2, <1>4, <1>5, <1>6, <1>7, <1>11
  <2>2. PICK lo : lo = start'
    OBVIOUS
  <2>3. Opened(c, q, lo)
    BY <1>2, <1>3, <1>11, <2>1, <2>2 DEF Opened
  <2>4. PICK r \in Nat : r = p' /\ q = p' - 1
    BY <1>2, <1>11
  <2>5. Mark' = q /\ Cursor'
    BY <1>11, <2>2, <2>3, <2>4, NextCursor
  <2>6. ~Delim(p)
    BY <1>2, <2>1
  <2> QED BY <1>1, <1>2, <1>11, <2>1, <2>5, <2>6, TokenStep
<1>12. CASE /\ At(shells, p) = Comma
            /\ cpu_bitmap' = Cpus /\ p' = p + 1
            /\ UNCHANGED << shells, state, start, cpu_affinity >>
  <2>1. Delim(q)
    BY <1>2, <1>4, <1>12
  <2>2. PICK lo : lo = start'
    OBVIOUS
  <2>3. PICK r \in Nat : r = p' /\ q = p' - 1
    BY <1>2, <1>12
  <2>4. state' = "field"
    BY <1>1, <1>12
  <2>5. Mark' = q /\ Cursor'
    BY <1>12, <2>1, <2>2, <2>3, <2>4, NextCursor
  <2>6. CASE ~Behind
    BY <1>8, <1>12, <2>1, <2>4, <2>5, <2>6
  <2>7. CASE Behind
    <3>1. PICK A \in Seq(SUBSET Cpus), b \in SUBSET Cpus : A = cpu_affinity /\ b = cpu_bitmap
      BY <1>3
    <3>2. Mark = q
      BY <1>2, <2>7 DEF Mark
    <3>3. Given(q, A, b)
      BY <1>1, <3>1, <3>2, Here DEF Reading
    <3>4. Given(q, A, Cpus)
      BY <3>1, <3>3, MoreCpus
    <3>5. ~HyphensLast
      <4>1. Hyphen(q - 2) /\ Number(c) /\ c = q - 1 /\ At(shells, q) = Comma /\ q \in 1..Len(shells)
        BY <1>2, <1>3, <1>4, <1>7, <1>12, <2>7, CommaIs
      <4>2. shells[q].k = Comma /\ shells[q - 2].k = "-" /\ shells[q - 1].k = "number"
            /\ q - 2 \in 1..Len(shells)
        BY <1>3, <4>1, AtKind DEF Hyphen, Number
      <4>3. \A l \in (q - 2)..q : l = q - 2 \/ l = q - 1 \/ l = q
        OBVIOUS
      <4>4. \A l \in (q - 2)..q : shells[l].k # ":"
        BY <4>2, <4>3, CommaIs
      <4> QED BY <4>1, <4>2, <4>4 DEF HyphensLast
    <3>6. ~IntervalsLast
      BY <3>5, HyphensAre
    <3>7. q = Mark' /\ A = cpu_affinity' /\ Cpus = cpu_bitmap' /\ state' # "error"
      BY <1>12, <2>4, <2>5, <3>1
    <3> QED BY <1>12, <2>5, <3>4, <3>6, <3>7, Goes
  <2> QED BY <2>6, <2>7
<1>13. CASE At(shells, p) = "other" /\ SyntaxError
  <2>1. Delim(c) /\ ~Number(q) /\ ~Hyphen(q) /\ ~Delim(q) /\ q # Len(shells) + 1
    BY <1>2, <1>4, <1>5, <1>6, <1>7, <1>13
  <2>2. c <= Len(shells)
    BY <1>3, <2>1
  <2>3. PICK e \in Nat : Span(c, e)
    BY <1>3, <2>1, <2>2, SpanFrom
  <2>4. c < q /\ q < e
    BY <1>3, <2>1, <2>3 DEF Span
  <2>5. ~IsField(FieldAt(c, e))
    BY <1>3, <2>1, <2>3, <2>4, SpansBad
  <2>6. BadField
    BY <2>3, <2>5 DEF BadField
  <2> QED BY <1>13, <2>6, Fails
<1> QED BY <1>1, <1>9, <1>10, <1>11, <1>12, <1>13

\* After the first number of a field.
LEMMA State2Reads ==
  ASSUME NumbersFit, AffinityInv, ListInv, state_2
  PROVE  ListInv'
<1>1. /\ state = "state_2"
      /\ \/ /\ Ends(At(shells, p))
            /\ cpu_bitmap' = cpu_bitmap \cup {start} /\ state' = "shell"
            /\ UNCHANGED << shells, p, start, cpu_affinity >>
         \/ /\ At(shells, p) = Comma
            /\ cpu_bitmap' = cpu_bitmap \cup {start} /\ p' = p + 1 /\ state' = "field"
            /\ UNCHANGED << shells, start, cpu_affinity >>
         \/ /\ At(shells, p) = "-"
            /\ p' = p + 1 /\ state' = "state_3"
            /\ UNCHANGED << shells, start, cpu_bitmap, cpu_affinity >>
         \/ At(shells, p) = "other" /\ SyntaxError
  BY Zenon DEF state_2, Comma
<1>2. PICK q \in Nat, j \in Nat : q = p /\ j = p - 1
  BY <1>1, Here DEF Reading
<1>3. shells \in Lists /\ q >= 1 /\ q <= Len(shells) + 1 /\ q = j + 1 /\ Len(shells) \in Nat
  BY <1>1, <1>2, Here DEF Reading
<1>4. ~Behind
  BY <1>1 DEF Behind
<1>5. PICK c \in Nat, lo \in Cpus : Single(c, j, lo) /\ lo = start
  BY <1>1, <1>2 DEF ListInv, Cursor, AffinityInv, TypeOK
<1>6. /\ At(shells, q) = "number" <=> Number(q)
      /\ At(shells, q) = "-" <=> Hyphen(q)
      /\ Delim(q) <=> Ends(At(shells, q)) \/ At(shells, q) = Comma
      /\ Number(q) => ~Delim(q) /\ ~Hyphen(q) /\ At(shells, q) # "other"
      /\ Hyphen(q) => ~Delim(q) /\ At(shells, q) # "other"
      /\ Delim(q) => At(shells, q) # "other"
      /\ At(shells, q) = "end" <=> q = Len(shells) + 1
  BY <1>3, AtKind
<1>7. Delim(c) /\ j = c + 1 /\ Number(j) /\ lo = Clamp(shells[j].n)
  BY <1>5 DEF Single
<1>8. ASSUME cpu_bitmap' = cpu_bitmap \cup {start}, Delim(q), UNCHANGED << shells, cpu_affinity >>,
             Mark' = q, state' # "error", Cursor'
      PROVE  ListInv'
  <2>1. Span(c, q) /\ IsField(FieldAt(c, q)) /\ Asked(c, q) = {lo} /\ c <= j
    BY <1>3, <1>5, <1>8, SingleField
  <2>2. cpu_bitmap' = cpu_bitmap \cup Asked(c, q)
    BY <1>5, <1>8, <2>1
  <2>3. c <= p - 1 /\ p - 1 < q
    BY <1>2, <2>1
  <2> QED BY <1>1, <1>4, <1>8, <2>1, <2>2, <2>3, FieldStep
<1>9. CASE /\ Ends(At(shells, p))
           /\ cpu_bitmap' = cpu_bitmap \cup {start} /\ state' = "shell"
           /\ UNCHANGED << shells, p, start, cpu_affinity >>
  <2>1. Delim(q)
    BY <1>2, <1>6, <1>9
  <2>2. Mark' = q /\ Cursor'
    BY <1>2, <1>9 DEF Mark, Cursor, Behind
  <2> QED BY <1>8, <1>9, <2>1, <2>2
<1>10. CASE /\ At(shells, p) = Comma
            /\ cpu_bitmap' = cpu_bitmap \cup {start} /\ p' = p + 1 /\ state' = "field"
            /\ UNCHANGED << shells, start, cpu_affinity >>
  <2>1. Delim(q)
    BY <1>2, <1>6, <1>10
  <2>2. PICK r \in Nat, l \in Cpus : r = p' /\ q = p' - 1 /\ l = start'
    BY <1>2, <1>5, <1>10
  <2>3. Mark' = q /\ Cursor'
    BY <1>10, <2>1, <2>2, NextCursor
  <2> QED BY <1>8, <1>10, <2>1, <2>3
<1>11. CASE /\ At(shells, p) = "-"
            /\ p' = p + 1 /\ state' = "state_3"
            /\ UNCHANGED << shells, start, cpu_bitmap, cpu_affinity >>
  <2>1. Hyphen(q) /\ ~Delim(q)
    BY <1>2, <1>6, <1>11
  <2>2. Opened(c, q, lo)
    BY <1>3, <1>7, <2>1 DEF Opened
  <2>3. PICK r \in Nat : r = p' /\ q = p' - 1 /\ lo = start'
    BY <1>2, <1>5, <1>11
  <2>4. Mark' = q /\ Cursor'
    BY <1>11, <2>2, <2>3, NextCursor
  <2>5. ~Delim(p)
    BY <1>2, <2>1
  <2> QED BY <1>1, <1>2, <1>4, <1>11, <2>4, <2>5, TokenStep
<1>12. CASE At(shells, p) = "other" /\ SyntaxError
  <2>1. ~Number(q) /\ ~Hyphen(q) /\ ~Delim(q) /\ q # Len(shells) + 1
    BY <1>2, <1>6, <1>12, CommaIs DEF Ends
  <2>2. c <= Len(shells) /\ ~Delim(j)
    BY <1>3, <1>7, TokensAre
  <2>3. PICK e \in Nat : Span(c, e)
    BY <1>3, <1>7, <2>2, SpanFrom
  <2>4. e # j /\ e # q
    BY <2>1, <2>2, <2>3 DEF Span
  <2>5. c < q /\ q < e
    BY <1>3, <1>7, <2>3, <2>4 DEF Span
  <2>6. ~IsField(FieldAt(c, e))
    BY <1>3, <2>1, <2>3, <2>5, SpansBad
  <2>7. BadField
    BY <2>3, <2>6 DEF BadField
  <2> QED BY <1>12, <2>7, Fails
<1> QED BY <1>1, <1>9, <1>10, <1>11, <1>12

\* After the hyphen of an interval.
LEMMA State3Reads ==
  ASSUME NumbersFit, AffinityInv, ListInv, state_3
  PROVE  ListInv'
<1>1. /\ state = "state_3"
      /\ \/ /\ Ends(At(shells, p))
            /\ cpu_bitmap' = cpu_bitmap \cup (start..(NbCpus - 1)) /\ state' = "shell"
            /\ UNCHANGED << shells, p, start, cpu_affinity >>
         \/ /\ At(shells, p) = "number" /\ Clamp(shells[p].n) >= start
            /\ cpu_bitmap' = cpu_bitmap \cup (start..Clamp(shells[p].n))
            /\ p' = p + 1
            /\ state' = IF Ends(At(shells, p + 1)) THEN "shell"
                        ELSE IF At(shells, p + 1) = Comma THEN "field" ELSE "error"
            /\ UNCHANGED << shells, start, cpu_affinity >>
         \/ /\ At(shells, p) = "number" /\ Clamp(shells[p].n) < start
            /\ SyntaxError
         \/ At(shells, p) \in {"-", Comma, "other"} /\ SyntaxError
  BY Zenon DEF state_3, Comma
<1>2. PICK q \in Nat, j \in Nat : q = p /\ j = p - 1
  BY <1>1, Here DEF Reading
<1>3. shells \in Lists /\ q >= 1 /\ q <= Len(shells) + 1 /\ q = j + 1 /\ Len(shells) \in Nat
  BY <1>1, <1>2, Here DEF Reading
<1>4. ~Behind
  BY <1>1 DEF Behind
<1>5. PICK c \in Nat, lo \in Cpus : Opened(c, j, lo) /\ lo = start
  BY <1>1, <1>2 DEF ListInv, Cursor, AffinityInv, TypeOK
<1>6. /\ At(shells, q) = "number" <=> Number(q)
      /\ At(shells, q) = "-" <=> Hyphen(q)
      /\ Delim(q) <=> Ends(At(shells, q)) \/ At(shells, q) = Comma
      /\ Number(q) => ~Delim(q) /\ ~Hyphen(q) /\ At(shells, q) # "other"
      /\ Hyphen(q) => ~Delim(q) /\ At(shells, q) # "other"
      /\ Delim(q) => At(shells, q) # "other"
      /\ At(shells, q) = "end" <=> q = Len(shells) + 1
  BY <1>3, AtKind
<1>7. /\ Delim(c) /\ Hyphen(j) /\ ~Delim(j) /\ c < j /\ j >= 1 /\ j <= Len(shells)
      /\ \A z \in Nat : c < z /\ z < j => ~Delim(z)
  <2>1. Delim(c) /\ Hyphen(j) /\ (j = c + 1 \/ (j = c + 2 /\ Number(c + 1)))
    BY <1>5 DEF Opened
  <2>2. ~Delim(j) /\ j >= 1 /\ j <= Len(shells)
    BY <1>3, <2>1, TokensAre
  <2>3. Number(c + 1) => ~Delim(c + 1)
    BY <1>3, TokensAre
  <2>4. \A z \in Nat : c < z /\ z < j => j = c + 2 /\ z = c + 1
    BY <2>1
  <2> QED BY <2>1, <2>2, <2>3, <2>4
<1>8. PICK e \in Nat : Span(c, e)
  BY <1>3, <1>7, SpanFrom
<1>9. e >= q /\ e <= Len(shells) + 1 /\ Delim(e)
  <2>1. c < e /\ Delim(e) /\ e <= Len(shells) + 1
    BY <1>3, <1>8 DEF Span
  <2>2. e # j /\ ~(e < j)
    BY <1>7, <2>1
  <2> QED BY <1>3, <2>1, <2>2
<1>10. CASE /\ Ends(At(shells, p))
            /\ cpu_bitmap' = cpu_bitmap \cup (start..(NbCpus - 1)) /\ state' = "shell"
            /\ UNCHANGED << shells, p, start, cpu_affinity >>
  <2>1. Delim(q)
    BY <1>2, <1>6, <1>10
  <2>2. Mark' = q /\ Cursor'
    BY <1>2, <1>10 DEF Mark, Cursor, Behind
  <2>3. Span(c, q) /\ IsField(FieldAt(c, q)) /\ Asked(c, q) = lo..(NbCpus - 1) /\ c <= j
    BY <1>3, <1>5, <2>1, OpenField
  <2>4. cpu_bitmap' = cpu_bitmap \cup Asked(c, q)
    BY <1>5, <1>10, <2>3
  <2>5. c <= p - 1 /\ p - 1 < q
    BY <1>2, <2>3
  <2> QED BY <1>1, <1>4, <1>10, <2>2, <2>3, <2>4, <2>5, FieldStep
<1>11. CASE /\ At(shells, p) = "number" /\ Clamp(shells[p].n) >= start
            /\ cpu_bitmap' = cpu_bitmap \cup (start..Clamp(shells[p].n))
            /\ p' = p + 1
            /\ state' = IF Ends(At(shells, p + 1)) THEN "shell"
                        ELSE IF At(shells, p + 1) = Comma THEN "field" ELSE "error"
            /\ UNCHANGED << shells, start, cpu_affinity >>
  <2>1. Number(q) /\ ~Delim(q) /\ q <= Len(shells)
    BY <1>2, <1>3, <1>6, <1>11, TokensAre
  <2>2. PICK r \in Nat, hi \in Cpus : r = q + 1 /\ hi = Clamp(shells[q].n)
    <3>1. Clamp(shells[q].n) \in Cpus
      BY <1>3, <2>1, NumberIs
    <3> QED BY <3>1
  <2>3. /\ r = p' /\ q = p' - 1 /\ lo = start' /\ lo <= hi
        /\ cpu_bitmap' = cpu_bitmap \cup (lo..hi)
        /\ state' = IF Ends(At(shells, r)) THEN "shell"
                    ELSE IF At(shells, r) = Comma THEN "field" ELSE "error"
    <3>1. lo \in Int /\ hi \in Int
      BY AffinityAssumption DEF Cpus
    <3> QED BY <1>2, <1>5, <1>11, <2>2, <3>1
  <2>4. r >= 1 /\ r <= Len(shells) + 1
    BY <1>3, <2>1, <2>2
  <2>5. /\ At(shells, r) = "number" <=> Number(r)
        /\ At(shells, r) = "-" <=> Hyphen(r)
        /\ Delim(r) <=> Ends(At(shells, r)) \/ At(shells, r) = Comma
    BY <1>3, <2>4, AtKind
  <2>6. CASE Delim(r)
    <3>1. Span(c, r) /\ c <= j /\ IsField(FieldAt(c, r)) /\ Asked(c, r) = lo..hi
      BY <1>3, <1>5, <2>1, <2>2, <2>3, <2>4, <2>6, ClosedField
    <3>2. cpu_bitmap' = cpu_bitmap \cup Asked(c, r)
      BY <2>3, <3>1
    <3>3. c <= p - 1 /\ p - 1 < r
      BY <1>2, <1>3, <2>2, <3>1
    <3>4. state' = "shell" \/ (state' = "field" /\ At(shells, r) = Comma)
      BY <2>3, <2>5, <2>6
    <3>5. Mark' = r /\ Cursor'
      <4>1. Behind' <=> state' = "field"
        BY <1>11, <2>1, <2>3, NextCursor
      <4>2. Mark' = r
        BY <1>11, <2>3, <3>4, <4>1, NextCursor
      <4>3. Behind' => At(shells, r) = Comma /\ Number(q) /\ Hyphen(r - 2)
        <5>1. r - 2 = j
          BY <1>3, <2>2
        <5> QED BY <1>7, <2>1, <3>4, <4>1, <5>1
      <4> QED BY <1>11, <2>3, <3>4, <4>2, <4>3, NextCursor
    <3>6. UNCHANGED << shells, cpu_affinity >> /\ state' # "error"
      BY <1>11, <3>4
    <3> QED BY <1>1, <1>4, <3>1, <3>2, <3>3, <3>5, <3>6, FieldStep
  <2>7. CASE ~Delim(r)
    <3>1. state' = "error"
      BY <2>3, <2>5, <2>7
    <3>2. e # q /\ e # r
      BY <1>9, <2>1, <2>7
    <3>3. q + 1 < e
      BY <1>9, <2>2, <3>2
    <3>4. ~IsField(FieldAt(c, e))
      BY <1>3, <1>5, <1>8, <2>1, <3>3, SpansBad
    <3>5. BadField
      BY <1>8, <3>4 DEF BadField
    <3>6. UNCHANGED shells
      BY <1>11
    <3>7. BadField'
      BY <3>5, <3>6, SameList
    <3> QED BY <3>1, <3>7 DEF ListInv, Cursor, Behind, FieldsRead, BitsAsked, ErrorIs, Going, Reading
  <2> QED BY <2>6, <2>7
<1>12. CASE At(shells, p) = "number" /\ Clamp(shells[p].n) < start /\ SyntaxError
  <2>1. Number(q) /\ ~Delim(q)
    BY <1>2, <1>6, <1>12
  <2>2. PICK r \in Nat, hi \in Cpus : r = q + 1 /\ hi = Clamp(shells[q].n) /\ ~(lo <= hi)
    <3>1. Clamp(shells[q].n) \in Cpus
      BY <1>3, <2>1, NumberIs
    <3>2. ~(lo <= Clamp(shells[q].n))
      <4>1. lo \in Int /\ Clamp(shells[q].n) \in Int
        BY <3>1, AffinityAssumption DEF Cpus
      <4>2. Clamp(shells[q].n) < lo
        BY <1>2, <1>5, <1>12
      <4> QED BY <4>1, <4>2
    <3> QED BY <3>1, <3>2
  <2>3. ~IsField(FieldAt(c, e))
    <3>1. CASE e = r
      BY <1>3, <1>5, <1>9, <2>1, <2>2, <3>1, ClosedField
    <3>2. CASE e # r
      <4>1. e # q
        BY <1>9, <2>1
      <4>2. q + 1 < e
        BY <1>9, <2>2, <3>2, <4>1
      <4> QED BY <1>3, <1>5, <1>8, <2>1, <4>2, SpansBad
    <3> QED BY <3>1, <3>2
  <2>4. BadField
    BY <1>8, <2>3 DEF BadField
  <2> QED BY <1>12, <2>4, Fails
<1>13. CASE At(shells, p) \in {"-", Comma, "other"} /\ SyntaxError
  <2>1. CASE At(shells, q) = Comma
    <3>1. q \in 1..Len(shells) /\ j \in 1..Len(shells) /\ shells[q].k = Comma /\ shells[j].k = "-"
      <4>1. q <= Len(shells)
        BY <1>3, <1>6, <2>1, CommaIs
      <4>2. shells[q].k = Comma
        BY <1>3, <2>1, <4>1, AtKind
      <4> QED BY <1>3, <1>7, <4>1, <4>2 DEF Hyphen
    <3>2. \A l \in j..q : l = j \/ l = q
      BY <1>3
    <3>3. ~HyphensLast
      <4>1. \A l \in j..q : shells[l].k # ":"
        BY <3>1, <3>2, CommaIs
      <4>2. j < q
        BY <1>3
      <4> QED BY <3>1, <4>1, <4>2 DEF HyphensLast
    <3>4. ~IntervalsLast
      BY <3>3, HyphensAre
    <3> QED BY <1>13, <3>4, Fails
  <2>2. CASE At(shells, q) # Comma
    <3>1. /\ At(shells, q) = "-" \/ At(shells, q) = "other"
          /\ ~Delim(q) /\ q # Len(shells) + 1
      BY <1>2, <1>6, <1>13, <2>2, CommaIs DEF Ends
    <3>2. c < q /\ q < e
      <4>1. e # q
        BY <1>9, <3>1
      <4> QED BY <1>3, <1>7, <1>9, <4>1
    <3>3. ~IsField(FieldAt(c, e))
      <4>1. Hyphen(q) \/ (~Hyphen(q) /\ ~Number(q))
        BY <1>6, <3>1
      <4> QED BY <1>3, <1>5, <1>8, <3>2, <4>1, SpansBad
    <3>4. BadField
      BY <1>8, <3>3 DEF BadField
    <3> QED BY <1>13, <3>4, Fails
  <2> QED BY <2>1, <2>2
<1> QED BY <1>1, <1>10, <1>11, <1>12, <1>13

\* The next shell, or the end of the loop.
LEMMA NextShellReads ==
  ASSUME NumbersFit, AffinityInv, AffinityInv', ListInv, NextShell
  PROVE  ListInv'
<1>1. /\ state = "shell" /\ state \in Reading
      /\ cpu_affinity' = Append(cpu_affinity, cpu_bitmap)
      /\ cpu_bitmap' = {} /\ UNCHANGED shells
      /\ \/ At(shells, p) = ":" /\ p' = p + 1 /\ state' = "field"
         \/ /\ At(shells, p) # ":" /\ p' = p
            /\ state' = "created" /\ Len(cpu_affinity) = rsysd_nb_shells - 1
  <2>1. state' # "aborted"
    BY DEF AffinityInv, CountInv
  <2> QED BY <2>1 DEF NextShell, Reading
<1>2. PICK q \in Nat, j \in Nat, A \in Seq(SUBSET Cpus), b \in SUBSET Cpus :
          q = p /\ j = p - 1 /\ A = cpu_affinity /\ b = cpu_bitmap
  BY <1>1, Here
<1>3. /\ shells \in Lists /\ q >= 1 /\ q <= Len(shells) + 1 /\ q = j + 1 /\ Len(shells) \in Nat
      /\ ShellOf(j) = Len(A) + 1
  BY <1>1, <1>2, Here
<1>4. Ends(At(shells, q))
  BY <1>1, <1>2 DEF AffinityInv, CountInv
<1>5. /\ Delim(q)
      /\ At(shells, q) = "end" <=> q = Len(shells) + 1
  BY <1>3, <1>4, AtKind
<1>6. Mark = q
  BY <1>1, <1>2 DEF Mark
<1>7. Given(q, A, b) /\ (IntervalsLast => OnlyAsked(q, A, b))
  BY <1>1, <1>2, <1>6, Here
<1>8. ASSUME NEW c \in Nat, c < q PROVE ShellOf(c) \in 1..(Len(A) + 1)
  <2>1. c <= j
    BY <1>3, <1>8
  <2>2. /\ Cardinality(Colons(c)) \in Nat /\ Cardinality(Colons(j)) \in Nat
        /\ Cardinality(Colons(c)) <= Cardinality(Colons(j))
    BY <2>1, ColonsAre, ColonsGrow
  <2>3. Len(A) + 1 = Cardinality(Colons(j)) + 1
    BY <1>3 DEF ShellOf
  <2> QED BY <2>2, <2>3 DEF ShellOf
<1>9. Given(q, Append(A, b), {}) /\ (IntervalsLast => OnlyAsked(q, Append(A, b), {}))
  BY <1>7, <1>8, ShellRead
<1>10. Mark' = q /\ Cursor' /\ state' # "error"
  <2>1. PICK lo : lo = start'
    OBVIOUS
  <2>2. CASE At(shells, p) = ":" /\ p' = p + 1 /\ state' = "field"
    <3>1. PICK r \in Nat : r = p' /\ q = p' - 1
      BY <1>2, <2>2
    <3>2. ~Behind' /\ Mark' = q
      BY <1>1, <1>5, <2>1, <2>2, <3>1, NextCursor
    <3> QED BY <1>1, <2>1, <2>2, <3>1, <3>2, NextCursor
  <2>3. CASE /\ At(shells, p) # ":" /\ p' = p
             /\ state' = "created" /\ Len(cpu_affinity) = rsysd_nb_shells - 1
    <3>1. q = p' /\ j = p' - 1
      BY <1>2, <2>3
    <3>2. ~Behind' /\ Mark' = q
      BY <1>1, <2>1, <2>3, <3>1, NextCursor
    <3>3. q = Len(shells) + 1
      BY <1>2, <1>4, <1>5, <2>3 DEF Ends
    <3>4. Len(cpu_affinity') = rsysd_nb_shells
      <4>1. Len(A) \in Nat /\ Len(cpu_affinity') = Len(A) + 1 /\ Len(A) = rsysd_nb_shells - 1
        BY <1>1, <1>2, <2>3, AppendProperties, LenProperties
      <4>2. rsysd_nb_shells \in Nat
        <5>1. Cardinality(Colons(Len(shells))) \in Nat
          BY <1>3, ColonsAre
        <5> QED BY <5>1 DEF rsysd_nb_shells, Colons
      <4> QED BY <4>1, <4>2
    <3> QED BY <1>1, <2>1, <2>3, <3>1, <3>2, <3>3, <3>4, NextCursor
  <2> QED BY <1>1, <2>2, <2>3
<1>11. PICK B, b2 : B = Append(A, b) /\ b2 = {}
  OBVIOUS
<1>12. Given(q, B, b2) /\ (IntervalsLast => OnlyAsked(q, B, b2))
  BY <1>9, <1>11
<1>13. q = Mark' /\ B = cpu_affinity' /\ b2 = cpu_bitmap'
  BY <1>1, <1>2, <1>10, <1>11
<1> QED BY <1>1, <1>10, <1>12, <1>13, Goes

\* The beginning of the first shell.
LEMMA ListInit ==
  ASSUME Init
  PROVE  ListInv
<1>1. /\ shells \in Lists /\ p = 1 /\ state = "field"
      /\ cpu_bitmap = {} /\ cpu_affinity = << >>
  BY DEF Init
<1>2. ~Behind
  BY <1>1 DEF Behind, Delim
<1>3. Mark = 0
  BY <1>1, <1>2 DEF Mark
<1>4. \A c, d \in Nat : ~(Span(c, d) /\ d <= 0)
  BY DEF Span
<1>5. Given(Mark, cpu_affinity, cpu_bitmap)
  BY <1>3, <1>4 DEF Given
<1>6. Len(cpu_affinity) = 0
  BY <1>1, EmptySeq
<1>7. OnlyAsked(Mark, cpu_affinity, cpu_bitmap)
  <2>1. ASSUME NEW i \in 1..(Len(cpu_affinity) + 1) PROVE BitsOf(cpu_affinity, cpu_bitmap, i) = {}
    BY <1>1, <1>6 DEF BitsOf
  <2> QED BY <2>1 DEF OnlyAsked
<1>8. Cursor
  BY <1>1, <1>2 DEF Cursor
<1>9. ErrorIs
  BY <1>1 DEF ErrorIs
<1> QED BY <1>5, <1>7, <1>8, <1>9 DEF ListInv, FieldsRead, BitsAsked

\* A step that changes nothing.
LEMMA ListStutters ==
  ASSUME ListInv, UNCHANGED vars
  PROVE  ListInv'
<1>1. UNCHANGED << shells, p, state, start, cpu_bitmap, cpu_affinity >>
  BY DEF vars
<1>2. /\ \A c, d : Span(c, d)' <=> Span(c, d)
      /\ \A c, d : FieldAt(c, d)' = FieldAt(c, d)
      /\ \A c, d : Asked(c, d)' = Asked(c, d)
      /\ \A c : ShellOf(c)' = ShellOf(c)
      /\ IntervalsLast' <=> IntervalsLast
      /\ BadField' <=> BadField
  BY <1>1, SameList
<1>3. PICK m, A, b : m = Mark /\ A = cpu_affinity /\ b = cpu_bitmap
  OBVIOUS
<1>4. Mark' = Mark /\ (Cursor' <=> Cursor)
  <2>1. (Behind' <=> Behind) /\ Mark' = Mark
    BY <1>1 DEF Behind, Mark, Delim
  <2> QED BY <1>1, <2>1 DEF Cursor, At, Number, Hyphen, Single, Opened, Delim, rsysd_nb_shells
<1>5. CASE state = "error"
  <2>1. ErrorIs'
    BY <1>1, <1>2 DEF ListInv, ErrorIs
  <2> QED BY <1>1, <1>4, <1>5, <2>1 DEF ListInv, FieldsRead, BitsAsked, Going, Reading
<1>6. CASE state \in Going
  <2>1. Given(m, A, b) /\ (IntervalsLast => OnlyAsked(m, A, b))
    BY <1>3, <1>6 DEF ListInv, FieldsRead, BitsAsked
  <2>2. m = Mark' /\ A = cpu_affinity' /\ b = cpu_bitmap' /\ Cursor' /\ state' # "error"
    BY <1>1, <1>3, <1>4, <1>6 DEF ListInv, Going, Reading
  <2> QED BY <1>1, <2>1, <2>2, Goes
<1>7. CASE state # "error" /\ state \notin Going
  BY <1>1, <1>4, <1>7 DEF ListInv, FieldsRead, BitsAsked, ErrorIs
<1> QED BY <1>5, <1>6, <1>7

-----------------------------------------------------------------------------
(* What the table holds at the end.                                        *)

\* An accepted list is one of the manual's, and each shell has all the CPUs the
\* manual gives it.
LEMMA AtLeast ==
  ASSUME AffinityInv, ListInv, state = "created"
  PROVE  /\ Documented /\ Len(cpu_affinity) = rsysd_nb_shells
         /\ \A i \in 1..rsysd_nb_shells : DocAffinity(i) \subseteq cpu_affinity[i]
<1>1. /\ shells \in Lists /\ p = Len(shells) + 1 /\ Len(cpu_affinity) = rsysd_nb_shells
      /\ Given(p, cpu_affinity, cpu_bitmap)
  BY DEF AffinityInv, TypeOK, ListInv, Cursor, FieldsRead, Going, Mark
<1>2. ASSUME NEW i \in 1..rsysd_nb_shells, NEW f \in Fields(Affinity(shells, i))
      PROVE  IsField(f) /\ First(f)..Last(f) \subseteq cpu_affinity[i]
  <2>1. PICK c \in Nat, d \in Nat : Span(c, d) /\ ShellOf(c) = i /\ f = FieldAt(c, d)
    BY <1>1, FieldsAre
  <2>2. d <= p
    BY <1>1, <2>1, ListIs DEF Span
  <2>3. IsField(f) /\ Asked(c, d) \subseteq BitsOf(cpu_affinity, cpu_bitmap, i)
    BY <1>1, <2>1, <2>2 DEF Given
  <2>4. Asked(c, d) = First(f)..Last(f)
    BY <2>1 DEF Asked
  <2>5. i <= Len(cpu_affinity)
    BY <1>1
  <2> QED BY <2>3, <2>4, <2>5 DEF BitsOf
<1>3. Documented
  BY <1>2 DEF Documented
<1>4. \A i \in 1..rsysd_nb_shells : DocAffinity(i) \subseteq cpu_affinity[i]
  BY <1>2 DEF DocAffinity
<1> QED BY <1>1, <1>3, <1>4

\* When intervals come last, it has no other.
LEMMA AtMost ==
  ASSUME AffinityInv, ListInv, state = "created", IntervalsLast,
         NEW i \in 1..rsysd_nb_shells
  PROVE  cpu_affinity[i] \subseteq DocAffinity(i)
<1>1. /\ shells \in Lists /\ Len(cpu_affinity) = rsysd_nb_shells
      /\ OnlyAsked(Mark, cpu_affinity, cpu_bitmap)
  BY DEF AffinityInv, TypeOK, ListInv, Cursor, BitsAsked, Going
<1>2. Len(cpu_affinity) \in Nat
  BY LenProperties DEF AffinityInv, TypeOK
<1>3. i \in 1..(Len(cpu_affinity) + 1) /\ BitsOf(cpu_affinity, cpu_bitmap, i) = cpu_affinity[i]
  BY <1>1, <1>2 DEF BitsOf
<1>4. ASSUME NEW x \in cpu_affinity[i] PROVE x \in DocAffinity(i)
  <2>1. PICK c \in Nat, d \in Nat : Span(c, d) /\ ShellOf(c) = i /\ x \in Asked(c, d)
    BY <1>1, <1>3 DEF OnlyAsked
  <2>2. FieldAt(c, d) \in Fields(Affinity(shells, i))
    BY <1>1, <2>1, FieldsAre
  <2> QED BY <2>1, <2>2 DEF Asked, DocAffinity
<1> QED BY <1>4

\* A list in which a field is none of the manual's is not one of the manual's.
LEMMA BadList ==
  ASSUME shells \in Lists, BadField
  PROVE  ~Documented
<1>1. PICK c \in Nat, d \in Nat : Span(c, d) /\ ~IsField(FieldAt(c, d))
  BY DEF BadField
<1>2. PICK i \in 1..rsysd_nb_shells : i = ShellOf(c)
  BY <1>1, SpanShell
<1>3. FieldAt(c, d) \in Fields(Affinity(shells, i))
  BY <1>1, <1>2, FieldsAre
<1> QED BY <1>1, <1>3 DEF Documented

\* Whatever the list, rsysd_get_affinity() gives each shell at least the CPUs that
\* the manual of rsystemd gives it, and exactly those when the intervals come
\* last; it refuses no list of the manual then, and accepts none that is not.
THEOREM ListRead == ASSUME NumbersFit PROVE Spec => []ReadsList
<1>1. Init => AffinityInv /\ ListInv
  BY AffinityInit, ListInit
<1>2. AffinityInv /\ ListInv /\ [Next]_vars => (AffinityInv /\ ListInv)'
  <2> SUFFICES ASSUME AffinityInv, ListInv, [Next]_vars PROVE AffinityInv' /\ ListInv'
    OBVIOUS
  <2>1. AffinityInv'
    BY AffinityNext
  <2>2. CASE NewField
    BY <2>1, <2>2, NewFieldReads
  <2>3. CASE state_2
    BY <2>1, <2>3, State2Reads
  <2>4. CASE state_3
    BY <2>1, <2>4, State3Reads
  <2>5. CASE NextShell
    BY <2>1, <2>5, NextShellReads
  <2>6. CASE UNCHANGED vars
    BY <2>1, <2>6, ListStutters
  <2> QED BY <2>2, <2>3, <2>4, <2>5, <2>6 DEF Next
<1>3. AffinityInv /\ ListInv => ReadsList
  <2> SUFFICES ASSUME AffinityInv, ListInv PROVE ReadsList
    OBVIOUS
  <2>1. TypeOK /\ shells \in Lists
    BY DEF AffinityInv, TypeOK
  <2>2. NeverFewerCpus
    BY AtLeast DEF NeverFewerCpus
  <2>3. ASSUME IntervalsLast PROVE AsDocumented
    <3>1. ASSUME state = "created"
          PROVE  /\ Documented /\ Len(cpu_affinity) = rsysd_nb_shells
                 /\ \A i \in 1..rsysd_nb_shells : cpu_affinity[i] = DocAffinity(i)
      BY <2>3, <3>1, AtLeast, AtMost
    <3>2. ASSUME state = "error" PROVE ~Documented
      BY <2>1, <2>3, <3>2, BadList DEF ListInv, ErrorIs
    <3> QED BY <3>1, <3>2 DEF AsDocumented
  <2> QED BY <2>1, <2>2, <2>3 DEF ReadsList, ReadsIntervalsLast
<1> QED BY <1>1, <1>2, <1>3, PTL DEF Spec
=============================================================================
