---------------------------- MODULE RsysAffinity ----------------------------
(***************************************************************************)
(* How rsystemd reads the list of its shells: the automaton of             *)
(* rsysd_get_affinity() (rsys/rsystemd.c) and the loop of                  *)
(* rsysd_create_shells() that calls it once for each shell.                *)
(*                                                                         *)
(* The list is a sequence of tokens: numbers (runs of digits, by value),   *)
(* the three separators and any other character. A bitmap of CPUs is the   *)
(* set of the active CPUs whose bit is set.                                *)
(***************************************************************************)
EXTENDS Integers, Sequences, FiniteSets

CONSTANTS
    NbCpus,     \* pdip_cpu_nb()
    Width,      \* unsigned int is taken modulo Width
    Numbers,    \* the numbers that may be written
    MaxTokens   \* bound: the length of a list

ASSUME AffinityAssumption ==
    /\ NbCpus \in Nat \ {0} /\ Width \in Nat \ {0}
    /\ Numbers \subseteq Nat /\ MaxTokens \in Nat

Cpus == 0..(NbCpus - 1)
Separators == {"-", ",", ":"}
Token == [k : {"number"}, n : Numbers] \cup [k : Separators \cup {"other"}, n : {0}]

\* Two runs of digits are never next to each other.
Lists == {l \in UNION {[1..m -> Token] : m \in 0..MaxTokens} :
             \A j \in 1..(Len(l) - 1) : l[j].k = "number" => l[j + 1].k # "number"}

VARIABLES
    shells,         \* the list, from -s or RSYSD_SHELLS
    p,              \* the token the automaton looks at
    state,
    start,          \* the first CPU of the current field
    cpu_bitmap,     \* of the current shell
    cpu_affinity    \* of the shells already read

vars == <<shells, p, state, start, cpu_bitmap, cpu_affinity>>

\* The kind of the token at p, "end" for the NUL character.
At(l, j) == IF j > Len(l) THEN "end" ELSE l[j].k

Ends(k) == k \in {"end", ":"}

\* A number too big is the biggest CPU.
Clamp(n) == LET u == n % Width IN IF u >= NbCpus THEN NbCpus - 1 ELSE u

TypeOK ==
    /\ shells \in Lists /\ p \in 1..(Len(shells) + 1)
    /\ state \in {"field", "state_2", "state_3", "shell", "created", "error", "aborted"}
    /\ start \in Cpus /\ cpu_bitmap \subseteq Cpus
    /\ cpu_affinity \in Seq(SUBSET Cpus)

Init ==
    /\ shells \in Lists
    /\ p = 1 /\ state = "field" /\ start = 0 /\ cpu_bitmap = {}
    /\ cpu_affinity = << >>

\* rsysd_get_affinity() has failed: the daemon does not start.
SyntaxError ==
    /\ state' = "error"
    /\ UNCHANGED <<shells, p, start, cpu_bitmap, cpu_affinity>>

\* Mutant: the comma of an empty field is not consumed.
NewFieldKeepsComma ==
    /\ state = "field"
    /\ \/ /\ At(shells, p) = ","
          /\ cpu_bitmap' = Cpus
          /\ UNCHANGED <<shells, p, state, start, cpu_affinity>>
       \/ /\ Ends(At(shells, p))
          /\ cpu_bitmap' = Cpus /\ state' = "shell"
          /\ UNCHANGED <<shells, p, start, cpu_affinity>>
       \/ /\ At(shells, p) = "number"
          /\ start' = Clamp(shells[p].n) /\ p' = p + 1 /\ state' = "state_2"
          /\ UNCHANGED <<shells, cpu_bitmap, cpu_affinity>>
       \/ /\ At(shells, p) = "-"
          /\ start' = 0 /\ p' = p + 1 /\ state' = "state_3"
          /\ UNCHANGED <<shells, cpu_bitmap, cpu_affinity>>
       \/ At(shells, p) = "other" /\ SyntaxError

\* The beginning of the affinity, and state_1: a new field.
NewField ==
    /\ state = "field"
    /\ \/ /\ Ends(At(shells, p))
          /\ cpu_bitmap' = Cpus /\ state' = "shell"
          /\ UNCHANGED <<shells, p, start, cpu_affinity>>
       \/ /\ At(shells, p) = "number"
          /\ start' = Clamp(shells[p].n) /\ p' = p + 1 /\ state' = "state_2"
          /\ UNCHANGED <<shells, cpu_bitmap, cpu_affinity>>
       \/ /\ At(shells, p) = "-"
          /\ start' = 0 /\ p' = p + 1 /\ state' = "state_3"
          /\ UNCHANGED <<shells, cpu_bitmap, cpu_affinity>>
       \/ /\ At(shells, p) = ","
          /\ cpu_bitmap' = Cpus /\ p' = p + 1
          /\ UNCHANGED <<shells, state, start, cpu_affinity>>
       \/ At(shells, p) = "other" /\ SyntaxError

\* state_2: after the first number of a field.
state_2 ==
    /\ state = "state_2"
    /\ \/ /\ Ends(At(shells, p))
          /\ cpu_bitmap' = cpu_bitmap \cup {start} /\ state' = "shell"
          /\ UNCHANGED <<shells, p, start, cpu_affinity>>
       \/ /\ At(shells, p) = ","
          /\ cpu_bitmap' = cpu_bitmap \cup {start} /\ p' = p + 1 /\ state' = "field"
          /\ UNCHANGED <<shells, start, cpu_affinity>>
       \/ /\ At(shells, p) = "-"
          /\ p' = p + 1 /\ state' = "state_3"
          /\ UNCHANGED <<shells, start, cpu_bitmap, cpu_affinity>>
       \/ At(shells, p) = "other" /\ SyntaxError

\* Mutant: the end of an interval is not checked against its beginning.
state_3_unchecked ==
    /\ state = "state_3"
    /\ \/ /\ Ends(At(shells, p))
          /\ cpu_bitmap' = cpu_bitmap \cup (start..(NbCpus - 1)) /\ state' = "shell"
          /\ UNCHANGED <<shells, p, start, cpu_affinity>>
       \/ /\ At(shells, p) = "number"
          /\ cpu_bitmap' = cpu_bitmap \cup (start..Clamp(shells[p].n))
          /\ p' = p + 1
          /\ state' = IF Ends(At(shells, p + 1)) THEN "shell"
                      ELSE IF At(shells, p + 1) = "," THEN "field" ELSE "error"
          /\ UNCHANGED <<shells, start, cpu_affinity>>
       \/ At(shells, p) \in {"-", ",", "other"} /\ SyntaxError

\* state_3: after the hyphen of an interval. When a comma follows the last
\* CPU it is not skipped: the next field begins with it.
state_3 ==
    /\ state = "state_3"
    /\ \/ /\ Ends(At(shells, p))
          /\ cpu_bitmap' = cpu_bitmap \cup (start..(NbCpus - 1)) /\ state' = "shell"
          /\ UNCHANGED <<shells, p, start, cpu_affinity>>
       \/ /\ At(shells, p) = "number" /\ Clamp(shells[p].n) >= start
          /\ cpu_bitmap' = cpu_bitmap \cup (start..Clamp(shells[p].n))
          /\ p' = p + 1
          /\ state' = IF Ends(At(shells, p + 1)) THEN "shell"
                      ELSE IF At(shells, p + 1) = "," THEN "field" ELSE "error"
          /\ UNCHANGED <<shells, start, cpu_affinity>>
       \/ /\ At(shells, p) = "number" /\ Clamp(shells[p].n) < start
          /\ SyntaxError
       \/ At(shells, p) \in {"-", ",", "other"} /\ SyntaxError

\* Mutant: the last shell of the list is not counted.
ColonsOnly == Cardinality({j \in 1..Len(shells) : shells[j].k = ":"})

\* rsysd_nb_shells: one more than the colons of the list.
rsysd_nb_shells == Cardinality({j \in 1..Len(shells) : shells[j].k = ":"}) + 1

\* rsysd_get_affinity() returns: rsysd_create_shells() goes to the next shell,
\* whose bitmap is zeroed first, or ends the loop, with its assertion.
NextShell ==
    /\ state = "shell"
    /\ cpu_affinity' = Append(cpu_affinity, cpu_bitmap)
    /\ cpu_bitmap' = {}
    /\ IF At(shells, p) = ":"
       THEN p' = p + 1 /\ state' = "field"
       ELSE /\ state' = IF Len(cpu_affinity) = rsysd_nb_shells - 1 THEN "created" ELSE "aborted"
            /\ UNCHANGED p
    /\ UNCHANGED <<shells, start>>

Next == NewField \/ state_2 \/ state_3 \/ NextShell

\* The parser runs without waiting for anything.
Spec == Init /\ [][Next]_vars /\ WF_vars(Next)

-----------------------------------------------------------------------------
(* What rsystemd_en.8 says of a list of shells, without the automaton.     *)

\* The pieces of l between the separators of kind k, by position.
Pieces(l, k) ==
    LET cuts == {0, Len(l) + 1} \cup {j \in 1..Len(l) : l[j].k = k} IN
    {ab \in cuts \X cuts : ab[1] < ab[2] /\ \A c \in cuts : c <= ab[1] \/ c >= ab[2]}

Piece(l, ab) == SubSeq(l, ab[1] + 1, ab[2] - 1)

\* The affinity of the i-th shell, and the fields of an affinity.
Affinity(l, i) ==
    Piece(l, CHOOSE ab \in Pieces(l, ":") :
                Cardinality({j \in 1..ab[1] : l[j].k = ":"}) = i - 1)
Fields(a) == {Piece(a, ab) : ab \in Pieces(a, ",")}

\* An empty first CPU is 0, an empty last CPU the biggest one, and so is a
\* number that is too big.
DocCpu(n) == IF n < NbCpus THEN n ELSE NbCpus - 1
First(f) == IF f # << >> /\ f[1].k = "number" THEN DocCpu(f[1].n) ELSE 0
Last(f) == IF f # << >> /\ f[Len(f)].k = "number" THEN DocCpu(f[Len(f)].n) ELSE NbCpus - 1

IsField(f) ==
    /\ [j \in 1..Len(f) |-> f[j].k] \in
           {<< >>, <<"number">>, <<"-">>, <<"number", "-">>, <<"-", "number">>,
            <<"number", "-", "number">>}
    /\ First(f) <= Last(f)

Documented == \A i \in 1..rsysd_nb_shells : \A f \in Fields(Affinity(shells, i)) : IsField(f)
DocAffinity(i) == UNION {First(f)..Last(f) : f \in Fields(Affinity(shells, i))}

\* In no affinity is an interval followed by another field.
IntervalsLast ==
    \A j, k \in 1..Len(shells) :
        shells[j].k = "-" /\ shells[k].k = "," /\ j < k =>
            \E l \in j..k : shells[l].k = ":"

AsDocumented ==
    /\ state = "created" =>
          /\ Documented
          /\ Len(cpu_affinity) = rsysd_nb_shells
          /\ \A i \in 1..rsysd_nb_shells : cpu_affinity[i] = DocAffinity(i)
    /\ state = "error" => ~Documented

-----------------------------------------------------------------------------
(* Properties.                                                             *)

\* When intervals come last, the automaton accepts exactly the documented
\* lists and gives each shell exactly the CPUs they say.
ReadsIntervalsLast == IntervalsLast => AsDocumented

\* Whatever the list, an accepted one is a documented one, and a shell never
\* has fewer CPUs than asked for.
NeverFewerCpus ==
    state = "created" => /\ Documented
                         /\ \A i \in 1..rsysd_nb_shells : DocAffinity(i) \subseteq cpu_affinity[i]

\* Both: the CPUs of the shells are those of the manual, or more of them behind
\* an interval; and no CPU is beyond the bitmap.
ReadsList == TypeOK /\ ReadsIntervalsLast /\ NeverFewerCpus

\* assert(i == (rsysd_nb_shells - 1)): the automaton stops at each colon that
\* was counted to allocate the table of shells, and at no other place.
ShellsCounted == state # "aborted"

\* The automaton ends on every list, although it goes back to state_1 without
\* having consumed the comma.
ParserEnds == <>(state \in {"created", "error"})
=============================================================================
