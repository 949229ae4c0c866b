--------------------------- MODULE PdipToolProofs ---------------------------
(***************************************************************************)
(* Theorems about PdipTool, for every script, every set of characters and  *)
(* of regular expressions, every text and every exit code.                 *)
(***************************************************************************)
EXTENDS PdipTool, ListLemmas, FiniteSetTheorems

-----------------------------------------------------------------------------
(* Lines.                                                                  *)

\* The least and the greatest of the positions in a text.
LEMMA ExtremeIs ==
  ASSUME NEW n \in Nat, NEW S \in SUBSET (0..n), S # {}
  PROVE  /\ Least(S) \in S /\ \A j \in S : Least(S) <= j
         /\ Greatest(S) \in S /\ \A j \in S : j <= Greatest(S)
<1>1. \E i \in S : \A j \in S : i <= j
  <2>1. S \in SUBSET Nat
    OBVIOUS
  <2> QED BY <2>1, LeastNat
<1>2. \E i \in S : \A j \in S : j <= i
  BY GreatestNat
<1> QED BY <1>1, <1>2 DEF Least, Greatest

\* The ends of the lines of a text are positions in it.
LEMMA NLsIs ==
  ASSUME NEW d \in Seq(Chars)
  PROVE  NLs(d) \in SUBSET (0..Len(d)) /\ NLs(d) \in SUBSET (1..Len(d)) /\ Len(d) \in Nat
<1>1. Len(d) \in Nat
  BY LenProperties
<1> QED BY <1>1 DEF NLs

\* A line is a part of the text.
LEMMA LineIs ==
  ASSUME NEW d \in Seq(Chars), NEW s \in 0..Len(d)
  PROVE  Line(d, s) \in Seq(Chars) /\ Len(Line(d, s)) \in 0..(Len(d) - s)
<1> DEFINE next == {i \in NLs(d) : i > s}
           e == IF next = {} THEN Len(d) ELSE Least(next)
<1>0. Len(d) \in Nat /\ s \in Nat /\ s <= Len(d) /\ next \in SUBSET (0..Len(d))
  BY NLsIs
<1>1. e \in s..Len(d)
  <2>1. CASE next = {}
    BY <1>0, <2>1
  <2>2. CASE next # {}
    <3>1. Least(next) \in next
      <4> HIDE DEF next
      <4> QED BY <1>0, <2>2, ExtremeIs
    <3> QED BY <1>0, <2>2, <3>1
  <2> QED BY <2>1, <2>2
<1>2. Line(d, s) = SubSeq(d, s + 1, e)
  BY DEF Line
<1> HIDE DEF e
<1> DEFINE m == s + 1
<1>3. m \in Int /\ e \in Int /\ \A i \in m..e : d[i] \in Chars
  <2>1. ASSUME NEW i \in m..e PROVE i \in 1..Len(d)
    BY <1>0, <1>1
  <2> QED BY <1>0, <1>1, <2>1, ElementOfSeq
<1>4. SubSeq(d, m, e) \in Seq(Chars) /\ Len(SubSeq(d, m, e)) = IF m <= e THEN e - m + 1 ELSE 0
  <2> HIDE DEF m
  <2> QED BY <1>3, SubSeqProperties
<1>5. (IF m <= e THEN e - m + 1 ELSE 0) \in 0..(Len(d) - s)
  BY <1>0, <1>1
<1> HIDE DEF m
<1> QED BY <1>2, <1>4, <1>5 DEF m

\* The end of a match, with the characters that were skipped, is in the line.
LEMMA UnskippedIs ==
  ASSUME NEW l \in Seq(Chars), NEW n
  PROVE  Unskipped(l, n) \in 0..Len(l)
<1> DEFINE S == {i \in 1..Len(l) : Cardinality({j \in Kept(l) : j < i}) < n}
           I == 1..Len(l)
<1>1. Len(l) \in Nat
  BY LenProperties
<1>2. IsFiniteSet(I) /\ Cardinality(I) = Len(l)
  <2>1. /\ IsFiniteSet(1..Len(l))
        /\ Cardinality(1..Len(l)) = IF 1 > Len(l) THEN 0 ELSE Len(l) - 1 + 1
    BY <1>1, FS_Interval
  <2> QED BY <1>1, <2>1
<1>3. S \in SUBSET I
  OBVIOUS
<1> HIDE DEF S, I
<1>4. Cardinality(S) <= Cardinality(I) /\ IsFiniteSet(S)
  BY <1>2, <1>3, FS_Subset
<1>5. Cardinality(S) \in Nat
  BY <1>4, FS_CardinalityType
<1>6. Cardinality(S) \in 0..Len(l)
  BY <1>1, <1>2, <1>4, <1>5
<1> QED BY <1>6 DEF Unskipped, S

\* What is printed of the text once the expression is found.
LEMMA StopIs ==
  ASSUME NEW d \in Seq(Chars), NEW re, Found(re, d) # {}
  PROVE  Stop(re, d) \in 0..Len(d)
<1> DEFINE s == Least(Found(re, d))
           l == Line(d, s)
           u == Unskipped(l, rm_eo(re, Printable(l)))
<1>1. Len(d) \in Nat /\ Found(re, d) \in SUBSET (0..Len(d))
  BY NLsIs DEF Found
<1>2. s \in Found(re, d)
  BY <1>1, ExtremeIs
<1>3. s \in 0..Len(d)
  BY <1>1, <1>2
<1> HIDE DEF s
<1>4. l \in Seq(Chars) /\ Len(l) \in 0..(Len(d) - s)
  BY <1>3, LineIs
<1> HIDE DEF l
<1>5. u \in 0..Len(l)
  BY <1>4, UnskippedIs
<1>6. Stop(re, d) = s + u
  BY DEF Stop, s, l
<1> HIDE DEF u
<1> QED BY <1>1, <1>3, <1>4, <1>5, <1>6

\* pdip_handle_synchro() prints the beginning of the text, and the expression
\* is not in the incomplete line that it leaves when it has not found it.
LEMMA SynchroIs ==
  ASSUME NEW d \in Seq(Chars), NEW re
  PROVE  LET r == pdip_handle_synchro(re, d)
         IN /\ r.n \in 0..Len(d) /\ r.found \in BOOLEAN
            /\ ~r.found => Found(re, Drop(d, r.n)) = {}
<1> DEFINE r == pdip_handle_synchro(re, d)
<1>0. NLs(d) \in SUBSET (0..Len(d)) /\ NLs(d) \in SUBSET (1..Len(d)) /\ Len(d) \in Nat
  BY NLsIs
<1>1. CASE Found(re, d) # {}
  BY <1>1, StopIs DEF pdip_handle_synchro
<1>2. CASE Found(re, d) = {}
  <2> DEFINE g == IF NLs(d) = {} THEN 0 ELSE Greatest(NLs(d))
             t == Drop(d, g)
  <2>1. r = [found |-> FALSE, n |-> g]
    BY <1>2 DEF pdip_handle_synchro
  <2>2. g \in 0..Len(d) /\ (g = 0 \/ g \in NLs(d)) /\ \A j \in NLs(d) : j <= g
    <3>1. CASE NLs(d) = {}
      BY <1>0, <3>1
    <3>2. CASE NLs(d) # {}
      BY <1>0, <3>2, ExtremeIs
    <3> QED BY <3>1, <3>2
  <2> HIDE DEF g
  <2>3. /\ t \in Seq(Chars) /\ Len(t) = Len(d) - g
        /\ \A i \in 1..(Len(d) - g) : t[i] = d[g + i]
    BY <2>2, CutSeq DEF Drop
  <2> HIDE DEF t
  <2>4. NLs(t) = {}
    <3> SUFFICES ASSUME NEW i \in 1..Len(t), t[i] = NL PROVE FALSE
      BY DEF NLs
    <3>1. i \in 1..(Len(d) - g) /\ g + i \in 1..Len(d) /\ ~(g + i <= g)
      BY <1>0, <2>2, <2>3
    <3>2. g + i \in NLs(d)
      BY <2>3, <3>1 DEF NLs
    <3> QED BY <2>2, <3>1, <3>2
  <2>5. Line(t, 0) = t
    <3>1. Line(t, 0) = SubSeq(t, 0 + 1, Len(t))
      BY <2>4 DEF Line
    <3>2. SubSeq(t, 1, Len(t)) = t
      BY <2>3, SubSeqFull
    <3>3. 0 + 1 = 1
      OBVIOUS
    <3> QED BY <3>1, <3>2, <3>3
  <2>6. Line(d, g) = t
    <3>1. {i \in NLs(d) : i > g} = {}
      BY <1>0, <2>2
    <3> QED BY <3>1 DEF Line, Drop, t
  <2>7. Found(re, t) = {}
    <3> SUFFICES ASSUME t # << >>, IsMatch(re, Printable(Line(t, 0))) PROVE FALSE
      BY <2>4 DEF Found
    <3>1. Len(t) # 0 /\ Len(t) \in Nat
      BY <2>3, EmptySeq, LenProperties
    <3>2. g # Len(d) /\ Len(d) # 0
      BY <1>0, <2>2, <2>3, <3>1
    <3>3. d # << >>
      BY <3>2, EmptySeq
    <3>4. g \in {0} \cup (NLs(d) \ {Len(d)})
      BY <2>2, <3>2
    <3>5. g \in Found(re, d)
      BY <2>5, <2>6, <3>3, <3>4 DEF Found
    <3> QED BY <1>2, <3>5
  <2>8. r.n = g /\ r.found = FALSE
    BY <2>1
  <2> QED BY <2>2, <2>7, <2>8 DEF t
<1> QED BY <1>1, <1>2

-----------------------------------------------------------------------------
(* The processes and SIGCHLD.                                              *)

Places == {"fork", "forked", "loop", "select", "dump", "sh -s", "end", "wait", "kill",
           "killwait", "exited", "aborted"}

\* The handler is installed with the program alone.
Playing == {"fork", "forked", "loop", "select"}

\* Once the tool has reset the flag, it is only set with the status in hand.
DeadReaped == (pc \notin {"fork", "forked"} /\ dead) => child["prog"] = "reaped"

\* As long as the program is alone, its end is either to come and will raise
\* SIGCHLD, or just raised, or seen, unless it came before the flag was reset.
Watched ==
    (pc \in Playing /\ ~ShUsed) =>
        /\ child["prog"] = "running" => handler
        /\ pending <=> child["prog"] = "zombie"
        /\ child["prog"] = "reaped" => early \/ (pc \notin {"fork", "forked"} /\ dead)

\* A process of "sh -s" only exists while it is waited for, without SIGCHLD.
WaitedFor ==
    /\ pc = "sh -s" => ~handler /\ ~pending
    /\ child["sh -s"] \in {"running", "zombie"} => pc = "sh -s"

\* What holds of the processes.
Processes ==
    /\ pc \in Places
    /\ child \in [Children -> {"none", "running", "zombie", "reaped"}]
    /\ handler \in BOOLEAN /\ pending \in BOOLEAN /\ dead \in BOOLEAN
    /\ pidset \in BOOLEAN /\ killed \in BOOLEAN /\ early \in BOOLEAN
    /\ child["prog"] # "none" /\ (pc # "fork" => pidset)
    /\ DeadReaped /\ Watched /\ WaitedFor /\ OneDeath

\* A step which leaves processes and signals alone, and does not go back from
\* the end, from an abort or from "sh -s".
LEMMA CalmKeeps ==
  ASSUME Processes, UNCHANGED << child, handler, pending, early >>, killed' \in BOOLEAN,
         pidset' = TRUE \/ (pidset' = pidset /\ (pc' = pc \/ pc # "fork")),
         \/ pc' = pc
         \/ pc \notin {"sh -s", "aborted"} /\ pc' \in Places \ {"sh -s", "aborted", "fork"},
         pc' \in Playing => pc \in Playing,
         \/ dead' = FALSE /\ pc = "forked"
         \/ dead' = dead /\ (pc' \in {"fork", "forked"} <=> pc \in {"fork", "forked"})
  PROVE  Processes'
<1>1. /\ pc' \in Places /\ dead' \in BOOLEAN /\ handler' \in BOOLEAN /\ pending' \in BOOLEAN
      /\ child' \in [Children -> {"none", "running", "zombie", "reaped"}]
      /\ pidset' \in BOOLEAN /\ early' \in BOOLEAN
      /\ child'["prog"] # "none" /\ (pc' # "fork" => pidset')
  BY DEF Processes, Places
<1>2. DeadReaped'
  BY DEF Processes, DeadReaped
<1>3. Watched'
  BY DEF Processes, Watched, ShUsed
<1>4. WaitedFor'
  BY DEF Processes, WaitedFor
<1>5. OneDeath'
  BY DEF Processes, OneDeath
<1> QED BY <1>1, <1>2, <1>3, <1>4, <1>5 DEF Processes

\* A process ends.
LEMMA EndsKeeps ==
  ASSUME Processes, NEW c \in Children, Ends(c)
  PROVE  Processes'
<1>1. /\ child' = [child EXCEPT ![c] = "zombie"] /\ child[c] = "running"
      /\ pc' = pc /\ pending' = (pending \/ handler)
      /\ UNCHANGED << handler, killed, pidset, dead, early >>
  BY DEF Ends, flags
<1>2. /\ child' \in [Children -> {"none", "running", "zombie", "reaped"}]
      /\ child'[c] = "zombie" /\ \A k \in Children : k # c => child'[k] = child[k]
  BY <1>1 DEF Processes
<1>3. pending' \in BOOLEAN
  BY <1>1
<1>4. DeadReaped'
  BY <1>1, <1>2 DEF Processes, DeadReaped, Children
<1>5. Watched'
  <2> SUFFICES ASSUME pc' \in Playing, ~ShUsed'
               PROVE  /\ child'["prog"] = "running" => handler'
                      /\ pending' <=> child'["prog"] = "zombie"
                      /\ child'["prog"] = "reaped" =>
                            early' \/ (pc' \notin {"fork", "forked"} /\ dead')
    BY DEF Watched
  <2>1. c = "prog"
    BY <1>2 DEF ShUsed, Children
  <2>2. ~ShUsed
    BY <1>2, <2>1 DEF ShUsed, Children
  <2>3. handler
    BY <1>1, <2>1, <2>2 DEF Processes, Watched
  <2> QED BY <1>1, <1>2, <2>1, <2>3
<1>6. WaitedFor'
  BY <1>1, <1>2 DEF Processes, WaitedFor, Children
<1>7. OneDeath'
  BY <1>1, <1>2 DEF Processes, OneDeath, Children
<1>8. child'["prog"] # "none"
  BY <1>1, <1>2 DEF Processes, Children
<1> QED BY <1>1, <1>2, <1>3, <1>4, <1>5, <1>6, <1>7, <1>8 DEF Processes

\* The processes of S are waited for.
LEMMA ReapIs ==
  ASSUME Processes, NEW S \in SUBSET Children, Reap(S)
  PROVE  /\ child' \in [Children -> {"none", "running", "zombie", "reaped"}]
         /\ \A c \in S : child'[c] = "reaped"
         /\ \A c \in Children \ S : child'[c] = child[c]
BY DEF Processes, Reap

\* The handler runs.
LEMMA HandlerKeeps ==
  ASSUME Processes, pdip_sig_chld
  PROVE  Processes'
<1>0. /\ pending /\ pending' = FALSE /\ handler' = FALSE /\ pc # "aborted" /\ pc \in Places
      /\ killed' = killed /\ pidset' = pidset /\ pc # "sh -s" /\ (pc # "fork" => pidset)
      /\ early' = (early \/ (pc \in {"fork", "forked"} /\ Zombies # {})) /\ early \in BOOLEAN
      /\ child["sh -s"] \notin {"running", "zombie"}
  BY DEF pdip_sig_chld, Processes, WaitedFor
<1> DEFINE P(S) ==
               /\ child' = [c \in Children |-> IF c \in S THEN "reaped" ELSE child[c]]
               /\ \/ pc' = pc \/ (pc = "select" /\ pc' = "loop")
                  \/ pc' = "aborted" /\ pidset /\ "prog" \in S /\ \E c \in Zombies : c # "prog"
               /\ \/ dead' = dead /\ ("prog" \in S => ~pidset)
                  \/ "prog" \in S /\ dead' = TRUE
               /\ Zombies \subseteq {"prog"} => S = Zombies
<1>1. PICK S \in SUBSET Zombies : P(S)
  <2>1. CASE Zombies = {} /\ Interrupts /\ UNCHANGED << child, dead >>
    <3>1. P({})
      BY <2>1 DEF Processes, Interrupts
    <3> QED BY <3>1
  <2>2. ASSUME NEW c \in Zombies, Reap({c}), Interrupts, UNCHANGED dead, c # "prog" \/ ~pidset
        PROVE  \E S \in SUBSET Zombies : P(S)
    <3>1. P({c})
      BY <2>2 DEF Reap, Interrupts
    <3> QED BY <3>1
  <2>3. CASE Zombies = {"prog"} /\ Reap({"prog"}) /\ Interrupts /\ dead' = TRUE
    <3>1. P({"prog"})
      BY <2>3 DEF Reap, Interrupts
    <3> QED BY <2>3, <3>1
  <2>4. ASSUME NEW c \in Zombies \ {"prog"}, Reap({"prog", c}), pc' = "aborted", dead' = TRUE,
               "prog" \in Zombies, pidset
        PROVE  \E S \in SUBSET Zombies : P(S)
    <3>1. P({"prog", c})
      BY <2>4 DEF Reap
    <3> QED BY <2>4, <3>1
  <2> HIDE DEF P
  <2> QED BY <2>1, <2>2, <2>3, <2>4 DEF pdip_sig_chld
<1>2. /\ child' \in [Children -> {"none", "running", "zombie", "reaped"}]
      /\ \A c \in S : child'[c] = "reaped" /\ child[c] = "zombie"
      /\ \A c \in Children \ S : child'[c] = child[c]
  BY <1>1 DEF Processes, Zombies
<1>3. pc' \in Places /\ dead' \in BOOLEAN
  BY <1>0, <1>1 DEF Processes, Places
<1>4. DeadReaped'
  <2>1. CASE "prog" \in S
    BY <1>2, <2>1 DEF DeadReaped
  <2>2. CASE "prog" \notin S
    <3>1. child'["prog"] = child["prog"] /\ dead' = dead
      BY <1>1, <1>2, <2>2 DEF Children
    <3>2. pc' \in {"fork", "forked"} \/ pc \notin {"fork", "forked"}
      BY <1>1, <2>2
    <3> QED BY <3>1, <3>2 DEF Processes, DeadReaped
  <2> QED BY <2>1, <2>2
<1>5. Watched'
  <2> SUFFICES ASSUME pc' \in Playing, ~ShUsed'
               PROVE  /\ child'["prog"] = "running" => handler'
                      /\ pending' <=> child'["prog"] = "zombie"
                      /\ child'["prog"] = "reaped" =>
                            early' \/ (pc' \notin {"fork", "forked"} /\ dead')
    BY DEF Watched
  <2>1. ~ShUsed
    BY <1>2 DEF ShUsed, Children
  <2>2. pc \in Playing
    BY <1>0, <1>1 DEF Playing
  <2>3. child["prog"] = "zombie" /\ Zombies = {"prog"}
    BY <1>0, <2>1, <2>2 DEF Processes, Watched, Zombies, ShUsed, Children
  <2>4. S = {"prog"}
    BY <1>1, <2>3
  <2>5. early' \/ (pc' \notin {"fork", "forked"} /\ dead')
    <3>1. CASE pc \in {"fork", "forked"}
      BY <1>0, <2>3, <3>1
    <3>2. CASE pc \notin {"fork", "forked"}
      BY <1>0, <1>1, <2>4, <3>2
    <3> QED BY <3>1, <3>2
  <2> QED BY <1>0, <1>2, <2>4, <2>5
<1>6. WaitedFor'
  BY <1>0, <1>1, <1>2 DEF WaitedFor, Children
<1>7. OneDeath'
  <2> SUFFICES ASSUME pc' = "aborted" PROVE child'["sh"] # "none"
    BY DEF OneDeath
  <2>1. PICK c \in Zombies : c # "prog"
    BY <1>0, <1>1
  <2>2. c = "sh"
    BY <1>0, <2>1 DEF Zombies, Children
  <2> QED BY <1>2, <2>1, <2>2 DEF Zombies, Children
<1>8. child'["prog"] # "none" /\ (pc' # "fork" => pidset') /\ early' \in BOOLEAN
  <2>1. child'["prog"] # "none"
    BY <1>2 DEF Processes, Children
  <2>2. pc' # "fork" => pidset'
    BY <1>0, <1>1
  <2> QED BY <1>0, <2>1, <2>2
<1> QED BY <1>0, <1>2, <1>3, <1>4, <1>5, <1>6, <1>7, <1>8 DEF Processes

\* The steps that end the interaction with the data they have read.
Abandoned == pdip_dump_outstanding_data \/ NoMemory

\* Every step keeps the processes in order.
LEMMA ProcessesStep ==
  ASSUME Processes, [Next]_vars
  PROVE  Processes'
<1> USE DEF Places, Playing
<1>0. killed \in BOOLEAN /\ pidset \in BOOLEAN /\ dead \in BOOLEAN /\ pc \in Places
  BY DEF Processes
<1>1. CASE ProgramWrites
  BY <1>0, <1>1, CalmKeeps DEF ProgramWrites, sigs, procs, flags
<1>2. ASSUME NEW c \in Children, Ends(c) PROVE Processes'
  BY <1>2, EndsKeeps
<1>3. CASE pdip_sig_chld
  BY <1>3, HandlerKeeps
<1>4. CASE Forked
  BY <1>0, <1>4, CalmKeeps DEF Forked, sigs, procs
<1>5. CASE Started
  BY <1>0, <1>5, CalmKeeps DEF Started, sigs, procs
<1>6. CASE Dead \/ Select \/ Timeout \/ Abandoned \/ ReadError \/ EndOfInput
  BY <1>0, <1>6, CalmKeeps
     DEF Dead, Select, Timeout, Abandoned, pdip_dump_outstanding_data, NoMemory, ReadError,
         EndOfInput, EndsWith, sigs, procs, flags
<1>7. CASE Data \/ TerminalData \/ TerminalSends \/ recv
  BY <1>0, <1>7, CalmKeeps
     DEF Data, TerminalData, TerminalSends, recv, Reads, sigs, procs, flags
<1>8. CASE Close \/ pdip_sig_alarm
  BY <1>0, <1>8, CalmKeeps DEF Close, pdip_sig_alarm, Exits, sigs, procs, flags
<1>9. CASE Kill
  <2>1. killed' \in BOOLEAN
    BY <1>0, <1>9 DEF Kill
  <2> QED BY <1>0, <1>9, <2>1, CalmKeeps DEF Kill, sigs, flags
<1>10. CASE Wait
  <2>1. pc \in {"wait", "killwait"} /\ pc' = "exited" /\ UNCHANGED << sigs, killed, early, flags >>
    BY <1>10 DEF Wait, Exits
  <2>2. CASE UNCHANGED child
    BY <1>0, <2>1, <2>2, CalmKeeps DEF sigs, flags
  <2>3. ASSUME NEW c \in Zombies, Reap({c}) PROVE Processes'
    <3>1. c \in Children /\ child[c] = "zombie"
      BY DEF Zombies
    <3>2. /\ child' \in [Children -> {"none", "running", "zombie", "reaped"}]
          /\ child'[c] = "reaped" /\ \A k \in Children \ {c} : child'[k] = child[k]
      BY <2>3, <3>1, ReapIs
    <3>3. DeadReaped'
      BY <2>1, <3>1, <3>2 DEF Processes, DeadReaped, Children, flags
    <3>4. WaitedFor'
      BY <2>1, <3>1, <3>2 DEF Processes, WaitedFor, Children, sigs
    <3>5. Watched' /\ OneDeath'
      BY <2>1 DEF Watched, OneDeath
    <3>6. child'["prog"] # "none" /\ (pc' # "fork" => pidset')
      BY <2>1, <3>1, <3>2 DEF Processes, Children, flags
    <3> QED BY <2>1, <3>2, <3>3, <3>4, <3>5, <3>6 DEF Processes, sigs, flags
  <2> QED BY <1>10, <2>2, <2>3 DEF Wait
<1>11. ASSUME NEW k, GoesOn(k) PROVE Processes'
  <2>1. pc = "select" /\ pc' = "loop" /\ UNCHANGED << handler, pending, killed, pidset, dead, early >>
    BY <1>11 DEF GoesOn, Reads, sigs, flags
  <2>2. CASE k # "sh"
    BY <1>0, <1>11, <2>1, <2>2, CalmKeeps DEF GoesOn
  <2>3. CASE k = "sh"
    <3>1. child' = [child EXCEPT !["sh"] = "running"]
      BY <1>11, <2>3 DEF GoesOn
    <3>2. /\ child' \in [Children -> {"none", "running", "zombie", "reaped"}]
          /\ child'["sh"] = "running" /\ child'["prog"] = child["prog"]
          /\ child'["sh -s"] = child["sh -s"]
      BY <3>1 DEF Processes, Children
    <3>3. DeadReaped' /\ Watched' /\ WaitedFor' /\ OneDeath'
      BY <2>1, <3>2 DEF Processes, DeadReaped, Watched, ShUsed, WaitedFor, OneDeath
    <3> QED BY <2>1, <3>2, <3>3 DEF Processes
  <2> QED BY <2>2, <2>3
<1>12. ASSUME NEW k, Stops(k) PROVE Processes'
  <2>1. /\ pc = "select" /\ pc' = "end" /\ UNCHANGED << child, killed, pidset, dead, early >>
        /\ handler' \in BOOLEAN /\ pending' \in BOOLEAN
    BY <1>12 DEF Stops, Reads, EndsWith, procs, flags
  <2>2. DeadReaped' /\ Watched' /\ WaitedFor' /\ OneDeath'
    BY <2>1 DEF Processes, DeadReaped, Watched, WaitedFor, OneDeath
  <2> QED BY <2>1, <2>2 DEF Processes
<1>13. CASE ShSync
  <2>1. /\ pc = "select" /\ pc' = "sh -s" /\ handler' = FALSE /\ pending' = FALSE
        /\ UNCHANGED << killed, pidset, dead, early >>
        /\ child' = [child EXCEPT !["sh -s"] = "running"]
    BY <1>13 DEF ShSync, Reads, flags
  <2>2. /\ child' \in [Children -> {"none", "running", "zombie", "reaped"}]
        /\ child'["sh -s"] = "running" /\ child'["prog"] = child["prog"]
    BY <2>1 DEF Processes, Children
  <2>3. DeadReaped' /\ Watched' /\ WaitedFor' /\ OneDeath'
    BY <2>1, <2>2 DEF Processes, DeadReaped, Watched, WaitedFor, OneDeath
  <2> QED BY <2>1, <2>2, <2>3 DEF Processes
<1>14. CASE ShSyncEnds
  <2>1. /\ pc = "sh -s" /\ pc' \in {"loop", "end"} /\ UNCHANGED << pending, killed, pidset, dead, early >>
        /\ ~pending /\ ~handler
    BY <1>14 DEF ShSyncEnds, EndsWith, flags, Processes, WaitedFor
  <2>2. /\ child' \in [Children -> {"none", "running", "zombie", "reaped"}]
        /\ child'["sh -s"] = "reaped" /\ child'["prog"] = child["prog"]
        /\ handler' \in BOOLEAN
    <3>1. CASE Reap({"sh -s"}) /\ handler' = TRUE
      BY <3>1 DEF Processes, Reap, Children
    <3>2. CASE child["sh -s"] = "reaped" /\ UNCHANGED << child, handler >>
      BY <3>2 DEF Processes
    <3> QED BY <1>14, <3>1, <3>2 DEF ShSyncEnds
  <2>3. DeadReaped' /\ Watched' /\ WaitedFor' /\ OneDeath'
    BY <2>1, <2>2 DEF Processes, DeadReaped, Watched, ShUsed, WaitedFor, OneDeath
  <2> QED BY <2>1, <2>2, <2>3 DEF Processes
<1>15. CASE UNCHANGED vars
  BY <1>0, <1>15, CalmKeeps DEF vars, sigs, procs, flags
<1> QED BY <1>1, <1>2, <1>3, <1>4, <1>5, <1>6, <1>7, <1>8, <1>9, <1>10, <1>11, <1>12, <1>13,
          <1>14, <1>15 DEF Next, ToolSteps, UserSteps, Killed, Children, Abandoned

\* The processes are in order when the tool starts.
LEMMA ProcessesInit == Init => Processes
BY DEF Init, Processes, Places, Playing, DeadReaped, Watched, WaitedFor, OneDeath, Children, ShUsed

\* Once the program is dead, be it waited for or not, its death is seen or its
\* signal is pending, for every script that does not use sh and unless the handler
\* ran before main() reset its flag; and the assertion of the handler, that no
\* other process has ended, only fails after sh without -s.
THEOREM ToolSeesDeath == Spec => []DeathSeen
<1>1. Processes => DeathSeen
  <2> SUFFICES ASSUME Processes, pc \in {"loop", "select"}, child["prog"] # "running", ~ShUsed
               PROVE  dead \/ pending \/ early
    BY DEF DeathSeen, DeathPending, Processes
  <2>1. child["prog"] \in {"zombie", "reaped"}
    BY DEF Processes, Children
  <2> QED BY <2>1 DEF Processes, Watched, Playing
<1>2. Processes /\ [Next]_vars => Processes'
  BY ProcessesStep
<1> QED BY <1>1, <1>2, ProcessesInit, PTL DEF Spec

\* The tool does not leave the program running behind it, once it has waited for
\* it, unless it has waited for a process of sh instead.
THEOREM ToolLeavesNoOrphan == Spec => NoOrphan
<1> DEFINE A == (pc \in {"end", "wait", "killwait"} /\ pc' = "exited" /\ child'["prog"] = "running")
                => child["sh"] = "zombie" \/ child["sh -s"] = "zombie"
<1>1. ASSUME Processes, Next PROVE A
  <2> SUFFICES ASSUME pc \in {"end", "wait", "killwait"}, pc' = "exited",
                      child'["prog"] = "running"
               PROVE  child["sh"] = "zombie" \/ child["sh -s"] = "zombie"
    OBVIOUS
  <2>1. CASE Close \/ pdip_sig_alarm
    <3>1. UNCHANGED child /\ dead
      BY <2>1 DEF Close, pdip_sig_alarm, Exits, procs
    <3> QED BY <1>1, <3>1 DEF Processes, DeadReaped
  <2>2. CASE Wait
    <3>1. CASE NoChild /\ UNCHANGED child
      BY <3>1 DEF NoChild, Children
    <3>2. ASSUME NEW c \in Zombies, Reap({c}) PROVE child["sh"] = "zombie" \/ child["sh -s"] = "zombie"
      BY <3>2 DEF Reap, Zombies, Children
    <3> QED BY <2>2, <3>1, <3>2 DEF Wait
  <2>3. CASE pdip_sig_chld
    BY <2>3 DEF pdip_sig_chld, Interrupts
  <2> QED BY <1>1, <2>1, <2>2, <2>3
          DEF Next, ToolSteps, UserSteps, Forked, Started, Dead, Select, Timeout, Data,
              TerminalData, ReadError, ShSyncEnds, Kill, EndOfInput, TerminalSends, recv, ShSync,
              GoesOn, Stops, Reads, EndsWith, ProgramWrites, Ends, Killed,
              pdip_dump_outstanding_data, NoMemory
<1>2. Processes /\ [Next]_vars => Processes' /\ [A]_vars
  BY <1>1, ProcessesStep
<1> QED BY <1>2, ProcessesInit, PTL DEF Spec, NoOrphan

-----------------------------------------------------------------------------
(* The text.                                                               *)

\* Texts put together.
LEMMA Assoc ==
  ASSUME NEW a \in Seq(Chars), NEW b \in Seq(Chars), NEW c \in Seq(Chars)
  PROVE  /\ (a \o b) \o c = a \o (b \o c) /\ a \o b \in Seq(Chars)
         /\ a \o << >> = a /\ << >> \o a = a
         /\ Len(a) \in Nat /\ Len(b) \in Nat /\ Len(a \o b) = Len(a) + Len(b)
<1>1. Associates(a, b, c)
  BY ConcatAssociates
<1>2. a \o b \in Seq(Chars) /\ Len(a \o b) = Len(a) + Len(b)
  BY ConcatProperties
<1>3. a \o << >> = a /\ << >> \o a = a
  BY ConcatEmptySeq
<1>4. Len(a) \in Nat /\ Len(b) \in Nat
  BY LenProperties
<1> QED BY <1>1, <1>2, <1>3, <1>4 DEF Associates

\* The three places where the text of the program is.
Texts == printed \in Seq(Chars) /\ outstanding \in Seq(Chars) /\ pty \in Seq(Chars)

\* What the steps of the tool do of the text: they move it, but keep the whole.
Moved == Texts' /\ Text' = Text /\ Len(printed) <= Len(printed')

\* The text, read as what is printed and what is not.
LEMMA TextIs ==
  ASSUME Texts
  PROVE  /\ Text = printed \o (outstanding \o pty) /\ Text \in Seq(Chars)
         /\ outstanding \o pty \in Seq(Chars)
         /\ Len(printed) \in Nat /\ Len(printed) <= Len(Text) /\ Len(Text) \in Nat
<1>1. outstanding \o pty \in Seq(Chars) /\ Text = printed \o (outstanding \o pty)
  <2>1. Associates(printed, outstanding, pty)
    BY ConcatAssociates DEF Texts
  <2>2. outstanding \o pty \in Seq(Chars)
    BY ConcatProperties DEF Texts
  <2> QED BY <2>1, <2>2 DEF Text, Associates
<1>2. Text \in Seq(Chars) /\ Len(printed) \in Nat /\ Len(outstanding \o pty) \in Nat
      /\ Len(Text) = Len(printed) + Len(outstanding \o pty)
  BY <1>1, Assoc DEF Texts
<1> QED BY <1>1, <1>2

\* Nothing moves.
LEMMA StaysMoved ==
  ASSUME Texts, UNCHANGED << printed, outstanding, pty >>
  PROVE  Moved
<1>1. Len(printed) \in Nat
  BY TextIs
<1> QED BY <1>1 DEF Moved, Texts, Text

\* The beginning d of what is not printed moves, q being left in the terminal.
LEMMA CutMoved ==
  ASSUME Texts, NEW d \in Seq(Chars), NEW q \in Seq(Chars), NEW n \in 0..Len(d),
         outstanding \o pty = d \o q, pty' = q,
         printed' = printed \o Take(d, n), outstanding' = Drop(d, n)
  PROVE  Moved
<1> DEFINE a == Take(d, n)
           b == Drop(d, n)
<1>1. a \in Seq(Chars) /\ b \in Seq(Chars) /\ a \o b = d
  BY CutSeq DEF Take, Drop
<1>2. printed' = printed \o a /\ outstanding' = b
  OBVIOUS
<1> HIDE DEF a, b
<1>3. printed \in Seq(Chars) /\ a \in Seq(Chars) /\ b \in Seq(Chars) /\ q \in Seq(Chars)
  BY <1>1 DEF Texts
<1>4. /\ printed \o a \in Seq(Chars)
      /\ Len(printed) \in Nat /\ Len(a) \in Nat /\ Len(printed \o a) = Len(printed) + Len(a)
  BY <1>3, Assoc
<1>5. Texts' /\ Len(printed) <= Len(printed')
  BY <1>2, <1>3, <1>4 DEF Texts
<1>6. ((printed \o a) \o b) \o q = printed \o ((a \o b) \o q)
  <2>1. Associates(printed, a, b)
    BY <1>3, ConcatAssociates
  <2> DEFINE c == a \o b
  <2>2. c \in Seq(Chars)
    BY <1>3, ConcatProperties
  <2> HIDE DEF c
  <2>3. Associates(printed, c, q)
    BY <1>3, <2>2, ConcatAssociates
  <2> QED BY <2>1, <2>3 DEF c, Associates
<1>7. Text = printed \o (d \o q)
  BY TextIs
<1>8. Text' = ((printed \o a) \o b) \o q
  BY <1>2 DEF Text
<1>9. Text' = Text
  BY <1>1, <1>6, <1>7, <1>8
<1> QED BY <1>5, <1>9 DEF Moved

\* A text that is printed entirely, or not at all.
LEMMA WholeMoved ==
  ASSUME NEW d \in Seq(Chars)
  PROVE  /\ Len(d) \in 0..Len(d) /\ Take(d, Len(d)) = d /\ Drop(d, Len(d)) = << >>
         /\ 0 \in 0..Len(d) /\ Take(d, 0) = << >> /\ Drop(d, 0) = d
<1>1. Len(d) \in Nat
  BY LenProperties
<1>2. Len(d) \in 0..Len(d) /\ 0 \in 0..Len(d) /\ Len(d) - Len(d) = 0
  BY <1>1
<1>3. Drop(d, Len(d)) = << >>
  <2>1. Drop(d, Len(d)) \in Seq(Chars) /\ Len(Drop(d, Len(d))) = 0
    BY <1>2, CutSeq DEF Drop
  <2> QED BY <2>1, EmptySeq
<1>4. Take(d, Len(d)) = d
  BY SubSeqFull DEF Take
<1>5. Take(d, 0) = << >>
  <2>1. Take(d, 0) \in Seq(Chars) /\ Len(Take(d, 0)) = 0
    BY <1>2, CutSeq DEF Take
  <2> QED BY <2>1, EmptySeq
<1>6. Drop(d, 0) = d
  <2>1. Drop(d, 0) = SubSeq(d, 0 + 1, Len(d)) /\ 0 + 1 = 1
    BY DEF Drop
  <2>2. SubSeq(d, 1, Len(d)) = d
    BY SubSeqFull
  <2> QED BY <2>1, <2>2
<1> QED BY <1>2, <1>3, <1>4, <1>5, <1>6

\* pdip_handle_synchro() on the text d, when q is left in the terminal.
LEMMA SynchronizeIs ==
  ASSUME Texts, NEW d \in Seq(Chars), NEW q \in Seq(Chars), outstanding \o pty = d \o q,
         pty' = q, NEW re, Synchronize(re, d), backread \in BOOLEAN, to \in BOOLEAN
  PROVE  /\ Moved /\ synchro' \in {re, NoRegex}
         /\ synchro' # NoRegex => Found(synchro', outstanding') = {}
         /\ fd_program' \in BOOLEAN /\ timeout' \in BOOLEAN
<1> DEFINE r == pdip_handle_synchro(re, d)
<1>1. /\ r.n \in 0..Len(d) /\ r.found \in BOOLEAN
      /\ ~r.found => Found(re, Drop(d, r.n)) = {}
  BY SynchroIs
<1>2. /\ printed' = printed \o Take(d, r.n) /\ outstanding' = Drop(d, r.n)
      /\ synchro' = (IF r.found THEN NoRegex ELSE re)
      /\ fd_program' = (backread \/ ~r.found) /\ timeout' = (to /\ ~r.found)
  BY DEF Synchronize
<1> HIDE DEF r
<1>3. Moved
  <2> DEFINE n == r.n
  <2>1. n \in 0..Len(d) /\ printed' = printed \o Take(d, n) /\ outstanding' = Drop(d, n)
    BY <1>1, <1>2
  <2> HIDE DEF n
  <2> QED BY <2>1, CutMoved
<1>4. synchro' \in {re, NoRegex} /\ (synchro' # NoRegex => Found(synchro', outstanding') = {})
  BY <1>1, <1>2
<1>5. fd_program' \in BOOLEAN /\ timeout' \in BOOLEAN
  BY <1>2
<1> QED BY <1>3, <1>4, <1>5

\* A terminal keeps nothing, and nothing is waited for before the script is read
\* nor while a process of "sh -s" runs.
Quiet ==
    /\ mode = "terminal" => synchro = NoRegex /\ outstanding = << >>
    /\ pc \in {"fork", "forked", "sh -s"} => synchro = NoRegex

\* Options, script and results.
Control ==
    /\ script \in Scripts /\ mode \in Modes /\ backread \in BackRead /\ code \in Codes
    /\ line \in 0..Len(script)
    /\ synchro \in Regex \cup {NoRegex}
    /\ fd_program \in BOOLEAN /\ to \in BOOLEAN /\ timeout \in BOOLEAN
    /\ rc \in {0, -1, -2} /\ exit \in {-1, 1} \cup Codes \cup {0} /\ exit_prog \in Codes \cup {0}

\* The steps that leave the text where it is.
Still ==
    \/ pdip_sig_chld \/ Forked \/ Started \/ Select \/ Timeout \/ ReadError
    \/ ShSyncEnds \/ Close \/ Wait \/ pdip_sig_alarm \/ Kill \/ TerminalSends \/ ShSync
    \/ (\E k \in {"timeout", "timeout 0", "send", "sig", "other", "sh"} : GoesOn(k))
    \/ (\E k \in {"exit", "bad", "sh", "sh -s", "send", "sig"} : Stops(k))
    \/ (\E c \in Children : Ends(c)) \/ UNCHANGED vars

\* They do, and with it what is waited for.
LEMMA StillIs ==
  ASSUME Still
  PROVE  UNCHANGED << printed, outstanding, pty, synchro, mark, conf >>
BY DEF Still, pdip_sig_chld, Forked, Started, Select, Timeout, ReadError, ShSyncEnds, Close, Wait,
       pdip_sig_alarm, Kill, TerminalSends, ShSync, GoesOn, Stops, Ends, talk, vars

\* The other ones.
LEMMA StepsAre ==
  ASSUME [Next]_vars
  PROVE  Still \/ Abandoned \/ Dead \/ Data \/ TerminalData \/ EndOfInput \/ recv \/ ProgramWrites
BY DEF Next, ToolSteps, UserSteps, Killed, Children, Still, Abandoned

\* What is read with recv, and what it is looked for in.
LEMMA RecvIs ==
  ASSUME Texts, Control, recv
  PROVE  /\ Moved /\ synchro' \in Regex \cup {NoRegex}
         /\ synchro' # NoRegex => Found(synchro', outstanding') = {}
         /\ fd_program' \in BOOLEAN /\ timeout' \in BOOLEAN
<1> DEFINE i == line + 1
           re == script[line'].re
<1>1. line' = i /\ i \in 1..Len(script) /\ script[i].k = "recv"
  <2>1. line' = i /\ line < Len(script) /\ script[i].k = "recv"
    BY DEF recv, Reads
  <2>2. Len(script) \in Nat /\ line \in Nat
    BY LenProperties, ToolAssumption DEF Control
  <2> QED BY <2>1, <2>2
<1>2. re \in Regex
  BY <1>1, ToolAssumption DEF Control
<1>3. pty' = pty /\ Synchronize(re, outstanding)
  BY DEF recv
<1> HIDE DEF re
<1>4. backread \in BOOLEAN /\ to \in BOOLEAN
  BY ToolAssumption DEF Control
<1>5. outstanding \in Seq(Chars) /\ pty \in Seq(Chars)
  BY DEF Texts
<1>6. /\ Moved /\ synchro' \in {re, NoRegex}
      /\ synchro' # NoRegex => Found(synchro', outstanding') = {}
      /\ fd_program' \in BOOLEAN /\ timeout' \in BOOLEAN
  BY <1>3, <1>4, <1>5, SynchronizeIs
<1> QED BY <1>2, <1>6

\* Data are looked at if an expression is waited for, and kept otherwise.
LEMMA DataIs ==
  ASSUME Texts, Control, Data
  PROVE  /\ Moved /\ synchro' \in {synchro, NoRegex}
         /\ synchro' # NoRegex => Found(synchro', outstanding') = {}
         /\ fd_program' \in BOOLEAN /\ timeout' \in BOOLEAN
<1> DEFINE d == outstanding \o pty
<1>1. d \in Seq(Chars) /\ << >> \in Seq(Chars) /\ printed \in Seq(Chars)
  BY TextIs, EmptySeq DEF Texts
<1>2. outstanding \o pty = d \o << >>
  <2>1. d \o << >> = d
    <3> HIDE DEF d
    <3> QED BY <1>1, Assoc
  <2> QED BY <2>1
<1>3. pty' = << >>
  BY DEF Data
<1>4. backread \in BOOLEAN /\ to \in BOOLEAN /\ fd_program \in BOOLEAN
  BY ToolAssumption DEF Control
<1>5. CASE synchro = NoRegex /\ outstanding' = d /\ timeout' = FALSE
           /\ UNCHANGED << synchro, fd_program, printed >>
  <2>1. 0 \in 0..Len(d) /\ outstanding' = Drop(d, 0) /\ Take(d, 0) = << >>
    <3> HIDE DEF d
    <3> QED BY <1>1, <1>5, WholeMoved
  <2>2. printed' = printed \o Take(d, 0)
    BY <1>1, <1>5, <2>1, Assoc
  <2>3. Moved
    <3> HIDE DEF d
    <3> QED BY <1>1, <1>2, <1>3, <2>1, <2>2, CutMoved
  <2> QED BY <1>4, <1>5, <2>3
<1>6. CASE synchro # NoRegex /\ Synchronize(synchro, d)
  <2> HIDE DEF d
  <2> QED BY <1>1, <1>2, <1>3, <1>4, <1>6, SynchronizeIs
<1> QED BY <1>5, <1>6 DEF Data

\* The text is moved to its end by the death of the program, to a terminal or at
\* the end of the input.
LEMMA FlushMoves ==
  ASSUME Texts, Quiet, Dead \/ TerminalData \/ EndOfInput
  PROVE  Moved /\ synchro' = synchro
<1>0. printed \in Seq(Chars) /\ outstanding \in Seq(Chars) /\ pty \in Seq(Chars)
      /\ << >> \in Seq(Chars)
  BY EmptySeq DEF Texts
<1>1. synchro' = synchro
  BY DEF Dead, TerminalData, EndOfInput
<1>2. CASE Dead /\ mode = "terminal" /\ UNCHANGED << printed, outstanding, pty >>
  BY <1>1, <1>2, StaysMoved
<1>3. ASSUME NEW d \in Seq(Chars), NEW q \in Seq(Chars), outstanding \o pty = d \o q,
             printed' = printed \o d, outstanding' = << >>, pty' = q
      PROVE  Moved
  <2>1. Len(d) \in 0..Len(d) /\ Take(d, Len(d)) = d /\ Drop(d, Len(d)) = << >>
    BY WholeMoved
  <2> DEFINE n == Len(d)
  <2>2. n \in 0..Len(d) /\ printed' = printed \o Take(d, n) /\ outstanding' = Drop(d, n)
    BY <1>3, <2>1
  <2> HIDE DEF n
  <2> QED BY <1>3, <2>2, CutMoved
<1>4. CASE printed' = Text /\ outstanding' = << >> /\ pty' = << >>
  <2> DEFINE d == outstanding \o pty
  <2>1. d \in Seq(Chars) /\ printed' = printed \o d
    BY <1>4, TextIs
  <2>2. d \o << >> = d
    <3> HIDE DEF d
    <3> QED BY <2>1, Assoc
  <2>3. outstanding \o pty = d \o << >>
    BY <2>2
  <2> HIDE DEF d
  <2> QED BY <1>0, <1>1, <1>3, <1>4, <2>1, <2>3
<1>5. CASE TerminalData
  <2>1. outstanding = << >> /\ outstanding' = << >> /\ printed' = printed \o pty /\ pty' = << >>
    BY <1>5 DEF Quiet, TerminalData
  <2>2. outstanding \o pty = pty \o << >>
    BY <1>0, <2>1, Assoc
  <2> QED BY <1>0, <1>1, <1>3, <2>1, <2>2
<1>6. CASE EndOfInput
  <2>1. printed' = printed \o outstanding /\ outstanding' = << >> /\ pty' = pty
    BY <1>6 DEF EndOfInput
  <2> QED BY <1>0, <1>1, <1>3, <2>1
<1> QED BY <1>2, <1>4, <1>5, <1>6 DEF Dead

\* What is lost by a timeout or for lack of memory; the interaction has failed.
LEMMA AbandonedIs ==
  ASSUME Texts, Quiet, Abandoned
  PROVE  /\ Texts' /\ Len(Text') <= Len(Text) /\ printed' = printed
         /\ pc' = "end" /\ rc' \in {-1, -2} /\ exit' = exit
         /\ mode = "terminal" => outstanding' = << >>
         /\ UNCHANGED << conf, line, synchro, fd_program, to, timeout, mark, exit_prog >>
<1>1. /\ pty' = << >> /\ outstanding' \in {outstanding, << >>, outstanding \o pty}
      /\ mode = "terminal" => outstanding' = << >>
  BY DEF Quiet, Abandoned, pdip_dump_outstanding_data, NoMemory
<1>2. /\ printed' = printed /\ pc' = "end" /\ rc' \in {-1, -2} /\ exit' = exit
      /\ UNCHANGED << conf, line, synchro, fd_program, to, timeout, mark, exit_prog >>
  BY DEF Abandoned, pdip_dump_outstanding_data, NoMemory, EndsWith, flags
<1>3. /\ printed \in Seq(Chars) /\ outstanding \in Seq(Chars) /\ pty \in Seq(Chars)
      /\ << >> \in Seq(Chars) /\ Len(<< >>) = 0
  BY EmptySeq DEF Texts
<1> DEFINE o == outstanding'
<1>4. o \in Seq(Chars) /\ Len(o) <= Len(outstanding) + Len(pty) /\ Len(o) \in Nat
  <2>1. /\ outstanding \o pty \in Seq(Chars) /\ Len(outstanding) \in Nat /\ Len(pty) \in Nat
        /\ Len(outstanding \o pty) = Len(outstanding) + Len(pty)
    BY <1>3, Assoc
  <2> DEFINE u == outstanding \o pty
             e == << >>
  <2>2. /\ o \in {outstanding, e, u} /\ e \in Seq(Chars) /\ Len(e) = 0
        /\ u \in Seq(Chars) /\ Len(u) = Len(outstanding) + Len(pty)
        /\ outstanding \in Seq(Chars)
    BY <1>1, <1>3, <2>1
  <2> HIDE DEF o, u, e
  <2>3. CASE o = outstanding
    BY <2>1, <2>2, <2>3
  <2>4. CASE o = e
    BY <2>1, <2>2, <2>4
  <2>5. CASE o = u
    BY <2>1, <2>2, <2>5
  <2> QED BY <2>2, <2>3, <2>4, <2>5
<1> HIDE DEF o
<1>5. /\ printed \o o \in Seq(Chars) /\ (printed \o o) \o << >> = printed \o o
      /\ Len(printed \o o) = Len(printed) + Len(o)
  <2>1. printed \o o \in Seq(Chars) /\ Len(printed \o o) = Len(printed) + Len(o)
    BY <1>3, <1>4, Assoc
  <2> DEFINE w == printed \o o
  <2> HIDE DEF w
  <2>2. w \in Seq(Chars)
    BY <2>1 DEF w
  <2>3. w \o << >> = w
    BY <1>3, <2>2, Assoc
  <2> QED BY <2>1, <2>3 DEF w
<1>6. Len(Text') = Len(printed) + Len(o)
  <2>1. Text' = (printed \o o) \o << >>
    BY <1>1, <1>2 DEF Text, o
  <2> QED BY <1>5, <2>1
<1>7. Len(Text) = Len(printed) + (Len(outstanding) + Len(pty)) /\ Len(printed) \in Nat
      /\ Len(outstanding) \in Nat /\ Len(pty) \in Nat
  <2>1. Text = printed \o (outstanding \o pty) /\ outstanding \o pty \in Seq(Chars)
    BY TextIs
  <2>2. Len(Text) = Len(printed) + Len(outstanding \o pty) /\ Len(printed) \in Nat
    BY <1>3, <2>1, Assoc
  <2>3. /\ Len(outstanding \o pty) = Len(outstanding) + Len(pty)
        /\ Len(outstanding) \in Nat /\ Len(pty) \in Nat
    BY <1>3, Assoc
  <2> QED BY <2>2, <2>3
<1>8. Len(Text') <= Len(Text)
  BY <1>4, <1>6, <1>7
<1>9. Texts'
  BY <1>1, <1>2, <1>3, <1>4 DEF Texts, o
<1> QED BY <1>1, <1>2, <1>8, <1>9

\* The interaction is over.
Late == {"end", "wait", "kill", "killwait", "exited"}

\* When the death of the program has ended a recv, nothing is left to print and
\* nothing can come any more.
Spoken ==
    (pc \in Late /\ synchro # NoRegex /\ rc = 0) =>
        outstanding = << >> /\ pty = << >> /\ child["prog"] = "reaped"

\* The inductive invariant.
ToolInv ==
    /\ Processes /\ Control /\ Texts
    /\ Len(Text) <= MaxText /\ mark \in 0..Len(printed)
    /\ NothingMissed /\ Quiet /\ Spoken

\* It implies TextInv.
LEMMA ToolInvIs ==
  ASSUME ToolInv
  PROVE  TextInv
<1>1. TypeOK
  BY DEF ToolInv, Processes, Control, Texts, TypeOK, Places
<1>2. LastWords
  <2> SUFFICES ASSUME pc \in {"end", "exited"}, synchro # NoRegex, rc = 0
               PROVE  printed = Text
    BY DEF LastWords
  <2>1. outstanding = << >> /\ pty = << >> /\ printed \in Seq(Chars)
    BY DEF ToolInv, Spoken, Late, Texts
  <2>2. printed \o << >> = printed
    BY <2>1, Assoc
  <2> QED BY <2>1, <2>2 DEF Text
<1> QED BY <1>1, <1>2 DEF TextInv, ToolInv

\* Where the steps that leave the text alone go.
LEMMA StillPlaces ==
  ASSUME Still, Processes
  PROVE  /\ pc' \in {"loop", "select"} => pc \in {"fork", "forked", "sh -s", "loop", "select"}
         /\ pc' \in {"fork", "forked", "sh -s"} =>
                pc \in {"fork", "forked", "sh -s"} \/ synchro = NoRegex
         /\ pc' \in Late /\ rc' = 0 /\ synchro # NoRegex => pc \in Late /\ rc = 0
         /\ child["prog"] = "reaped" => child'["prog"] = "reaped"
<1> USE DEF Late
<1>1. CASE pdip_sig_chld
  <2>1. pc' = pc \/ (pc = "select" /\ pc' = "loop") \/ pc' = "aborted"
    BY <1>1 DEF pdip_sig_chld, Interrupts
  <2>2. child["prog"] = "reaped" => child'["prog"] = "reaped"
    BY <1>1 DEF pdip_sig_chld, Reap, Children
  <2>3. rc' = rc
    BY <1>1 DEF pdip_sig_chld, ends
  <2> QED BY <2>1, <2>2, <2>3
<1>2. CASE Forked \/ Started \/ Select \/ Timeout \/ ReadError
  <2>1. UNCHANGED child
    BY <1>2 DEF Forked, Started, Select, Timeout, ReadError, procs
  <2>2. /\ pc \in {"fork", "forked", "loop", "select"}
        /\ \/ pc' \in {"forked", "loop", "select", "dump"} /\ (pc' = "forked" => pc = "fork")
           \/ pc' \in {"end", "exited"} /\ rc' \in {-1, -2}
    BY <1>2 DEF Forked, Started, Select, Timeout, ReadError, EndsWith
  <2>3. rc' \in {-1, -2} => rc' # 0
    OBVIOUS
  <2> QED BY <2>1, <2>2, <2>3
<1>3. CASE ShSyncEnds
  <2>1. child["prog"] = "reaped" => child'["prog"] = "reaped"
    BY <1>3 DEF ShSyncEnds, Reap, Children
  <2>2. pc = "sh -s" /\ (pc' = "loop" \/ (pc' = "end" /\ rc' = -1))
    BY <1>3 DEF ShSyncEnds, EndsWith
  <2>3. rc' = -1 => rc' # 0
    OBVIOUS
  <2> QED BY <2>1, <2>2, <2>3
<1>4. CASE Close \/ pdip_sig_alarm \/ Kill \/ TerminalSends
  BY <1>4 DEF Close, pdip_sig_alarm, Kill, TerminalSends, Exits, ends, procs
<1>5. CASE Wait
  BY <1>5 DEF Wait, Exits, Reap, Children
<1>6. CASE ShSync \/ \E k \in {"timeout", "timeout 0", "send", "sig", "other", "sh"} : GoesOn(k)
  <2>1. pc = "select" /\ pc' \in {"loop", "sh -s"} /\ synchro = NoRegex
    BY <1>6 DEF ShSync, GoesOn, Reads
  <2>2. child'["prog"] = child["prog"]
    BY <1>6 DEF ShSync, GoesOn, Processes, Children
  <2> QED BY <2>1, <2>2
<1>7. CASE \E k \in {"exit", "bad", "sh", "sh -s", "send", "sig"} : Stops(k)
  BY <1>7 DEF Stops, Reads, EndsWith, procs
<1>8. ASSUME NEW c \in Children, Ends(c) PROVE pc' = pc /\ rc' = rc /\
          (child["prog"] = "reaped" => child'["prog"] = "reaped")
  BY <1>8 DEF Ends, Processes, Children, ends
<1>9. CASE UNCHANGED vars
  BY <1>9 DEF vars, procs, ends
<1> QED BY <1>1, <1>2, <1>3, <1>4, <1>5, <1>6, <1>7, <1>8, <1>9 DEF Still

\* What they do of the results.
LEMMA StillControl ==
  ASSUME Still, Control
  PROVE  Control'
<1>0. UNCHANGED << script, mode, backread, code, synchro >>
  BY StillIs DEF conf
<1>1. ExitCode \in {1} \cup Codes \cup {0} /\ ExitStatus \in Codes
  BY DEF Control, ExitCode, ExitStatus
<1>2. line' \in 0..Len(script) /\ fd_program' \in BOOLEAN /\ to' \in BOOLEAN /\ timeout' \in BOOLEAN
  <2>1. CASE UNCHANGED << line, fd_program, to, timeout >>
    BY <2>1 DEF Control
  <2>2. CASE /\ line' = line + 1 /\ line < Len(script) /\ fd_program' = fd_program
             /\ timeout' \in {timeout, FALSE} /\ to' \in BOOLEAN
    <3>1. Len(script) \in Nat /\ line \in Nat
      BY LenProperties, ToolAssumption DEF Control
    <3>2. line' \in 0..Len(script)
      BY <2>2, <3>1
    <3> QED BY <2>2, <3>2 DEF Control
  <2>3. CASE pdip_sig_chld \/ Forked \/ Started \/ Select \/ Timeout \/ ReadError \/ ShSyncEnds
             \/ Close \/ Wait \/ pdip_sig_alarm \/ Kill \/ UNCHANGED vars
    BY <2>1, <2>3 DEF pdip_sig_chld, Forked, Started, Select, Timeout, ReadError, ShSyncEnds,
                     Close, Wait, pdip_sig_alarm, Kill, talk, vars
  <2>4. ASSUME NEW c \in Children, Ends(c) PROVE UNCHANGED << line, fd_program, to, timeout >>
    BY <2>4 DEF Ends, talk
  <2>5. ASSUME NEW k, GoesOn(k) \/ Stops(k)
        PROVE  /\ line' = line + 1 /\ line < Len(script) /\ fd_program' = fd_program
               /\ timeout' \in {timeout, FALSE} /\ to' \in BOOLEAN
    <3>1. to \in BOOLEAN
      BY DEF Control
    <3> QED BY <2>5, <3>1 DEF GoesOn, Stops, Reads
  <2>6. CASE ShSync \/ TerminalSends
    <3>1. to \in BOOLEAN
      BY DEF Control
    <3> QED BY <2>2, <2>6, <3>1 DEF ShSync, TerminalSends, Reads
  <2> QED BY <2>1, <2>2, <2>3, <2>4, <2>5, <2>6 DEF Still
<1>3. rc' \in {0, -1, -2} /\ exit' \in {-1, 1} \cup Codes \cup {0}
  <2>1. rc \in {0, -1, -2} /\ exit \in {-1, 1} \cup Codes \cup {0}
    BY DEF Control
  <2>2. CASE Forked \/ Started \/ Select \/ Timeout \/ ReadError \/ ShSyncEnds \/ pdip_sig_chld
    BY <2>1, <2>2 DEF Forked, Started, Select, Timeout, ReadError, ShSyncEnds, pdip_sig_chld,
                     EndsWith, ends
  <2>3. CASE Close \/ Wait \/ pdip_sig_alarm \/ Kill
    BY <1>1, <2>1, <2>3 DEF Close, Wait, pdip_sig_alarm, Kill, Exits, ends
  <2>4. CASE TerminalSends \/ ShSync \/ UNCHANGED vars
    BY <2>1, <2>4 DEF TerminalSends, ShSync, ends, vars
  <2>5. ASSUME NEW c \in Children, Ends(c) PROVE rc' = rc /\ exit' = exit
    BY <2>5 DEF Ends, ends
  <2>6. ASSUME NEW k, GoesOn(k) \/ Stops(k) PROVE rc' \in {rc, 0, -1} /\ exit' = exit
    BY <2>6 DEF GoesOn, Stops, EndsWith, ends
  <2> QED BY <2>1, <2>2, <2>3, <2>4, <2>5, <2>6 DEF Still
<1>4. exit_prog' \in Codes \cup {0}
  <2>1. exit_prog' = exit_prog \/ exit_prog' = ExitStatus
    BY DEF Still, pdip_sig_chld, Forked, Started, Select, Timeout, ReadError, ShSyncEnds, Close,
           Wait, pdip_sig_alarm, Kill, TerminalSends, ShSync, GoesOn, Stops, Ends, flags, vars
  <2> QED BY <1>1, <2>1 DEF Control
<1> QED BY <1>0, <1>2, <1>3, <1>4 DEF Control

\* The program writes.
LEMMA WritesIs ==
  ASSUME Texts, ProgramWrites
  PROVE  /\ Texts' /\ \E c \in Chars : Text' = Append(Text, c)
         /\ Len(Text) < MaxText /\ Len(Text') = Len(Text) + 1
         /\ UNCHANGED << printed, outstanding >>
<1>1. PICK c \in Chars : pty' = Append(pty, c)
  BY DEF ProgramWrites
<1>2. UNCHANGED << printed, outstanding >> /\ Len(Text) < MaxText
  BY DEF ProgramWrites
<1>3. Texts'
  BY <1>1, <1>2, AppendProperties DEF Texts
<1> DEFINE b == printed \o outstanding
           e == << c >>
<1>4. b \in Seq(Chars) /\ pty \in Seq(Chars) /\ e \in Seq(Chars)
  BY ConcatProperties, SeqOne DEF Texts
<1>5. Text = b \o pty /\ Text' = b \o Append(pty, c)
  BY <1>1, <1>2 DEF Text
<1> HIDE DEF b
<1>6. Append(pty, c) = pty \o e
  BY <1>4, AppendIsConcat
<1>7. Text \in Seq(Chars)
  BY TextIs
<1>8. Append(Text, c) = Text \o e /\ Len(Append(Text, c)) = Len(Text) + 1
  BY <1>7, AppendIsConcat, AppendProperties
<1>9. (b \o pty) \o e = b \o (pty \o e)
  <2> HIDE DEF e
  <2>1. Associates(b, pty, e)
    BY <1>4, ConcatAssociates
  <2> QED BY <2>1 DEF Associates
<1>10. Text' = Append(Text, c)
  BY <1>5, <1>6, <1>8, <1>9
<1> QED BY <1>2, <1>3, <1>8, <1>10

\* Every step keeps the inductive invariant, and the text.
LEMMA ToolStep ==
  ASSUME ToolInv, [Next]_vars
  PROVE  /\ ToolInv'
         /\ \/ Text' = Text
            \/ \E c \in Chars : Text' = Append(Text, c)
            \/ pc' = "end" /\ rc' # 0 /\ printed' = printed
<1>0. /\ Processes /\ Control /\ Texts /\ NothingMissed /\ Quiet /\ Spoken
      /\ Len(Text) <= MaxText /\ mark \in 0..Len(printed)
  BY DEF ToolInv
<1>1. Processes'
  BY <1>0, ProcessesStep
<1>2. Len(Text) \in Nat /\ Len(printed) \in Nat /\ MaxText \in Nat /\ mark \in Nat
  BY <1>0, TextIs, ToolAssumption
<1>3. Moved => Len(Text') <= MaxText /\ Len(printed') \in Nat
  <2> SUFFICES ASSUME Moved PROVE Len(Text') <= MaxText /\ Len(printed') \in Nat
    OBVIOUS
  <2>1. printed' \in Seq(Chars) /\ Text' = Text
    BY DEF Moved, Texts
  <2> QED BY <1>0, <2>1, LenProperties
<1>4. ASSUME Moved, mark' = mark \/ mark' = Len(printed) PROVE mark' \in 0..Len(printed')
  <2>1. Len(printed) <= Len(printed') /\ Len(printed') \in Nat
    BY <1>3, <1>4 DEF Moved
  <2>2. mark' \in 0..Len(printed)
    BY <1>0, <1>2, <1>4
  <2> QED BY <1>2, <2>1, <2>2
<1>5. CASE Still
  <2>1. UNCHANGED << printed, outstanding, pty, synchro, mark, mode >>
    BY <1>5, StillIs DEF conf
  <2>2. Moved
    BY <1>0, <2>1, StaysMoved
  <2>3. Control'
    BY <1>0, <1>5, StillControl
  <2>4. NothingMissed'
    BY <1>0, <1>5, <2>1, StillPlaces DEF NothingMissed, Receiving, Quiet
  <2>5. Quiet'
    BY <1>0, <1>5, <2>1, StillPlaces DEF Quiet
  <2>6. Spoken'
    BY <1>0, <1>5, <2>1, StillPlaces DEF Spoken
  <2> QED BY <1>1, <1>3, <1>4, <2>1, <2>2, <2>3, <2>4, <2>5, <2>6 DEF ToolInv, Moved
<1>6. CASE ProgramWrites
  <2>1. UNCHANGED << pc, conf, line, synchro, fd_program, to, timeout, outstanding, printed, mark,
                     child, ends, exit_prog >> /\ child["prog"] = "running"
    BY <1>6 DEF ProgramWrites, procs, flags
  <2>2. Control'
    BY <1>0, <2>1 DEF Control, conf, ends
  <2>3. NothingMissed' /\ Quiet'
    BY <1>0, <2>1 DEF NothingMissed, Receiving, Quiet, conf
  <2>4. Spoken'
    BY <1>0, <2>1 DEF Spoken, ends
  <2>5. Texts' /\ (\E c \in Chars : Text' = Append(Text, c)) /\ Len(Text') <= MaxText
    BY <1>0, <1>2, <1>6, WritesIs
  <2>6. mark' \in 0..Len(printed')
    BY <1>0, <2>1
  <2> QED BY <1>1, <2>2, <2>3, <2>4, <2>5, <2>6 DEF ToolInv
<1>7. CASE Dead \/ EndOfInput
  <2>1. Moved /\ synchro' = synchro
    BY <1>0, <1>7, FlushMoves
  <2>2. /\ pc \in {"loop", "select"} /\ pc' = "end" /\ rc' = 0 /\ exit' = exit
        /\ UNCHANGED << conf, line, fd_program, to, timeout, mark, child, exit_prog >>
    BY <1>7 DEF Dead, EndOfInput, EndsWith, procs, flags
  <2>3. Control'
    BY <1>0, <2>1, <2>2 DEF Control, conf
  <2>4. NothingMissed'
    BY <2>2 DEF NothingMissed, Receiving
  <2>5. outstanding' = << >> \/ (mode = "terminal" /\ outstanding' = outstanding)
    BY <1>7 DEF Dead, EndOfInput
  <2>6. Quiet'
    BY <1>0, <2>1, <2>2, <2>5 DEF Quiet, conf
  <2>7. Spoken'
    <3>1. CASE EndOfInput
      BY <2>1, <3>1 DEF Spoken, EndOfInput
    <3>2. CASE Dead /\ mode = "terminal"
      BY <1>0, <2>1, <3>2 DEF Spoken, Quiet
    <3>3. CASE Dead /\ mode # "terminal"
      <4>1. dead /\ outstanding' = << >> /\ pty' = << >> /\ pc = "loop"
        BY <3>3 DEF Dead
      <4>2. child["prog"] = "reaped"
        BY <1>0, <4>1 DEF Processes, DeadReaped
      <4> QED BY <2>2, <4>1, <4>2 DEF Spoken
    <3> QED BY <1>7, <3>1, <3>2, <3>3
  <2> QED BY <1>1, <1>3, <1>4, <2>1, <2>2, <2>3, <2>4, <2>6, <2>7 DEF ToolInv, Moved
<1>8. CASE TerminalData
  <2>1. Moved /\ synchro' = synchro
    BY <1>0, <1>8, FlushMoves
  <2>2. /\ pc = "select" /\ pc' = "loop" /\ mode = "terminal" /\ outstanding' = outstanding
        /\ UNCHANGED << conf, line, fd_program, to, timeout, mark, ends, exit_prog >>
    BY <1>8 DEF TerminalData, flags
  <2>3. Control'
    BY <1>0, <2>1, <2>2 DEF Control, conf, ends
  <2>4. NothingMissed' /\ Quiet' /\ Spoken'
    BY <1>0, <2>1, <2>2 DEF NothingMissed, Receiving, Quiet, Spoken, Late, conf
  <2> QED BY <1>1, <1>3, <1>4, <2>1, <2>2, <2>3, <2>4 DEF ToolInv, Moved
<1>9. CASE Data \/ recv
  <2>1. /\ Moved /\ synchro' \in Regex \cup {NoRegex}
        /\ synchro' # NoRegex => Found(synchro', outstanding') = {}
        /\ fd_program' \in BOOLEAN /\ timeout' \in BOOLEAN
    <3>1. CASE recv
      BY <1>0, <3>1, RecvIs
    <3>2. CASE Data
      <4>1. synchro \in Regex \cup {NoRegex}
        BY <1>0 DEF Control
      <4> QED BY <1>0, <3>2, <4>1, DataIs
    <3> QED BY <1>9, <3>1, <3>2
  <2>2. /\ pc = "select" /\ pc' = "loop" /\ mode = "interact"
        /\ UNCHANGED << conf, to, ends, exit_prog >>
        /\ mark' = mark \/ mark' = Len(printed)
    BY <1>9 DEF Data, recv, Reads, flags
  <2>3. line' \in 0..Len(script)
    <3>1. Len(script) \in Nat /\ line \in 0..Len(script)
      BY <1>0, LenProperties, ToolAssumption DEF Control
    <3>2. line' = line \/ (line' = line + 1 /\ line < Len(script))
      BY <1>9 DEF Data, recv, Reads
    <3> QED BY <3>1, <3>2
  <2>4. Control'
    BY <1>0, <2>1, <2>2, <2>3 DEF Control, conf, ends
  <2>5. NothingMissed' /\ Quiet' /\ Spoken'
    BY <2>1, <2>2 DEF NothingMissed, Receiving, Quiet, Spoken, Late, conf
  <2> QED BY <1>1, <1>3, <1>4, <2>1, <2>2, <2>4, <2>5 DEF ToolInv, Moved
<1>10. CASE Abandoned
  <2>1. /\ Texts' /\ Len(Text') <= Len(Text) /\ printed' = printed
        /\ pc' = "end" /\ rc' \in {-1, -2} /\ exit' = exit
        /\ mode = "terminal" => outstanding' = << >>
        /\ UNCHANGED << conf, line, synchro, fd_program, to, timeout, mark, exit_prog >>
    BY <1>0, <1>10, AbandonedIs
  <2>2. rc' # 0 /\ rc' \in {0, -1, -2}
    BY <2>1
  <2>3. Control'
    BY <1>0, <2>1, <2>2 DEF Control, conf
  <2>4. NothingMissed' /\ Quiet' /\ Spoken'
    BY <1>0, <2>1, <2>2 DEF NothingMissed, Receiving, Quiet, Spoken, conf
  <2>5. Len(Text') \in Nat
    <3>1. Text' \in Seq(Chars)
      <4>1. /\ printed' \in Seq(Chars) /\ outstanding' \in Seq(Chars) /\ pty' \in Seq(Chars)
        BY <2>1 DEF Texts
      <4>2. printed' \o outstanding' \in Seq(Chars)
        BY <4>1, ConcatProperties
      <4> QED BY <4>1, <4>2, ConcatProperties DEF Text
    <3> QED BY <3>1, LenProperties
  <2>6. Len(Text') <= MaxText /\ mark' \in 0..Len(printed')
    BY <1>0, <1>2, <2>1, <2>5
  <2> QED BY <1>1, <2>1, <2>2, <2>3, <2>4, <2>6 DEF ToolInv
<1> QED BY <1>5, <1>6, <1>7, <1>8, <1>9, <1>10, StepsAre

\* The inductive invariant holds when the tool starts.
LEMMA ToolInit == Init => ToolInv
<1> SUFFICES ASSUME Init PROVE ToolInv
  OBVIOUS
<1>1. Processes
  BY ProcessesInit
<1>2. /\ printed = << >> /\ outstanding = << >> /\ pty = << >> /\ synchro = NoRegex
      /\ mark = 0 /\ pc = "fork"
  BY DEF Init
<1>3. << >> \in Seq(Chars) /\ Len(<< >>) = 0 /\ << >> \o << >> = << >>
  BY EmptySeq, ConcatEmptySeq
<1>4. Texts /\ Len(Text) = 0 /\ Len(printed) = 0
  BY <1>2, <1>3 DEF Texts, Text
<1>5. Len(Text) <= MaxText /\ mark \in 0..Len(printed)
  BY <1>2, <1>4, ToolAssumption
<1>6. NothingMissed /\ Quiet /\ Spoken
  BY <1>2 DEF NothingMissed, Receiving, Quiet, Spoken
<1>7. line \in 0..Len(script) /\ script \in Scripts
  <2>1. script \in Scripts /\ line = 0
    BY DEF Init
  <2>2. Len(script) \in Nat
    BY <2>1, LenProperties, ToolAssumption
  <2> QED BY <2>1, <2>2
<1>8. Control
  BY <1>7 DEF Init, Control
<1> QED BY <1>1, <1>4, <1>5, <1>6, <1>8 DEF ToolInv

\* Types; an expression that has come is never waited for, wherever the text was
\* cut; and when the death of the program ends a recv, all that the program wrote
\* is printed.
THEOREM ToolCorrect == Spec => []TextInv
<1>1. ToolInv /\ [Next]_vars => ToolInv'
  BY ToolStep
<1>2. ToolInv => TextInv
  BY ToolInvIs
<1> QED BY <1>1, <1>2, ToolInit, PTL DEF Spec

\* Every character that the program writes is printed once and in order, or is
\* still to be printed: no step of the tool loses or moves one, but the one that
\* ends the interaction by a timeout or for lack of memory.
THEOREM ToolLosesNothing == Spec => NothingLost
<1> DEFINE A == \/ Text' = Text
                \/ \E c \in Chars : Text' = Append(Text, c)
                \/ pc' = "end" /\ rc' # 0 /\ printed' = printed
<1>1. ToolInv /\ [Next]_vars => ToolInv' /\ [A]_vars
  BY ToolStep
<1> QED BY <1>1, ToolInit, PTL DEF Spec, NothingLost
=============================================================================
