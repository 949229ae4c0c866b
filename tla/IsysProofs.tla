----------------------------- MODULE IsysProofs -----------------------------
(***************************************************************************)
(* Theorems about Isys, for every set of programs, whatever they write and *)
(* however they end, every number of calls and every moment of the fork.   *)
(***************************************************************************)
EXTENDS Isys, ListLemmas

\* Commands, and what a text may come from.
Command == [by : Procs, n : Nat, prog : Programs]
Of == Command \cup {NoCmd}
Tok == [k : {"line", "empty", "part", "status", "prompt"}, of : Of]
Sent == [k : {"cmd"}, c : Command] \cup [k : {"echo", "stty"}, c : {NoCmd}]

-----------------------------------------------------------------------------
(* Reception.                                                              *)

\* Texts put together.
LEMMA Assoc ==
  ASSUME NEW a \in Seq(Tok), NEW b \in Seq(Tok), NEW c \in Seq(Tok)
  PROVE  /\ (a \o b) \o c = a \o (b \o c) /\ a \o b \in Seq(Tok)
         /\ a \o << >> = a /\ << >> \o a = a
<1>1. Associates(a, b, c)
  BY ConcatAssociates
<1>2. a \o b \in Seq(Tok)
  BY ConcatProperties
<1>3. a \o << >> = a /\ << >> \o a = a
  BY ConcatEmptySeq
<1> QED BY <1>1, <1>2, <1>3 DEF Associates

\* The prompt is a token.
LEMMA PromptIs == Prompt \in Tok /\ Prompt.k = "prompt"
BY DEF Prompt, Token, Tok, Of

\* What Scan makes of a text: it is cut around a prompt, or in two parts.
LEMMA ScanIs ==
  ASSUME NEW d \in Seq(Tok), NEW e \in BOOLEAN
  PROVE  LET r == Scan(d, e)
         IN /\ r.rc \in {"FOUND", "DATA", "AGAIN"}
            /\ r.display \in Seq(Tok) /\ r.left \in Seq(Tok)
            /\ r.rc = "FOUND" =>
                   \E t \in Tok : t.k = "prompt" /\ Append(r.display, t) \o r.left = d
            /\ r.rc # "FOUND" => r.display \o r.left = d
<1> DEFINE r == Scan(d, e)
<1>0. Len(d) \in Nat /\ << >> \in Seq(Tok)
  BY LenProperties, EmptySeq
<1>1. CASE Prompts(d) # {}
  <2> DEFINE i == FirstOf(Prompts(d))
             j == i - 1
             x == SubSeq(d, 1, j)
             y == SubSeq(d, i + 1, Len(d))
  <2>1. i \in Prompts(d)
    <3>1. Prompts(d) \in SUBSET Nat
      BY <1>0 DEF Prompts
    <3>2. \E m \in Prompts(d) : \A n \in Prompts(d) : m <= n
      BY <1>1, <3>1, LeastNat
    <3> QED BY <3>2 DEF FirstOf
  <2>2. i \in 1..Len(d) /\ d[i].k = "prompt" /\ d[i] \in Tok
    BY <2>1, ElementOfSeq DEF Prompts
  <2>3. r.rc = "FOUND" /\ r.display = x /\ r.left = y
    BY <1>1 DEF Scan
  <2> HIDE DEF i, r
  <2>4. i \in 0..Len(d) /\ j \in 0..Len(d) /\ j + 1 = i
    BY <1>0, <2>2
  <2> HIDE DEF j
  <2>5. y \in Seq(Tok) /\ x \in Seq(Tok) /\ Len(x) = j /\ SubSeq(d, 1, i) \o y = d
    BY <2>4, CutSeq
  <2>6. SubSeq(d, 1, i) = Append(x, d[i])
    <3> DEFINE u == SubSeq(d, 1, i)
               v == Append(x, d[i])
    <3>1. u \in Seq(Tok) /\ Len(u) = i /\ \A m \in 1..i : u[m] = d[m]
      BY <2>4, CutSeq
    <3>2. \A m \in 1..j : x[m] = d[m]
      BY <2>4, CutSeq
    <3>3. /\ v \in Seq(Tok) /\ Len(v) = i /\ v[i] = d[i]
          /\ \A m \in 1..j : v[m] = x[m]
      <4>1. v \in Seq(Tok) /\ Len(v) = Len(x) + 1 /\ v[Len(x) + 1] = d[i]
            /\ \A m \in 1..Len(x) : v[m] = x[m]
        BY <2>2, <2>5, AppendProperties
      <4> HIDE DEF v, x
      <4> QED BY <2>4, <2>5, <4>1
    <3> HIDE DEF u, v, x
    <3>4. ASSUME NEW m \in 1..i PROVE u[m] = v[m]
      <4>1. m \in 1..j \/ m = i
        BY <2>2, <2>4
      <4> QED BY <3>1, <3>2, <3>3, <4>1
    <3>5. u = v
      BY <3>1, <3>3, <3>4, SeqEqual
    <3> QED BY <3>5 DEF u, v
  <2>7. Append(r.display, d[i]) \o r.left = d
    BY <2>3, <2>5, <2>6
  <2> QED BY <2>2, <2>3, <2>5, <2>7 DEF r
<1>2. CASE Prompts(d) = {} /\ e
  <2>1. r = [rc |-> "DATA", display |-> d, left |-> << >>]
    BY <1>2 DEF Scan
  <2>2. d \o << >> = d
    BY <1>0, Assoc
  <2> QED BY <1>0, <2>1, <2>2
<1>3. CASE Prompts(d) = {} /\ ~e /\ LineEnds(d) # {}
  <2> DEFINE i == LastOf(LineEnds(d))
  <2>1. i \in LineEnds(d)
    <3>1. LineEnds(d) \in SUBSET (0..Len(d))
      BY <1>0 DEF LineEnds
    <3>2. \E m \in LineEnds(d) : \A n \in LineEnds(d) : n <= m
      BY <1>0, <1>3, <3>1, GreatestNat
    <3> QED BY <3>2 DEF LastOf
  <2>2. i \in 0..Len(d)
    BY <1>0, <2>1 DEF LineEnds
  <2>3. r.rc = "DATA" /\ r.display = SubSeq(d, 1, i) /\ r.left = SubSeq(d, i + 1, Len(d))
    BY <1>3 DEF Scan
  <2> HIDE DEF i, r
  <2>4. r.display \in Seq(Tok) /\ r.left \in Seq(Tok) /\ r.display \o r.left = d
    BY <2>2, <2>3, CutSeq
  <2> QED BY <2>3, <2>4 DEF r
<1>4. CASE Prompts(d) = {} /\ ~e /\ LineEnds(d) = {}
  <2>1. r = [rc |-> "AGAIN", display |-> << >>, left |-> d]
    BY <1>4 DEF Scan
  <2>2. << >> \o d = d
    BY <1>0, Assoc
  <2> QED BY <1>0, <2>1, <2>2
<1> QED BY <1>1, <1>2, <1>3, <1>4

\* What a reception makes of the text that has come and is not read: it is cut
\* around a prompt, or in two parts, and nothing of it is lost.
LEMMA RecvIs ==
  ASSUME NEW s,
         outstanding[s] \in Seq(Tok), pty[s] \in Seq(Tok), NEW r \in pdip_recv(s)
  PROVE  /\ r.rc \in {"FOUND", "DATA", "AGAIN", "TIMEOUT", "ERROR"}
         /\ r.display \in Seq(Tok) /\ r.left \in Seq(Tok) /\ Unread(s) \in Seq(Tok)
         /\ r.rc = "FOUND" =>
                \E t \in Tok : /\ t.k = "prompt"
                               /\ Append(r.display, t) \o (r.left \o Unread(s))
                                      = outstanding[s] \o pty[s]
         /\ r.rc # "FOUND" =>
                r.display \o (r.left \o Unread(s)) = outstanding[s] \o pty[s]
<1> DEFINE o == outstanding[s]
           q == pty[s]
           u == Unread(s)
<1>0. o \in Seq(Tok) /\ q \in Seq(Tok) /\ << >> \in Seq(Tok)
  BY EmptySeq
<1>1. CASE Prompts(o) # {}
  <2>1. r = Scan(o, FALSE) /\ u = q
    BY <1>1 DEF pdip_recv, Unread
  <2> HIDE DEF o, q, u
  <2> DEFINE a == r.display
             b == r.left
  <2>2. /\ r.rc \in {"FOUND", "DATA", "AGAIN"}
        /\ a \in Seq(Tok) /\ b \in Seq(Tok)
        /\ r.rc = "FOUND" => \E t \in Tok : t.k = "prompt" /\ Append(a, t) \o b = o
        /\ r.rc # "FOUND" => a \o b = o
    BY <1>0, <2>1, ScanIs
  <2> HIDE DEF a, b
  <2>3. ASSUME NEW t \in Tok, Append(a, t) \o b = o PROVE Append(a, t) \o (b \o u) = o \o q
    <3> DEFINE c == Append(a, t)
    <3>1. c \in Seq(Tok)
      BY <2>2, AppendProperties
    <3>2. c \o b = o
      BY <2>3
    <3> HIDE DEF c
    <3>3. b \in Seq(Tok) /\ q \in Seq(Tok) /\ u = q
      BY <1>0, <2>1, <2>2
    <3>4. Associates(c, b, q)
      BY <3>1, <3>3, ConcatAssociates
    <3>5. c \o (b \o u) = o \o q
      BY <3>2, <3>3, <3>4 DEF Associates
    <3> QED BY <3>5 DEF c
  <2>4. ASSUME a \o b = o PROVE a \o (b \o u) = o \o q
    <3>0. a \in Seq(Tok) /\ b \in Seq(Tok) /\ q \in Seq(Tok)
      BY <1>0, <2>2
    <3>1. Associates(a, b, q)
      BY <3>0, ConcatAssociates
    <3> QED BY <2>1, <2>4, <3>1 DEF Associates
  <2>5. /\ r.rc = "FOUND" =>
             \E t \in Tok : t.k = "prompt" /\ Append(a, t) \o (b \o u) = o \o q
        /\ r.rc # "FOUND" => a \o (b \o u) = o \o q
    BY <2>2, <2>3, <2>4
  <2> QED BY <1>0, <2>1, <2>2, <2>5 DEF a, b, o, q, u
<1>2. CASE Prompts(o) = {} /\ q = << >>
  <2>1. /\ r.rc \in {"TIMEOUT", "ERROR"} /\ r.display = << >> /\ r.left = o
        /\ u = << >>
    BY <1>2 DEF pdip_recv, Unread
  <2> HIDE DEF o, q, u
  <2>2. << >> \o (o \o << >>) = o \o << >>
    BY <1>0, Assoc
  <2> QED BY <1>0, <1>2, <2>1, <2>2 DEF o, q, u
<1>3. CASE Prompts(o) = {} /\ q # << >>
  <2>1. PICK e \in BOOLEAN : r = Scan(o \o q, e)
    BY <1>3 DEF pdip_recv
  <2>2. u = << >>
    BY <1>3 DEF Unread
  <2> HIDE DEF o, q, u
  <2> DEFINE a == r.display
             b == r.left
             d == o \o q
  <2>3. d \in Seq(Tok)
    BY <1>0, Assoc
  <2>4. /\ r.rc \in {"FOUND", "DATA", "AGAIN"}
        /\ a \in Seq(Tok) /\ b \in Seq(Tok)
        /\ r.rc = "FOUND" => \E t \in Tok : t.k = "prompt" /\ Append(a, t) \o b = d
        /\ r.rc # "FOUND" => a \o b = d
    <3>1. r = Scan(d, e)
      BY <2>1
    <3> HIDE DEF d
    <3> QED BY ONLY e \in BOOLEAN, <2>3, <3>1, ScanIs DEF a, b
  <2> HIDE DEF a, b, d
  <2>5. b \o u = b
    <3>1. b \in Seq(Tok)
      BY <2>4
    <3>2. b \o << >> = b
      BY <3>1, ConcatEmptySeq
    <3> QED BY <2>2, <3>2
  <2> QED BY <1>0, <2>2, <2>4, <2>5 DEF a, b, d, o, q, u
<1> QED BY <1>1, <1>2, <1>3

-----------------------------------------------------------------------------
(* Status.                                                                 *)

Results == -1..255 \cup {256 * n : n \in 0..127}

\* Success is a result.
LEMMA ZeroResult == 0 \in Results
<1>1. 0 \in -1..255
  OBVIOUS
<1> QED BY <1>1 DEF Results

\* A command is a program, with its output and its end.
LEMMA CommandIs ==
  ASSUME NEW c \in Command
  PROVE  /\ c.prog.out \in Seq({"line", "empty", "part"})
         /\ c.prog.how \in {"exit", "signal"} /\ c.prog.n \in 0..127
         /\ c.prog.how = "signal" => c.prog.n # 0
BY IsysAssumption DEF Command

\* The wait status made of $? is a result, and the macros of waitpid(2) find in
\* it how the command has ended.
LEMMA WaitStatusIs ==
  ASSUME NEW c \in Of
  PROVE  /\ WaitStatus(ShellStatus(c)) \in Results
         /\ c # NoCmd => Decoded(WaitStatus(ShellStatus(c))) = << c.prog.how, c.prog.n >>
<1>1. CASE c = NoCmd
  <2>1. ShellStatus(c) = 0
    BY <1>1 DEF ShellStatus
  <2>2. WaitStatus(0) = 0
    BY DEF WaitStatus
  <2> QED BY <1>1, <2>1, <2>2 DEF Results
<1>2. CASE c # NoCmd
  <2> DEFINE n == c.prog.n
             h == c.prog.how
  <2>1. n \in 0..127 /\ h \in {"exit", "signal"} /\ (h = "signal" => n # 0)
    BY <1>2, CommandIs DEF Of
  <2>2. ShellStatus(c) = IF h = "exit" THEN n ELSE 128 + n
    BY <1>2 DEF ShellStatus
  <2> HIDE DEF n, h
  <2>3. CASE h = "exit"
    <3>1. WaitStatus(n) = n * 256
      BY <2>1 DEF WaitStatus
    <3>2. n * 256 \in Results
      BY <2>1 DEF Results
    <3>3. (n * 256) % 128 = 0 /\ ((n * 256) \div 256) % 256 = n
      BY <2>1
    <3>4. Decoded(n * 256) = << h, n >>
      BY <2>3, <3>3 DEF Decoded
    <3> QED BY <2>2, <2>3, <3>1, <3>2, <3>4 DEF n, h
  <2>4. CASE h = "signal"
    <3>1. WaitStatus(128 + n) = 128 + n
      BY <2>1 DEF WaitStatus
    <3>2. 128 + n \in Results
      BY <2>1 DEF Results
    <3>3. (128 + n) % 128 = n /\ n # 0
      BY <2>1, <2>4
    <3>4. Decoded(128 + n) = << h, n >>
      BY <2>4, <3>3 DEF Decoded
    <3> QED BY <2>2, <2>4, <3>1, <3>2, <3>4 DEF n, h
  <2> QED BY <2>1, <2>3, <2>4
<1> QED BY <1>1, <1>2

\* What atoi() may make of a text is a result.
LEMMA StatusesAre ==
  ASSUME NEW d \in Seq(Tok)
  PROVE  Statuses(d) \subseteq Results
<1> DEFINE texts == {i \in 1..Len(d) : d[i].k # "empty"}
           f == FirstOf(texts)
<1>1. CASE texts # {} /\ d[f].k = "status"
  <2>1. texts \in SUBSET Nat
    BY LenProperties
  <2>2. \E m \in texts : \A n \in texts : m <= n
    BY <1>1, <2>1, LeastNat
  <2>3. f \in texts
    BY <2>2 DEF FirstOf
  <2>4. d[f] \in Tok
    BY <2>3, ElementOfSeq
  <2>5. d[f].of \in Of
    BY <2>4 DEF Tok
  <2>6. Statuses(d) = {WaitStatus(ShellStatus(d[f].of))}
    BY <1>1 DEF Statuses
  <2> QED BY <2>5, <2>6, WaitStatusIs
<1>2. CASE ~(texts # {} /\ d[f].k = "status")
  <2>1. Statuses(d) = {0, 256}
    BY <1>2 DEF Statuses
  <2>2. 256 = 256 * 1 /\ 1 \in 0..127 /\ 0 \in -1..255
    OBVIOUS
  <2> QED BY <2>1, <2>2 DEF Results
<1> QED BY <1>1, <1>2

-----------------------------------------------------------------------------
(* Types, and who owns which object.                                       *)

Types ==
    /\ TypeOK
    /\ outstanding \in [Shells -> Seq(Tok)]
    /\ pty \in [Shells -> Seq(Tok)] /\ todo \in [Shells -> Seq(Tok)]
    /\ stdin \in [Shells -> Seq(Sent)] /\ last \in [Shells -> Of]
    /\ cmd \in [Procs -> Of]
    /\ status_display \in [Procs -> Seq(Tok)] /\ printed \in [Procs -> Seq(Tok)]

\* An object exists only in the process that has created it. A process may hold
\* the handle of another one only after a failed initialization of its father.
Own ==
    /\ \A p \in Procs :
           /\ ctx[p] \subseteq {p}
           /\ (isys_pdip[p] = p) <=> (p \in ctx[p])
           /\ isys_pdip[p] \notin {p, NoShell} => p = Child /\ ~atfork[Father]
           /\ pc[p] \in Waiting => isys_pdip[p] = p
           /\ pc[p] = "undefined" => p = Child /\ ~atfork[Father]
    /\ pc[Child] # "none" => pc[Father] \notin {"init", "stty"}
    /\ pc[Child] = "none" => isys_pdip[Child] = NoShell
    /\ pc[Father] # "none"

\* What a command writes.
LEMMA OutputIs ==
  ASSUME NEW c \in Command
  PROVE  /\ Output(c) \in Seq(Tok) /\ Len(Output(c)) = Len(c.prog.out)
         /\ \A i \in 1..Len(Output(c)) : Output(c)[i].k # "prompt" /\ Output(c)[i].of = c
<1> DEFINE o == c.prog.out
<1>1. o \in Seq({"line", "empty", "part"})
  BY CommandIs
<1>2. Len(o) \in Nat /\ \A i \in 1..Len(o) : o[i] \in {"line", "empty", "part"}
  BY <1>1, LenProperties, ElementOfSeq
<1>3. Output(c) = [i \in 1..Len(o) |-> Token(o[i], c)]
  BY DEF Output
<1> HIDE DEF o
<1>4. \A i \in 1..Len(o) : /\ Token(o[i], c) \in Tok /\ Token(o[i], c).k # "prompt"
                           /\ Token(o[i], c).of = c
  BY <1>2 DEF Token, Tok, Of
<1>5. Output(c) \in [1..Len(o) -> Tok]
  BY <1>3, <1>4
<1>6. Output(c) \in Seq(Tok) /\ Len(Output(c)) = Len(o)
  BY <1>2, <1>5, IsASeq, LenProperties
<1> QED BY <1>3, <1>4, <1>6 DEF o

\* What is sent makes a text, and a line to read.
LEMMA SendTypes ==
  ASSUME Types, NEW s \in Shells, NEW text \in Seq(Tok), NEW line \in Sent,
         Send(s, text, line)
  PROVE  stdin' \in [Shells -> Seq(Sent)] /\ pty' \in [Shells -> Seq(Tok)]
<1>1. Append(stdin[s], line) \in Seq(Sent)
  BY AppendProperties DEF Types
<1>2. Token("line", NoCmd) \in Tok
  BY DEF Token, Tok, Of
<1>3. Append(text, Token("line", NoCmd)) \in Seq(Tok)
  BY <1>2, AppendProperties
<1>4. (IF echo[s] THEN Append(text, Token("line", NoCmd)) ELSE text) \in Seq(Tok)
  BY <1>3
<1> HIDE DEF Sent, Tok
<1> QED BY <1>1, <1>4 DEF Types, Send

\* What a reception changes has its type.
LEMMA RecvTypes ==
  ASSUME Types, NEW s \in Shells, NEW r \in pdip_recv(s)
  PROVE  /\ r.display \in Seq(Tok) /\ r.left \in Seq(Tok) /\ Unread(s) \in Seq(Tok)
         /\ Received(s, r) => outstanding' \in [Shells -> Seq(Tok)]
         /\ pty' = [pty EXCEPT ![s] = Unread(s)] => pty' \in [Shells -> Seq(Tok)]
<1>1. outstanding[s] \in Seq(Tok) /\ pty[s] \in Seq(Tok)
  BY DEF Types
<1>2. r.display \in Seq(Tok) /\ r.left \in Seq(Tok) /\ Unread(s) \in Seq(Tok)
  BY <1>1, RecvIs
<1> HIDE DEF Tok
<1> QED BY <1>2 DEF Types, Received

\* A call that fails keeps the types.
LEMMA FailTypes ==
  ASSUME Types, NEW p \in Procs, Fail(p)
  PROVE  /\ pc' \in [Procs -> Waiting \cup {"none", "idle", "gone", "undefined"}]
         /\ result' \in [Procs -> Results]
         /\ cmd' \in [Procs -> Of] /\ printed' \in [Procs -> Seq(Tok)]
         /\ clean' \in [Procs -> BOOLEAN]
<1>1. << >> \in Seq(Tok) /\ NoCmd \in Of /\ -1 \in Results
  BY EmptySeq DEF Of, Results
<1>2. result \in [Procs -> Results]
  BY DEF Types, TypeOK, Results
<1> QED BY <1>1, <1>2 DEF Types, TypeOK, Fail, Return, Goto

\* The types hold at first.
LEMMA TypesInit == Init => Types
<1> SUFFICES ASSUME Init PROVE Types
  OBVIOUS
<1>1. << >> \in Seq(Tok) /\ << Prompt >> \in Seq(Tok) /\ << >> \in Seq(Sent) /\ NoCmd \in Of
  BY EmptySeq, PromptIs, SeqOne DEF Of
<1>2. TypeOK
  BY DEF Init, TypeOK, Procs, Shells, Waiting
<1>3. /\ outstanding \in [Shells -> Seq(Tok)]
      /\ pty \in [Shells -> Seq(Tok)] /\ todo \in [Shells -> Seq(Tok)]
      /\ stdin \in [Shells -> Seq(Sent)] /\ last \in [Shells -> Of]
      /\ cmd \in [Procs -> Of]
      /\ status_display \in [Procs -> Seq(Tok)] /\ printed \in [Procs -> Seq(Tok)]
  BY <1>1 DEF Init
<1> QED BY <1>2, <1>3 DEF Types

\* The shell keeps the types.
LEMMA TypesShell ==
  ASSUME Types, NEW s \in Shells, ShellReads(s) \/ ShellWrites(s) \/ ShellDies(s)
  PROVE  Types'
<1>1. CASE ShellReads(s)
  <2> DEFINE line == Head(stdin[s])
  <2>1. stdin[s] \in Seq(Sent) /\ stdin[s] # << >> /\ last[s] \in Of
    BY <1>1 DEF Types, ShellReads
  <2>2. Tail(stdin[s]) \in Seq(Sent) /\ line \in Sent
    BY <2>1, SeqTail
  <2>3. << Prompt >> \in Seq(Tok)
    BY PromptIs, SeqOne
  <2>4. stdin' \in [Shells -> Seq(Sent)]
    BY <1>1, <2>2 DEF Types, ShellReads
  <2>5. CASE /\ line.k = "cmd"
             /\ todo' = [todo EXCEPT ![s] = Output(line.c) \o << Prompt >>]
             /\ last' = [last EXCEPT ![s] = line.c]
             /\ UNCHANGED echo
    <3>1. line.c \in Command
      BY <2>2, <2>5 DEF Sent
    <3>2. Output(line.c) \o << Prompt >> \in Seq(Tok)
      BY <2>3, <3>1, OutputIs, ConcatProperties
    <3>3. todo' \in [Shells -> Seq(Tok)] /\ last' \in [Shells -> Of] /\ echo' = echo
      BY <2>5, <3>1, <3>2 DEF Types, Of
    <3> QED BY <1>1, <2>4, <3>3 DEF Types, TypeOK, ShellReads, lib, hist
  <2>6. CASE /\ line.k = "echo"
             /\ todo' = [todo EXCEPT ![s] = << Token("status", last[s]), Prompt >>]
             /\ UNCHANGED << last, echo >>
    <3>1. Token("status", last[s]) \in Tok
      BY <2>1 DEF Token, Tok
    <3>2. << Token("status", last[s]), Prompt >> \in Seq(Tok)
      BY <3>1, PromptIs
    <3>3. todo' \in [Shells -> Seq(Tok)] /\ last' = last /\ echo' = echo
      BY <2>6, <3>2 DEF Types
    <3> QED BY <1>1, <2>4, <3>3 DEF Types, TypeOK, ShellReads, lib, hist
  <2>7. CASE /\ line.k = "stty"
             /\ todo' = [todo EXCEPT ![s] = << Prompt >>]
             /\ echo' = [echo EXCEPT ![s] = FALSE]
             /\ UNCHANGED last
    <3>1. todo' \in [Shells -> Seq(Tok)] /\ last' = last /\ echo' \in [Shells -> BOOLEAN]
      BY <2>3, <2>7 DEF Types, TypeOK
    <3> QED BY <1>1, <2>4, <3>1 DEF Types, TypeOK, ShellReads, lib, hist
  <2> QED BY <1>1, <2>5, <2>6, <2>7 DEF ShellReads
<1>2. CASE ShellWrites(s)
  <2>1. todo[s] \in Seq(Tok) /\ todo[s] # << >> /\ pty[s] \in Seq(Tok)
    BY <1>2 DEF Types, ShellWrites
  <2>2. Tail(todo[s]) \in Seq(Tok) /\ Head(todo[s]) \in Tok
    BY <2>1, SeqTail
  <2>3. Append(pty[s], Head(todo[s])) \in Seq(Tok)
    BY <2>1, <2>2, AppendProperties
  <2>4. pty' \in [Shells -> Seq(Tok)] /\ todo' \in [Shells -> Seq(Tok)]
    BY <1>2, <2>2, <2>3 DEF Types, ShellWrites
  <2> QED BY <1>2, <2>4 DEF Types, TypeOK, ShellWrites, lib, hist
<1>3. CASE ShellDies(s)
  <2>1. up' \in [Shells -> BOOLEAN]
    BY <1>3 DEF ShellDies, Types, TypeOK
  <2> QED BY <1>3, <2>1 DEF Types, TypeOK, ShellDies, lib, hist
<1> QED BY <1>1, <1>2, <1>3

\* The steps of the receptions of a process that waits for its own shell, by
\* what the reception answers.
InitStep(p, r) ==
    /\ Received(p, r)
    /\ \/ /\ r.rc \in {"DATA", "AGAIN"}
          /\ pty' = [pty EXCEPT ![p] = Unread(p)]
          /\ UNCHANGED << pc, result, atfork, stdin, cmd, printed, clean >>
       \/ /\ r.rc = "FOUND" /\ At(p, "init")
          /\ Goto(p, "stty")
          /\ Send(p, Unread(p), [k |-> "stty", c |-> NoCmd])
          /\ UNCHANGED << result, atfork, cmd, printed, clean >>
       \/ /\ r.rc = "FOUND" /\ At(p, "stty")
          /\ Return(p, 0)
          /\ atfork' = [atfork EXCEPT ![p] = TRUE]
          /\ pty' = [pty EXCEPT ![p] = Unread(p)]
          /\ UNCHANGED << stdin, cmd, printed, clean >>
       \/ /\ \/ r.rc \in {"TIMEOUT", "ERROR"}
             \/ r.rc = "FOUND" /\ At(p, "init") /\ ~up[p]
          /\ Fail(p)
          /\ pty' = [pty EXCEPT ![p] = Unread(p)]
          /\ UNCHANGED << atfork, stdin >>

DataStep(p, r) ==
    /\ Received(p, r)
    /\ \/ /\ r.rc \in {"DATA", "AGAIN"}
          /\ Displays(p, r.display)
          /\ pty' = [pty EXCEPT ![p] = Unread(p)]
          /\ UNCHANGED << pc, result, cmd, status_display, stdin, clean >>
       \/ /\ r.rc = "FOUND"
          /\ Displays(p, Displayed(r.display))
          /\ Send(p, Unread(p), [k |-> "echo", c |-> NoCmd])
          /\ status_display' = [status_display EXCEPT ![p] = << >>]
          /\ Goto(p, "status")
          /\ UNCHANGED << result, cmd, clean >>
       \/ /\ \/ r.rc \in {"TIMEOUT", "ERROR"}
             \/ r.rc = "FOUND" /\ ~up[p]
          /\ Fail(p)
          /\ pty' = [pty EXCEPT ![p] = Unread(p)]
          /\ UNCHANGED << status_display, stdin >>

StatusStep(p, r) ==
    /\ Received(p, r)
    /\ \/ /\ r.rc \in {"DATA", "AGAIN"}
          /\ status_display' = [status_display EXCEPT ![p] = @ \o r.display]
          /\ UNCHANGED << pc, result, cmd, printed, clean >>
       \/ /\ r.rc = "FOUND"
          /\ UNCHANGED status_display
          /\ LET d == status_display[p] \o Displayed(r.display)
             IN \/ /\ d # << >> /\ EndsLine(d[Len(d)])
                   /\ \E rc \in Statuses(d) : Return(p, rc)
                   /\ UNCHANGED << cmd, printed, clean >>
                \/ Fail(p)
       \/ /\ r.rc \in {"TIMEOUT", "ERROR"}
          /\ Fail(p)
          /\ UNCHANGED status_display
    /\ pty' = [pty EXCEPT ![p] = Unread(p)]

\* A process that waits uses its own shell.
LEMMA OwnWaits ==
  ASSUME Types, Own, NEW p \in Procs, pc[p] \in Waiting
  PROVE  isys_pdip[p] = p /\ p \in Shells /\ p \in ctx[p]
BY DEF Own, Shells

\* The initialization keeps the types.
LEMMA TypesInitRecv ==
  ASSUME Types, Own, NEW p \in Procs, InitRecv(p)
  PROVE  Types'
<1>1. isys_pdip[p] = p /\ p \in Shells
  BY OwnWaits DEF InitRecv, Waiting
<1>2. PICK r \in pdip_recv(p) : InitStep(p, r)
  BY <1>1 DEF InitRecv, InitStep
<1>3. /\ outstanding' \in [Shells -> Seq(Tok)] /\ Unread(p) \in Seq(Tok)
      /\ pty' = [pty EXCEPT ![p] = Unread(p)] => pty' \in [Shells -> Seq(Tok)]
  BY <1>1, <1>2, RecvTypes DEF InitStep
<1>4. UNCHANGED << isys_pdip, ctx, status_display, up, echo, todo, last, calls >>
  BY DEF InitRecv
<1>5. CASE /\ pty' = [pty EXCEPT ![p] = Unread(p)]
           /\ UNCHANGED << pc, result, atfork, stdin, cmd, printed, clean >>
  BY <1>3, <1>4, <1>5 DEF Types, TypeOK
<1>6. CASE /\ Goto(p, "stty")
           /\ Send(p, Unread(p), [k |-> "stty", c |-> NoCmd])
           /\ UNCHANGED << result, atfork, cmd, printed, clean >>
  <2>1. [k |-> "stty", c |-> NoCmd] \in Sent
    BY DEF Sent
  <2>2. stdin' \in [Shells -> Seq(Sent)] /\ pty' \in [Shells -> Seq(Tok)]
    BY <1>1, <1>3, <1>6, <2>1, SendTypes
  <2>3. pc' \in [Procs -> Waiting \cup {"none", "idle", "gone", "undefined"}]
    BY <1>6 DEF Goto, Types, TypeOK, Waiting
  <2> QED BY <1>3, <1>4, <1>6, <2>2, <2>3 DEF Types, TypeOK
<1>7. CASE /\ Return(p, 0)
           /\ atfork' = [atfork EXCEPT ![p] = TRUE]
           /\ pty' = [pty EXCEPT ![p] = Unread(p)]
           /\ UNCHANGED << stdin, cmd, printed, clean >>
  <2>1. /\ pc' \in [Procs -> Waiting \cup {"none", "idle", "gone", "undefined"}]
        /\ result' \in [Procs -> -1..255 \cup {256 * n : n \in 0..127}]
        /\ atfork' \in [Procs -> BOOLEAN]
    <3>1. pc' \in [Procs -> Waiting \cup {"none", "idle", "gone", "undefined"}]
      BY <1>7 DEF Return, Goto, Types, TypeOK
    <3>2. result' \in [Procs -> -1..255 \cup {256 * n : n \in 0..127}]
      <4>1. result \in [Procs -> Results] /\ 0 \in Results
        BY ZeroResult DEF Types, TypeOK, Results
      <4>2. result' = [result EXCEPT ![p] = 0]
        BY <1>7 DEF Return
      <4>3. result' \in [Procs -> Results]
        BY <4>1, <4>2
      <4> QED BY <4>3 DEF Results
    <3>3. atfork' \in [Procs -> BOOLEAN]
      BY <1>7 DEF Types, TypeOK
    <3> QED BY <3>1, <3>2, <3>3
  <2> QED BY <1>3, <1>4, <1>7, <2>1 DEF Types, TypeOK
<1>8. CASE /\ Fail(p)
           /\ pty' = [pty EXCEPT ![p] = Unread(p)]
           /\ UNCHANGED << atfork, stdin >>
  <2>1. /\ pc' \in [Procs -> Waiting \cup {"none", "idle", "gone", "undefined"}]
        /\ result' \in [Procs -> -1..255 \cup {256 * n : n \in 0..127}]
        /\ cmd' \in [Procs -> Of] /\ printed' \in [Procs -> Seq(Tok)]
        /\ clean' \in [Procs -> BOOLEAN]
    BY <1>8, FailTypes DEF Results
  <2> QED BY <1>3, <1>4, <1>8, <2>1 DEF Types, TypeOK
<1> QED BY <1>2, <1>5, <1>6, <1>7, <1>8 DEF InitStep

\* The reception of the output keeps the types.
LEMMA TypesRecvData ==
  ASSUME Types, Own, NEW p \in Procs, isys_recv_data(p)
  PROVE  Types'
<1>1. isys_pdip[p] = p /\ p \in Shells
  BY OwnWaits DEF isys_recv_data, Waiting, At
<1>2. PICK r \in pdip_recv(p) : DataStep(p, r)
  BY <1>1 DEF isys_recv_data, DataStep
<1>3. /\ outstanding' \in [Shells -> Seq(Tok)] /\ Unread(p) \in Seq(Tok)
      /\ r.display \in Seq(Tok)
      /\ pty' = [pty EXCEPT ![p] = Unread(p)] => pty' \in [Shells -> Seq(Tok)]
  BY <1>1, <1>2, RecvTypes DEF DataStep
<1>4. UNCHANGED << isys_pdip, ctx, atfork, up, echo, todo, last, calls >>
  BY DEF isys_recv_data
<1>5. ASSUME NEW d \in Seq(Tok), Displays(p, d) PROVE printed' \in [Procs -> Seq(Tok)]
  <2>1. printed[p] \in Seq(Tok)
    BY DEF Types
  <2>2. printed[p] \o d \in Seq(Tok)
    BY <2>1, ConcatProperties
  <2> HIDE DEF Tok
  <2> QED BY <1>5, <2>1, <2>2 DEF Displays, Types
<1>6. CASE /\ Displays(p, r.display)
           /\ pty' = [pty EXCEPT ![p] = Unread(p)]
           /\ UNCHANGED << pc, result, cmd, status_display, stdin, clean >>
  BY <1>3, <1>4, <1>5, <1>6 DEF Types, TypeOK
<1>7. CASE /\ Displays(p, Displayed(r.display))
           /\ Send(p, Unread(p), [k |-> "echo", c |-> NoCmd])
           /\ status_display' = [status_display EXCEPT ![p] = << >>]
           /\ Goto(p, "status")
           /\ UNCHANGED << result, cmd, clean >>
  <2>1. [k |-> "echo", c |-> NoCmd] \in Sent /\ << >> \in Seq(Tok)
    BY EmptySeq DEF Sent
  <2>2. stdin' \in [Shells -> Seq(Sent)] /\ pty' \in [Shells -> Seq(Tok)]
    BY <1>1, <1>3, <1>7, <2>1, SendTypes
  <2>3. pc' \in [Procs -> Waiting \cup {"none", "idle", "gone", "undefined"}]
    BY <1>7 DEF Goto, Types, TypeOK, Waiting
  <2>4. status_display' \in [Procs -> Seq(Tok)]
    BY <1>7, <2>1 DEF Types
  <2>5. Displayed(r.display) \in Seq(Tok)
    BY <1>3, <2>1 DEF Displayed
  <2> QED BY <1>3, <1>4, <1>5, <1>7, <2>2, <2>3, <2>4, <2>5 DEF Types, TypeOK
<1>8. CASE /\ Fail(p)
           /\ pty' = [pty EXCEPT ![p] = Unread(p)]
           /\ UNCHANGED << status_display, stdin >>
  <2>1. /\ pc' \in [Procs -> Waiting \cup {"none", "idle", "gone", "undefined"}]
        /\ result' \in [Procs -> -1..255 \cup {256 * n : n \in 0..127}]
        /\ cmd' \in [Procs -> Of] /\ printed' \in [Procs -> Seq(Tok)]
        /\ clean' \in [Procs -> BOOLEAN]
    BY <1>8, FailTypes DEF Results
  <2> QED BY <1>3, <1>4, <1>8, <2>1 DEF Types, TypeOK
<1> QED BY <1>2, <1>6, <1>7, <1>8 DEF DataStep

\* The reception of the status keeps the types.
LEMMA TypesRecvStatus ==
  ASSUME Types, Own, NEW p \in Procs, isys_recv_status(p)
  PROVE  Types'
<1>1. isys_pdip[p] = p /\ p \in Shells
  BY OwnWaits DEF isys_recv_status, Waiting, At
<1>2. PICK r \in pdip_recv(p) : StatusStep(p, r)
  BY <1>1 DEF isys_recv_status, StatusStep
<1>3. /\ outstanding' \in [Shells -> Seq(Tok)] /\ pty' \in [Shells -> Seq(Tok)]
      /\ r.display \in Seq(Tok)
  BY <1>1, <1>2, RecvTypes DEF StatusStep
<1>4. UNCHANGED << isys_pdip, ctx, atfork, up, echo, stdin, todo, last, calls >>
  BY DEF isys_recv_status
<1>5. status_display[p] \in Seq(Tok) /\ << >> \in Seq(Tok)
  BY EmptySeq DEF Types
<1> DEFINE d == status_display[p] \o Displayed(r.display)
<1>6. CASE /\ status_display' = [status_display EXCEPT ![p] = @ \o r.display]
           /\ UNCHANGED << pc, result, cmd, printed, clean >>
  <2>1. status_display[p] \o r.display \in Seq(Tok)
    BY <1>3, <1>5, ConcatProperties
  <2>2. status_display' \in [Procs -> Seq(Tok)]
    BY <1>6, <2>1 DEF Types
  <2> QED BY <1>3, <1>4, <1>6, <2>2 DEF Types, TypeOK
<1>7. CASE /\ UNCHANGED << status_display, cmd, printed, clean >>
           /\ \E rc \in Statuses(d) : Return(p, rc)
  <2>1. Displayed(r.display) \in Seq(Tok)
    BY <1>3, <1>5 DEF Displayed
  <2>2. d \in Seq(Tok)
    BY <1>5, <2>1, ConcatProperties
  <2> HIDE DEF d
  <2>3. PICK rc \in Statuses(d) : Return(p, rc)
    BY <1>7
  <2>4. rc \in Results
    BY <2>2, <2>3, StatusesAre
  <2>5. /\ pc' \in [Procs -> Waiting \cup {"none", "idle", "gone", "undefined"}]
        /\ result' \in [Procs -> -1..255 \cup {256 * n : n \in 0..127}]
    BY <2>3, <2>4 DEF Return, Goto, Types, TypeOK, Results
  <2> QED BY <1>3, <1>4, <1>7, <2>5 DEF Types, TypeOK
<1>8. CASE Fail(p) /\ UNCHANGED status_display
  <2>1. /\ pc' \in [Procs -> Waiting \cup {"none", "idle", "gone", "undefined"}]
        /\ result' \in [Procs -> -1..255 \cup {256 * n : n \in 0..127}]
        /\ cmd' \in [Procs -> Of] /\ printed' \in [Procs -> Seq(Tok)]
        /\ clean' \in [Procs -> BOOLEAN]
    BY <1>8, FailTypes DEF Results
  <2> QED BY <1>3, <1>4, <1>8, <2>1 DEF Types, TypeOK
<1> QED BY <1>2, <1>6, <1>7, <1>8 DEF StatusStep

\* The calls that receive nothing keep the types.
LEMMA TypesCalls ==
  ASSUME Types, Own, NEW p \in Procs,
         isystem_nothing(p) \/ isystem(p) \/ isys_lib_exit(p)
  PROVE  Types'
<1>0. << >> \in Seq(Tok) /\ << >> \in Seq(Sent) /\ NoCmd \in Of
  BY EmptySeq DEF Of
<1>1. CASE isystem_nothing(p)
  <2>1. /\ result' \in [Procs -> -1..255 \cup {256 * n : n \in 0..127}]
        /\ cmd' \in [Procs -> Of] /\ calls' \in [Procs -> Nat]
    <3> DEFINE v == IF isys_pdip[p] = NoShell THEN -1 ELSE 0
    <3>1. v \in -1..255 \cup {256 * n : n \in 0..127}
      OBVIOUS
    <3>2. result' = [result EXCEPT ![p] = v]
      BY <1>1 DEF isystem_nothing
    <3> HIDE DEF v
    <3>3. result' \in [Procs -> -1..255 \cup {256 * n : n \in 0..127}]
      BY <3>1, <3>2 DEF Types, TypeOK
    <3>4. cmd' \in [Procs -> Of] /\ calls' \in [Procs -> Nat]
      BY <1>0, <1>1 DEF isystem_nothing, Types, TypeOK
    <3> QED BY <3>3, <3>4
  <2> QED BY <1>1, <2>1 DEF isystem_nothing, Types, TypeOK, sh
<1>2. CASE isystem(p)
  <2>1. calls' \in [Procs -> Nat]
    BY <1>2 DEF isystem, Types, TypeOK
  <2>2. UNCHANGED << isys_pdip, ctx, atfork, status_display, outstanding, up, echo, todo, last >>
    BY <1>2 DEF isystem
  <2>3. CASE /\ isys_pdip[p] \in ctx[p]
             /\ \E c \in [by : {p}, n : {calls'[p]}, prog : Programs] :
                    /\ cmd' = [cmd EXCEPT ![p] = IF clean[p] THEN c ELSE NoCmd]
                    /\ Send(isys_pdip[p], pty[isys_pdip[p]], [k |-> "cmd", c |-> c])
             /\ printed' = [printed EXCEPT ![p] = << >>]
             /\ Goto(p, "data")
             /\ UNCHANGED << result, clean >>
    <3>1. isys_pdip[p] = p /\ p \in Shells /\ pty[p] \in Seq(Tok)
      BY <2>3 DEF Own, Shells, Types
    <3>2. PICK c \in [by : {p}, n : {calls'[p]}, prog : Programs] :
              /\ cmd' = [cmd EXCEPT ![p] = IF clean[p] THEN c ELSE NoCmd]
              /\ Send(p, pty[p], [k |-> "cmd", c |-> c])
      BY <2>3, <3>1
    <3>3. c \in Command
      BY <2>1 DEF Command
    <3>4. [k |-> "cmd", c |-> c] \in Sent
      BY <3>3 DEF Sent
    <3>5. stdin' \in [Shells -> Seq(Sent)] /\ pty' \in [Shells -> Seq(Tok)]
      BY <3>1, <3>2, <3>4, SendTypes
    <3>6. /\ pc' \in [Procs -> Waiting \cup {"none", "idle", "gone", "undefined"}]
          /\ printed' \in [Procs -> Seq(Tok)]
      BY <1>0, <2>3 DEF Goto, Types, TypeOK, Waiting
    <3>7. cmd' \in [Procs -> Of]
      BY <1>0, <3>2, <3>3 DEF Types, Of
    <3> QED BY <2>1, <2>2, <2>3, <3>5, <3>6, <3>7 DEF Types, TypeOK
  <2>4. CASE Fail(p) /\ UNCHANGED << stdin, pty >>
    <3>1. /\ pc' \in [Procs -> Waiting \cup {"none", "idle", "gone", "undefined"}]
          /\ result' \in [Procs -> -1..255 \cup {256 * n : n \in 0..127}]
          /\ cmd' \in [Procs -> Of] /\ printed' \in [Procs -> Seq(Tok)]
          /\ clean' \in [Procs -> BOOLEAN]
      BY <2>4, FailTypes DEF Results
    <3> QED BY <2>1, <2>2, <2>4, <3>1 DEF Types, TypeOK
  <2>5. CASE Goto(p, "undefined") /\ UNCHANGED << cmd, result, printed, clean, stdin, pty >>
    <3>1. pc' \in [Procs -> Waiting \cup {"none", "idle", "gone", "undefined"}]
      BY <2>5 DEF Goto, Types, TypeOK
    <3> QED BY <2>1, <2>2, <2>5, <3>1 DEF Types, TypeOK
  <2> QED BY <1>2, <2>3, <2>4, <2>5 DEF isystem
<1>3. CASE isys_lib_exit(p)
  <2>1. /\ isys_pdip' \in [Procs -> Shells \cup {NoShell}]
        /\ ctx' \in [Procs -> SUBSET Shells]
        /\ cmd' \in [Procs -> Of]
        /\ status_display' \in [Procs -> Seq(Tok)] /\ printed' \in [Procs -> Seq(Tok)]
        /\ result' \in [Procs -> -1..255 \cup {256 * n : n \in 0..127}]
        /\ calls' \in [Procs -> Nat]
    <3>0. /\ isys_pdip' = [isys_pdip EXCEPT ![p] = NoShell]
          /\ ctx' = [ctx EXCEPT ![p] = {}] /\ cmd' = [cmd EXCEPT ![p] = NoCmd]
          /\ status_display' = [status_display EXCEPT ![p] = << >>]
          /\ result' = [result EXCEPT ![p] = 0]
          /\ printed' = [printed EXCEPT ![p] = << >>]
          /\ calls' = [calls EXCEPT ![p] = 0]
      BY <1>3 DEF isys_lib_exit
    <3>1. /\ isys_pdip' \in [Procs -> Shells \cup {NoShell}]
          /\ ctx' \in [Procs -> SUBSET Shells] /\ cmd' \in [Procs -> Of]
      BY <1>0, <3>0 DEF Types, TypeOK
    <3>2. status_display' \in [Procs -> Seq(Tok)] /\ printed' \in [Procs -> Seq(Tok)]
      BY <1>0, <3>0 DEF Types, TypeOK
    <3>3. result' \in [Procs -> -1..255 \cup {256 * n : n \in 0..127}]
      <4>1. result \in [Procs -> Results] /\ 0 \in Results
        BY ZeroResult DEF Types, TypeOK, Results
      <4>2. result' \in [Procs -> Results]
        BY <3>0, <4>1
      <4> QED BY <4>2 DEF Results
    <3>4. calls' \in [Procs -> Nat]
      BY <3>0 DEF Types, TypeOK
    <3> QED BY <3>1, <3>2, <3>3, <3>4
  <2>2. pc' \in [Procs -> Waiting \cup {"none", "idle", "gone", "undefined"}]
    <3>1. pc' = [pc EXCEPT ![p] = "gone"]
      BY <1>3 DEF isys_lib_exit, Goto
    <3> QED BY <3>1 DEF Types, TypeOK
  <2>3. up' \in [Shells -> BOOLEAN] /\ last' \in [Shells -> Of]
    <3> DEFINE s == isys_pdip[p]
    <3>1. \/ UNCHANGED << up, last >>
          \/ /\ up' = [up EXCEPT ![s] = FALSE]
             /\ last' = [last EXCEPT ![s] = NoCmd]
      BY <1>3 DEF isys_lib_exit
    <3> HIDE DEF s
    <3>2. up' \in [Shells -> BOOLEAN]
      BY <3>1 DEF Types, TypeOK
    <3>3. last' \in [Shells -> Of]
      BY <1>0, <3>1 DEF Types
    <3> QED BY <3>2, <3>3
  <2>4. /\ outstanding' \in [Shells -> Seq(Tok)] /\ pty' \in [Shells -> Seq(Tok)]
        /\ todo' \in [Shells -> Seq(Tok)] /\ stdin' \in [Shells -> Seq(Sent)]
    <3> DEFINE s == isys_pdip[p]
    <3>0. /\ outstanding \in [Shells -> Seq(Tok)] /\ pty \in [Shells -> Seq(Tok)]
          /\ todo \in [Shells -> Seq(Tok)] /\ stdin \in [Shells -> Seq(Sent)]
      BY DEF Types
    <3>1. \/ UNCHANGED << outstanding, stdin, pty, todo >>
          \/ /\ outstanding' = [outstanding EXCEPT ![s] = << >>]
             /\ stdin' = [stdin EXCEPT ![s] = << >>]
             /\ pty' = [pty EXCEPT ![s] = << >>]
             /\ todo' = [todo EXCEPT ![s] = << >>]
      BY <1>3 DEF isys_lib_exit
    <3> HIDE DEF s
    <3>2. outstanding' \in [Shells -> Seq(Tok)]
      BY <1>0, <3>0, <3>1
    <3>3. pty' \in [Shells -> Seq(Tok)]
      BY <1>0, <3>0, <3>1
    <3>4. todo' \in [Shells -> Seq(Tok)]
      BY <1>0, <3>0, <3>1
    <3>5. stdin' \in [Shells -> Seq(Sent)]
      BY <1>0, <3>0, <3>1
    <3> QED BY <3>2, <3>3, <3>4, <3>5
  <2>5. UNCHANGED << atfork, echo, clean >>
    BY <1>3 DEF isys_lib_exit
  <2> QED BY <2>1, <2>2, <2>3, <2>4, <2>5 DEF Types, TypeOK
<1> QED BY <1>1, <1>2, <1>3

\* Every step keeps the types.
LEMMA TypesNext == Types /\ Own /\ [Next]_vars => Types'
<1> SUFFICES ASSUME Types, Own, [Next]_vars PROVE Types'
  OBVIOUS
<1>1. ASSUME NEW s \in Shells, ShellReads(s) \/ ShellWrites(s) \/ ShellDies(s) PROVE Types'
  BY <1>1, TypesShell
<1>2. ASSUME NEW p \in Procs, InitRecv(p) PROVE Types'
  BY <1>2, TypesInitRecv
<1>3. ASSUME NEW p \in Procs, isystem_nothing(p) \/ isystem(p) \/ isys_lib_exit(p) PROVE Types'
  BY <1>3, TypesCalls
<1>4. ASSUME NEW p \in Procs, isys_recv_data(p) PROVE Types'
  BY <1>4, TypesRecvData
<1>5. ASSUME NEW p \in Procs, isys_recv_status(p) PROVE Types'
  BY <1>5, TypesRecvStatus
<1>6. CASE isys_lib_initialize
  <2>1. /\ isys_pdip' \in [Procs -> Shells \cup {NoShell}]
        /\ ctx' \in [Procs -> SUBSET Shells] /\ up' \in [Shells -> BOOLEAN]
        /\ pc' \in [Procs -> Waiting \cup {"none", "idle", "gone", "undefined"}]
    BY <1>6 DEF isys_lib_initialize, Goto, Types, TypeOK, Procs, Shells, Waiting
  <2> QED BY <1>6, <2>1 DEF isys_lib_initialize, Types, TypeOK, hist
<1>7. CASE isys_child_fork
  <2>1. /\ isys_pdip' \in [Procs -> Shells \cup {NoShell}]
        /\ atfork' \in [Procs -> BOOLEAN]
        /\ pc' \in [Procs -> Waiting \cup {"none", "idle", "gone", "undefined"}]
    BY <1>7 DEF isys_child_fork, Goto, Types, TypeOK, Procs, Shells, Waiting
  <2> QED BY <1>7, <2>1 DEF isys_child_fork, Types, TypeOK, sh, hist
<1>8. CASE UNCHANGED vars
  BY <1>8 DEF vars, lib, sh, hist, Types, TypeOK
<1> QED BY <1>1, <1>2, <1>3, <1>4, <1>5, <1>6, <1>7, <1>8 DEF Next

\* Every step keeps the objects where they were created.
LEMMA OwnNext == Types /\ Own /\ [Next]_vars => Own'
<1> SUFFICES ASSUME Types, Own, [Next]_vars PROVE Own'
  OBVIOUS
<1> USE IsysAssumption DEF Procs
<1>0. /\ pc \in [Procs -> Waiting \cup {"none", "idle", "gone", "undefined"}]
      /\ isys_pdip \in [Procs -> Shells \cup {NoShell}]
      /\ ctx \in [Procs -> SUBSET Shells] /\ atfork \in [Procs -> BOOLEAN]
  BY DEF Types, TypeOK
<1>1. ASSUME UNCHANGED << pc, isys_pdip, ctx, atfork >> PROVE Own'
  BY <1>1 DEF Own
<1>2. ASSUME NEW s \in Shells, ShellReads(s) \/ ShellWrites(s) \/ ShellDies(s) PROVE Own'
  BY <1>1, <1>2 DEF ShellReads, ShellWrites, ShellDies, lib
<1>3. ASSUME NEW p \in Procs, UNCHANGED << isys_pdip, ctx, atfork >>,
             \/ pc[p] \in Waiting /\ Goto(p, "idle")
             \/ pc[p] = "data" /\ Goto(p, "status")
             \/ pc[p] = "init" /\ Goto(p, "stty")
             \/ pc[p] = "idle" /\ p \in ctx[p] /\ Goto(p, "idle")
             \/ pc[p] = "idle" /\ p \in ctx[p] /\ Goto(p, "data")
             \/ pc[p] = "idle" /\ isys_pdip[p] \notin {p, NoShell} /\ Goto(p, "undefined")
      PROVE  Own'
  BY <1>0, <1>3 DEF Own, Goto, Waiting
<1>4. ASSUME NEW p \in Procs, InitRecv(p) PROVE Own'
  <2>1. pc[p] \in {"init", "stty"} /\ UNCHANGED << isys_pdip, ctx >>
    BY <1>4 DEF InitRecv
  <2>2. CASE UNCHANGED << pc, atfork >>
    BY <1>1, <2>1, <2>2
  <2>3. CASE At(p, "init") /\ Goto(p, "stty") /\ UNCHANGED atfork
    BY <1>3, <2>1, <2>3 DEF At
  <2>4. CASE Goto(p, "idle") /\ UNCHANGED atfork
    BY <1>3, <2>1, <2>4 DEF Waiting
  <2>5. CASE At(p, "stty") /\ Goto(p, "idle") /\ atfork' = [atfork EXCEPT ![p] = TRUE]
    <3>1. CASE p = Father
      BY <1>0, <2>1, <2>5, <3>1 DEF Own, Goto, Waiting, At
    <3>2. CASE p = Child
      BY <1>0, <2>1, <2>5, <3>2 DEF Own, Goto, Waiting, At
    <3> QED BY <3>1, <3>2
  <2> QED BY <1>4, <2>2, <2>3, <2>4, <2>5 DEF InitRecv, Return, Fail
<1>5. ASSUME NEW p \in Procs, isystem_nothing(p) PROVE Own'
  BY <1>1, <1>5 DEF isystem_nothing
<1>6. ASSUME NEW p \in Procs, isystem(p) PROVE Own'
  <2>1. pc[p] = "idle" /\ UNCHANGED << isys_pdip, ctx, atfork >> /\ isys_pdip[p] # NoShell
    BY <1>6 DEF isystem, Calls, At
  <2>2. CASE isys_pdip[p] \in ctx[p]
    <3>1. p \in ctx[p]
      BY <2>2 DEF Own
    <3> QED BY <1>3, <1>6, <2>1, <2>2, <3>1 DEF isystem, Fail, Return
  <2>3. CASE isys_pdip[p] \notin ctx[p]
    <3>1. isys_pdip[p] # p
      BY <2>3 DEF Own
    <3> QED BY <1>3, <1>6, <2>1, <2>3, <3>1 DEF isystem
  <2> QED BY <2>2, <2>3
<1>7. ASSUME NEW p \in Procs, isys_recv_data(p) PROVE Own'
  <2>1. pc[p] = "data" /\ pc[p] \in Waiting /\ UNCHANGED << isys_pdip, ctx, atfork >>
    BY <1>7 DEF isys_recv_data, At, Waiting
  <2>2. UNCHANGED pc \/ Goto(p, "status") \/ Goto(p, "idle")
    BY <1>7 DEF isys_recv_data, Fail, Return
  <2> QED BY <1>1, <1>3, <2>1, <2>2
<1>8. ASSUME NEW p \in Procs, isys_recv_status(p) PROVE Own'
  <2>1. pc[p] \in Waiting /\ UNCHANGED << isys_pdip, ctx, atfork >>
    BY <1>8 DEF isys_recv_status, At, Waiting
  <2>2. UNCHANGED pc \/ Goto(p, "idle")
    BY <1>8 DEF isys_recv_status, Fail, Return
  <2> QED BY <1>1, <1>3, <2>1, <2>2
<1>9. ASSUME NEW p \in Procs, isys_lib_exit(p) PROVE Own'
  <2>1. /\ isys_pdip' = [isys_pdip EXCEPT ![p] = NoShell]
        /\ ctx' = [ctx EXCEPT ![p] = {}] /\ atfork' = atfork /\ pc[p] = "idle"
    BY <1>9 DEF isys_lib_exit, Calls, At
  <2>2. Goto(p, "gone")
    BY <1>9 DEF isys_lib_exit
  <2> QED BY <1>0, <2>1, <2>2 DEF Own, Goto, Waiting
<1>10. CASE isys_lib_initialize
  <2>1. /\ pc[Child] = "idle" /\ pc' = [pc EXCEPT ![Child] = "init"]
        /\ isys_pdip' = [isys_pdip EXCEPT ![Child] = Child]
        /\ ctx' = [ctx EXCEPT ![Child] = @ \cup {Child}] /\ atfork' = atfork
    BY <1>10 DEF isys_lib_initialize, At, Goto
  <2> QED BY <1>0, <2>1 DEF Own, Waiting
<1>11. CASE isys_child_fork
  <2>1. /\ pc[Father] = "idle" /\ pc[Child] = "none" /\ pc' = [pc EXCEPT ![Child] = "idle"]
        /\ isys_pdip' = [isys_pdip EXCEPT ![Child] =
                             IF atfork[Father] THEN NoShell ELSE isys_pdip[Father]]
        /\ atfork' = [atfork EXCEPT ![Child] = atfork[Father]] /\ ctx' = ctx
    BY <1>11 DEF isys_child_fork, At, Goto
  <2>2. isys_pdip[Father] # Child /\ Child \notin ctx[Child]
    BY <2>1 DEF Own
  <2> QED BY <1>0, <2>1, <2>2 DEF Own, Waiting
<1>12. CASE UNCHANGED vars
  BY <1>1, <1>12 DEF vars, lib
<1> QED BY <1>2, <1>4, <1>5, <1>6, <1>7, <1>8, <1>9, <1>10, <1>11, <1>12 DEF Next

\* The objects are where they were created at first.
LEMMA OwnInit == Init => Own
BY IsysAssumption DEF Init, Own, Procs, Waiting

\* The types, and that a process only talks to the shell it has started, with an
\* object that exists in its memory, however calls, failures and fork() follow
\* each other; only a fork after a failed initialization leaves a handle that
\* points to a freed object.
THEOREM IsysCorrect == Spec => []IsysInv
<1> DEFINE Inv == Types /\ Own
<1>1. Init => Inv
  BY TypesInit, OwnInit
<1>2. Inv /\ [Next]_vars => Inv'
  BY TypesNext, OwnNext
<1>3. Inv => IsysInv
  BY DEF Types, Own, IsysInv, OwnShell
<1> QED BY <1>1, <1>2, <1>3, PTL DEF Spec

-----------------------------------------------------------------------------
(* The conversation of a process with its shell.                           *)

NoPrompt(x) == \A i \in 1..Len(x) : x[i].k # "prompt"

\* The end of a text whose only prompt is its last token.
Ending(x) == \E w \in Seq(Tok), v \in Seq(Tok) : NoPrompt(v) /\ w \o x = Append(v, Prompt)

\* A prompt found in a text whose only prompt is its last token is that one.
LEMMA PromptEnds ==
  ASSUME NEW x \in Seq(Tok), NEW y \in Seq(Tok), NEW v \in Seq(Tok),
         NEW t \in Tok, t.k = "prompt", NoPrompt(v),
         Append(x, t) \o y = Append(v, Prompt)
  PROVE  x = v /\ y = << >>
<1> DEFINE a == Append(x, t)
           b == Append(v, Prompt)
           z == a \o y
           n == Len(x)
           m == Len(v)
<1>1. n \in Nat /\ m \in Nat /\ Len(y) \in Nat
  BY LenProperties
<1>2. a \in Seq(Tok) /\ Len(a) = n + 1 /\ a[n + 1] = t /\ \A i \in 1..n : a[i] = x[i]
  BY AppendProperties
<1>3. b \in Seq(Tok) /\ Len(b) = m + 1 /\ b[m + 1] = Prompt /\ \A i \in 1..m : b[i] = v[i]
  BY AppendProperties, PromptIs
<1>4. Len(z) = Len(a) + Len(y) /\ \A i \in 1..Len(a) : z[i] = a[i]
  <2> HIDE DEF a
  <2>1. /\ Len(z) = Len(a) + Len(y)
        /\ \A i \in 1..(Len(a) + Len(y)) : z[i] = IF i <= Len(a) THEN a[i] ELSE y[i - Len(a)]
    BY <1>2, ConcatProperties
  <2>2. Len(a) \in Nat
    BY <1>1, <1>2
  <2> HIDE DEF z, n
  <2>3. ASSUME NEW i \in 1..Len(a) PROVE z[i] = a[i]
    <3>1. i \in 1..(Len(a) + Len(y)) /\ i <= Len(a)
      BY <1>1, <2>2
    <3> QED BY <2>1, <3>1
  <2> QED BY <2>1, <2>3
<1>5. z = b
  OBVIOUS
<1> HIDE DEF a, b, z
<1>6. n = m /\ Len(y) = 0
  <2>0. \A i \in 1..m : v[i].k # "prompt"
    BY DEF NoPrompt
  <2> HIDE DEF n, m
  <2>1. n + 1 + Len(y) = m + 1
    BY <1>2, <1>3, <1>4, <1>5
  <2>2. n + 1 \in 1..Len(a)
    BY <1>1, <1>2
  <2>3. b[n + 1] = t
    BY <1>2, <1>4, <1>5, <2>2
  <2>4. ~(n + 1 \in 1..m)
    BY <1>3, <2>0, <2>3
  <2> QED BY <1>1, <2>1, <2>4
<1>7. y = << >>
  BY <1>6, EmptySeq
<1>8. ASSUME NEW i \in 1..n PROVE x[i] = v[i]
  <2>1. i \in 1..Len(a) /\ i \in 1..m
    BY <1>1, <1>2, <1>6
  <2> QED BY <1>2, <1>3, <1>4, <1>5, <2>1
<1>9. x = v
  BY <1>6, <1>8, SeqEqual
<1> QED BY <1>7, <1>9

\* A token added to texts put together.
LEMMA AppendLast ==
  ASSUME NEW a \in Seq(Tok), NEW b \in Seq(Tok), NEW t \in Tok
  PROVE  a \o Append(b, t) = Append(a \o b, t) /\ Append(a, t) = a \o << t >>
<1>1. << t >> \in Seq(Tok) /\ a \o b \in Seq(Tok)
  BY SeqOne, ConcatProperties
<1>2. Append(b, t) = b \o << t >> /\ Append(a, t) = a \o << t >>
  BY AppendIsConcat
<1>3. Append(a \o b, t) = (a \o b) \o << t >>
  BY <1>1, AppendIsConcat
<1>4. a \o (b \o << t >>) = (a \o b) \o << t >>
  BY <1>1, Assoc
<1> QED BY <1>2, <1>3, <1>4

\* What follows in the end of such a text is the end of one.
LEMMA EndingRest ==
  ASSUME NEW a \in Seq(Tok), NEW b \in Seq(Tok), Ending(a \o b)
  PROVE  Ending(b)
<1>1. PICK w \in Seq(Tok), v \in Seq(Tok) : NoPrompt(v) /\ w \o (a \o b) = Append(v, Prompt)
  BY DEF Ending
<1>2. Associates(w, a, b)
  BY ConcatAssociates
<1>3. w \o a \in Seq(Tok)
  BY ConcatProperties
<1> QED BY <1>1, <1>2, <1>3 DEF Ending, Associates

\* The text f is cut around the token t.
CutAt(f, a, t, b) == f = Append(a, t) \o b

\* What was read, and what is to come, are the text v and a prompt.
Completes(y, f, v) == y \o f = Append(v, Prompt)

\* What comes before the prompt found in the text f, after the text y.
LEMMA FoundAfter ==
  ASSUME NEW y \in Seq(Tok), NEW a \in Seq(Tok), NEW b \in Seq(Tok), NEW v \in Seq(Tok),
         NEW f, NEW t \in Tok, t.k = "prompt", NoPrompt(v),
         CutAt(f, a, t, b), Completes(y, f, v)
  PROVE  y \o a = v /\ b = << >>
<1> DEFINE x == y \o a
           c == Append(a, t)
<1>0. x \in Seq(Tok) /\ y \o c = Append(x, t)
  <2>1. x \in Seq(Tok)
    BY ConcatProperties
  <2> QED BY <2>1, AppendLast
<1>1. (y \o c) \o b = y \o (c \o b)
  <2>1. c \in Seq(Tok)
    BY AppendProperties
  <2> HIDE DEF c
  <2>2. Associates(y, c, b)
    BY <2>1, ConcatAssociates
  <2> QED BY <2>2 DEF Associates
<1> HIDE DEF c
<1> HIDE DEF x
<1>2. Append(x, t) \o b = Append(v, Prompt)
  BY <1>0, <1>1 DEF CutAt, Completes, c
<1>3. x = v /\ b = << >>
  BY <1>0, <1>2, PromptEnds
<1> QED BY <1>3 DEF x

\* Nothing follows a prompt in the end of such a text.
LEMMA EndingPrompt ==
  ASSUME NEW a \in Seq(Tok), NEW b \in Seq(Tok), NEW t \in Tok, t.k = "prompt",
         Ending(Append(a, t) \o b)
  PROVE  b = << >>
<1> DEFINE f == Append(a, t) \o b
<1>1. PICK w \in Seq(Tok), v \in Seq(Tok) : NoPrompt(v) /\ w \o f = Append(v, Prompt)
  BY DEF Ending
<1>2. CutAt(f, a, t, b) /\ Completes(w, f, v)
  BY <1>1 DEF CutAt, Completes
<1> HIDE DEF f
<1> QED BY <1>1, <1>2, FoundAfter

\* A text without prompt has none in what follows, and none is found in it.
LEMMA NoPromptRest ==
  ASSUME NEW a \in Seq(Tok), NEW b \in Seq(Tok), NoPrompt(a \o b)
  PROVE  NoPrompt(a) /\ NoPrompt(b)
<1> DEFINE z == a \o b
           n == Len(a)
<1>1. n \in Nat /\ Len(b) \in Nat
  BY LenProperties
<1>2. /\ Len(z) = n + Len(b) /\ \A i \in 1..n : z[i] = a[i]
      /\ \A i \in 1..Len(z) : z[i] = IF i <= n THEN a[i] ELSE b[i - n]
  BY ConcatProperties, LenProperties
<1>3. \A i \in 1..Len(z) : z[i].k # "prompt"
  BY DEF NoPrompt
<1> HIDE DEF z, n
<1>4. ASSUME NEW i \in 1..n PROVE a[i].k # "prompt"
  BY <1>1, <1>2, <1>3
<1>5. ASSUME NEW i \in 1..Len(b) PROVE b[i].k # "prompt"
  <2> DEFINE j == n + i
  <2>1. j \in 1..Len(z) /\ ~(j <= n) /\ j - n = i
    BY <1>1, <1>2
  <2> HIDE DEF j
  <2> QED BY <1>2, <1>3, <2>1
<1> QED BY <1>4, <1>5 DEF NoPrompt, n

\* What the library has still to read of its shell for the lines it has read.
Flow(p) == outstanding[p] \o (pty[p] \o todo[p])

\* The shell starts: its first prompt is to come, and nothing else.
Starting(p) == stdin[p] = << >> /\ cmd[p] = NoCmd /\ Ending(Flow(p))

\* "stty -echo" is to be read, and its echo only to come, or its prompt is.
Silencing(p) ==
    /\ cmd[p] = NoCmd
    /\ \/ /\ stdin[p] = << [k |-> "stty", c |-> NoCmd] >> /\ todo[p] = << >>
          /\ NoPrompt(Flow(p))
       \/ stdin[p] = << >> /\ ~echo[p] /\ Ending(Flow(p))

\* What was displayed is the output of the command.
Seen(p) ==
    \/ printed[p] = Output(cmd[p])
    \/ Append(printed[p], Token("empty", cmd[p])) = Output(cmd[p])

\* The result is the status of the command.
Reported(p) == Decoded(result[p]) = << cmd[p].prog.how, cmd[p].prog.n >>

\* Nothing is to come between two calls.
Resting(p) ==
    /\ stdin[p] = << >> /\ ~echo[p] /\ Flow(p) = << >>
    /\ cmd[p] # NoCmd => Seen(p) /\ Reported(p)

\* The command is to be read, or what was displayed and what is to come are its
\* output and a prompt.
Running(p) ==
    /\ ~echo[p] /\ cmd[p] \in Command
    /\ \/ /\ stdin[p] = << [k |-> "cmd", c |-> cmd[p]] >>
          /\ Flow(p) = << >> /\ printed[p] = << >>
       \/ /\ stdin[p] = << >> /\ last[p] = cmd[p]
          /\ printed[p] \o Flow(p) = Append(Output(cmd[p]), Prompt)

\* "echo $?" is to be read, or what was gathered and what is to come are the
\* status of the command and a prompt.
Asking(p) ==
    /\ ~echo[p] /\ cmd[p] \in Command /\ last[p] = cmd[p] /\ Seen(p)
    /\ \/ /\ stdin[p] = << [k |-> "echo", c |-> NoCmd] >>
          /\ Flow(p) = << >> /\ status_display[p] = << >>
       \/ /\ stdin[p] = << >>
          /\ status_display[p] \o Flow(p) = Append(<< Token("status", cmd[p]) >>, Prompt)

\* The conversation, as long as no reception has failed.
Conv(p) ==
    clean[p] =>
        /\ pc[p] \in {"none", "init"} => Starting(p)
        /\ pc[p] = "stty" => Silencing(p)
        /\ pc[p] = "idle" => IF p \in ctx[p] THEN Resting(p) ELSE Starting(p)
        /\ pc[p] = "data" => Running(p)
        /\ pc[p] = "status" => Asking(p)

\* All that the conversation of a process with its shell is made of.
Same(p) ==
    /\ pc'[p] = pc[p] /\ ctx'[p] = ctx[p] /\ cmd'[p] = cmd[p]
    /\ status_display'[p] = status_display[p] /\ result'[p] = result[p]
    /\ outstanding'[p] = outstanding[p] /\ echo'[p] = echo[p]
    /\ stdin'[p] = stdin[p] /\ pty'[p] = pty[p] /\ todo'[p] = todo[p]
    /\ last'[p] = last[p] /\ printed'[p] = printed[p] /\ clean'[p] = clean[p]

\* A step that changes none of it keeps the conversation.
LEMMA ConvSame ==
  ASSUME NEW p, Same(p), Conv(p)
  PROVE  Conv(p)'
<1>1. Flow(p)' = Flow(p)
  BY DEF Same, Flow
<1>2. Starting(p)' <=> Starting(p)
  BY <1>1 DEF Same, Starting
<1>3. Silencing(p)' <=> Silencing(p)
  BY <1>1 DEF Same, Silencing
<1>4. Seen(p)' <=> Seen(p)
  BY DEF Same, Seen
<1>5. Resting(p)' <=> Resting(p)
  BY <1>1, <1>4 DEF Same, Resting, Reported
<1>6. Running(p)' <=> Running(p)
  BY <1>1 DEF Same, Running
<1>7. Asking(p)' <=> Asking(p)
  BY <1>1, <1>4 DEF Same, Asking
<1> QED BY <1>2, <1>3, <1>5, <1>6, <1>7 DEF Same, Conv

\* The text to come is a text; it is empty when its parts are.
LEMMA FlowIs ==
  ASSUME Types, NEW p \in Procs
  PROVE  /\ Flow(p) \in Seq(Tok) /\ outstanding[p] \in Seq(Tok)
         /\ pty[p] \in Seq(Tok) /\ todo[p] \in Seq(Tok)
         /\ Flow(p) = << >> =>
                outstanding[p] = << >> /\ pty[p] = << >> /\ todo[p] = << >>
<1> DEFINE a == outstanding[p]
           b == pty[p]
           c == todo[p]
           d == b \o c
<1>1. a \in Seq(Tok) /\ b \in Seq(Tok) /\ c \in Seq(Tok)
  BY DEF Types, Shells
<1>2. Flow(p) = a \o d
  BY DEF Flow
<1> HIDE DEF a, b, c
<1>3. d \in Seq(Tok) /\ Len(d) = Len(b) + Len(c)
  BY <1>1, ConcatProperties
<1> HIDE DEF d
<1>4. a \o d \in Seq(Tok) /\ Len(a \o d) = Len(a) + Len(d)
  BY <1>1, <1>3, ConcatProperties
<1>5. Len(a) \in Nat /\ Len(b) \in Nat /\ Len(c) \in Nat
  BY <1>1, LenProperties
<1>6. ASSUME a \o d = << >> PROVE a = << >> /\ b = << >> /\ c = << >>
  <2>1. Len(a) + (Len(b) + Len(c)) = 0
    BY <1>3, <1>4, <1>6, EmptySeq
  <2>2. Len(a) = 0 /\ Len(b) = 0 /\ Len(c) = 0
    BY <1>5, <2>1
  <2> QED BY <1>1, <2>2, EmptySeq
<1> QED BY <1>1, <1>2, <1>4, <1>6 DEF a, b, c

\* A reception takes the beginning of the text to come: a text, or a text and a
\* prompt.
LEMMA RecvFlow ==
  ASSUME Types, NEW p \in Procs, NEW r \in pdip_recv(p)
  PROVE  LET rest == r.left \o (Unread(p) \o todo[p])
         IN /\ rest \in Seq(Tok) /\ r.display \in Seq(Tok)
            /\ r.rc \in {"FOUND", "DATA", "AGAIN", "TIMEOUT", "ERROR"}
            /\ r.rc = "FOUND" =>
                   \E t \in Tok : t.k = "prompt" /\ Flow(p) = Append(r.display, t) \o rest
            /\ r.rc # "FOUND" => Flow(p) = r.display \o rest
<1> DEFINE a == outstanding[p]
           b == pty[p]
           c == todo[p]
           l == r.left
           u == Unread(p)
           x == r.display
           e == l \o u
           rest == l \o (u \o c)
<1>1. a \in Seq(Tok) /\ b \in Seq(Tok) /\ c \in Seq(Tok)
  BY FlowIs
<1>2. /\ r.rc \in {"FOUND", "DATA", "AGAIN", "TIMEOUT", "ERROR"}
      /\ x \in Seq(Tok) /\ l \in Seq(Tok) /\ u \in Seq(Tok)
      /\ r.rc = "FOUND" => \E t \in Tok : t.k = "prompt" /\ Append(x, t) \o e = a \o b
      /\ r.rc # "FOUND" => x \o e = a \o b
  BY <1>1, RecvIs
<1>3. Flow(p) = a \o (b \o c)
  BY DEF Flow
<1> HIDE DEF a, b, c, l, u, x
<1>4. x \in Seq(Tok) /\ l \in Seq(Tok) /\ u \in Seq(Tok)
  BY <1>2
<1>5. e \in Seq(Tok) /\ rest = e \o c
  <2>1. e \in Seq(Tok)
    BY <1>4, ConcatProperties
  <2>2. Associates(l, u, c)
    BY <1>1, <1>4, ConcatAssociates
  <2> QED BY <2>1, <2>2 DEF Associates
<1>6. a \o (b \o c) = (a \o b) \o c
  <2>1. Associates(a, b, c)
    BY <1>1, ConcatAssociates
  <2> QED BY <2>1 DEF Associates
<1>7. rest \in Seq(Tok)
  <2>1. u \o c \in Seq(Tok)
    BY <1>1, <1>4, ConcatProperties
  <2> QED BY <1>4, <2>1, ConcatProperties
<1>8. ASSUME NEW y \in Seq(Tok), y \o e = a \o b PROVE Flow(p) = y \o rest
  <2>0. e \in Seq(Tok) /\ c \in Seq(Tok) /\ y \in Seq(Tok)
    BY <1>1, <1>5
  <2> HIDE DEF e
  <2>1. Associates(y, e, c)
    BY <2>0, ConcatAssociates
  <2> QED BY <1>3, <1>5, <1>6, <1>8, <2>1 DEF Associates
<1>9. \A t \in Tok : Append(x, t) \in Seq(Tok)
  BY <1>4, AppendProperties
<1> HIDE DEF e, rest
<1>10. r.rc = "FOUND" => \E t \in Tok : t.k = "prompt" /\ Flow(p) = Append(x, t) \o rest
  BY <1>2, <1>8, <1>9
<1>11. r.rc # "FOUND" => Flow(p) = x \o rest
  BY <1>2, <1>4, <1>8
<1> QED BY <1>2, <1>7, <1>10, <1>11 DEF x, rest, l, u, c

\* A shell changes nothing of the conversation with another one.
LEMMA OtherShell ==
  ASSUME Types, NEW s \in Procs, NEW q \in Procs, q # s,
         ShellReads(s) \/ ShellWrites(s) \/ ShellDies(s)
  PROVE  Same(q)
<1>0. /\ todo \in [Procs -> Seq(Tok)] /\ pty \in [Procs -> Seq(Tok)]
      /\ stdin \in [Procs -> Seq(Sent)] /\ last \in [Procs -> Of] /\ echo \in [Procs -> BOOLEAN]
  BY DEF Types, TypeOK, Shells
<1>1. CASE ShellReads(s)
  <2>1. todo'[q] = todo[q] /\ last'[q] = last[q] /\ echo'[q] = echo[q] /\ stdin'[q] = stdin[q]
    BY <1>0, <1>1 DEF ShellReads
  <2> QED BY <1>1, <2>1 DEF ShellReads, Same, lib, hist
<1>2. CASE ShellWrites(s)
  <2>1. todo'[q] = todo[q] /\ pty'[q] = pty[q]
    BY <1>0, <1>2 DEF ShellWrites
  <2> QED BY <1>2, <2>1 DEF ShellWrites, Same, lib, hist
<1>3. CASE ShellDies(s)
  BY <1>3 DEF ShellDies, Same, lib, hist
<1> QED BY <1>1, <1>2, <1>3

\* A process changes nothing of the conversation of another one.
LEMMA OtherProcess ==
  ASSUME Types, Own, NEW p \in Procs, NEW q \in Procs, q # p,
         \/ InitRecv(p) \/ isystem_nothing(p) \/ isystem(p)
         \/ isys_recv_data(p) \/ isys_recv_status(p) \/ isys_lib_exit(p)
  PROVE  Same(q)
<1>0. /\ todo \in [Procs -> Seq(Tok)] /\ pty \in [Procs -> Seq(Tok)]
      /\ outstanding \in [Procs -> Seq(Tok)]
      /\ stdin \in [Procs -> Seq(Sent)] /\ last \in [Procs -> Of]
      /\ cmd \in [Procs -> Of] /\ status_display \in [Procs -> Seq(Tok)]
      /\ printed \in [Procs -> Seq(Tok)]
  BY DEF Types, Shells
<1>1. /\ pc \in [Procs -> Waiting \cup {"none", "idle", "gone", "undefined"}]
      /\ ctx \in [Procs -> SUBSET Shells] /\ clean \in [Procs -> BOOLEAN]
      /\ result \in [Procs -> Results]
  BY DEF Types, TypeOK, Results
<1>2. CASE InitRecv(p)
  <2>1. isys_pdip[p] = p
    BY <1>2, OwnWaits DEF InitRecv, Waiting
  <2>2. PICK r \in pdip_recv(p) : InitStep(p, r)
    BY <1>2, <2>1 DEF InitRecv, InitStep
  <2>3. /\ outstanding'[q] = outstanding[q] /\ pty'[q] = pty[q] /\ stdin'[q] = stdin[q]
        /\ pc'[q] = pc[q] /\ result'[q] = result[q] /\ cmd'[q] = cmd[q]
        /\ printed'[q] = printed[q] /\ clean'[q] = clean[q]
    BY <1>0, <1>1, <2>2 DEF InitStep, Received, Goto, Return, Fail, Send
  <2> QED BY <1>2, <2>3 DEF InitRecv, Same
<1>3. CASE isystem_nothing(p)
  BY <1>0, <1>1, <1>3 DEF isystem_nothing, Same, sh
<1>4. CASE isystem(p)
  <2>1. isys_pdip[p] \in ctx[p] => isys_pdip[p] = p
    BY DEF Own
  <2>2. UNCHANGED << ctx, status_display, outstanding, echo, todo, last >>
    BY <1>4 DEF isystem
  <2>3. /\ pc'[q] = pc[q] /\ result'[q] = result[q] /\ cmd'[q] = cmd[q]
        /\ printed'[q] = printed[q] /\ clean'[q] = clean[q]
    BY <1>0, <1>1, <1>4 DEF isystem, Goto, Return, Fail
  <2>4. pty'[q] = pty[q] /\ stdin'[q] = stdin[q]
    BY <1>0, <1>4, <2>1 DEF isystem, Send
  <2> QED BY <2>2, <2>3, <2>4 DEF Same
<1>5. CASE isys_recv_data(p)
  <2>1. isys_pdip[p] = p
    BY <1>5, OwnWaits DEF isys_recv_data, Waiting, At
  <2>2. PICK r \in pdip_recv(p) : DataStep(p, r)
    BY <1>5, <2>1 DEF isys_recv_data, DataStep
  <2>3. /\ outstanding'[q] = outstanding[q] /\ pty'[q] = pty[q] /\ stdin'[q] = stdin[q]
        /\ pc'[q] = pc[q] /\ result'[q] = result[q] /\ cmd'[q] = cmd[q]
        /\ printed'[q] = printed[q] /\ clean'[q] = clean[q]
        /\ status_display'[q] = status_display[q]
    BY <1>0, <1>1, <2>2 DEF DataStep, Received, Goto, Return, Fail, Send, Displays
  <2> QED BY <1>5, <2>3 DEF isys_recv_data, Same
<1>6. CASE isys_recv_status(p)
  <2>1. isys_pdip[p] = p
    BY <1>6, OwnWaits DEF isys_recv_status, Waiting, At
  <2>2. PICK r \in pdip_recv(p) : StatusStep(p, r)
    BY <1>6, <2>1 DEF isys_recv_status, StatusStep
  <2>3. /\ outstanding'[q] = outstanding[q] /\ pty'[q] = pty[q]
        /\ pc'[q] = pc[q] /\ result'[q] = result[q] /\ cmd'[q] = cmd[q]
        /\ printed'[q] = printed[q] /\ clean'[q] = clean[q]
        /\ status_display'[q] = status_display[q]
    BY <1>0, <1>1, <2>2 DEF StatusStep, Received, Goto, Return, Fail
  <2> QED BY <1>6, <2>3 DEF isys_recv_status, Same
<1>7. CASE isys_lib_exit(p)
  <2>1. isys_pdip[p] \in ctx[p] => isys_pdip[p] = p
    BY DEF Own
  <2>2. /\ pc'[q] = pc[q] /\ ctx'[q] = ctx[q] /\ cmd'[q] = cmd[q] /\ result'[q] = result[q]
        /\ status_display'[q] = status_display[q] /\ printed'[q] = printed[q]
        /\ clean' = clean /\ echo' = echo
    BY <1>0, <1>1, <1>7 DEF isys_lib_exit, Goto
  <2>3. /\ outstanding'[q] = outstanding[q] /\ pty'[q] = pty[q] /\ stdin'[q] = stdin[q]
        /\ todo'[q] = todo[q] /\ last'[q] = last[q]
    BY <1>0, <1>7, <2>1 DEF isys_lib_exit
  <2> QED BY <2>2, <2>3 DEF Same
<1> QED BY <1>2, <1>3, <1>4, <1>5, <1>6, <1>7

\* A reception that fails ends the conversation.
LEMMA ConvFail ==
  ASSUME Types, NEW p \in Procs, Fail(p)
  PROVE  Conv(p)'
BY DEF Types, TypeOK, Fail, Conv

\* What the reception leaves to come.
LEMMA RestIs ==
  ASSUME Types, NEW p \in Procs, NEW r, Received(p, r), UNCHANGED todo,
         pty' = [pty EXCEPT ![p] = Unread(p)]
  PROVE  Flow(p)' = r.left \o (Unread(p) \o todo[p])
BY DEF Types, Received, Flow, Shells

\* A token written by the shell goes from what it has to write to what is to be
\* read.
LEMMA MoveToken ==
  ASSUME NEW q \in Seq(Tok), NEW w \in Seq(Tok), w # << >>
  PROVE  Append(q, Head(w)) \o Tail(w) = q \o w
<1> DEFINE h == Head(w)
           l == Tail(w)
<1>1. h \in Tok /\ l \in Seq(Tok) /\ w = << h >> \o l
  BY SeqTail, HeadTailProperties
<1> HIDE DEF h, l
<1>2. << h >> \in Seq(Tok) /\ Append(q, h) = q \o << h >>
  BY <1>1, SeqOne, AppendIsConcat
<1>3. (q \o << h >>) \o l = q \o (<< h >> \o l)
  BY <1>1, <1>2, Assoc
<1> QED BY <1>1, <1>2, <1>3 DEF h, l

\* A step of the shell that leaves alone what is to come keeps the conversation.
LEMMA ConvWrites ==
  ASSUME Types, NEW p \in Procs, Conv(p), ShellWrites(p)
  PROVE  Conv(p)'
<1> DEFINE a == outstanding[p]
           q == pty[p]
           w == todo[p]
<1>1. a \in Seq(Tok) /\ q \in Seq(Tok) /\ w \in Seq(Tok) /\ w # << >>
  BY FlowIs DEF ShellWrites
<1>2. pty'[p] = Append(q, Head(w)) /\ todo'[p] = Tail(w) /\ outstanding' = outstanding
  BY DEF ShellWrites, Types, Shells
<1>3. Append(q, Head(w)) \o Tail(w) = q \o w
  BY <1>1, MoveToken
<1>4. Flow(p)' = Flow(p)
  BY <1>2, <1>3 DEF Flow
<1>5. /\ pc' = pc /\ ctx' = ctx /\ cmd' = cmd /\ status_display' = status_display
      /\ result' = result /\ echo' = echo /\ stdin' = stdin /\ last' = last
      /\ printed' = printed /\ clean' = clean
  BY DEF ShellWrites, lib, hist
<1>6. Starting(p) => Starting(p)'
  BY <1>4, <1>5 DEF Starting
<1>7. Silencing(p) => Silencing(p)'
  BY <1>1, <1>4, <1>5 DEF Silencing
<1>8. Seen(p) => Seen(p)'
  BY <1>5 DEF Seen
<1>9. Resting(p) => Resting(p)'
  BY <1>4, <1>5, <1>8 DEF Resting, Reported
<1>10. Running(p) => Running(p)'
  BY <1>4, <1>5 DEF Running
<1>11. Asking(p) => Asking(p)'
  BY <1>4, <1>5, <1>8 DEF Asking
<1> QED BY <1>5, <1>6, <1>7, <1>9, <1>10, <1>11 DEF Conv

\* The shell reads the only line that was sent to it.
LEMMA ConvReads ==
  ASSUME Types, NEW p \in Procs, Conv(p), ShellReads(p), clean[p],
         pc[p] \in {"none", "init", "stty", "idle", "data", "status"}
  PROVE  Conv(p)'
<1> DEFINE a == outstanding[p]
           q == pty[p]
           line == Head(stdin[p])
<1>0. /\ a \in Seq(Tok) /\ q \in Seq(Tok) /\ todo[p] = << >> /\ stdin[p] # << >>
      /\ Flow(p) \in Seq(Tok) /\ Flow(p) = a \o q
  <2>1. a \in Seq(Tok) /\ q \in Seq(Tok) /\ todo[p] = << >> /\ Flow(p) \in Seq(Tok)
    BY FlowIs DEF ShellReads
  <2>2. q \o << >> = q
    BY <2>1, Assoc
  <2> QED BY <2>1, <2>2 DEF ShellReads, Flow
<1>1. /\ pc' = pc /\ ctx' = ctx /\ cmd' = cmd /\ status_display' = status_display
      /\ result' = result /\ outstanding' = outstanding /\ pty' = pty
      /\ printed' = printed /\ clean' = clean /\ stdin'[p] = Tail(stdin[p])
  BY DEF ShellReads, lib, hist, Types, Shells
<1>2. Flow(p)' = a \o (q \o todo'[p])
  BY <1>1 DEF Flow
<1>3. CASE pc[p] \in {"none", "init", "idle"}
  BY <1>0, <1>3 DEF Conv, Starting, Resting
<1>4. CASE pc[p] = "stty"
  <2>1. stdin[p] = << [k |-> "stty", c |-> NoCmd] >> /\ NoPrompt(Flow(p)) /\ cmd[p] = NoCmd
    BY <1>0, <1>4 DEF Conv, Silencing
  <2>2. line.k = "stty" /\ Tail(stdin[p]) = << >>
    BY <2>1
  <2>3. todo'[p] = << Prompt >> /\ ~echo'[p]
    BY <2>2 DEF ShellReads, Types, TypeOK, Shells
  <2>4. Flow(p)' = Append(Flow(p), Prompt)
    <3>1. Append(a \o q, Prompt) = a \o Append(q, Prompt) /\ Append(q, Prompt) = q \o << Prompt >>
      BY <1>0, AppendLast, PromptIs
    <3> QED BY <1>0, <1>2, <2>3, <3>1
  <2>5. << >> \in Seq(Tok) /\ << >> \o Append(Flow(p), Prompt) = Append(Flow(p), Prompt)
    BY <1>0, Assoc, AppendProperties, PromptIs, EmptySeq
  <2>6. Ending(Append(Flow(p), Prompt))
    BY <1>0, <2>1, <2>5 DEF Ending
  <2> QED BY <1>1, <1>4, <2>1, <2>2, <2>3, <2>4, <2>6 DEF Conv, Silencing
<1>5. CASE pc[p] = "data"
  <2>1. /\ stdin[p] = << [k |-> "cmd", c |-> cmd[p]] >> /\ Flow(p) = << >>
        /\ printed[p] = << >> /\ ~echo[p] /\ cmd[p] \in Command
    BY <1>0, <1>5 DEF Conv, Running
  <2>2. line.k = "cmd" /\ line.c = cmd[p] /\ Tail(stdin[p]) = << >>
    BY <2>1
  <2>3. todo'[p] = Output(cmd[p]) \o << Prompt >> /\ last'[p] = cmd[p] /\ echo' = echo
    BY <2>2 DEF ShellReads, Types, Shells
  <2>4. a = << >> /\ q = << >>
    BY <2>1, FlowIs
  <2> DEFINE o == Output(cmd[p])
             z == Append(o, Prompt)
  <2>5. o \in Seq(Tok) /\ z = o \o << Prompt >> /\ z \in Seq(Tok)
    BY <2>1, OutputIs, AppendLast, PromptIs, AppendProperties
  <2>6. << >> \o z = z
    <3> HIDE DEF z
    <3> QED BY <2>5, Assoc
  <2>7. printed'[p] \o Flow(p)' = z
    BY <1>1, <1>2, <2>1, <2>3, <2>4, <2>5, <2>6
  <2> QED BY <1>1, <1>5, <2>1, <2>2, <2>3, <2>7 DEF Conv, Running
<1>6. CASE pc[p] = "status"
  <2>1. /\ stdin[p] = << [k |-> "echo", c |-> NoCmd] >> /\ Flow(p) = << >>
        /\ status_display[p] = << >> /\ ~echo[p] /\ cmd[p] \in Command
        /\ last[p] = cmd[p] /\ Seen(p)
    BY <1>0, <1>6 DEF Conv, Asking
  <2>2. line.k = "echo" /\ Tail(stdin[p]) = << >>
    BY <2>1
  <2>3. todo'[p] = << Token("status", cmd[p]), Prompt >> /\ last' = last /\ echo' = echo
    BY <2>1, <2>2 DEF ShellReads, Types, Shells
  <2>4. a = << >> /\ q = << >>
    BY <2>1, FlowIs
  <2> DEFINE t == Token("status", cmd[p])
             z == << t, Prompt >>
  <2>5. t \in Tok
    BY <2>1 DEF Token, Tok, Of
  <2> HIDE DEF t
  <2>6. z \in Seq(Tok) /\ z = Append(<< t >>, Prompt) /\ << >> \o z = z
    BY <2>5, PromptIs
  <2>7. status_display'[p] \o Flow(p)' = Append(<< t >>, Prompt)
    BY <1>1, <1>2, <2>1, <2>3, <2>4, <2>6 DEF t
  <2>8. Seen(p)'
    BY <1>1, <2>1 DEF Seen
  <2> QED BY <1>1, <1>6, <2>1, <2>2, <2>3, <2>7, <2>8 DEF Conv, Asking, t
<1> QED BY <1>3, <1>4, <1>5, <1>6

\* The shell keeps the conversation.
LEMMA ConvShell ==
  ASSUME Types, NEW s \in Shells, ShellReads(s) \/ ShellWrites(s) \/ ShellDies(s),
         NEW p \in Procs, Conv(p)
  PROVE  Conv(p)'
<1>1. CASE p # s
  BY <1>1, OtherShell, ConvSame DEF Shells
<1>2. CASE ShellWrites(p)
  BY <1>2, ConvWrites
<1>3. CASE ShellDies(p)
  <2>1. Same(p)
    BY <1>3 DEF ShellDies, Same, lib, hist
  <2> QED BY <2>1, ConvSame
<1>4. CASE ShellReads(p)
  <2>1. CASE clean[p] /\ pc[p] \in {"none", "init", "stty", "idle", "data", "status"}
    BY <1>4, <2>1, ConvReads
  <2>2. CASE ~(clean[p] /\ pc[p] \in {"none", "init", "stty", "idle", "data", "status"})
    <3>1. pc' = pc /\ clean' = clean
      BY <1>4 DEF ShellReads, lib, hist
    <3> QED BY <2>2, <3>1 DEF Conv
  <2> QED BY <2>1, <2>2
<1> QED BY <1>1, <1>2, <1>3, <1>4

\* No prompt is found in a text without prompt.
LEMMA NoPromptFound ==
  ASSUME NEW a \in Seq(Tok), NEW b \in Seq(Tok), NEW t \in Tok, t.k = "prompt"
  PROVE  ~NoPrompt(Append(a, t) \o b)
<1> SUFFICES ASSUME NoPrompt(Append(a, t) \o b) PROVE FALSE
  OBVIOUS
<1> DEFINE c == Append(a, t)
           n == Len(a)
<1>1. c \in Seq(Tok) /\ Len(c) = n + 1 /\ c[n + 1] = t /\ n \in Nat
  BY AppendProperties, LenProperties
<1> HIDE DEF n, c
<1>2. NoPrompt(c)
  BY <1>1, NoPromptRest DEF c
<1>3. n + 1 \in 1..Len(c)
  BY <1>1
<1> QED BY <1>1, <1>2, <1>3 DEF NoPrompt

\* Nothing is left when three texts put together make none.
LEMMA NothingLeft ==
  ASSUME NEW a \in Seq(Tok), NEW b \in Seq(Tok), NEW c \in Seq(Tok), a \o (b \o c) = << >>
  PROVE  a = << >> /\ b = << >> /\ c = << >>
<1> DEFINE d == b \o c
<1>1. d \in Seq(Tok) /\ Len(d) = Len(b) + Len(c)
  BY ConcatProperties
<1> HIDE DEF d
<1>2. Len(a \o d) = Len(a) + Len(d)
  BY <1>1, ConcatProperties
<1>3. Len(a \o d) = 0
  BY EmptySeq DEF d
<1>4. Len(a) \in Nat /\ Len(b) \in Nat /\ Len(c) \in Nat
  BY LenProperties
<1>5. Len(a) = 0 /\ Len(b) = 0 /\ Len(c) = 0
  BY <1>1, <1>2, <1>3, <1>4
<1> QED BY <1>5, EmptySeq

\* The initialization keeps the conversation.
LEMMA ConvInitRecv ==
  ASSUME Types, Own, NEW p \in Procs, InitRecv(p), Conv(p)
  PROVE  Conv(p)'
<1> SUFFICES ASSUME clean[p] PROVE Conv(p)'
  <2>1. CASE ~clean[p]
    <3>1. PICK r \in pdip_recv(isys_pdip[p]) : clean' = clean \/ Fail(p)
      BY DEF InitRecv
    <3>2. ~clean'[p]
      BY <2>1, <3>1 DEF Fail, Types, TypeOK
    <3> QED BY <3>2 DEF Conv
  <2> QED BY <2>1
<1>1. isys_pdip[p] = p /\ p \in ctx[p] /\ pc[p] \in {"init", "stty"}
  BY OwnWaits DEF InitRecv, Waiting
<1>2. PICK r \in pdip_recv(p) : InitStep(p, r)
  BY <1>1 DEF InitRecv, InitStep
<1>3. UNCHANGED << isys_pdip, ctx, status_display, up, echo, todo, last, calls >>
  BY DEF InitRecv
<1> DEFINE x == r.display
           u == Unread(p)
           l == r.left
           w == todo[p]
           rest == l \o (u \o w)
<1>4. /\ rest \in Seq(Tok) /\ x \in Seq(Tok)
      /\ r.rc = "FOUND" => \E t \in Tok : t.k = "prompt" /\ Flow(p) = Append(x, t) \o rest
      /\ r.rc # "FOUND" => Flow(p) = x \o rest
  BY RecvFlow
<1>5. l \in Seq(Tok) /\ u \in Seq(Tok) /\ w \in Seq(Tok)
  BY <1>1, RecvTypes, FlowIs DEF Shells
<1>6. Received(p, r)
  BY <1>2 DEF InitStep
<1> DEFINE Read == pty' = [pty EXCEPT ![p] = Unread(p)]
<1>7. ASSUME Read PROVE Flow(p)' = rest
  BY <1>3, <1>6, <1>7, RestIs
<1>8. pc \in [Procs -> Waiting \cup {"none", "idle", "gone", "undefined"}] /\ clean[p]
  BY DEF Types, TypeOK
<1>9. CASE /\ r.rc \in {"DATA", "AGAIN"} /\ Read
           /\ UNCHANGED << pc, result, atfork, stdin, cmd, printed, clean >>
  <2>1. Flow(p) = x \o rest /\ Flow(p)' = rest
    BY <1>4, <1>7, <1>9
  <2> HIDE DEF x, rest
  <2>2. Ending(Flow(p)) => Ending(Flow(p)')
    BY <1>4, <2>1, EndingRest
  <2>3. NoPrompt(Flow(p)) => NoPrompt(Flow(p)')
    BY <1>4, <2>1, NoPromptRest
  <2>4. CASE pc[p] = "init"
    BY <1>3, <1>9, <2>2, <2>4 DEF Conv, Starting
  <2>5. CASE pc[p] = "stty"
    BY <1>3, <1>9, <2>2, <2>3, <2>5 DEF Conv, Silencing
  <2> QED BY <1>1, <2>4, <2>5
<1>10. CASE /\ r.rc = "FOUND" /\ At(p, "init") /\ Goto(p, "stty")
            /\ Send(p, Unread(p), [k |-> "stty", c |-> NoCmd])
            /\ UNCHANGED << result, atfork, cmd, printed, clean >>
  <2>1. stdin[p] = << >> /\ cmd[p] = NoCmd /\ Ending(Flow(p)) /\ pc'[p] = "stty"
    BY <1>8, <1>10 DEF Conv, Starting, At, Goto
  <2>2. rest = << >>
    <3> HIDE DEF x, rest
    <3> QED BY <1>4, <1>10, <2>1, EndingPrompt
  <2>3. l = << >> /\ u = << >> /\ w = << >>
    BY <1>5, <2>2, NothingLeft
  <2>4. stdin'[p] = << [k |-> "stty", c |-> NoCmd] >>
    BY <1>10, <2>1 DEF Send, Types, Shells
  <2> DEFINE e == Token("line", NoCmd)
  <2>5. outstanding'[p] = << >> /\ todo'[p] = << >> /\ pty'[p] \in {<< >>, << e >>}
    BY <1>3, <1>6, <1>10, <2>3 DEF Send, Types, Shells, Received
  <2>6. Flow(p)' \in {<< >>, << e >>}
    <3>1. e \in Tok
      BY DEF Token, Tok, Of
    <3>2. << >> \in Seq(Tok) /\ << e >> \in Seq(Tok)
      BY <3>1, SeqOne, EmptySeq
    <3> HIDE DEF e
    <3> QED BY <2>5, <3>2, Assoc DEF Flow
  <2>7. NoPrompt(Flow(p)')
    BY <2>6 DEF NoPrompt, Token
  <2> QED BY <1>10, <2>1, <2>4, <2>5, <2>7 DEF Conv, Silencing
<1>11. CASE /\ r.rc = "FOUND" /\ At(p, "stty") /\ Return(p, 0) /\ Read
            /\ UNCHANGED << stdin, cmd, printed, clean >>
  <2>1. PICK t \in Tok : t.k = "prompt" /\ Flow(p) = Append(x, t) \o rest
    BY <1>4, <1>11
  <2>2. Silencing(p) /\ pc'[p] = "idle"
    BY <1>8, <1>11 DEF Conv, At, Return, Goto
  <2> HIDE DEF x, rest, Read
  <2>3. ~NoPrompt(Flow(p))
    BY <1>4, <2>1, NoPromptFound
  <2>4. stdin[p] = << >> /\ ~echo[p] /\ Ending(Flow(p)) /\ cmd[p] = NoCmd
    BY <2>2, <2>3 DEF Silencing
  <2>5. rest = << >>
    BY <1>4, <2>1, <2>4, EndingPrompt
  <2>6. Flow(p)' = << >>
    BY <1>7, <1>11, <2>5
  <2>7. Resting(p)'
    BY <1>3, <1>11, <2>4, <2>6 DEF Resting
  <2> QED BY <1>1, <1>3, <2>2, <2>7 DEF Conv
<1>12. CASE Fail(p)
  BY <1>12, ConvFail
<1> QED BY <1>2, <1>9, <1>10, <1>11, <1>12 DEF InitStep

\* What is displayed before the prompt makes the output of the command, or lacks
\* its last line, which is empty.
LEMMA DisplayedIs ==
  ASSUME NEW c \in Command, NEW y \in Seq(Tok), NEW x \in Seq(Tok), y \o x = Output(c)
  PROVE  \/ y \o Displayed(x) = Output(c)
         \/ Append(y \o Displayed(x), Token("empty", c)) = Output(c)
<1>1. CASE Displayed(x) = x
  BY <1>1
<1>2. CASE Displayed(x) # x
  <2> DEFINE e == x[1]
             o == Output(c)
             n == Len(y) + 1
  <2>1. Displayed(x) = << >> /\ Len(x) = 1 /\ e.k = "empty"
    BY <1>2 DEF Displayed
  <2>2. e \in Tok /\ x = << e >>
    <3>1. e \in Tok /\ << e >> \in Seq(Tok) /\ Len(<< e >>) = 1 /\ << e >>[1] = e
      <4>1. 1 \in 1..Len(x)
        BY <2>1
      <4>2. e \in Tok
        BY <4>1, ElementOfSeq
      <4> HIDE DEF e
      <4> QED BY <4>2, SeqOne
    <3> HIDE DEF e
    <3>2. \A i \in 1..Len(x) : x[i] = << e >>[i]
      BY <2>1, <3>1 DEF e
    <3> QED BY <2>1, <3>1, <3>2, SeqEqual
  <2>3. o = Append(y, e) /\ y \o << >> = y
    <3> HIDE DEF e
    <3>1. Append(y, e) = y \o << e >>
      BY <2>2, AppendIsConcat
    <3>2. y \o << >> = y
      BY ConcatEmptySeq
    <3> QED BY <2>2, <3>1, <3>2
  <2>4. o[n] = e /\ Len(o) = n /\ Len(y) \in Nat
    BY <2>2, <2>3, AppendProperties, LenProperties
  <2>5. \A i \in 1..Len(o) : o[i].of = c
    BY OutputIs
  <2> HIDE DEF e, o
  <2>6. e.of = c
    <3>1. n \in 1..Len(o)
      BY <2>4
    <3> QED BY <2>4, <2>5, <3>1
  <2>7. e = Token("empty", c)
    BY <2>1, <2>2, <2>6 DEF Tok, Token, e
  <2> QED BY <2>1, <2>3, <2>7 DEF o
<1> QED BY <1>1, <1>2

\* The reception of the output keeps the conversation.
LEMMA ConvRecvData ==
  ASSUME Types, Own, NEW p \in Procs, isys_recv_data(p), Conv(p)
  PROVE  Conv(p)'
<1> SUFFICES ASSUME clean[p] PROVE Conv(p)'
  <2>1. CASE ~clean[p]
    <3>1. PICK r \in pdip_recv(isys_pdip[p]) : clean' = clean \/ Fail(p)
      BY DEF isys_recv_data
    <3>2. ~clean'[p]
      BY <2>1, <3>1 DEF Fail, Types, TypeOK
    <3> QED BY <3>2 DEF Conv
  <2> QED BY <2>1
<1>1. isys_pdip[p] = p /\ pc[p] = "data"
  BY OwnWaits DEF isys_recv_data, Waiting, At
<1>2. PICK r \in pdip_recv(p) : DataStep(p, r)
  BY <1>1 DEF isys_recv_data, DataStep
<1>3. UNCHANGED << isys_pdip, ctx, atfork, up, echo, todo, last, calls >>
  BY DEF isys_recv_data
<1> DEFINE x == r.display
           u == Unread(p)
           l == r.left
           w == todo[p]
           y == printed[p]
           rest == l \o (u \o w)
<1>4. /\ rest \in Seq(Tok) /\ x \in Seq(Tok)
      /\ r.rc = "FOUND" => \E t \in Tok : t.k = "prompt" /\ Flow(p) = Append(x, t) \o rest
      /\ r.rc # "FOUND" => Flow(p) = x \o rest
  BY RecvFlow
<1>5. l \in Seq(Tok) /\ u \in Seq(Tok) /\ w \in Seq(Tok) /\ y \in Seq(Tok) /\ << >> \in Seq(Tok)
  BY RecvTypes, FlowIs, EmptySeq DEF Shells, Types
<1>6. Received(p, r)
  BY <1>2 DEF DataStep
<1>7. Running(p) /\ cmd[p] \in Command
  BY <1>1 DEF Conv, Running
<1> DEFINE o == Output(cmd[p])
<1>8. o \in Seq(Tok) /\ NoPrompt(o)
  BY <1>7, OutputIs DEF NoPrompt
<1>9. CASE /\ r.rc \in {"DATA", "AGAIN"} /\ Displays(p, x)
           /\ pty' = [pty EXCEPT ![p] = Unread(p)]
           /\ UNCHANGED << pc, result, cmd, status_display, stdin, clean >>
  <2>1. Flow(p) = x \o rest /\ Flow(p)' = rest
    BY <1>3, <1>4, <1>6, <1>9, RestIs
  <2>2. printed'[p] = y \o x
    BY <1>9 DEF Displays, Types
  <2> HIDE DEF x, y, rest, o
  <2>3. CASE stdin[p] = << [k |-> "cmd", c |-> cmd[p]] >> /\ Flow(p) = << >> /\ y = << >>
    <3>1. x = << >> /\ rest = << >>
      <4>1. x \o (rest \o << >>) = << >>
        BY <1>4, <2>1, <2>3, Assoc
      <4> QED BY <1>4, <1>5, <4>1, NothingLeft
    <3>2. printed'[p] = << >> /\ Flow(p)' = << >>
      BY <1>5, <2>1, <2>2, <2>3, <3>1, Assoc
    <3> QED BY <1>1, <1>3, <1>7, <1>9, <2>3, <3>2 DEF Conv, Running
  <2>4. CASE stdin[p] = << >> /\ last[p] = cmd[p] /\ y \o Flow(p) = Append(o, Prompt)
    <3>1. (y \o x) \o rest = y \o (x \o rest)
      <4>1. x \in Seq(Tok) /\ rest \in Seq(Tok) /\ y \in Seq(Tok)
        BY <1>4, <1>5
      <4>2. Associates(y, x, rest)
        BY <4>1, ConcatAssociates
      <4> QED BY <4>2 DEF Associates
    <3>2. printed'[p] \o Flow(p)' = Append(o, Prompt)
      BY <2>1, <2>2, <2>4, <3>1
    <3> QED BY <1>1, <1>3, <1>7, <1>9, <2>4, <3>2 DEF Conv, Running, o
  <2> QED BY <1>7, <2>3, <2>4 DEF Running, y, o
<1>10. CASE /\ r.rc = "FOUND" /\ Displays(p, Displayed(x))
            /\ Send(p, Unread(p), [k |-> "echo", c |-> NoCmd])
            /\ status_display' = [status_display EXCEPT ![p] = << >>]
            /\ Goto(p, "status")
            /\ UNCHANGED << result, cmd, clean >>
  <2>1. PICK t \in Tok : t.k = "prompt" /\ Flow(p) = Append(x, t) \o rest
    BY <1>4, <1>10
  <2>2. printed'[p] = y \o Displayed(x) /\ pc'[p] = "status" /\ status_display'[p] = << >>
    BY <1>10 DEF Displays, Goto, Types, TypeOK
  <2>3. Flow(p) # << >>
    <3>1. ~NoPrompt(Flow(p))
      <4> HIDE DEF x, rest
      <4> QED BY <1>4, <2>1, NoPromptFound
    <3>2. NoPrompt(<< >>)
      BY DEF NoPrompt
    <3> QED BY <3>1, <3>2
  <2>4. stdin[p] = << >> /\ last[p] = cmd[p] /\ y \o Flow(p) = Append(o, Prompt) /\ ~echo[p]
    BY <1>7, <2>3 DEF Running
  <2>5. y \o x = o /\ rest = << >>
    <3> HIDE DEF x, y, rest, o
    <3>1. y \in Seq(Tok) /\ x \in Seq(Tok) /\ rest \in Seq(Tok) /\ o \in Seq(Tok)
      BY <1>4, <1>5, <1>8
    <3>2. NoPrompt(o) /\ t.k = "prompt" /\ t \in Tok
      BY <1>8, <2>1
    <3>3. CutAt(Flow(p), x, t, rest)
      BY <2>1 DEF CutAt
    <3>4. Completes(y, Flow(p), o)
      BY <2>4 DEF Completes
    <3> QED BY <3>1, <3>2, <3>3, <3>4, FoundAfter
  <2>6. l = << >> /\ u = << >> /\ w = << >>
    BY <1>5, <2>5, NothingLeft
  <2>7. stdin'[p] = << [k |-> "echo", c |-> NoCmd] >>
    BY <1>10, <2>4 DEF Send, Types, Shells
  <2>8. outstanding'[p] = << >> /\ todo'[p] = << >> /\ pty'[p] = << >>
    BY <1>3, <1>6, <1>10, <2>4, <2>6 DEF Send, Types, Shells, Received
  <2>9. Flow(p)' = << >>
    BY <1>5, <2>8, Assoc DEF Flow
  <2>10. Seen(p)'
    <3>1. \/ y \o Displayed(x) = o
          \/ Append(y \o Displayed(x), Token("empty", cmd[p])) = o
      BY <1>4, <1>5, <1>7, <2>5, DisplayedIs
    <3> QED BY <1>10, <2>2, <3>1 DEF Seen
  <2>11. Asking(p)'
    BY <1>3, <1>7, <1>10, <2>2, <2>4, <2>7, <2>9, <2>10 DEF Asking
  <2> QED BY <2>2, <2>11 DEF Conv
<1>11. CASE Fail(p)
  BY <1>11, ConvFail
<1> QED BY <1>2, <1>9, <1>10, <1>11 DEF DataStep

\* What atoi() makes of the line written by "echo $?".
LEMMA StatusesOne ==
  ASSUME NEW c \in Command
  PROVE  /\ Token("status", c) \in Tok
         /\ Statuses(<< Token("status", c) >>) = {WaitStatus(ShellStatus(c))}
<1> DEFINE t == Token("status", c)
           d == << t >>
           texts == {i \in 1..Len(d) : d[i].k # "empty"}
<1>1. t \in Tok /\ t.k = "status" /\ t.of = c
  BY DEF Token, Tok, Of
<1> HIDE DEF t
<1>2. Len(d) = 1 /\ d[1] = t
  OBVIOUS
<1>3. texts = {1}
  BY <1>1, <1>2
<1>4. FirstOf({1}) = 1
  BY DEF FirstOf
<1> HIDE DEF d
<1>5. Statuses(d) = {WaitStatus(ShellStatus(d[1].of))}
  BY <1>1, <1>2, <1>3, <1>4 DEF Statuses
<1> QED BY <1>1, <1>2, <1>5 DEF t, d

\* A part of the line written by "echo $?" is not an empty line.
LEMMA StatusDisplayed ==
  ASSUME NEW y \in Seq(Tok), NEW x \in Seq(Tok), NEW t \in Tok, t.k = "status",
         y \o x = << t >>
  PROVE  Displayed(x) = x
<1> SUFFICES ASSUME Len(x) = 1, x[1].k = "empty" PROVE FALSE
  BY DEF Displayed
<1> DEFINE z == y \o x
           n == Len(y)
<1>1. /\ Len(z) = n + Len(x)
      /\ \A i \in 1..(n + Len(x)) : z[i] = IF i <= n THEN y[i] ELSE x[i - n]
  BY ConcatProperties
<1>2. n \in Nat
  BY LenProperties
<1>3. Len(z) = 1 /\ z[1] = t
  OBVIOUS
<1> HIDE DEF n, z
<1>4. n = 0
  <2>1. 1 = n + 1
    BY <1>1, <1>3
  <2> QED BY <1>2, <2>1
<1>5. z[1] = x[1]
  BY <1>1, <1>4
<1> QED BY <1>3, <1>5

\* The reception of the status keeps the conversation.
LEMMA ConvRecvStatus ==
  ASSUME Types, Own, NEW p \in Procs, isys_recv_status(p), Conv(p)
  PROVE  Conv(p)'
<1> SUFFICES ASSUME clean[p] PROVE Conv(p)'
  <2>1. CASE ~clean[p]
    <3>1. PICK r \in pdip_recv(isys_pdip[p]) : clean' = clean \/ Fail(p)
      BY DEF isys_recv_status
    <3>2. ~clean'[p]
      BY <2>1, <3>1 DEF Fail, Types, TypeOK
    <3> QED BY <3>2 DEF Conv
  <2> QED BY <2>1
<1>1. isys_pdip[p] = p /\ pc[p] = "status" /\ p \in ctx[p]
  BY OwnWaits DEF isys_recv_status, Waiting, At
<1>2. PICK r \in pdip_recv(p) : StatusStep(p, r)
  BY <1>1 DEF isys_recv_status, StatusStep
<1>3. UNCHANGED << isys_pdip, ctx, atfork, up, echo, stdin, todo, last, calls >>
  BY DEF isys_recv_status
<1> DEFINE x == r.display
           y == status_display[p]
           rest == r.left \o (Unread(p) \o todo[p])
           s == Token("status", cmd[p])
           o == << s >>
<1>4. /\ rest \in Seq(Tok) /\ x \in Seq(Tok)
      /\ r.rc = "FOUND" => \E t \in Tok : t.k = "prompt" /\ Flow(p) = Append(x, t) \o rest
      /\ r.rc # "FOUND" => Flow(p) = x \o rest
  BY RecvFlow
<1>5. y \in Seq(Tok) /\ << >> \in Seq(Tok)
  BY EmptySeq DEF Types
<1>6. Flow(p)' = rest
  BY <1>2, <1>3, RestIs DEF StatusStep
<1>7. Asking(p) /\ cmd[p] \in Command
  BY <1>1 DEF Conv, Asking
<1>8. s \in Tok /\ s.k = "status" /\ Statuses(o) = {WaitStatus(ShellStatus(cmd[p]))}
  BY <1>7, StatusesOne DEF Token
<1>9. CASE /\ r.rc \in {"DATA", "AGAIN"}
           /\ status_display' = [status_display EXCEPT ![p] = @ \o x]
           /\ UNCHANGED << pc, result, cmd, printed, clean >>
  <2>1. Flow(p) = x \o rest
    BY <1>4, <1>9
  <2>2. status_display'[p] = y \o x
    BY <1>9 DEF Types
  <2>3. Seen(p)'
    BY <1>7, <1>9 DEF Asking, Seen
  <2> HIDE DEF x, y, rest, s
  <2>4. CASE stdin[p] = << [k |-> "echo", c |-> NoCmd] >> /\ Flow(p) = << >> /\ y = << >>
    <3>1. x = << >> /\ rest = << >>
      <4>1. x \o (rest \o << >>) = << >>
        BY <1>4, <2>1, <2>4, Assoc
      <4> QED BY <1>4, <1>5, <4>1, NothingLeft
    <3>2. status_display'[p] = << >> /\ Flow(p)' = << >>
      BY <1>5, <1>6, <2>2, <2>4, <3>1, Assoc
    <3> QED BY <1>1, <1>3, <1>7, <1>9, <2>3, <2>4, <3>2 DEF Conv, Asking
  <2>5. CASE stdin[p] = << >> /\ y \o Flow(p) = Append(o, Prompt)
    <3>1. (y \o x) \o rest = y \o (x \o rest)
      BY <1>4, <1>5, Assoc
    <3>2. status_display'[p] \o Flow(p)' = Append(o, Prompt)
      BY <1>6, <2>1, <2>2, <2>5, <3>1
    <3> QED BY <1>1, <1>3, <1>7, <1>9, <2>3, <2>5, <3>2 DEF Conv, Asking, s
  <2> QED BY <1>7, <2>4, <2>5 DEF Asking, y, s
<1>10. CASE /\ r.rc = "FOUND"
            /\ \E rc \in Statuses(y \o Displayed(x)) : Return(p, rc)
            /\ UNCHANGED << cmd, printed, clean >>
  <2>1. PICK t \in Tok : t.k = "prompt" /\ Flow(p) = Append(x, t) \o rest
    BY <1>4, <1>10
  <2>2. Flow(p) # << >>
    <3>1. ~NoPrompt(Flow(p))
      <4> HIDE DEF x, rest
      <4> QED BY <1>4, <2>1, NoPromptFound
    <3>2. NoPrompt(<< >>)
      BY DEF NoPrompt
    <3> QED BY <3>1, <3>2
  <2>3. stdin[p] = << >> /\ y \o Flow(p) = Append(o, Prompt) /\ ~echo[p]
    BY <1>7, <2>2 DEF Asking
  <2>4. y \o x = o /\ rest = << >>
    <3> HIDE DEF x, y, rest, s
    <3>1. o \in Seq(Tok) /\ NoPrompt(o)
      BY <1>8 DEF NoPrompt
    <3> HIDE DEF o
    <3>2. y \in Seq(Tok) /\ x \in Seq(Tok) /\ rest \in Seq(Tok)
      BY <1>4, <1>5
    <3>3. CutAt(Flow(p), x, t, rest)
      BY <2>1 DEF CutAt
    <3>4. Completes(y, Flow(p), o)
      BY <2>3 DEF Completes
    <3> QED BY <2>1, <3>1, <3>2, <3>3, <3>4, FoundAfter
  <2>5. Displayed(x) = x
    <3> HIDE DEF x, y, s
    <3> QED BY <1>4, <1>5, <1>8, <2>4, StatusDisplayed
  <2>6. PICK rc \in Statuses(o) : Return(p, rc)
    BY <1>10, <2>4, <2>5
  <2>7. rc = WaitStatus(ShellStatus(cmd[p])) /\ pc'[p] = "idle" /\ result'[p] = rc
    BY <1>8, <2>6 DEF Return, Goto, Types, TypeOK
  <2>8. cmd[p] # NoCmd => Reported(p)'
    BY <1>7, <1>10, <2>7, WaitStatusIs DEF Reported, Of
  <2>9. Seen(p)'
    BY <1>7, <1>10 DEF Asking, Seen
  <2>10. Resting(p)'
    BY <1>3, <1>6, <1>10, <2>3, <2>4, <2>8, <2>9 DEF Resting
  <2> QED BY <1>1, <1>3, <2>7, <2>10 DEF Conv
<1>11. CASE Fail(p)
  BY <1>11, ConvFail
<1> QED BY <1>2, <1>9, <1>10, <1>11 DEF StatusStep

\* The calls that receive nothing keep the conversation.
LEMMA ConvCalls ==
  ASSUME Types, Own, NEW p \in Procs, Conv(p),
         isystem_nothing(p) \/ isystem(p) \/ isys_lib_exit(p)
  PROVE  Conv(p)'
<1>0. /\ pc \in [Procs -> Waiting \cup {"none", "idle", "gone", "undefined"}] /\ pc[p] = "idle"
      /\ cmd \in [Procs -> Of] /\ printed \in [Procs -> Seq(Tok)]
  BY DEF Types, TypeOK, isystem_nothing, isystem, isys_lib_exit, Calls, At
<1>1. CASE isystem_nothing(p)
  <2>1. /\ cmd'[p] = NoCmd /\ pc' = pc /\ ctx' = ctx /\ clean' = clean
        /\ stdin' = stdin /\ echo' = echo
    BY <1>0, <1>1 DEF isystem_nothing, sh
  <2>2. Flow(p)' = Flow(p)
    BY <1>1 DEF isystem_nothing, sh, Flow
  <2>3. (Resting(p) => Resting(p)') /\ (Starting(p) => Starting(p)')
    BY <2>1, <2>2 DEF Resting, Starting
  <2> QED BY <1>0, <2>1, <2>3 DEF Conv
<1>2. CASE isystem(p)
  <2>1. UNCHANGED << isys_pdip, ctx, atfork, status_display, outstanding, up, echo, todo, last >>
    BY <1>2 DEF isystem
  <2>2. CASE /\ isys_pdip[p] \in ctx[p]
             /\ \E c \in [by : {p}, n : {calls'[p]}, prog : Programs] :
                    /\ cmd' = [cmd EXCEPT ![p] = IF clean[p] THEN c ELSE NoCmd]
                    /\ Send(isys_pdip[p], pty[isys_pdip[p]], [k |-> "cmd", c |-> c])
             /\ printed' = [printed EXCEPT ![p] = << >>]
             /\ Goto(p, "data")
             /\ UNCHANGED << result, clean >>
    <3>0. calls'[p] = calls[p] + 1 /\ calls[p] \in Nat /\ isys_pdip[p] # NoShell
      BY <1>2 DEF isystem, Types, TypeOK
    <3>1. isys_pdip[p] = p /\ p \in ctx[p] /\ calls'[p] \in Nat
      BY <2>2, <3>0 DEF Own
    <3>2. PICK c \in [by : {p}, n : {calls'[p]}, prog : Programs] :
              /\ cmd' = [cmd EXCEPT ![p] = IF clean[p] THEN c ELSE NoCmd]
              /\ Send(p, pty[p], [k |-> "cmd", c |-> c])
      BY <2>2, <3>1
    <3>3. c \in Command
      BY <3>1 DEF Command
    <3>4. pc'[p] = "data" /\ printed'[p] = << >> /\ clean' = clean
      BY <1>0, <2>2 DEF Goto
    <3>5. CASE ~clean[p]
      BY <3>4, <3>5 DEF Conv
    <3>6. CASE clean[p]
      <4>1. Resting(p) /\ cmd'[p] = c
        BY <1>0, <3>1, <3>2, <3>6 DEF Conv
      <4>2. stdin'[p] = << [k |-> "cmd", c |-> c] >> /\ pty'[p] = pty[p]
        BY <3>2, <4>1 DEF Resting, Send, Types, Shells
      <4>3. Flow(p)' = << >>
        BY <2>1, <4>1, <4>2 DEF Flow, Resting
      <4>4. Running(p)'
        BY <2>1, <3>3, <3>4, <4>1, <4>2, <4>3 DEF Running, Resting
      <4> QED BY <3>4, <4>4 DEF Conv
    <3> QED BY <3>5, <3>6
  <2>3. CASE Fail(p)
    BY <2>3, ConvFail
  <2>4. CASE Goto(p, "undefined")
    BY <1>0, <2>4 DEF Goto, Conv
  <2> QED BY <1>2, <2>2, <2>3, <2>4 DEF isystem
<1>3. CASE isys_lib_exit(p)
  <2>1. pc'[p] = "gone"
    BY <1>0, <1>3 DEF isys_lib_exit, Goto
  <2> QED BY <2>1 DEF Conv
<1> QED BY <1>1, <1>2, <1>3

\* Every step keeps the conversation.
LEMMA ConvNext ==
  ASSUME Types, Own, [Next]_vars, NEW p \in Procs, Conv(p)
  PROVE  Conv(p)'
<1>1. ASSUME NEW s \in Shells, ShellReads(s) \/ ShellWrites(s) \/ ShellDies(s) PROVE Conv(p)'
  BY <1>1, ConvShell
<1>2. ASSUME NEW q \in Procs,
             \/ InitRecv(q) \/ isystem_nothing(q) \/ isystem(q)
             \/ isys_recv_data(q) \/ isys_recv_status(q) \/ isys_lib_exit(q)
      PROVE  Conv(p)'
  <2>1. CASE p # q
    BY <1>2, <2>1, OtherProcess, ConvSame
  <2>2. CASE p = q
    BY <1>2, <2>2, ConvInitRecv, ConvRecvData, ConvRecvStatus, ConvCalls
  <2> QED BY <2>1, <2>2
<1>3. CASE isys_lib_initialize
  <2>1. /\ pc[Child] = "idle" /\ pc' = [pc EXCEPT ![Child] = "init"] /\ Child \notin ctx[Child]
        /\ ctx' = [ctx EXCEPT ![Child] = @ \cup {Child}]
        /\ UNCHANGED << cmd, status_display, result, outstanding, echo, stdin, pty, todo, last,
                        printed, clean >>
    BY <1>3 DEF isys_lib_initialize, At, Goto, hist
  <2>2. CASE p = Child
    <3>1. Starting(p) => Starting(p)'
      BY <2>1 DEF Starting, Flow
    <3>2. pc'[p] = "init"
      BY <2>1, <2>2 DEF Types, TypeOK
    <3> QED BY <2>1, <2>2, <3>1, <3>2 DEF Conv
  <2>3. CASE p # Child
    <3>1. Same(p)
      BY <2>1, <2>3 DEF Same, Types, TypeOK
    <3> QED BY <3>1, ConvSame
  <2> QED BY <2>2, <2>3
<1>4. CASE isys_child_fork
  <2>1. /\ pc[Child] = "none" /\ pc' = [pc EXCEPT ![Child] = "idle"] /\ ctx' = ctx
        /\ UNCHANGED << cmd, status_display, result, outstanding, echo, stdin, pty, todo, last,
                        printed, clean >>
    BY <1>4 DEF isys_child_fork, At, Goto, sh, hist
  <2>2. CASE p = Child
    <3>1. Starting(p) => Starting(p)'
      BY <2>1 DEF Starting, Flow
    <3>2. pc'[p] = "idle"
      BY <2>1, <2>2 DEF Types, TypeOK
    <3>3. p \notin ctx'[p]
      BY <2>1, <2>2, IsysAssumption DEF Own, Procs
    <3> QED BY <2>1, <2>2, <3>1, <3>2, <3>3 DEF Conv
  <2>3. CASE p # Child
    <3>1. Same(p)
      BY <2>1, <2>3 DEF Same, Types, TypeOK
    <3> QED BY <3>1, ConvSame
  <2> QED BY <2>2, <2>3
<1>5. CASE UNCHANGED vars
  <2>1. Same(p)
    BY <1>5 DEF vars, lib, sh, hist, Same
  <2> QED BY <2>1, ConvSame
<1> QED BY <1>1, <1>2, <1>3, <1>4, <1>5 DEF Next

\* The conversation starts with the prompt of the shell.
LEMMA ConvInit == Init => \A p \in Procs : Conv(p)
<1> SUFFICES ASSUME Init, NEW p \in Procs PROVE Conv(p)
  OBVIOUS
<1>1. /\ pc[p] \in {"init", "none"} /\ stdin[p] = << >> /\ cmd[p] = NoCmd
      /\ outstanding[p] = << >> /\ pty[p] = << >> /\ todo[p] = << Prompt >>
  BY DEF Init, Shells
<1> DEFINE z == << Prompt >>
<1>2. z \in Seq(Tok) /\ << >> \in Seq(Tok) /\ Append(<< >>, Prompt) = z
  BY PromptIs, SeqOne, EmptySeq
<1> HIDE DEF z
<1>3. << >> \o z = z
  BY <1>2, Assoc
<1>4. Flow(p) = z
  BY <1>1, <1>3 DEF Flow, z
<1>5. NoPrompt(<< >>)
  BY DEF NoPrompt
<1>6. Ending(z)
  BY <1>2, <1>3, <1>5 DEF Ending
<1> QED BY <1>1, <1>4, <1>6 DEF Conv, Starting

\* The inductive invariant: types, objects and conversations.
ConvInv == Types /\ Own /\ \A p \in Procs : Conv(p)

\* It holds of every reachable state.
THEOREM ConversationInvariant == Spec => []ConvInv
<1>1. Init => ConvInv
  BY TypesInit, OwnInit, ConvInit DEF ConvInv
<1>2. ConvInv /\ [Next]_vars => ConvInv'
  <2> SUFFICES ASSUME ConvInv, [Next]_vars PROVE ConvInv'
    OBVIOUS
  <2>1. Types' /\ Own'
    BY TypesNext, OwnNext DEF ConvInv
  <2>2. \A p \in Procs : Conv(p)'
    BY ConvNext DEF ConvInv
  <2> QED BY <2>1, <2>2 DEF ConvInv
<1> QED BY <1>1, <1>2, PTL DEF Spec

\* A process that has got its answer rests.
LEMMA AnsweredRests ==
  ASSUME ConvInv, NEW p \in Procs, Answered(p)
  PROVE  Seen(p) /\ Reported(p)
<1>1. pc[p] = "idle" /\ clean[p] /\ cmd[p] # NoCmd /\ Conv(p)
  BY DEF Answered, ConvInv
<1> QED BY <1>1 DEF Conv, Starting, Resting

\* The status that isystem() returns is that of its own command, for every
\* program and every way of cutting the text in reads.
THEOREM IsysOwnStatus == Spec => []OwnStatus
<1>1. ConvInv => OwnStatus
  BY AnsweredRests DEF OwnStatus, Reported
<1> QED BY <1>1, ConversationInvariant, PTL

\* What isystem() displays is what its own command wrote, but perhaps for an
\* empty last line.
THEOREM IsysOwnOutput == Spec => []OwnOutput
<1>1. ConvInv => OwnOutput
  BY AnsweredRests DEF OwnOutput, Seen
<1> QED BY <1>1, ConversationInvariant, PTL
=============================================================================
