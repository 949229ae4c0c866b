--------------------------- MODULE RsystemdProofs ---------------------------
(***************************************************************************)
(* Theorems about Rsystemd, for every set of clients, number of shells and *)
(* of commands, every output of the commands and every set of faults.      *)
(*                                                                         *)
(* The links between clients and shells, the bookkeeping of the rounds of  *)
(* the main loop and the absence of failed assertions are proved together: *)
(* the loop frees the client of its cursor and no other because the links  *)
(* agree, and an assertion that failed would leave both undefined.         *)
(*                                                                         *)
(* Then the conversation: where a shell is in each state of its machine    *)
(* (DialogueInv), which numbers of commands exist (NumberInv) and, from    *)
(* both, the phases of a client and its command (TalkInv), whatever dies,  *)
(* leaves or comes late. What a client is told follows from its phase.     *)
(***************************************************************************)
EXTENDS Rsystemd, ListLemmas, FiniteSetTheorems

\* What is returned and what is left by a scan of the data are parts of it.
LEMMA ScanType ==
  ASSUME NEW d \in Seq(Token), NEW r \in Scan(d)
  PROVE  r.display \in Seq(Token) /\ r.left \in Seq(Token)
<1>1. CASE PromptFound(d)
  <2>1. r = [rc |-> "FOUND", display |-> SubSeq(d, 1, Len(d) - 1), left |-> << >>]
    BY <1>1 DEF Scan
  <2>2. Len(d) \in Nat /\ Len(d) - 1 \in Nat
    BY <1>1, LenProperties, EmptySeq DEF PromptFound
  <2> QED BY <2>1, <2>2, SeqSub
<1>2. CASE ~PromptFound(d) /\ LineEnds(d) = {}
  <2>1. r = [rc |-> "AGAIN", display |-> << >>, left |-> d]
    BY <1>2 DEF Scan
  <2> QED BY <2>1, EmptySeq
<1>3. CASE ~PromptFound(d) /\ LineEnds(d) # {}
  <2>1. PICK j \in LineEnds(d) :
             r = [rc |-> "DATA", display |-> SubSeq(d, 1, j), left |-> SubSeq(d, j + 1, Len(d))]
    BY <1>3 DEF Scan
  <2>2. j \in 1..Len(d) /\ Len(d) \in Nat
    BY LenProperties DEF LineEnds
  <2> QED BY <2>1, <2>2, SeqSub
<1> QED BY <1>1, <1>2, <1>3

\* So are the outcomes of pdip_recv(); status and display are made of tokens.
LEMMA ReceivedType ==
  ASSUME TypeOK, NEW s \in Shells, NEW r \in Received(s)
  PROVE  r.display \in Seq(Token) /\ r.left \in Seq(Token) /\ r.unread \in Seq(Token)
<1>0. outstanding[s] \in Seq(Token) /\ pty[s] \in Seq(Token) /\ Len(pty[s]) \in Nat
  BY LenProperties DEF TypeOK, ShellType
<1>1. CASE RecvOutstanding(outstanding[s]) # {}
  <2>1. PICK q \in RecvOutstanding(outstanding[s]) :
            r = [rc |-> q.rc, display |-> q.display, left |-> q.left, unread |-> pty[s]]
    BY <1>1 DEF Received
  <2>2. q \in Scan(outstanding[s])
    BY <2>1 DEF RecvOutstanding
  <2> QED BY <2>1, <2>2, <1>0, ScanType
<1>2. CASE RecvOutstanding(outstanding[s]) = {} /\ pty[s] = << >>
  <2>1. r = [rc |-> "ERROR", display |-> << >>, left |-> outstanding[s], unread |-> << >>]
    BY <1>2 DEF Received
  <2> QED BY <2>1, <1>0, EmptySeq
<1>3. CASE RecvOutstanding(outstanding[s]) = {} /\ pty[s] # << >>
  <2>1. PICK n \in 1..Len(pty[s]) : \E q \in RecvRead(outstanding[s], pty[s], n) :
            r = [rc |-> q.rc, display |-> q.display, left |-> q.left,
                 unread |-> SubSeq(pty[s], n + 1, Len(pty[s]))]
    BY <1>3 DEF Received
  <2>2. PICK q \in RecvRead(outstanding[s], pty[s], n) :
            r = [rc |-> q.rc, display |-> q.display, left |-> q.left,
                 unread |-> SubSeq(pty[s], n + 1, Len(pty[s]))]
    BY <2>1
  <2>3. SubSeq(pty[s], 1, n) \in Seq(Token) /\ SubSeq(pty[s], n + 1, Len(pty[s])) \in Seq(Token)
    BY <1>0, SeqSub
  <2>4. q \in Scan(outstanding[s] \o SubSeq(pty[s], 1, n))
    BY <2>2 DEF RecvRead
  <2>5. outstanding[s] \o SubSeq(pty[s], 1, n) \in Seq(Token)
    BY <1>0, <2>3, ConcatProperties
  <2> QED BY <2>2, <2>3, <2>4, <2>5, ScanType
<1> QED BY <1>1, <1>2, <1>3

\* Without memory, what is left is the outstanding data, or part of what the
\* terminal held.
LEMMA NoMemoryIs ==
  ASSUME TypeOK, NEW s \in Shells, NEW r \in NoMemory(s)
  PROVE  /\ r.rc = "NOMEM" /\ r.display = << >>
         /\ \E n \in 0..Len(pty[s]) :
               /\ r.unread = SubSeq(pty[s], n + 1, Len(pty[s]))
               /\ r.left \in {outstanding[s], << >>, outstanding[s] \o SubSeq(pty[s], 1, n)}
<1> DEFINE data(n) == outstanding[s] \o SubSeq(pty[s], 1, n)
           outcome(left, n) == [rc |-> "NOMEM", display |-> << >>, left |-> left,
                                unread |-> SubSeq(pty[s], n + 1, Len(pty[s]))]
<1>1. \/ r = outcome(outstanding[s], 0)
      \/ \E n \in 1..Len(pty[s]) : r = outcome(<< >>, n) \/ r = outcome(data(n), n)
  BY DEF NoMemory
<1>2. Len(pty[s]) \in Nat
  BY LenProperties DEF TypeOK, ShellType
<1>3. PICK n \in 0..Len(pty[s]) : \E left \in {outstanding[s], << >>, data(n)} : r = outcome(left, n)
  <2>1. CASE r = outcome(outstanding[s], 0)
    <3>1. 0 \in 0..Len(pty[s])
      BY <1>2
    <3> HIDE DEF outcome, data
    <3> QED BY <2>1, <3>1
  <2>2. CASE \E n \in 1..Len(pty[s]) : r = outcome(<< >>, n) \/ r = outcome(data(n), n)
    <3>1. PICK n \in 1..Len(pty[s]) : r = outcome(<< >>, n) \/ r = outcome(data(n), n)
      BY <2>2
    <3>2. n \in 0..Len(pty[s])
      BY <1>2
    <3> HIDE DEF outcome, data
    <3> QED BY <3>1, <3>2
  <2> QED BY <1>1, <2>1, <2>2
<1>4. PICK left \in {outstanding[s], << >>, data(n)} : r = outcome(left, n)
  BY <1>3
<1>5. r.rc = "NOMEM" /\ r.display = << >> /\ r.left = left /\ r.unread = SubSeq(pty[s], n + 1, Len(pty[s]))
  BY <1>4
<1> QED BY <1>4, <1>5

LEMMA RecvType ==
  ASSUME TypeOK, NEW s \in Shells, NEW r \in pdip_recv(s)
  PROVE  r.display \in Seq(Token) /\ r.left \in Seq(Token) /\ r.unread \in Seq(Token)
<1>1. CASE r \in Received(s)
  BY <1>1, ReceivedType
<1>2. CASE r \in NoMemory(s)
  <2>1. outstanding[s] \in Seq(Token) /\ pty[s] \in Seq(Token) /\ Len(pty[s]) \in Nat
    BY LenProperties DEF TypeOK, ShellType
  <2>2. PICK n \in 0..Len(pty[s]) :
               /\ r.unread = SubSeq(pty[s], n + 1, Len(pty[s]))
               /\ r.left \in {outstanding[s], << >>, outstanding[s] \o SubSeq(pty[s], 1, n)}
    BY <1>2, NoMemoryIs
  <2>3. SubSeq(pty[s], 1, n) \in Seq(Token) /\ SubSeq(pty[s], n + 1, Len(pty[s])) \in Seq(Token)
    BY <2>1, SeqSub
  <2>4. outstanding[s] \o SubSeq(pty[s], 1, n) \in Seq(Token)
    BY <2>1, <2>3, ConcatProperties
  <2> QED BY <1>2, <2>1, <2>2, <2>3, <2>4, NoMemoryIs, EmptySeq
<1> QED BY <1>1, <1>2 DEF pdip_recv

\* What select() reports is finite: nb_ready is a number.
LEMMA FiniteReady ==
  ASSUME NEW S, S \subseteq Shells, NEW C, C \subseteq Clients
  PROVE  /\ IsFiniteSet(S) /\ Cardinality(S) \in Nat
         /\ IsFiniteSet(C) /\ Cardinality(C) \in Nat
<1>1. IsFiniteSet(Shells) /\ IsFiniteSet(Clients)
  BY FS_Interval, RsystemdAssumption DEF Shells
<1> QED BY <1>1, FS_Subset, FS_CardinalityType

\* While the loop on the clients is not at its end, its cursor is on a client.
LEMMA Cursor ==
  ASSUME TypeOK, RoundInv
  PROVE  /\ pc \in {"read", "next"} => todo # << >> /\ Head(todo) \in Clients
         /\ todo # << >> => Head(todo) \in Clients /\ Tail(todo) \in Seq(Clients)
         /\ pc = "accept" => /\ backlog # << >> /\ Head(backlog) \in Clients
                            /\ Tail(backlog) \in Seq(Clients)
                            /\ nb_ready - 1 \in Nat
<1>1. pc \in {"read", "next"} => todo # << >>
  BY DEF RoundInv, ReadyInv
<1>2. todo # << >> => Head(todo) \in Clients /\ Tail(todo) \in Seq(Clients)
  BY DEF TypeOK, MainType
<1>3. pc = "accept" => backlog # << >>
  BY DEF RoundInv, ReadyInv
<1>4. backlog # << >> => Head(backlog) \in Clients /\ Tail(backlog) \in Seq(Clients)
  BY DEF TypeOK, SocketType
<1>5. Cardinality(rdShells) \in Nat /\ Cardinality(rdClients) \in Nat
  BY FiniteReady DEF TypeOK, MainType
<1>6. pc = "accept" => nb_ready - 1 \in Nat
  BY <1>5 DEF RoundInv, ReadyInv, TypeOK, MainType
<1> QED BY <1>1, <1>2, <1>3, <1>4, <1>6


\* The messages without data.
LEMMA MsgType ==
  ASSUME NEW d \in Seq(Token), NEW t \in {"DISPLAY", "EOC", "BUSY", "OOM"}
  PROVE  <<[type |-> t, data |-> d]>> \in Seq(Msg)
<1>1. [type |-> t, data |-> d] \in Msg
  BY DEF Msg
<1> QED BY <1>1, SeqOne

\* The end of command with its status.
LEMMA EOCType ==
  ASSUME NEW d \in Seq(Token)
  PROVE  EOC(d) \in Msg /\ <<EOC(d)>> \in Seq(Msg)
<1>1. EOC(d) \in Msg
  BY DEF EOC, Msg
<1> QED BY <1>1, SeqOne

\* The display of a part of a shell's output.
LEMMA DisplayType ==
  ASSUME NEW d \in Seq(Token)
  PROVE  Display(d) \in Seq(Msg)
<1>1. CASE d = << >>
  BY <1>1, EmptySeq DEF Display
<1>2. CASE d # << >>
  <2>1. Display(d) = <<[type |-> "DISPLAY", data |-> d]>>
    BY <1>2 DEF Display
  <2> QED BY <2>1, MsgType
<1> QED BY <1>1, <1>2

\* The daemon goes on at "then" after it has written something to client c, or
\* it is stopped.
Heard(c, then) ==
    \/ pc' = "aborted" /\ c = NoClient /\ s2c' = s2c
    \/ pc' = "killed" /\ c # NoClient /\ clst[c] = "gone" /\ s2c' = s2c
    \/ /\ pc' = then /\ c # NoClient
       /\ \E q \in Seq(Msg) : s2c' = [s2c EXCEPT ![c] = @ \o q]

\* What a message written in part looks like.
LEMMA CutIs ==
  /\ Torn \in Msg
  /\ \A part \in Cut : part \in Seq(Msg)
<1>1. Torn \in Msg
  BY EmptySeq DEF Torn, Msg
<1> QED BY <1>1, EmptySeq, SeqOne DEF Cut

\* A write that succeeds; one that fails.
LEMMA WriteHeard ==
  ASSUME NEW c, NEW msgs \in Seq(Msg), NEW then, Write(c, msgs, then)
  PROVE  Heard(c, then)
BY DEF Write, Heard

LEMMA WriteFailsHeard ==
  ASSUME NEW c, NEW got, \A q \in got : q \in Seq(Msg), NEW then, WriteFails(c, got, then)
  PROVE  Heard(c, then) /\ c # NoClient /\ clst[c] # "gone" /\ pc' = then /\ misled' = misled \cup {c}
BY DEF WriteFails, Heard

\* Without what its last message becomes.
LEMMA DeliverHeard ==
  ASSUME NEW c, NEW msgs \in Seq(Msg), msgs # << >>, NEW then, NEW also, Deliver(c, msgs, then, also)
  PROVE  /\ Heard(c, then)
         /\ \/ Write(c, msgs, then) /\ misled' = misled \cup also
            \/ c # NoClient /\ misled' = misled \cup {c} /\ pc' = then
<1>1. CASE Write(c, msgs, then) /\ misled' = misled \cup also
  BY <1>1, WriteHeard
<1>2. CASE WriteFails(c, {Front(msgs) \o part : part \in Cut}, then)
  <2>1. Front(msgs) \in Seq(Msg)
    <3>1. Len(msgs) \in Nat /\ Len(msgs) >= 1
      BY LenProperties, EmptySeq
    <3> QED BY <3>1, SeqSub DEF Front
  <2>2. \A q \in {Front(msgs) \o part : part \in Cut} : q \in Seq(Msg)
    BY <2>1, CutIs, ConcatProperties
  <2> QED BY <1>2, <2>2, WriteFailsHeard
<1> QED BY <1>1, <1>2 DEF Deliver

\* One message, that nobody else is misled by.
LEMMA TellHeard ==
  ASSUME NEW c, NEW type \in {"DISPLAY", "EOC", "BUSY", "OOM"}, NEW then,
         Deliver(c, <<[type |-> type, data |-> << >>]>>, then, {})
  PROVE  Heard(c, then) /\ misled' \subseteq misled \cup {c}
<1> DEFINE msgs == <<[type |-> type, data |-> << >>]>>
<1>1. msgs \in Seq(Msg)
  <2>1. << >> \in Seq(Token)
    BY EmptySeq
  <2> QED BY <2>1, MsgType
<1>2. msgs # << >>
  OBVIOUS
<1>3. Deliver(c, msgs, then, {})
  OBVIOUS
<1> HIDE DEF msgs
<1>4. /\ Heard(c, then)
      /\ \/ Write(c, msgs, then) /\ misled' = misled \cup {}
         \/ c # NoClient /\ misled' = misled \cup {c} /\ pc' = then
  BY <1>1, <1>2, <1>3, DeliverHeard
<1> QED BY <1>4

\* Messages to a client, sent or lost with the daemon, keep the types.
LEMMA HeardType ==
  ASSUME TypeOK, NEW c \in Clients \cup {NoClient}, NEW then \in PcStates, Heard(c, then)
  PROVE  pc' \in PcStates /\ s2c' \in [Clients -> Seq(Msg)]
<1>0. s2c \in [Clients -> Seq(Msg)] /\ {"aborted", "killed"} \subseteq PcStates
  BY DEF TypeOK, SocketType, PcStates, Stopped
<1>1. CASE s2c' = s2c
  BY <1>0, <1>1 DEF Heard
<1>2. CASE s2c' # s2c
  <2>1. PICK q \in Seq(Msg) : s2c' = [s2c EXCEPT ![c] = @ \o q] /\ c \in Clients /\ pc' = then
    BY <1>2 DEF Heard
  <2>2. s2c[c] \o q \in Seq(Msg)
    BY <2>1, <1>0, ConcatProperties
  <2> QED BY <2>1, <2>2, <1>0
<1> QED BY <1>1, <1>2

\* The end of an exchange: the client is told something, and separated from the
\* shell, which may be out of step from now on.
Parted(s, then) ==
    \/ /\ Linked(s)
       /\ Heard(shell_client[s], then) /\ Release(s)
       /\ desynced' \in {desynced, desynced \cup {s}}
       /\ misled' \in {misled, misled \cup {shell_client[s]}}
       /\ desynced' # desynced => shell_client[s] \in misled'
    \/ /\ ~Linked(s) /\ pc' = "aborted"
       /\ UNCHANGED <<s2c, desynced, misled, client_shell, shell_client, shell_state>>

LEMMA ReleaseParted ==
  ASSUME NEW s, NEW msgs \in Seq(Msg), msgs # << >>, NEW then, NEW lost \in {{}, {s}},
         DeliverAndRelease(s, msgs, then, lost)
  PROVE  Parted(s, then)
<1>1. CASE Linked(s)
  <2> DEFINE c == shell_client[s]
             also == {shell_client[t] : t \in lost}
  <2>1. Deliver(c, msgs, then, also) /\ Release(s) /\ desynced' = desynced \cup lost
    BY <1>1 DEF DeliverAndRelease
  <2>2. also \in {{}, {c}} /\ (lost = {s} => also = {c})
    OBVIOUS
  <2>3. Heard(c, then) /\ (misled' = misled \cup also \/ misled' = misled \cup {c})
    <3> HIDE DEF c, also
    <3> QED BY <2>1, DeliverHeard
  <2> QED BY <1>1, <2>1, <2>2, <2>3 DEF Parted
<1>2. CASE ~Linked(s)
  BY <1>2 DEF DeliverAndRelease, Parted
<1> QED BY <1>1, <1>2

\* The dummy status of a command that the shell was not given.
LEMMA RefusedParted ==
  ASSUME NEW s, NEW then, DeliverAndRelease(s, <<EOC(<< >>)>>, then, {})
  PROVE  Parted(s, then)
<1> DEFINE msgs == <<EOC(<< >>)>>
<1>1. msgs \in Seq(Msg) /\ msgs # << >> /\ DeliverAndRelease(s, msgs, then, {})
  BY EmptySeq, EOCType
<1> HIDE DEF msgs
<1> QED BY <1>1, ReleaseParted

\* The display that cannot be written.
BrokenDisplay(s, r) ==
    /\ r.rc \in {"FOUND", "DATA"} /\ r.display # << >> /\ Linked(s)
    /\ WriteFails(shell_client[s], {p[1] \o p[2] : p \in Cut \X (Cut \cup {<<EOC(<< >>)>>})}, "shells")
    /\ Release(s)
    /\ desynced' = desynced \cup Unfinished(s, r)
    /\ UNCHANGED stdin

LEMMA BrokenParted ==
  ASSUME NEW s, NEW r, BrokenDisplay(s, r)
  PROVE  Parted(s, "shells") /\ shell_client[s] \in misled' /\ UNCHANGED stdin
<1>1. \A q \in {p[1] \o p[2] : p \in Cut \X (Cut \cup {<<EOC(<< >>)>>})} : q \in Seq(Msg)
  <2>1. ASSUME NEW part \in Cut, NEW end \in Cut \cup {<<EOC(<< >>)>>} PROVE part \o end \in Seq(Msg)
    <3>1. part \in Seq(Msg) /\ end \in Seq(Msg)
      BY CutIs, EOCType, EmptySeq
    <3> QED BY <3>1, ConcatProperties
  <2> QED BY <2>1
<1>2. Heard(shell_client[s], "shells") /\ misled' = misled \cup {shell_client[s]}
  BY <1>1, WriteFailsHeard DEF BrokenDisplay
<1> QED BY <1>2 DEF BrokenDisplay, Parted, Unfinished

\* The end of an exchange keeps the types.
LEMMA PartedType ==
  ASSUME TypeOK, NEW s \in Shells, NEW then \in PcStates, Parted(s, then)
  PROVE  /\ pc' \in PcStates /\ s2c' \in [Clients -> Seq(Msg)]
         /\ client_shell' \in [Clients -> Shells \cup {NoShell}]
         /\ shell_client' \in [Shells -> Clients \cup {NoClient}]
         /\ shell_state' \in [Shells -> ShellStates]
         /\ desynced' \subseteq Shells /\ misled' \subseteq Clients
<1>1. CASE Linked(s)
  <2>1. shell_client[s] \in Clients
    BY <1>1 DEF Linked, TypeOK, ContextType
  <2>2. pc' \in PcStates /\ s2c' \in [Clients -> Seq(Msg)]
    BY <1>1, <2>1, HeardType DEF Parted
  <2>3. Release(s)
    BY <1>1 DEF Parted
  <2>4. desynced' \subseteq Shells /\ misled' \subseteq Clients
    BY <1>1, <2>1 DEF Parted, TypeOK, SocketType
  <2> QED BY <2>2, <2>3, <2>4 DEF Release, TypeOK, ContextType, ShellStates
<1>2. CASE ~Linked(s)
  BY <1>2 DEF Parted, TypeOK, ContextType, SocketType, PcStates, Stopped
<1> QED BY <1>1, <1>2

\* An input sent to a shell.
LEMMA SendType ==
  ASSUME TypeOK, NEW s \in Shells, NEW in \in Input, pdip_send(s, in)
  PROVE  stdin' \in [Shells -> Seq(Input)]
<1>1. stdin \in [Shells -> Seq(Input)]
  BY DEF TypeOK, ShellType
<1>2. Append(stdin[s], in) \in Seq(Input)
  BY <1>1, AppendProperties
<1> QED BY <1>1, <1>2 DEF pdip_send

\* The data of a shell, while it runs a command.
LEMMA EocPhases ==
  ASSUME NEW s, NEW r, r.display \in Seq(Token), Fsm_WAIT_EOC_DATA(s, r)
  PROVE  /\ shell_state[s] = "WAIT_EOC" /\ UNCHANGED shell_status
         /\ \/ Parted(s, "shells") /\ UNCHANGED stdin
            \/ /\ Write(shell_client[s], Display(r.display), "shells")
               /\ UNCHANGED <<client_shell, shell_client, shell_status, desynced, misled>>
               /\ \/ /\ r.rc = "FOUND"
                     /\ pdip_send(s, [k |-> "status", of |-> NoCmd])
                     /\ shell_state' = [shell_state EXCEPT ![s] = "WAIT_STATUS"]
                  \/ r.rc = "DATA" /\ UNCHANGED <<stdin, shell_state>>
<1>1. EOC(<< >>) \in Msg /\ <<EOC(<< >>)>> \in Seq(Msg) /\ <<EOC(<< >>)>> # << >>
  BY EOCType, EmptySeq
<1>2. /\ Append(Display(r.display), EOC(<< >>)) \in Seq(Msg)
      /\ Append(Display(r.display), EOC(<< >>)) # << >>
  <2>1. Display(r.display) \in Seq(Msg)
    BY DisplayType
  <2> QED BY <2>1, <1>1, AppendProperties
<1>3. Unfinished(s, r) \in {{}, {s}}
  BY DEF Unfinished
<1>4. ASSUME BrokenDisplay(s, r) PROVE Parted(s, "shells") /\ UNCHANGED stdin
  BY <1>4, BrokenParted
<1>5. ASSUME NEW m \in {<<EOC(<< >>)>>, Append(Display(r.display), EOC(<< >>))}, NEW lost \in {{}, {s}},
             DeliverAndRelease(s, m, "shells", lost)
      PROVE  Parted(s, "shells")
  BY <1>1, <1>2, <1>5, ReleaseParted
<1>6. ASSUME NEW m \in {<<EOC(<< >>)>>, Append(Display(r.display), EOC(<< >>))}, NEW lost \in {{}, {s}},
             DeliverAndRelease(s, m, "shells", lost), UNCHANGED stdin
      PROVE  Parted(s, "shells") /\ UNCHANGED stdin
  BY <1>5, <1>6
<1> DEFINE c == shell_client[s]
           m1 == <<EOC(<< >>)>>
           m2 == Append(Display(r.display), EOC(<< >>))
           quiet == Write(c, Display(r.display), "shells")
<1>7. /\ shell_state[s] = "WAIT_EOC" /\ UNCHANGED shell_status
      /\ \/ /\ r.rc = "FOUND" /\ quiet
            /\ pdip_send(s, [k |-> "status", of |-> NoCmd])
            /\ shell_state' = [shell_state EXCEPT ![s] = "WAIT_STATUS"]
            /\ UNCHANGED <<client_shell, shell_client, desynced, misled>>
         \/ DeliverAndRelease(s, m2, "shells", {}) /\ UNCHANGED stdin
         \/ /\ r.rc = "DATA" /\ quiet
            /\ UNCHANGED <<stdin, shell_state, client_shell, shell_client, desynced, misled>>
         \/ BrokenDisplay(s, r)
         \/ DeliverAndRelease(s, m1, "shells", Unfinished(s, r)) /\ UNCHANGED stdin
  BY DEF Fsm_WAIT_EOC_DATA, BrokenDisplay
<1> HIDE DEF quiet
<1>8. CASE DeliverAndRelease(s, m2, "shells", {}) /\ UNCHANGED stdin
  BY <1>6, <1>7, <1>8
<1>9. CASE DeliverAndRelease(s, m1, "shells", Unfinished(s, r)) /\ UNCHANGED stdin
  BY <1>3, <1>6, <1>7, <1>9
<1> QED BY <1>4, <1>7, <1>8, <1>9 DEF quiet

\* While it tells the status.
LEMMA StatusPhases ==
  ASSUME TypeOK, NEW s \in Shells, NEW r, r.display \in Seq(Token), Fsm_WAIT_STATUS_DATA(s, r)
  PROVE  /\ shell_state[s] = "WAIT_STATUS" /\ UNCHANGED stdin
         /\ \/ Parted(s, "shells")
            \/ /\ r.rc = "DATA" /\ pc' = "shells"
               /\ UNCHANGED <<s2c, shell_state, client_shell, shell_client, desynced, misled>>
<1> DEFINE status == rsysd_read_shell_status(s, r)
<1>1. status \in Seq(Token)
  BY DEF rsysd_read_shell_status, TypeOK, ContextType
<1>2. \A d \in Seq(Token) : <<EOC(d)>> \in Seq(Msg) /\ <<EOC(d)>> # << >>
  BY EOCType
<1>3. Unfinished(s, r) \in {{}, {s}} /\ << >> \in Seq(Token)
  BY EmptySeq DEF Unfinished
<1>4. ASSUME NEW d \in Seq(Token), NEW lost \in {{}, {s}}, DeliverAndRelease(s, <<EOC(d)>>, "shells", lost)
      PROVE  Parted(s, "shells")
  BY <1>2, <1>4, ReleaseParted
<1> QED BY <1>1, <1>3, <1>4 DEF Fsm_WAIT_STATUS_DATA

\* Every step keeps the types.
LEMMA TypeStep ==
  ASSUME TypeOK, RoundInv, LinkInv, [Next]_vars
  PROVE  TypeOK'
<1> USE DEF TypeOK, MainType, ContextType, ShellType, SocketType,
            daemonVars, mainVars, listVars, ctxVars, shellVars, procVars, histVars, ptyVars,
            mainEnv, commonEnv, readEnv
<1>1. CASE LoopTest
  BY <1>1 DEF LoopTest, PcStates
<1>2. CASE Select
  <2>1. ReadyShells \subseteq Shells /\ ReadyClients \subseteq Clients
    BY DEF ReadyShells, ReadyClients
  <2>2. Cardinality(ReadyShells) \in Nat /\ Cardinality(ReadyClients) \in Nat
    BY <2>1, FiniteReady
  <2>3. nb_ready' \in Nat
    <3> DEFINE l == IF backlog # << >> THEN 1 ELSE 0
               n == Cardinality(ReadyShells)
               m == Cardinality(ReadyClients)
    <3>1. l \in Nat /\ n \in Nat /\ m \in Nat
      BY <2>2
    <3>2. nb_ready' = l + n + m
      BY <1>2 DEF Select
    <3> HIDE DEF l, n, m
    <3> QED BY ONLY <3>1, <3>2
  <2>4. rdListen' \in BOOLEAN
    BY <1>2, Zenon DEF Select
  <2>5. pc' \in PcStates
    BY <1>2 DEF Select, PcStates
  <2>6. MainType'
    BY <1>2, <2>1, <2>3, <2>4, <2>5 DEF Select
  <2>7. ContextType' /\ ShellType' /\ SocketType'
    BY <1>2 DEF Select
  <2> QED BY <2>6, <2>7
<1>3. CASE Accept
  <2>1. Head(backlog) \in Clients /\ Tail(backlog) \in Seq(Clients) /\ nb_ready - 1 \in Nat
    BY <1>3, Cursor DEF Accept
  <2>2. <<Head(backlog)>> \o rsysd_clients \in Seq(Clients)
    BY <2>1
  <2>3. MainType'
    BY <1>3, <2>1, <2>2 DEF Accept, PcStates
  <2>4. ContextType'
    BY <1>3, <2>1 DEF Accept
  <2>5. ShellType'
    BY <1>3 DEF Accept
  <2>6. SocketType'
    BY <1>3, <2>1 DEF Accept
  <2> QED BY <2>3, <2>4, <2>5, <2>6
<1>4. CASE ShellsDone
  BY <1>4 DEF ShellsDone, PcStates
<1>5. ASSUME NEW s \in Shells, ShellData(s)
      PROVE  TypeOK'
  <2>1. PICK r \in pdip_recv(s) :
            /\ outstanding' = [outstanding EXCEPT ![s] = r.left]
            /\ pty' = [pty EXCEPT ![s] = r.unread]
            /\ Fsm_WAIT_EOC_DATA(s, r) \/ Fsm_WAIT_STATUS_DATA(s, r) \/ Fsm_FREEING_DATA(s, r)
    BY <1>5 DEF ShellData
  <2>2. r.display \in Seq(Token) /\ r.left \in Seq(Token) /\ r.unread \in Seq(Token)
    BY <2>1, RecvType
  <2>3. /\ UNCHANGED <<listVars, client_state, shellVars, procVars, backlog, srv, c2s, histVars>>
        /\ EndShellTurn(s) /\ ShellTurn(s)
    BY <1>5 DEF ShellData
  <2>4. "shells" \in PcStates /\ << >> \in Seq(Token)
    BY EmptySeq DEF PcStates
  <2>5. EOC(<< >>) \in Msg /\ <<EOC(<< >>)>> \in Seq(Msg)
    BY <2>4, EOCType
  <2>6. Display(r.display) \in Seq(Msg) /\ Append(Display(r.display), EOC(<< >>)) \in Seq(Msg)
    BY <2>2, <2>5, DisplayType, AppendProperties
  <2> DEFINE P == /\ pc' \in PcStates /\ s2c' \in [Clients -> Seq(Msg)]
                  /\ client_shell' \in [Clients -> Shells \cup {NoShell}]
                  /\ shell_client' \in [Shells -> Clients \cup {NoClient}]
                  /\ shell_state' \in [Shells -> ShellStates]
                  /\ shell_status' \in [Shells -> Seq(Token)]
                  /\ stdin' \in [Shells -> Seq(Input)]
                  /\ desynced' \subseteq Shells /\ misled' \subseteq Clients
  <2>7. ASSUME Fsm_WAIT_EOC_DATA(s, r) PROVE P
    <3> DEFINE Released == Parted(s, "shells") /\ UNCHANGED <<stdin, shell_status>>
    <3>1. CASE Released
      <4>1. Parted(s, "shells")
        BY <3>1
      <4>2. UNCHANGED <<stdin, shell_status>>
        BY <3>1
      <4>3. /\ pc' \in PcStates /\ s2c' \in [Clients -> Seq(Msg)]
            /\ client_shell' \in [Clients -> Shells \cup {NoShell}]
            /\ shell_client' \in [Shells -> Clients \cup {NoClient}]
            /\ shell_state' \in [Shells -> ShellStates]
            /\ desynced' \subseteq Shells /\ misled' \subseteq Clients
        BY <4>1, <2>4, PartedType
      <4> QED BY <4>2, <4>3
    <3>2. CASE ~Released
      <4>0. /\ Write(shell_client[s], Display(r.display), "shells")
            /\ UNCHANGED <<client_shell, shell_client, shell_status, desynced, misled>>
            /\ \/ /\ pdip_send(s, [k |-> "status", of |-> NoCmd])
                  /\ shell_state' = [shell_state EXCEPT ![s] = "WAIT_STATUS"]
               \/ UNCHANGED <<stdin, shell_state>>
        BY <2>2, <2>7, <3>2, EocPhases
      <4>1. Heard(shell_client[s], "shells")
        BY <4>0, <2>6, WriteHeard
      <4>2. UNCHANGED <<client_shell, shell_client, shell_status, desynced, misled>>
        BY <4>0
      <4>3. pc' \in PcStates /\ s2c' \in [Clients -> Seq(Msg)]
        BY <4>1, <2>4, HeardType
      <4>4. [k |-> "status", of |-> NoCmd] \in Input
        BY RsystemdAssumption DEF Input, Cmd, NoCmd
      <4>5. stdin' \in [Shells -> Seq(Input)]
        BY <4>0, <4>4, SendType
      <4>6. shell_state' \in [Shells -> ShellStates]
        BY <4>0 DEF ShellStates
      <4> QED BY <4>2, <4>3, <4>5, <4>6
    <3> QED BY <3>1, <3>2
  <2>8. ASSUME Fsm_WAIT_STATUS_DATA(s, r) PROVE P
    <3> DEFINE status == IF r.display = << >> THEN shell_status[s] ELSE <<r.display[1]>>
    <3>1. status \in Seq(Token)
      BY <2>2
    <3>2. shell_status' \in [Shells -> Seq(Token)]
      BY <2>8, <3>1 DEF Fsm_WAIT_STATUS_DATA, rsysd_read_shell_status
    <3>3. UNCHANGED stdin
      BY <2>8 DEF Fsm_WAIT_STATUS_DATA, rsysd_read_shell_status
    <3>4. CASE r.rc = "DATA"
      BY <2>8, <2>4, <3>2, <3>3, <3>4 DEF Fsm_WAIT_STATUS_DATA, rsysd_read_shell_status
    <3>5. CASE r.rc # "DATA"
      BY <2>8, <2>2, <2>4, <3>2, <3>3, <3>5, StatusPhases, PartedType
    <3> QED BY <3>4, <3>5
  <2>9. ASSUME Fsm_FREEING_DATA(s, r) PROVE P
    BY <2>9, <2>4 DEF Fsm_FREEING_DATA, ShellStates, Unfinished
  <2>10. P
    BY <2>1, <2>7, <2>8, <2>9
  <2>11. MainType'
    BY <2>3, <2>10 DEF EndShellTurn, ShellTurn
  <2>12. ContextType'
    BY <2>3, <2>10
  <2>13. ShellType'
    BY <2>1, <2>2, <2>3, <2>10
  <2>14. SocketType'
    BY <2>3, <2>10
  <2> QED BY <2>11, <2>12, <2>13, <2>14
<1>6. ASSUME NEW s \in Shells, ShellPartialData(s)
      PROVE  TypeOK'
  <2>1. PICK r \in pdip_recv(s) : /\ outstanding' = [outstanding EXCEPT ![s] = r.left]
                                  /\ pty' = [pty EXCEPT ![s] = r.unread]
    BY <1>6 DEF ShellPartialData
  <2> QED BY <1>6, <2>1, RecvType DEF ShellPartialData, PcStates
<1>7. ASSUME NEW s \in Shells, ShellUnexpectedData(s)
      PROVE  TypeOK'
  <2>1. MainType'
    BY <1>7 DEF ShellUnexpectedData, PcStates, EndShellTurn, ShellTurn
  <2>2. ContextType' /\ ShellType' /\ SocketType'
    BY <1>7 DEF ShellUnexpectedData
  <2> QED BY <2>1, <2>2
<1>8. CASE ClientTurn
  <2>1. Head(todo) \in Clients /\ nb_ready - 1 \in Nat
    BY <1>8, Cursor DEF ClientTurn, Fsm_LINK
  <2>2. MainType' /\ ShellType' /\ SocketType'
    <3>1. misled' \subseteq Clients
      <4>1. misled' \in {misled, misled \cup {Head(todo)}}
        <5>1. CASE \E s \in rsysd_get_shell : Fsm_LINK(s, Head(todo))
          BY <5>1 DEF Fsm_LINK
        <5>2. CASE misled' = misled
          BY <5>2
        <5> QED BY <1>8, <5>1, <5>2 DEF ClientTurn
      <4> QED BY <4>1, <2>1
    <3>2. MainType'
      BY <1>8, <2>1 DEF ClientTurn, PcStates
    <3>3. UNCHANGED <<ptyVars, stdin, shellVars, procVars, backlog, srv, c2s, s2c, histVars, desynced>>
      BY <1>8 DEF ClientTurn
    <3>4. ShellType'
      BY <3>3
    <3>5. SocketType'
      BY <3>1, <3>3
    <3> QED BY <3>2, <3>4, <3>5
  <2>3. ContextType'
    <3>1. CASE UNCHANGED <<client_shell, shell_client, shell_state>>
      BY <1>8, <3>1 DEF ClientTurn, Fsm_LINK
    <3>2. ASSUME NEW s \in rsysd_get_shell,
                 /\ shell_client' = [shell_client EXCEPT ![s] = Head(todo)]
                 /\ client_shell' = [client_shell EXCEPT ![Head(todo)] = s]
                 /\ shell_state' = [shell_state EXCEPT ![s] = "ALLOCATED"]
          PROVE  ContextType'
      <4>1. s \in Shells /\ UNCHANGED <<client_state, shell_status>>
        BY <1>8 DEF ClientTurn, Fsm_LINK, rsysd_get_shell
      <4> QED BY <2>1, <3>2, <4>1 DEF ShellStates
    <3> QED BY <1>8, <3>1, <3>2 DEF ClientTurn, Fsm_LINK
  <2> QED BY <2>2, <2>3
<1>9. CASE ClientCmd
  <2> DEFINE c == Head(todo)
             s == client_shell[c]
  <2>1. c \in Clients /\ s \in Shells \cup {NoShell} /\ "next" \in PcStates
    BY <1>9, Cursor DEF ClientCmd, Fsm_CMD, PcStates
  <2>2. c2s' \in [Clients -> Seq(Packet)]
    <3>1. c2s' = [c2s EXCEPT ![c] = SubSeq(c2s[c], 3, Len(c2s[c]))]
      BY <1>9 DEF ClientCmd, Fsm_CMD, rsysd_read_client
    <3>2. SubSeq(c2s[c], 3, Len(c2s[c])) \in Seq(Packet)
      BY <2>1, SeqSub, LenProperties
    <3> QED BY <3>1, <3>2
  <2>3. UNCHANGED readEnv
    BY <1>9 DEF ClientCmd, Fsm_CMD
  <2> DEFINE P == /\ pc' \in PcStates /\ s2c' \in [Clients -> Seq(Msg)]
                  /\ ContextType'
                  /\ stdin' \in [Shells -> Seq(Input)]
                  /\ misled' \subseteq Clients
  <2>4. ASSUME s = NoShell PROVE P
    <3>2. /\ Deliver(c, <<[type |-> "BUSY", data |-> << >>]>>, "next", {})
          /\ UNCHANGED <<stdin, ctxVars>>
      BY <1>9, <2>4 DEF ClientCmd, Fsm_CMD
    <3>3. Heard(c, "next") /\ misled' \subseteq misled \cup {c}
      <4> HIDE DEF c
      <4> QED BY <3>2, TellHeard
    <3>4. pc' \in PcStates /\ s2c' \in [Clients -> Seq(Msg)]
      BY <2>1, <3>3, HeardType
    <3> QED BY <2>1, <3>2, <3>3, <3>4
  <2>5. ASSUME s # NoShell /\ shell_state[s] # "ALLOCATED" PROVE P
    BY <1>9, <2>1, <2>5 DEF ClientCmd, Fsm_CMD
  <2>6. ASSUME s # NoShell /\ shell_state[s] = "ALLOCATED" PROVE P
    <3>0. s \in Shells
      BY <2>1, <2>6
    <3>1. CASE /\ pdip_send(s, [k |-> "cmd", of |-> <<c, c2s[c][2].n>>])
               /\ shell_state' = [shell_state EXCEPT ![s] = "WAIT_EOC"]
               /\ pc' = "next"
               /\ UNCHANGED <<s2c, misled, client_state, client_shell, shell_client, shell_status>>
      <4>1. Len(c2s[c]) > 1 /\ c2s[c] \in Seq(Packet) /\ Len(c2s[c]) \in Nat
        BY <1>9, <2>1, LenProperties DEF ClientCmd, Fsm_CMD, rsysd_read_client
      <4>2. c2s[c][2] \in Packet
        BY <4>1, ElementOfSeq
      <4>3. c2s[c][2].n \in 0..MaxCmds
        BY <4>2 DEF Packet
      <4>4. [k |-> "cmd", of |-> <<c, c2s[c][2].n>>] \in Input
        BY <4>3, <2>1 DEF Input, Cmd
      <4>5. stdin' \in [Shells -> Seq(Input)]
        BY <3>0, <3>1, <4>4, SendType
      <4>6. shell_state' \in [Shells -> ShellStates]
        BY <3>0, <3>1 DEF ShellStates
      <4> QED BY <2>1, <3>1, <4>5, <4>6
    <3>2. CASE /\ DeliverAndRelease(s, <<EOC(<< >>)>>, "next", {})
               /\ UNCHANGED <<stdin, client_state, shell_status>>
      <4>1. <<EOC(<< >>)>> \in Seq(Msg)
        BY EmptySeq, EOCType
      <4>2. Parted(s, "next")
        BY <3>0, <3>2, <4>1, ReleaseParted
      <4> QED BY <2>1, <3>0, <3>2, <4>2, PartedType
    <3> QED BY <1>9, <2>6, <3>1, <3>2 DEF ClientCmd, Fsm_CMD
  <2>7. P
    BY <2>4, <2>5, <2>6
  <2> QED BY <2>2, <2>3, <2>7
<1>10. CASE ClientDcnx
  <2> DEFINE c == Head(todo)
             s == client_shell[c]
  <2>1. c \in Clients /\ s \in Shells \cup {NoShell} /\ "next" \in PcStates /\ "aborted" \in PcStates
    BY <1>10, Cursor DEF ClientDcnx, PcStates, Stopped
  <2>2. c2s' \in [Clients -> Seq(Packet)]
    <3>1. c2s \in [Clients -> Seq(Packet)] /\ c2s[c] \in Seq(Packet)
      BY <2>1
    <3>2. (IF c2s[c] = << >> THEN c2s[c] ELSE Tail(c2s[c])) \in Seq(Packet)
      BY <3>1, SeqTail
    <3>3. c2s' = [c2s EXCEPT ![c] = IF c2s[c] = << >> THEN c2s[c] ELSE Tail(c2s[c])]
      BY <1>10 DEF ClientDcnx
    <3> HIDE DEF c
    <3> QED BY <3>1, <3>2, <3>3
  <2>3. CASE s = NoShell
    BY <1>10, <2>1, <2>2, <2>3 DEF ClientDcnx, rsysd_delete_client
  <2>4. CASE s # NoShell
    <3>1. s \in Shells /\ Fsm_DCNX(s)
      BY <1>10, <2>1, <2>4 DEF ClientDcnx
    <3>2. pc' \in PcStates
      BY <3>1, <2>1 DEF Fsm_DCNX, rsysd_delete_client
    <3>3. ContextType'
      <4>1. shell_state' \in [Shells -> ShellStates]
        <5>1. \/ shell_state' = shell_state
              \/ shell_state' = [shell_state EXCEPT ![s] = "FREE"]
              \/ shell_state' = [shell_state EXCEPT ![s] = "FREEING"]
          BY <3>1 DEF Fsm_DCNX
        <5> QED BY <5>1 DEF ShellStates
      <4>2. client_state' \in [Clients -> {"NONE", "FREE", "ALLOCATED"}]
            /\ client_shell' \in [Clients -> Shells \cup {NoShell}]
        <5>1. \/ UNCHANGED << client_state, client_shell >>
              \/ \E d \in Clients : /\ client_state' = [client_state EXCEPT ![d] = "FREE"]
                                   /\ client_shell' = [client_shell EXCEPT ![d] = NoShell]
          BY <3>1 DEF Fsm_DCNX, rsysd_delete_client
        <5> QED BY <5>1
      <4>3. shell_client' \in [Shells -> Clients \cup {NoClient}]
        BY <3>1 DEF Fsm_DCNX
      <4> QED BY <1>10, <4>1, <4>2, <4>3 DEF ClientDcnx
    <3> QED BY <1>10, <2>2, <3>2, <3>3 DEF ClientDcnx
  <2> QED BY <2>3, <2>4
<1>11. CASE NextClient
  <2>1. Head(todo) \in Clients /\ Tail(todo) \in Seq(Clients)
    BY <1>11, Cursor DEF NextClient
  <2>2. ASSUME NEW p \in 1..Len(rsysd_clients)
        PROVE  RemoveAt(rsysd_clients, p) \in Seq(Clients)
    BY SeqRemoveAt
  <2>3. rsysd_clients' \in Seq(Clients)
    BY <1>11, <2>2 DEF NextClient
  <2>4. MainType'
    BY <1>11, <2>1, <2>3 DEF NextClient, PcStates, Stopped
  <2>5. ContextType' /\ ShellType' /\ SocketType'
    BY <1>11, <2>1 DEF NextClient
  <2> QED BY <2>4, <2>5
<1>12. CASE ClientsDone
  <2>1. MainType'
    BY <1>12, EmptySeq DEF ClientsDone, PcStates, Stopped
  <2>2. ContextType' /\ ShellType' /\ SocketType'
    BY <1>12 DEF ClientsDone
  <2> QED BY <2>1, <2>2
<1>13. CASE MainEnd
  BY <1>13, EmptySeq DEF MainEnd, PcStates, Stopped
<1>14. CASE MainError
  BY <1>14 DEF MainError, PcStates
<1>15. CASE AcceptOutOfMemory
  <2>1. Head(backlog) \in Clients /\ Tail(backlog) \in Seq(Clients) /\ nb_ready - 1 \in Nat
    BY <1>15, Cursor DEF AcceptOutOfMemory
  <2>2. "shells" \in PcStates
    BY DEF PcStates
  <2>3. Heard(Head(backlog), "shells") /\ misled' \subseteq misled \cup {Head(backlog)}
    BY <1>15, TellHeard DEF AcceptOutOfMemory
  <2>4. pc' \in PcStates /\ s2c' \in [Clients -> Seq(Msg)]
    BY <2>1, <2>2, <2>3, HeardType
  <2>5. misled' \subseteq Clients
    BY <2>1, <2>3
  <2> QED BY <1>15, <2>1, <2>4, <2>5 DEF AcceptOutOfMemory
<1>16. CASE rsysd_signal
  BY <1>16 DEF rsysd_signal, PcStates
<1>17. ASSUME NEW c \in Clients, rsys_lib_initialize(c)
      PROVE  TypeOK'
  <2>1. Append(backlog, c) \in Seq(Clients)
    BY AppendProperties
  <2>2. SocketType'
    BY <1>17, <2>1 DEF rsys_lib_initialize
  <2>3. MainType' /\ ContextType' /\ ShellType'
    BY <1>17 DEF rsys_lib_initialize
  <2> QED BY <2>2, <2>3
<1>18. ASSUME NEW c \in Clients, rsystem_header(c)
      PROVE  TypeOK'
  <2>1. ncmd[c] + 1 \in 0..MaxCmds
    BY <1>18, RsystemdAssumption DEF rsystem_header
  <2>2. [k |-> "hdr", n |-> ncmd[c] + 1] \in Packet
    BY <2>1 DEF Packet
  <2>3. Append(c2s[c], [k |-> "hdr", n |-> ncmd[c] + 1]) \in Seq(Packet)
    BY <2>2, AppendProperties
  <2> QED BY <1>18, <2>1, <2>3, EmptySeq DEF rsystem_header, ClientWrite
<1>19. ASSUME NEW c \in Clients, rsystem_body(c)
      PROVE  TypeOK'
  <2>1. [k |-> "body", n |-> ncmd[c]] \in Packet
    BY DEF Packet
  <2>2. Append(c2s[c], [k |-> "body", n |-> ncmd[c]]) \in Seq(Packet)
    BY <2>1, AppendProperties
  <2> QED BY <1>19, <2>2 DEF rsystem_body, ClientWrite
<1>20. ASSUME NEW c \in Clients, rsystem_reply(c)
      PROVE  TypeOK'
  <2>1. s2c[c] \in Seq(Msg) /\ s2c[c] # << >>
    BY <1>20 DEF rsystem_reply
  <2>2. Head(s2c[c]) \in Msg /\ Tail(s2c[c]) \in Seq(Msg)
    BY <2>1, SeqTail
  <2>3. Head(s2c[c]).data \in Seq(Token)
    BY <2>2 DEF Msg
  <2>4. shown[c] \o Head(s2c[c]).data \in Seq(Token)
    BY <2>3, ConcatProperties
  <2>5. /\ clst' \in [Clients -> {"off", "idle", "body", "wait", "failed", "gone"}]
        /\ shown' \in [Clients -> Seq(Token)]
        /\ ret' \in [Clients -> Seq(Token)]
    <3>1. CASE Head(s2c[c]).type = "DISPLAY"
      <4>1. shown' = [shown EXCEPT ![c] = shown[c] \o Head(s2c[c]).data] /\ UNCHANGED <<clst, ret>>
        BY <1>20, <3>1 DEF rsystem_reply
      <4> QED BY <2>4, <4>1
    <3>2. CASE Head(s2c[c]).type = "EOC"
      BY <1>20, <2>3, <3>2 DEF rsystem_reply
    <3>3. CASE Head(s2c[c]).type \in {"BUSY", "OOM"}
      BY <1>20, <3>3 DEF rsystem_reply
    <3> QED BY <1>20, <3>1, <3>2, <3>3 DEF rsystem_reply
  <2> QED BY <1>20, <2>2, <2>5 DEF rsystem_reply
<1>21. ASSUME NEW c \in Clients, rsystem_error(c)
      PROVE  TypeOK'
  BY <1>21 DEF rsystem_error
<1>28. ASSUME NEW c \in Clients, rsystem_torn(c)
      PROVE  TypeOK'
  <2>1. PICK n \in 1..Len(s2c[c]), part \in Cut :
            s2c' = [s2c EXCEPT ![c] = part \o SubSeq(s2c[c], n + 1, Len(s2c[c]))]
    BY <1>28 DEF rsystem_torn
  <2>2. s2c[c] \in Seq(Msg) /\ Len(s2c[c]) \in Nat
    BY LenProperties
  <2>3. part \o SubSeq(s2c[c], n + 1, Len(s2c[c])) \in Seq(Msg)
    BY <2>2, CutIs, SeqSub, ConcatProperties
  <2>4. s2c' \in [Clients -> Seq(Msg)]
    BY <2>1, <2>3
  <2>5. clst' \in [Clients -> {"off", "idle", "body", "wait", "failed", "gone"}]
    BY <1>28 DEF rsystem_torn
  <2> QED BY <1>28, <2>4, <2>5 DEF rsystem_torn
<1>22. ASSUME NEW c \in Clients, rsys_lib_exit(c)
      PROVE  TypeOK'
  BY <1>22, EmptySeq DEF rsys_lib_exit
<1>23. ASSUME NEW c \in Clients, GracefulClose(c)
      PROVE  TypeOK'
  BY <1>23 DEF GracefulClose
<1>24. ASSUME NEW s \in Shells, ShellStart(s)
      PROVE  TypeOK'
  <2> DEFINE in == Head(stdin[s])
  <2>1. in \in Input /\ Tail(stdin[s]) \in Seq(Input)
    BY <1>24, SeqTail DEF ShellStart
  <2>2. in.of \in Cmd
    BY <2>1 DEF Input
  <2>3. \A of \in Cmd : [k |-> "prompt", of |-> of, i |-> 0] \in Token
                     /\ [k |-> "status", of |-> of, i |-> 0] \in Token
    BY DEF Token, Kinds
  <2>4. stdin' \in [Shells -> Seq(Input)]
    BY <1>24, <2>1 DEF ShellStart
  <2>5. CASE in.k = "cmd"
    <3>1. PICK out \in Outputs :
             job' = [job EXCEPT ![s] =
                [j \in 1..Len(out) |-> [k |-> out[j], of |-> in.of, i |-> j]]
                \o <<[k |-> "prompt", of |-> in.of, i |-> 0]>>]
      BY <1>24, <2>5 DEF ShellStart
    <3>2. out \in Seq({"line", "part"}) /\ Len(out) \in Nat
      BY RsystemdAssumption, LenProperties
    <3>3. \A j \in 1..Len(out) : out[j] \in Kinds
      BY <3>2, ElementOfSeq DEF Kinds
    <3>4. \A j \in 1..Len(out) : [k |-> out[j], of |-> in.of, i |-> j] \in Token
      BY <3>2, <3>3, <2>2 DEF Token
    <3>5. [j \in 1..Len(out) |-> [k |-> out[j], of |-> in.of, i |-> j]] \in Seq(Token)
      BY <3>2, <3>4, IsASeq
    <3>6. <<[k |-> "prompt", of |-> in.of, i |-> 0]>> \in Seq(Token)
      BY <2>2, <2>3, SeqOne
    <3>7. job' \in [Shells -> Seq(Token)]
      BY <3>1, <3>5, <3>6, ConcatProperties
    <3>8. last' \in [Shells -> Cmd] /\ started' \subseteq Cmd
      BY <1>24, <2>2, <2>5 DEF ShellStart
    <3> QED BY <1>24, <2>4, <3>7, <3>8 DEF ShellStart
  <2>6. CASE in.k = "status"
    <3> DEFINE a == [k |-> "status", of |-> last[s], i |-> 0]
               b == [k |-> "prompt", of |-> last[s], i |-> 0]
    <3>0. a \in Token /\ b \in Token
      BY <2>3
    <3> HIDE DEF a, b
    <3>1a. <<a, b>> \in Seq(Token)
      BY <3>0
    <3>1b. job' = [job EXCEPT ![s] = <<a, b>>]
      BY <1>24, <2>6 DEF ShellStart, a, b
    <3>1. job' \in [Shells -> Seq(Token)]
      BY <3>1a, <3>1b
    <3> QED BY <1>24, <2>4, <2>6, <3>1 DEF ShellStart
  <2> QED BY <1>24, <2>5, <2>6 DEF ShellStart
<1>25. ASSUME NEW s \in Shells, ShellEmit(s)
      PROVE  TypeOK'
  <2>1. Head(job[s]) \in Token /\ Tail(job[s]) \in Seq(Token)
    BY <1>25, SeqTail DEF ShellEmit
  <2>2. \A q \in Seq(Token) : Append(q, Head(job[s])) \in Seq(Token)
    BY <2>1, AppendProperties
  <2>3. said' \in [Clients -> Seq(Token)]
    BY <1>25, <2>2 DEF ShellEmit
  <2> QED BY <1>25, <2>1, <2>2, <2>3 DEF ShellEmit
<1>26. ASSUME NEW s \in Shells, ShellDie(s)
      PROVE  TypeOK'
  BY <1>26, EmptySeq DEF ShellDie
<1>27. CASE UNCHANGED vars
  BY <1>27 DEF vars
<1> QED
  BY <1>1, <1>2, <1>3, <1>4, <1>5, <1>6, <1>7, <1>8, <1>9, <1>10, <1>11, <1>12, <1>13, <1>14,
     <1>15, <1>16, <1>17, <1>18, <1>19, <1>20, <1>21, <1>22, <1>23, <1>24, <1>25, <1>26, <1>27,
     <1>28 DEF Next, Daemon, Client, Shell

-----------------------------------------------------------------------------
(* Frames: what the steps of the environment, and those of main() that do  *)
(* not touch the contexts, leave alone.                                    *)

\* A step of a client leaves the contexts of the daemon alone.
LEMMA ClientFrame ==
  ASSUME NEW c \in Clients, Client(c) \/ GracefulClose(c)
  PROVE  UNCHANGED <<pc, daemonVars>>
BY DEF Client, GracefulClose, rsys_lib_initialize, rsystem_header, rsystem_body, rsystem_reply,
       rsystem_torn, rsystem_error, rsys_lib_exit

\* So does a step of a shell.
LEMMA ShellFrame ==
  ASSUME NEW s \in Shells, Shell(s) \/ ShellDie(s)
  PROVE  UNCHANGED <<pc, daemonVars, clst, backlog, srv>>
BY DEF Shell, ShellDie, ShellStart, ShellEmit, procVars

\* The steps of main() that change neither links nor states of shells.
Bookkeeping ==
  \/ LoopTest \/ Select \/ ShellsDone \/ ClientsDone \/ MainEnd \/ MainError \/ rsysd_signal
  \/ \E s \in Shells : ShellPartialData(s) \/ ShellUnexpectedData(s)

\* They leave the links alone.
LEMMA BookkeepingFrame ==
  ASSUME Bookkeeping
  PROVE  UNCHANGED <<listVars, ctxVars, clst, backlog, srv, desynced, misled>>
BY DEF Bookkeeping, LoopTest, Select, ShellsDone, ClientsDone, MainEnd, MainError, rsysd_signal,
       ShellPartialData, ShellUnexpectedData, mainEnv, commonEnv, procVars, daemonVars

\* The steps, by what they do to the links.
LEMMA NextSplit ==
  ASSUME Next
  PROVE  \/ Bookkeeping \/ Accept \/ AcceptOutOfMemory
         \/ \E s \in Shells : ShellData(s)
         \/ ClientTurn \/ ClientCmd \/ ClientDcnx \/ NextClient
         \/ \E c \in Clients : Client(c) \/ GracefulClose(c)
         \/ \E s \in Shells : Shell(s) \/ ShellDie(s)
BY DEF Next, Daemon, Bookkeeping

-----------------------------------------------------------------------------
(* The links between shells and clients.                                   *)

\* rsysd_unlink_client() clears both pointers, and the shell becomes FREE.
LEMMA ReleaseLink ==
  ASSUME TypeOK, LinkInv, NEW s \in Shells, NEW then, Parted(s, then), UNCHANGED client_state
  PROVE  LinkInv'
<1>1. CASE Linked(s)
  <2> DEFINE c == shell_client[s]
  <2>1. c \in Clients /\ client_shell[c] = s
    BY <1>1 DEF Linked, TypeOK, ContextType, LinkInv
  <2>2. /\ client_shell' = [client_shell EXCEPT ![c] = NoShell]
        /\ shell_client' = [shell_client EXCEPT ![s] = NoClient]
        /\ shell_state' = [shell_state EXCEPT ![s] = "FREE"]
    BY <1>1 DEF Parted, Release
  <2> HIDE DEF c
  <2>3. ASSUME NEW t \in Shells, t # s
        PROVE  /\ shell_state'[t] = shell_state[t] /\ shell_client'[t] = shell_client[t]
               /\ shell_client[t] # NoClient =>
                     shell_client[t] # c /\ client_shell'[shell_client[t]] = client_shell[shell_client[t]]
    BY <2>1, <2>2, <2>3 DEF LinkInv, TypeOK, ContextType
  <2>4. shell_state'[s] = "FREE" /\ shell_client'[s] = NoClient
    BY <2>2 DEF TypeOK, ContextType
  <2>5. ASSUME NEW d \in Clients, client_shell'[d] # NoShell
        PROVE  shell_client'[client_shell'[d]] = d
    <3>1. d # c /\ client_shell'[d] = client_shell[d]
      BY <2>1, <2>2, <2>5 DEF TypeOK, ContextType
    <3>2. client_shell[d] \in Shells /\ shell_client[client_shell[d]] = d
      BY <2>5, <3>1 DEF LinkInv, TypeOK, ContextType
    <3>3. client_shell[d] # s
      BY <3>1, <3>2 DEF c
    <3> QED BY <2>3, <3>1, <3>2, <3>3
  <2>6. ASSUME NEW t \in Shells
        PROVE  /\ (shell_state[t] \in Busy <=> shell_client[t] # NoClient)'
               /\ (shell_client[t] # NoClient =>
                     /\ client_shell[shell_client[t]] = t
                     /\ client_state[shell_client[t]] = "ALLOCATED")'
    <3>1. CASE t = s
      BY <2>4, <3>1 DEF Busy
    <3>2. CASE t # s
      BY <2>3, <3>2 DEF LinkInv
    <3> QED BY <3>1, <3>2
  <2> QED BY <2>5, <2>6 DEF LinkInv
<1>2. CASE ~Linked(s)
  BY <1>2 DEF Parted, LinkInv
<1> QED BY <1>1, <1>2

\* A state of the shell's machine replaced by another of the same kind.
LEMMA StateLink ==
  ASSUME TypeOK, LinkInv, NEW s \in Shells, NEW st, st \in Busy <=> shell_state[s] \in Busy,
         shell_state' = [shell_state EXCEPT ![s] = st],
         UNCHANGED <<client_state, client_shell, shell_client>>
  PROVE  LinkInv'
BY DEF LinkInv, TypeOK, ContextType

\* Every step keeps the links between clients and shells right.
LEMMA LinkStep ==
  ASSUME TypeOK, RoundInv, LinkInv, [Next]_vars
  PROVE  LinkInv'
<1>1. CASE Bookkeeping
  BY <1>1, BookkeepingFrame DEF LinkInv, ctxVars
<1>2. CASE Accept
  <2> DEFINE c == Head(backlog)
  <2>1. c \in Clients /\ c \in Range(backlog)
    BY <1>2, Cursor, TailList DEF Accept, TypeOK, SocketType, RoundInv, ListInv
  <2>2. client_state[c] = "NONE"
    BY <2>1 DEF RoundInv, ListInv
  <2> HIDE DEF c
  <2>3. /\ client_state' = [client_state EXCEPT ![c] = "ALLOCATED"]
        /\ client_shell' = [client_shell EXCEPT ![c] = NoShell]
        /\ UNCHANGED <<shell_state, shell_client>>
    BY <1>2 DEF Accept, c
  <2>4. \A s \in Shells : shell_client[s] # c
    BY <2>1, <2>2, RsystemdAssumption DEF LinkInv
  <2> QED BY <2>1, <2>3, <2>4 DEF LinkInv, TypeOK, ContextType
<1>3. CASE AcceptOutOfMemory
  BY <1>3 DEF AcceptOutOfMemory, LinkInv, ctxVars
<1>4. ASSUME NEW s \in Shells, ShellData(s)
      PROVE  LinkInv'
  <2>1. PICK r \in pdip_recv(s) :
           Fsm_WAIT_EOC_DATA(s, r) \/ Fsm_WAIT_STATUS_DATA(s, r) \/ Fsm_FREEING_DATA(s, r)
    BY <1>4 DEF ShellData
  <2>2. UNCHANGED client_state /\ r.display \in Seq(Token)
    BY <1>4, <2>1, RecvType DEF ShellData
  <2>3. CASE Parted(s, "shells")
    BY <2>2, <2>3, ReleaseLink
  <2>4. CASE UNCHANGED <<client_shell, shell_client>> /\ \E st :
                 /\ st \in Busy <=> shell_state[s] \in Busy
                 /\ shell_state' = [shell_state EXCEPT ![s] = st]
    BY <2>2, <2>4, StateLink
  <2>5. CASE UNCHANGED <<client_shell, shell_client, shell_state>>
    BY <2>2, <2>5 DEF LinkInv
  <2>6. CASE Fsm_WAIT_EOC_DATA(s, r)
    <3>0. shell_state[s] = "WAIT_EOC"
      BY <2>6 DEF Fsm_WAIT_EOC_DATA
    <3>1. CASE /\ UNCHANGED <<client_shell, shell_client>>
               /\ shell_state' = [shell_state EXCEPT ![s] = "WAIT_STATUS"]
      <4>2. "WAIT_STATUS" \in Busy /\ shell_state[s] \in Busy
        BY <3>0 DEF Busy
      <4> QED BY <2>4, <3>1, <4>2
    <3>2. \/ Parted(s, "shells") \/ UNCHANGED <<client_shell, shell_client, shell_state>>
          \/ /\ UNCHANGED <<client_shell, shell_client>>
             /\ shell_state' = [shell_state EXCEPT ![s] = "WAIT_STATUS"]
      BY <2>2, <2>6, EocPhases
    <3> QED BY <2>3, <2>5, <3>1, <3>2
  <2>7. CASE Fsm_WAIT_STATUS_DATA(s, r)
    BY <2>2, <2>3, <2>5, <2>7, StatusPhases
  <2>8. CASE Fsm_FREEING_DATA(s, r)
    <3>0. shell_state[s] = "FREEING" /\ UNCHANGED <<client_shell, shell_client>>
      BY <2>8 DEF Fsm_FREEING_DATA
    <3>1. UNCHANGED shell_state \/ shell_state' = [shell_state EXCEPT ![s] = "FREE"]
      BY <2>8 DEF Fsm_FREEING_DATA
    <3>2. "FREE" \notin Busy /\ shell_state[s] \notin Busy
      BY <3>0 DEF Busy
    <3> QED BY <2>4, <2>5, <3>0, <3>1, <3>2
  <2> QED BY <2>1, <2>6, <2>7, <2>8
<1>5. CASE ClientTurn
  <2> DEFINE c == Head(todo)
  <2>0. c \in Clients /\ UNCHANGED client_state
    BY <1>5, Cursor DEF ClientTurn, Fsm_LINK
  <2>1. CASE UNCHANGED <<client_shell, shell_client, shell_state>>
    BY <2>0, <2>1 DEF LinkInv
  <2>2. ASSUME NEW s \in rsysd_get_shell,
               client_state[c] = "ALLOCATED", client_shell[c] = NoShell,
               shell_client' = [shell_client EXCEPT ![s] = c],
               client_shell' = [client_shell EXCEPT ![c] = s],
               shell_state' = [shell_state EXCEPT ![s] = "ALLOCATED"]
        PROVE  LinkInv'
    <3> HIDE DEF c
    <3>1. s \in Shells /\ shell_state[s] = "FREE" /\ "ALLOCATED" \in Busy /\ "FREE" \notin Busy
      BY DEF rsysd_get_shell, Busy
    <3>2. shell_client[s] = NoClient /\ s # NoShell /\ c # NoClient
      BY <3>1, <2>0, RsystemdAssumption DEF LinkInv, Shells, NoShell
    <3>3. \A t \in Shells : shell_client[t] # c
      BY <2>0, <2>2, <3>2 DEF LinkInv, Shells, NoShell
    <3>4. ASSUME NEW t \in Shells
          PROVE  /\ (shell_state[t] \in Busy <=> shell_client[t] # NoClient)'
                 /\ (shell_client[t] # NoClient =>
                     /\ client_shell[shell_client[t]] = t
                     /\ client_state[shell_client[t]] = "ALLOCATED")'
      <4>1. CASE t = s
        BY <2>0, <2>2, <3>1, <3>2, <4>1 DEF TypeOK, ContextType
      <4>2. CASE t # s
        BY <2>0, <2>2, <3>1, <3>3, <4>2 DEF TypeOK, ContextType, LinkInv
      <4> QED BY <4>1, <4>2
    <3>5. ASSUME NEW d \in Clients, client_shell'[d] # NoShell
          PROVE  shell_client'[client_shell'[d]] = d
      <4>1. CASE d = c
        BY <2>0, <2>2, <3>1, <4>1 DEF TypeOK, ContextType
      <4>2. CASE d # c
        <5>1. client_shell'[d] = client_shell[d] /\ client_shell[d] \in Shells
          BY <2>0, <2>2, <3>5, <4>2 DEF TypeOK, ContextType
        <5>2. shell_client[client_shell[d]] = d /\ d # NoClient
          BY <3>5, <5>1, RsystemdAssumption DEF LinkInv
        <5>3. client_shell[d] # s
          BY <3>2, <5>2
        <5> QED BY <2>2, <3>1, <5>1, <5>2, <5>3 DEF TypeOK, ContextType
      <4> QED BY <4>1, <4>2
    <3> QED BY <3>4, <3>5 DEF LinkInv
  <2> QED BY <1>5, <2>1, <2>2 DEF ClientTurn, Fsm_LINK
<1>6. CASE ClientCmd
  <2> DEFINE c == Head(todo)
             s == client_shell[c]
  <2>0. c \in Clients
    BY <1>6, Cursor DEF ClientCmd, Fsm_CMD
  <2>1. CASE UNCHANGED ctxVars
    BY <2>1 DEF LinkInv, ctxVars
  <2>2. CASE s # NoShell /\ shell_state[s] = "ALLOCATED" /\ ~UNCHANGED ctxVars
    <3>0. s \in Shells
      BY <2>0, <2>2 DEF TypeOK, ContextType
    <3>1. CASE /\ shell_state' = [shell_state EXCEPT ![s] = "WAIT_EOC"]
               /\ UNCHANGED <<client_state, client_shell, shell_client>>
      BY <2>2, <3>0, <3>1, StateLink DEF Busy
    <3>2. CASE DeliverAndRelease(s, <<EOC(<< >>)>>, "next", {}) /\ UNCHANGED client_state
      <4>1. Parted(s, "next")
        BY <3>2, RefusedParted
      <4> QED BY <3>0, <3>2, <4>1, ReleaseLink
    <3> QED BY <1>6, <2>2, <3>1, <3>2 DEF ClientCmd, Fsm_CMD
  <2> QED BY <1>6, <2>1, <2>2 DEF ClientCmd, Fsm_CMD
<1>7. CASE ClientDcnx
  <2> DEFINE c == Head(todo)
             s == client_shell[c]
  <2>0. c \in Clients /\ c # NoClient
    BY <1>7, Cursor, RsystemdAssumption DEF ClientDcnx
  <2>1. CASE s = NoShell
    <3>1. \A t \in Shells : shell_client[t] # c
      BY <2>0, <2>1 DEF LinkInv, Shells, NoShell
    <3>2. \/ UNCHANGED <<client_state, client_shell>>
          \/ /\ client_state' = [client_state EXCEPT ![c] = "FREE"]
             /\ client_shell' = [client_shell EXCEPT ![c] = NoShell]
      BY <1>7, <2>1 DEF ClientDcnx, rsysd_delete_client
    <3>3. UNCHANGED <<shell_client, shell_state>>
      BY <1>7, <2>1 DEF ClientDcnx
    <3> HIDE DEF c
    <3> QED BY <2>0, <3>1, <3>2, <3>3 DEF LinkInv, TypeOK, ContextType
  <2>2. CASE s # NoShell
    <3>1. s \in Shells /\ Fsm_DCNX(s) /\ shell_client[s] = c
      BY <1>7, <2>0, <2>2 DEF ClientDcnx, LinkInv, TypeOK, ContextType
    <3>2. shell_state[s] \in Busy /\ client_state[c] = "ALLOCATED" /\ client_shell[c] = s
      BY <2>0, <3>1 DEF LinkInv
    <3>3. /\ client_state' = [client_state EXCEPT ![c] = "FREE"]
          /\ client_shell' = [client_shell EXCEPT ![c] = NoShell]
          /\ shell_client' = [shell_client EXCEPT ![s] = NoClient]
      BY <2>0, <3>1, <3>2 DEF Fsm_DCNX, rsysd_delete_client, Busy
    <3>4. PICK st \in {"FREE", "FREEING"} : shell_state' = [shell_state EXCEPT ![s] = st]
      BY <3>1, <3>2 DEF Fsm_DCNX, Busy
    <3>5. st \notin Busy
      BY DEF Busy
    <3>6. \A t \in Shells : t # s => shell_client[t] # c
      BY <2>0, <3>2 DEF LinkInv
    <3> HIDE DEF c, s
    <3>7. ASSUME NEW t \in Shells
          PROVE  /\ (shell_state[t] \in Busy <=> shell_client[t] # NoClient)'
                 /\ (shell_client[t] # NoClient =>
                     /\ client_shell[shell_client[t]] = t
                     /\ client_state[shell_client[t]] = "ALLOCATED")'
      <4>1. CASE t = s
        BY <3>1, <3>3, <3>4, <3>5, <4>1 DEF TypeOK, ContextType
      <4>2. CASE t # s
        BY <2>0, <3>1, <3>3, <3>4, <3>6, <4>2 DEF TypeOK, ContextType, LinkInv
      <4> QED BY <4>1, <4>2
    <3>8. ASSUME NEW d \in Clients, client_shell'[d] # NoShell
          PROVE  shell_client'[client_shell'[d]] = d
      BY <2>0, <3>1, <3>2, <3>3, <3>8 DEF TypeOK, ContextType, LinkInv
    <3> QED BY <3>7, <3>8 DEF LinkInv
  <2> QED BY <2>1, <2>2
<1>8. CASE NextClient
  <2> DEFINE c == Head(todo)
  <2>0. c \in Clients
    BY <1>8, Cursor DEF NextClient
  <2>1. UNCHANGED <<client_shell, shell_state, shell_client>>
    BY <1>8 DEF NextClient
  <2>2. CASE UNCHANGED client_state
    BY <2>1, <2>2 DEF LinkInv
  <2>3. CASE client_state[c] = "FREE" /\ client_state' = [client_state EXCEPT ![c] = "NONE"]
    <3> HIDE DEF c
    <3> QED BY <2>0, <2>1, <2>3 DEF LinkInv, TypeOK, ContextType
  <2> QED BY <1>8, <2>2, <2>3 DEF NextClient
<1>9. ASSUME NEW c \in Clients, Client(c) \/ GracefulClose(c)
      PROVE  LinkInv'
  BY <1>9, ClientFrame DEF LinkInv, daemonVars, ctxVars
<1>10. ASSUME NEW s \in Shells, Shell(s) \/ ShellDie(s)
       PROVE  LinkInv'
  BY <1>10, ShellFrame DEF LinkInv, daemonVars, ctxVars
<1>11. CASE UNCHANGED vars
  BY <1>11 DEF LinkInv, vars, ctxVars
<1> QED
  BY NextSplit, <1>1, <1>2, <1>3, <1>4, <1>5, <1>6, <1>7, <1>8, <1>9, <1>10, <1>11

-----------------------------------------------------------------------------
(* The rounds of the main loop.                                            *)

\* Every step keeps the list of clients, select()'s set and the contexts in
\* agreement. It needs the links: a client deleted by the machine of its shell
\* is the client whose turn it is.
LEMMA ListStep ==
  ASSUME TypeOK, RoundInv, LinkInv, [Next]_vars
  PROVE  ListInv'
<1> USE DEF RoundInv
<1>0. /\ todo \in Seq(Clients) /\ rsysd_clients \in Seq(Clients) /\ backlog \in Seq(Clients)
      /\ client_state \in [Clients -> {"NONE", "FREE", "ALLOCATED"}]
      /\ srv \in [Clients -> {"none", "backlog", "open", "graceful", "closed"}]
  BY DEF TypeOK, MainType, ContextType, SocketType
<1>1. CASE Bookkeeping
  <2>1. IsInjective(todo')
    BY <1>1, EmptyList DEF Bookkeeping, LoopTest, Select, ShellsDone, ClientsDone, MainEnd, MainError,
       rsysd_signal, ShellPartialData, ShellUnexpectedData, EndShellTurn, mainVars, daemonVars, ListInv
  <2>2. \/ pc # "next"
        \/ pc' = pc /\ todo' = todo
    BY <1>1 DEF Bookkeeping, LoopTest, Select, ShellsDone, ClientsDone, MainEnd, MainError,
       rsysd_signal, ShellPartialData, ShellUnexpectedData, ShellTurn
  <2> QED BY <1>1, <2>1, <2>2, BookkeepingFrame DEF ListInv, listVars, ctxVars
<1>2. CASE Accept
  <2> DEFINE c == Head(backlog)
  <2>1. c \in Clients /\ backlog # << >>
    BY <1>2, Cursor DEF Accept
  <2>2. /\ c \in Range(backlog) /\ IsInjective(Tail(backlog))
        /\ Range(Tail(backlog)) = Range(backlog) \ {c}
    BY <1>0, <2>1, TailList DEF ListInv
  <2>3. client_state[c] = "NONE" /\ c \notin Range(rsysd_clients)
    BY <2>1, <2>2 DEF ListInv
  <2>4. /\ IsInjective(<<c>> \o rsysd_clients)
        /\ Range(<<c>> \o rsysd_clients) = Range(rsysd_clients) \cup {c}
    BY <1>0, <2>1, <2>3, ConsList DEF ListInv
  <2>5. /\ pc = "accept" /\ backlog' = Tail(backlog) /\ srv' = [srv EXCEPT ![c] = "open"]
        /\ client_state' = [client_state EXCEPT ![c] = "ALLOCATED"]
        /\ rsysd_clients' = <<c>> \o rsysd_clients /\ rsysd_fdset' = rsysd_fdset \cup {c}
        /\ UNCHANGED <<todo, clst>>
    BY <1>2 DEF Accept, mainEnv, commonEnv, procVars
  <2> HIDE DEF c
  <2>6. IsInjective(rsysd_clients') /\ IsInjective(todo') /\ IsInjective(backlog')
    BY <2>2, <2>4, <2>5 DEF ListInv
  <2>7. rsysd_fdset' = Range(rsysd_clients')
    BY <2>4, <2>5 DEF ListInv
  <2>8. \A d \in Range(backlog') : srv'[d] = "backlog"
    <3>1. \A d \in Range(backlog) : d \in Clients
      BY <1>0, RangeIs
    <3> QED BY <1>0, <2>2, <2>5, <3>1 DEF ListInv
  <2>9. ASSUME NEW d \in Clients
        PROVE  (/\ client_state[d] # "NONE" <=> d \in rsysd_fdset
                /\ client_state[d] # "NONE" => srv[d] = "open"
                /\ client_state[d] = "FREE" => pc = "next" /\ d = Head(todo)
                /\ clst[d] = "off" => srv[d] = "none")'
    <3>1. CASE d = c
      <4>1. clst[c] # "off"
        BY <2>1, <2>2 DEF ListInv
      <4> QED BY <1>0, <2>1, <2>5, <3>1, <4>1
    <3>2. CASE d # c
      BY <1>0, <2>1, <2>5, <3>2 DEF ListInv
    <3> QED BY <3>1, <3>2
  <2> QED BY <2>6, <2>7, <2>8, <2>9 DEF ListInv
<1>3. CASE AcceptOutOfMemory
  <2> DEFINE c == Head(backlog)
  <2>1. c \in Clients /\ backlog # << >>
    BY <1>3, Cursor DEF AcceptOutOfMemory
  <2>2. /\ c \in Range(backlog) /\ IsInjective(Tail(backlog))
        /\ Range(Tail(backlog)) = Range(backlog) \ {c}
    BY <1>0, <2>1, TailList DEF ListInv
  <2>3. /\ pc = "accept" /\ backlog' = Tail(backlog) /\ srv' = [srv EXCEPT ![c] = "graceful"]
        /\ UNCHANGED <<todo, clst, client_state, rsysd_clients, rsysd_fdset>>
    BY <1>3 DEF AcceptOutOfMemory, mainEnv, commonEnv, procVars, listVars, ctxVars
  <2> HIDE DEF c
  <2>4. \A d \in Range(backlog') : srv'[d] = "backlog"
    <3>1. \A d \in Range(backlog) : d \in Clients
      BY <1>0, RangeIs
    <3> QED BY <1>0, <2>2, <2>3, <3>1 DEF ListInv
  <2>5. client_state[c] = "NONE" /\ clst[c] # "off"
    BY <2>1, <2>2 DEF ListInv
  <2>6. ASSUME NEW d \in Clients
        PROVE  (/\ client_state[d] # "NONE" <=> d \in rsysd_fdset
                /\ client_state[d] # "NONE" => srv[d] = "open"
                /\ client_state[d] = "FREE" => pc = "next" /\ d = Head(todo)
                /\ clst[d] = "off" => srv[d] = "none")'
    <3>1. CASE d = c
      BY <1>0, <2>1, <2>3, <2>5, <3>1 DEF ListInv
    <3>2. CASE d # c
      BY <1>0, <2>1, <2>3, <3>2 DEF ListInv
    <3> QED BY <3>1, <3>2
  <2> QED BY <2>2, <2>3, <2>4, <2>6 DEF ListInv
<1>4. ASSUME NEW s \in Shells, ShellData(s)
      PROVE  ListInv'
  <2>1. /\ pc # "next"
        /\ UNCHANGED <<todo, listVars, client_state, clst, backlog, srv>>
    BY <1>4 DEF ShellData, ShellTurn, EndShellTurn, procVars
  <2> QED BY <2>1 DEF ListInv, listVars
<1>5. CASE ClientTurn
  <2>1. /\ pc # "next"
        /\ UNCHANGED <<todo, listVars, client_state, clst, backlog, srv>>
    BY <1>5 DEF ClientTurn, Fsm_LINK, mainEnv, commonEnv, procVars
  <2> QED BY <2>1 DEF ListInv, listVars
<1>6. CASE ClientCmd
  <2>1. /\ pc # "next"
        /\ UNCHANGED <<todo, listVars, client_state, clst, backlog, srv>>
    BY <1>6 DEF ClientCmd, Fsm_CMD, readEnv, mainVars, procVars, ctxVars, DeliverAndRelease
  <2> QED BY <2>1 DEF ListInv, listVars
<1>7. CASE ClientDcnx
  <2> DEFINE c == Head(todo)
  <2>0. c \in Clients
    BY <1>7, Cursor DEF ClientDcnx
  <2>1. /\ pc = "read"
        /\ UNCHANGED <<todo, listVars, clst, backlog, srv>>
    BY <1>7 DEF ClientDcnx, readEnv, mainVars, procVars
  <2>2. \/ UNCHANGED client_state
        \/ /\ client_state[c] # "NONE" /\ pc' = "next"
           /\ client_state' = [client_state EXCEPT ![c] = "FREE"]
    <3>1. CASE client_shell[c] = NoShell
      BY <1>7, <3>1 DEF ClientDcnx, rsysd_delete_client
    <3>2. CASE client_shell[c] # NoShell
      <4>1. Fsm_DCNX(client_shell[c]) /\ shell_client[client_shell[c]] = c
        BY <1>7, <2>0, <3>2 DEF ClientDcnx, LinkInv
      <4> QED BY <4>1 DEF Fsm_DCNX, rsysd_delete_client
    <3> QED BY <3>1, <3>2
  <2>3. CASE UNCHANGED client_state
    BY <2>1, <2>3 DEF ListInv, listVars
  <2>4. CASE /\ client_state[c] # "NONE" /\ pc' = "next"
             /\ client_state' = [client_state EXCEPT ![c] = "FREE"]
    BY <1>0, <2>0, <2>1, <2>4 DEF ListInv, listVars
  <2> QED BY <2>2, <2>3, <2>4
<1>8. CASE NextClient
  <2> DEFINE c == Head(todo)
  <2>0. c \in Clients /\ todo # << >>
    BY <1>8, Cursor DEF NextClient
  <2>1. todo' = Tail(todo) /\ IsInjective(todo')
    BY <1>0, <1>8, <2>0, TailList DEF NextClient, ListInv
  <2>2. UNCHANGED <<backlog, clst>>
    BY <1>8 DEF NextClient, mainEnv, commonEnv, procVars
  <2>3. \A d \in Clients : d # c => client_state[d] # "FREE"
    BY DEF ListInv
  <2>4. CASE client_state[c] # "FREE"
    <3>1. UNCHANGED <<listVars, client_state, srv>>
      BY <1>8, <2>4 DEF NextClient
    <3> QED BY <2>1, <2>2, <2>3, <2>4, <3>1 DEF ListInv, listVars
  <2>5. CASE client_state[c] = "FREE"
    <3>1. PICK p \in 1..Len(rsysd_clients) :
             rsysd_clients[p] = c /\ rsysd_clients' = RemoveAt(rsysd_clients, p)
      BY <1>8, <2>5 DEF NextClient
    <3>2. /\ rsysd_fdset' = rsysd_fdset \ {c}
          /\ client_state' = [client_state EXCEPT ![c] = "NONE"]
          /\ srv' = [srv EXCEPT ![c] = "graceful"]
      BY <1>8, <2>5 DEF NextClient
    <3>3. IsInjective(rsysd_clients') /\ Range(rsysd_clients') = Range(rsysd_clients) \ {c}
      BY <1>0, <3>1, RemoveList DEF ListInv
    <3>4. srv[c] = "open" /\ clst[c] # "off"
      BY <2>0, <2>5 DEF ListInv
    <3> HIDE DEF c
    <3>5. \A d \in Range(backlog') : srv'[d] = "backlog"
      <4>1. \A d \in Range(backlog) : d \in Clients
        BY <1>0, RangeIs
      <4> QED BY <1>0, <2>2, <3>2, <3>4, <4>1 DEF ListInv
    <3>6. ASSUME NEW d \in Clients
          PROVE  (/\ client_state[d] # "NONE" <=> d \in rsysd_fdset
                  /\ client_state[d] # "NONE" => srv[d] = "open"
                  /\ client_state[d] = "FREE" => pc = "next" /\ d = Head(todo)
                  /\ clst[d] = "off" => srv[d] = "none")'
      <4>1. CASE d = c
        BY <1>0, <2>0, <2>2, <3>2, <3>4, <4>1
      <4>2. CASE d # c
        BY <1>0, <2>2, <2>3, <3>2, <4>2 DEF ListInv
      <4> QED BY <4>1, <4>2
    <3> QED BY <2>1, <2>2, <3>2, <3>3, <3>5, <3>6 DEF ListInv
  <2> QED BY <2>4, <2>5
<1>9. ASSUME NEW c \in Clients, Client(c) \/ GracefulClose(c)
      PROVE  ListInv'
  <2>1. UNCHANGED <<pc, todo, rsysd_clients, rsysd_fdset, client_state>>
    BY <1>9, ClientFrame DEF daemonVars, mainVars, listVars, ctxVars
  <2>2. clst \in [Clients -> {"off", "idle", "body", "wait", "failed", "gone"}]
    BY DEF TypeOK, SocketType
  <2>3. CASE rsys_lib_initialize(c)
    <3>1. clst[c] = "off" /\ srv[c] = "none" /\ clst'[c] # "off"
          /\ \A d \in Clients : d # c => clst'[d] = clst[d]
      BY <2>2, <2>3 DEF rsys_lib_initialize, ListInv
    <3>2. CASE UNCHANGED <<backlog, srv>>
      BY <2>1, <3>1, <3>2 DEF ListInv
    <3>3. CASE /\ backlog' = Append(backlog, c)
               /\ srv' = [srv EXCEPT ![c] = "backlog"]
      <4>1. c \notin Range(backlog) /\ client_state[c] = "NONE"
        BY <3>1 DEF ListInv
      <4>2. IsInjective(backlog') /\ Range(backlog') = Range(backlog) \cup {c}
        BY <1>0, <3>3, <4>1, AppendList DEF ListInv
      <4>3. \A d \in Range(backlog') : srv'[d] = "backlog"
        <5>1. \A d \in Range(backlog) : d \in Clients
          BY <1>0, RangeIs
        <5> QED BY <1>0, <3>3, <4>2, <5>1 DEF ListInv
      <4>4. ASSUME NEW d \in Clients
            PROVE  (/\ client_state[d] # "NONE" <=> d \in rsysd_fdset
                    /\ client_state[d] # "NONE" => srv[d] = "open"
                    /\ client_state[d] = "FREE" => pc = "next" /\ d = Head(todo)
                    /\ clst[d] = "off" => srv[d] = "none")'
        <5>1. CASE d = c
          BY <2>1, <3>1, <4>1, <5>1 DEF ListInv
        <5>2. CASE d # c
          BY <1>0, <2>1, <3>1, <3>3, <5>2 DEF ListInv
        <5> QED BY <5>1, <5>2
      <4> QED BY <2>1, <4>2, <4>3, <4>4 DEF ListInv
    <3> QED BY <2>3, <3>2, <3>3 DEF rsys_lib_initialize
  <2>4. CASE GracefulClose(c)
    <3>1. /\ srv[c] = "graceful" /\ srv' = [srv EXCEPT ![c] = "closed"]
          /\ UNCHANGED <<backlog, clst>>
      BY <2>4 DEF GracefulClose, procVars
    <3>2. c \notin Range(backlog) /\ client_state[c] = "NONE" /\ clst[c] # "off"
      BY <3>1 DEF ListInv
    <3>3. \A d \in Range(backlog) : d \in Clients
      BY <1>0, RangeIs
    <3> QED BY <1>0, <2>1, <3>1, <3>2, <3>3 DEF ListInv
  <2>5. CASE /\ Client(c) /\ ~rsys_lib_initialize(c)
    <3>1. UNCHANGED <<backlog, srv>>
      BY <2>5 DEF Client, rsystem_header, rsystem_body, rsystem_reply, rsystem_torn, rsystem_error, rsys_lib_exit
    <3>2. \A d \in Clients : clst'[d] = "off" => clst[d] = "off"
      BY <2>2, <2>5 DEF Client, rsystem_header, rsystem_body, rsystem_reply, rsystem_torn, rsystem_error,
                        rsys_lib_exit, ClientWrite
    <3> QED BY <2>1, <3>1, <3>2 DEF ListInv
  <2> QED BY <1>9, <2>3, <2>4, <2>5
<1>10. ASSUME NEW s \in Shells, Shell(s) \/ ShellDie(s)
       PROVE  ListInv'
  BY <1>10, ShellFrame DEF ListInv, daemonVars, mainVars, listVars, ctxVars
<1>11. CASE UNCHANGED vars
  BY <1>11 DEF ListInv, vars, mainVars, listVars, ctxVars, procVars
<1> QED
  BY NextSplit, <1>1, <1>2, <1>3, <1>4, <1>5, <1>6, <1>7, <1>8, <1>9, <1>10, <1>11

\* Where main() goes on after it has read the output of a shell: an exchange
\* ends between a shell and a client that are linked.
LEMMA PartedPc ==
  ASSUME NEW s, NEW then, Parted(s, then)
  PROVE  /\ pc' \in {then, "killed", "aborted"}
         /\ Linked(s) /\ then # "aborted" => pc' # "aborted"
BY DEF Parted, Heard, Linked

LEMMA PhasePc ==
  ASSUME TypeOK, NEW s \in Shells, NEW r \in pdip_recv(s),
         Fsm_WAIT_EOC_DATA(s, r) \/ Fsm_WAIT_STATUS_DATA(s, r) \/ Fsm_FREEING_DATA(s, r)
  PROVE  /\ pc' \in {"shells", "killed", "aborted"}
         /\ LinkInv => pc' # "aborted"
<1>1. r.display \in Seq(Token)
  BY RecvType
<1>2. LinkInv /\ shell_state[s] \in Busy => shell_client[s] # NoClient /\ Linked(s)
  BY DEF LinkInv, Linked, Shells, NoShell
<1>3. CASE Fsm_WAIT_EOC_DATA(s, r)
  <2>1. shell_state[s] \in Busy
    BY <1>3 DEF Fsm_WAIT_EOC_DATA, Busy
  <2>2. Parted(s, "shells") \/ Write(shell_client[s], Display(r.display), "shells")
    BY <1>1, <1>3, EocPhases
  <2>3. CASE Parted(s, "shells")
    BY <1>2, <2>1, <2>3, PartedPc
  <2>4. CASE Write(shell_client[s], Display(r.display), "shells")
    BY <1>2, <2>1, <2>4 DEF Write
  <2> QED BY <2>2, <2>3, <2>4
<1>4. CASE Fsm_WAIT_STATUS_DATA(s, r)
  <2>1. shell_state[s] \in Busy
    BY <1>4 DEF Fsm_WAIT_STATUS_DATA, Busy
  <2>2. Parted(s, "shells") \/ pc' = "shells"
    BY <1>1, <1>4, StatusPhases
  <2> QED BY <1>2, <2>1, <2>2, PartedPc
<1>5. CASE Fsm_FREEING_DATA(s, r)
  BY <1>5 DEF Fsm_FREEING_DATA
<1> QED BY <1>3, <1>4, <1>5

\* And after it has read a command.
LEMMA CommandPc ==
  ASSUME TypeOK, RoundInv, ClientCmd
  PROVE  /\ pc' \in {"next", "killed", "aborted"}
         /\ LinkInv => pc' # "aborted"
<1> DEFINE c == Head(todo)
           s == client_shell[c]
<1>1. c \in Clients /\ c # NoClient
  BY Cursor, RsystemdAssumption DEF ClientCmd
<1>2. LinkInv /\ s # NoShell => shell_client[s] = c /\ Linked(s)
  BY <1>1 DEF LinkInv, Linked
<1>3. \/ Deliver(c, <<[type |-> "BUSY", data |-> << >>]>>, "next", {})
      \/ s # NoShell /\ DeliverAndRelease(s, <<EOC(<< >>)>>, "next", {})
      \/ pc' = "next"
  BY DEF ClientCmd, Fsm_CMD
<1>4. CASE Deliver(c, <<[type |-> "BUSY", data |-> << >>]>>, "next", {})
  <2> HIDE DEF c
  <2>1. Heard(c, "next")
    BY <1>4, TellHeard
  <2> QED BY <1>1, <2>1 DEF Heard
<1>5. CASE s # NoShell /\ DeliverAndRelease(s, <<EOC(<< >>)>>, "next", {})
  <2>1. Parted(s, "next")
    BY <1>5, RefusedParted
  <2> QED BY <1>2, <1>5, <2>1, PartedPc
<1> QED BY <1>3, <1>4, <1>5

\* Every step of a round keeps nb_ready equal to what is left to handle.
LEMMA ReadyStep ==
  ASSUME TypeOK, RoundInv, LinkInv, [Next]_vars
  PROVE  ReadyInv'
<1>0. /\ todo \in Seq(Clients) /\ rsysd_clients \in Seq(Clients) /\ backlog \in Seq(Clients)
      /\ IsInjective(todo) /\ rsysd_fdset = Range(rsysd_clients)
      /\ nb_ready \in Nat /\ rdShells \subseteq Shells /\ rdClients \subseteq Clients
  BY DEF TypeOK, MainType, SocketType, RoundInv, ListInv
<1>1. /\ IsFiniteSet(rdShells) /\ Cardinality(rdShells) \in Nat
      /\ IsFiniteSet(rdClients) /\ Cardinality(rdClients) \in Nat
  BY <1>0, FiniteReady
<1>2. ASSUME pc' \notin {"accept", "shells", "recv", "clients", "read", "next"}
      PROVE  ReadyInv'
  BY <1>2 DEF ReadyInv
<1>3. CASE Select
  <2>1. UNCHANGED <<backlog, rsysd_fdset>> /\ ReadyClients \subseteq rsysd_fdset
    BY <1>3 DEF Select, listVars, ReadyClients
  <2>2. pc' = IF backlog # << >> THEN "accept" ELSE "shells"
    BY <1>3 DEF Select
  <2>3. rdListen' <=> backlog # << >>
    BY <1>3 DEF Select
  <2>4. /\ nb_ready' = (IF backlog # << >> THEN 1 ELSE 0)
                       + Cardinality(ReadyShells) + Cardinality(ReadyClients)
        /\ rdShells' = ReadyShells /\ rdClients' = ReadyClients
    BY <1>3 DEF Select
  <2> QED BY <2>1, <2>2, <2>3, <2>4 DEF ReadyInv
<1>4. CASE Accept
  <2>1. /\ pc = "accept" /\ pc' = "shells" /\ ~rdListen' /\ nb_ready' = nb_ready - 1
        /\ rsysd_fdset \subseteq rsysd_fdset' /\ UNCHANGED <<rdShells, rdClients>>
    BY <1>4 DEF Accept
  <2> QED BY <1>0, <1>1, <2>1 DEF ReadyInv, RoundInv
<1>5. CASE AcceptOutOfMemory
  <2>1. /\ pc = "accept" /\ ~rdListen' /\ nb_ready' = nb_ready - 1
        /\ UNCHANGED <<rdShells, rdClients, rsysd_fdset>>
    BY <1>5 DEF AcceptOutOfMemory, listVars
  <2>2. pc' \in {"shells", "killed", "aborted"}
    BY <1>5, TellHeard DEF AcceptOutOfMemory, Heard
  <2> QED BY <1>0, <1>1, <2>1, <2>2 DEF ReadyInv, RoundInv
<1>6. ASSUME NEW s \in Shells, ShellData(s) \/ ShellUnexpectedData(s)
      PROVE  ReadyInv'
  <2>1. /\ pc \in {"shells", "recv"} /\ s \in rdShells
        /\ rdShells' = rdShells \ {s} /\ nb_ready' = nb_ready - 1
        /\ UNCHANGED <<rdListen, rdClients, rsysd_fdset>>
    BY <1>6 DEF ShellData, ShellUnexpectedData, ShellTurn, EndShellTurn, listVars
  <2>2. pc' \in {"shells", "killed", "aborted"}
    <3>1. CASE ShellUnexpectedData(s)
      BY <3>1 DEF ShellUnexpectedData
    <3>2. CASE ShellData(s)
      <4>1. PICK q \in pdip_recv(s) :
               Fsm_WAIT_EOC_DATA(s, q) \/ Fsm_WAIT_STATUS_DATA(s, q) \/ Fsm_FREEING_DATA(s, q)
        BY <3>2 DEF ShellData
      <4> QED BY <4>1, PhasePc
    <3> QED BY <1>6, <3>1, <3>2
  <2>3. Cardinality(rdShells') = Cardinality(rdShells) - 1
    BY <1>1, <2>1, FS_RemoveElement
  <2>4. /\ ~rdListen /\ rdClients \subseteq rsysd_fdset
        /\ nb_ready = 0 + Cardinality(rdShells) + Cardinality(rdClients)
    BY <2>1 DEF ReadyInv, RoundInv
  <2>5. nb_ready' = 0 + Cardinality(rdShells') + Cardinality(rdClients')
    <3>1. Cardinality(rdClients') = Cardinality(rdClients) /\ nb_ready' = nb_ready - 1
      BY <2>1
    <3> DEFINE a == Cardinality(rdShells)
               b == Cardinality(rdClients)
    <3>2. a \in Nat /\ b \in Nat /\ nb_ready = 0 + a + b
      BY <1>1, <2>4
    <3> HIDE DEF a, b
    <3>3. nb_ready - 1 = 0 + (a - 1) + b
      BY <3>2
    <3> QED BY <2>3, <3>1, <3>3 DEF a, b
  <2> QED BY <2>1, <2>2, <2>4, <2>5 DEF ReadyInv
<1>7. ASSUME NEW s \in Shells, ShellPartialData(s)
      PROVE  ReadyInv'
  <2>1. /\ pc \in {"shells", "recv"} /\ pc' = "recv"
        /\ UNCHANGED <<rdListen, rdShells, rdClients, nb_ready, rsysd_fdset>>
    BY <1>7 DEF ShellPartialData, ShellTurn, listVars, mainVars
  <2> QED BY <2>1 DEF ReadyInv, RoundInv
<1>8. CASE ShellsDone
  <2>1. /\ pc = "shells" /\ pc' = "clients" /\ todo' = rsysd_clients
        /\ rdShells = {} \/ nb_ready = 0
        /\ UNCHANGED <<rdClients, nb_ready, rsysd_fdset>>
    BY <1>8 DEF ShellsDone, listVars
  <2>2. /\ rdClients \subseteq rsysd_fdset /\ nb_ready = 0 + Cardinality(rdShells) + Cardinality(rdClients)
    BY <2>1 DEF ReadyInv, RoundInv
  <2>3. nb_ready = Cardinality(rdClients)
    BY <1>0, <1>1, <2>1, <2>2, FS_EmptySet
  <2> QED BY <1>0, <2>1, <2>2, <2>3 DEF ReadyInv
<1>9. CASE ClientTurn
  <2> DEFINE c == Head(todo)
  <2>1. /\ pc = "clients" /\ pc' = "read" /\ todo # << >> /\ c \in rdClients
        /\ rdClients' = rdClients \ {c} /\ nb_ready' = nb_ready - 1
        /\ UNCHANGED <<todo, rsysd_fdset>>
    BY <1>9 DEF ClientTurn, Fsm_LINK, listVars
  <2>2. /\ Range(todo) \subseteq rsysd_fdset /\ nb_ready = Cardinality(rdClients)
        /\ rdClients \subseteq Range(todo)
    BY <2>1 DEF ReadyInv, RoundInv
  <2>3. Cardinality(rdClients') = Cardinality(rdClients) - 1
    BY <1>1, <2>1, FS_RemoveElement
  <2>4. Range(Tail(todo)) = Range(todo) \ {c}
    BY <1>0, <2>1, TailList
  <2> QED BY <2>1, <2>2, <2>3, <2>4 DEF ReadyInv
<1>10. CASE ClientCmd \/ ClientDcnx
  <2>1. /\ pc = "read"
        /\ UNCHANGED <<todo, rdClients, nb_ready, rsysd_fdset>>
    BY <1>10 DEF ClientCmd, Fsm_CMD, ClientDcnx, readEnv, listVars, mainVars
  <2>2. pc' \in {"next", "killed", "aborted"}
    <3>1. CASE ClientCmd
      BY <3>1, CommandPc
    <3>2. CASE ClientDcnx
      BY <3>2 DEF ClientDcnx, Fsm_DCNX, rsysd_delete_client
    <3> QED BY <1>10, <3>1, <3>2
  <2> QED BY <2>1, <2>2 DEF ReadyInv, RoundInv
<1>11. CASE NextClient
  <2> DEFINE c == Head(todo)
  <2>1. /\ pc = "next" \/ (pc = "clients" /\ todo # << >> /\ c \notin rdClients)
        /\ todo' = Tail(todo) /\ pc' \in {"clients", "aborted"}
        /\ rsysd_fdset' = rsysd_fdset \/ rsysd_fdset' = rsysd_fdset \ {c}
        /\ UNCHANGED <<rdClients, nb_ready>>
    BY <1>11 DEF NextClient, listVars
  <2>2. /\ todo # << >> /\ Range(todo) \subseteq rsysd_fdset /\ nb_ready = Cardinality(rdClients)
        /\ pc = "next" => rdClients \subseteq Range(Tail(todo))
        /\ pc = "clients" => rdClients \subseteq Range(todo)
    BY <2>1 DEF ReadyInv, RoundInv
  <2>3. Range(Tail(todo)) = Range(todo) \ {c}
    BY <1>0, <2>2, TailList
  <2> HIDE DEF c
  <2>4. Range(todo') \subseteq rsysd_fdset' /\ rdClients' \subseteq Range(todo')
    BY <2>1, <2>2, <2>3
  <2> QED BY <2>1, <2>2, <2>4 DEF ReadyInv
<1>12. CASE rsysd_signal
  <2>1. /\ pc' = pc \/ pc' = "loop"
        /\ UNCHANGED <<rdListen, rdShells, rdClients, nb_ready, todo, backlog, rsysd_fdset>>
    BY <1>12 DEF rsysd_signal, listVars
  <2> QED BY <2>1 DEF ReadyInv, RoundInv
<1>13. CASE LoopTest \/ ClientsDone \/ MainEnd \/ MainError
  BY <1>2, <1>13 DEF LoopTest, ClientsDone, MainEnd, MainError
<1>14. ASSUME NEW c \in Clients, Client(c) \/ GracefulClose(c)
       PROVE  ReadyInv'
  <2>1. UNCHANGED <<pc, mainVars, listVars>>
    BY <1>14, ClientFrame DEF daemonVars
  <2>2. backlog' = backlog \/ backlog' = Append(backlog, c)
    BY <1>14 DEF Client, GracefulClose, rsys_lib_initialize, rsystem_header, rsystem_body,
                 rsystem_reply, rsystem_torn, rsystem_error, rsys_lib_exit
  <2>3. backlog # << >> => backlog' # << >>
    BY <1>0, <2>2, AppendProperties
  <2> QED BY <2>1, <2>3 DEF ReadyInv, RoundInv, mainVars, listVars
<1>15. ASSUME NEW s \in Shells, Shell(s) \/ ShellDie(s)
       PROVE  ReadyInv'
  BY <1>15, ShellFrame DEF ReadyInv, RoundInv, daemonVars, mainVars, listVars
<1>16. CASE UNCHANGED vars
  BY <1>16 DEF ReadyInv, RoundInv, vars, mainVars, listVars
<1> QED
  BY NextSplit, <1>3, <1>4, <1>5, <1>6, <1>7, <1>8, <1>9, <1>10, <1>11, <1>12, <1>13, <1>14, <1>15,
     <1>16 DEF Bookkeeping

-----------------------------------------------------------------------------
(* The assertions.                                                         *)

\* No step makes an assertion fail: those on the contexts follow from the
\* links, the one on nb_ready from the count of the round.
LEMMA AssertStep ==
  ASSUME TypeOK, RoundInv, LinkInv, NoAssertFails, [Next]_vars
  PROVE  NoAssertFails'
<1> USE DEF NoAssertFails
<1>1. CASE Bookkeeping
  <2>1. CASE ClientsDone
    <3>1. pc = "clients" /\ (todo = << >> \/ nb_ready = 0)
      BY <2>1 DEF ClientsDone
    <3>2. nb_ready = Cardinality(rdClients) /\ rdClients \subseteq Range(todo)
      BY <3>1 DEF RoundInv, ReadyInv
    <3>3. nb_ready = 0
      BY <3>1, <3>2, EmptyList, FS_EmptySet
    <3> QED BY <2>1, <3>3 DEF ClientsDone
  <2>2. CASE ~ClientsDone
    BY <1>1, <2>2 DEF Bookkeeping, LoopTest, Select, ShellsDone, MainEnd, MainError,
       rsysd_signal, ShellPartialData, ShellUnexpectedData
  <2> QED BY <2>1, <2>2
<1>2. CASE Accept
  BY <1>2 DEF Accept
<1>3. CASE AcceptOutOfMemory
  <2>1. Head(backlog) # NoClient
    BY <1>3, Cursor, RsystemdAssumption DEF AcceptOutOfMemory
  <2>2. Heard(Head(backlog), "shells")
    BY <1>3, TellHeard DEF AcceptOutOfMemory
  <2> QED BY <2>1, <2>2 DEF Heard
<1>4. ASSUME NEW s \in Shells, ShellData(s)
      PROVE  NoAssertFails'
  <2>1. PICK r \in pdip_recv(s) :
           Fsm_WAIT_EOC_DATA(s, r) \/ Fsm_WAIT_STATUS_DATA(s, r) \/ Fsm_FREEING_DATA(s, r)
    BY <1>4 DEF ShellData
  <2> QED BY <2>1, PhasePc
<1>5. CASE ClientTurn
  BY <1>5 DEF ClientTurn, Fsm_LINK
<1>6. CASE ClientCmd
  BY <1>6, CommandPc
<1>7. CASE ClientDcnx
  <2> DEFINE c == Head(todo)
             s == client_shell[c]
  <2>1. c \in Clients /\ c # NoClient
    BY <1>7, Cursor, RsystemdAssumption DEF ClientDcnx
  <2>2. client_state[c] = "ALLOCATED"
    <3>1. pc = "read" /\ todo # << >> /\ c \in Range(todo)
      BY <1>7, TailList DEF ClientDcnx, RoundInv, ReadyInv, ListInv, TypeOK, MainType
    <3>2. c \in rsysd_fdset
      BY <3>1 DEF RoundInv, ReadyInv
    <3> QED BY <2>1, <3>1, <3>2 DEF RoundInv, ListInv, TypeOK, ContextType
  <2>3. s # NoShell => s \in Shells /\ shell_client[s] = c
    BY <2>1 DEF LinkInv, TypeOK, ContextType
  <2> QED BY <1>7, <2>1, <2>2, <2>3 DEF ClientDcnx, Fsm_DCNX, rsysd_delete_client
<1>8. CASE NextClient
  <2> DEFINE c == Head(todo)
  <2>1. c \in Clients /\ c # NoClient
    BY <1>8, Cursor, RsystemdAssumption DEF NextClient
  <2>2. client_state[c] = "FREE" => client_shell[c] = NoShell
    BY <2>1 DEF LinkInv, TypeOK, ContextType
  <2> QED BY <1>8, <2>2 DEF NextClient
<1>9. ASSUME NEW c \in Clients, Client(c) \/ GracefulClose(c)
      PROVE  NoAssertFails'
  BY <1>9, ClientFrame
<1>10. ASSUME NEW s \in Shells, Shell(s) \/ ShellDie(s)
       PROVE  NoAssertFails'
  BY <1>10, ShellFrame
<1>11. CASE UNCHANGED vars
  BY <1>11 DEF vars
<1> QED
  BY NextSplit, <1>1, <1>2, <1>3, <1>4, <1>5, <1>6, <1>7, <1>8, <1>9, <1>10, <1>11

-----------------------------------------------------------------------------
(* The theorems.                                                           *)

\* The inductive invariant.
IndInv == TypeOK /\ LinkInv /\ RoundInv /\ NoAssertFails

\* It holds when main() enters its loop.
LEMMA InitInd == Init => IndInv
<1> SUFFICES ASSUME Init PROVE IndInv
  OBVIOUS
<1>1. TypeOK
  <2>1. NoCmd \in Cmd
    BY RsystemdAssumption DEF NoCmd, Cmd
  <2>2. \A S : << >> \in Seq(S)
    BY EmptySeq
  <2>3. MainType
    BY <2>2 DEF Init, MainType, PcStates
  <2>4. ContextType
    BY <2>2 DEF Init, ContextType, ShellStates
  <2>5. ShellType
    BY <2>1, <2>2 DEF Init, ShellType
  <2>6. SocketType
    BY <2>2, RsystemdAssumption DEF Init, SocketType
  <2> QED BY <2>3, <2>4, <2>5, <2>6 DEF TypeOK
<1>2. LinkInv
  BY DEF Init, LinkInv, Busy
<1>3. RoundInv
  BY EmptyList DEF Init, RoundInv, ListInv, ReadyInv
<1> QED BY <1>1, <1>2, <1>3 DEF IndInv, NoAssertFails, Init

\* The types, the links, the round's bookkeeping and the assertions of
\* rsystemd.c hold together, for any number of clients, shells and commands.
THEOREM Inductive == Spec => []IndInv
<1>1. IndInv /\ [Next]_vars => IndInv'
  BY TypeStep, LinkStep, ListStep, ReadyStep, AssertStep DEF IndInv, RoundInv
<1> QED BY InitInd, <1>1, PTL DEF Spec

\* Every variable keeps its type; nb_ready is never decremented below 0.
THEOREM TypeCorrect == Spec => []TypeOK
BY Inductive, PTL DEF IndInv

\* The pointers between shells and clients always agree with each other and
\* with the state of the shell's machine.
THEOREM LinksAgree == Spec => []LinkInv
BY Inductive, PTL DEF IndInv

\* A round of the main loop handles each readable descriptor exactly once,
\* although clients join and leave the list meanwhile.
THEOREM RoundsComplete == Spec => []RoundInv
BY Inductive, PTL DEF IndInv

\* No assertion of the daemon's main loop and machine ever fails.
THEOREM AssertionsHold == Spec => []NoAssertFails
BY Inductive, PTL DEF IndInv

\* A shell is never given to a client while it still belongs to another one
\* or runs the command of one that has left.
THEOREM ShellsNotShared == Spec => NoSharing
<1> DEFINE A == \A s \in Shells :
          /\ shell_client[s] # NoClient => shell_client'[s] \in {shell_client[s], NoClient}
          /\ shell_client'[s] \notin {shell_client[s], NoClient} => shell_state[s] = "FREE"
<1>1. ASSUME IndInv, [Next]_vars
      PROVE  [A]_vars
  <2>0. TypeOK /\ LinkInv /\ RoundInv
    BY <1>1 DEF IndInv
  <2>1. CASE UNCHANGED shell_client
    BY <2>1
  <2>2. ASSUME NEW s \in Shells, shell_client' = [shell_client EXCEPT ![s] = NoClient]
        PROVE  A
    BY <2>0, <2>2 DEF TypeOK, ContextType
  <2>3. CASE ClientTurn
    <3>1. ASSUME NEW s \in rsysd_get_shell, shell_client' = [shell_client EXCEPT ![s] = Head(todo)]
          PROVE  A
      <4>1. s \in Shells /\ shell_state[s] = "FREE"
        BY DEF rsysd_get_shell
      <4>2. shell_client[s] = NoClient
        BY <2>0, <4>1 DEF LinkInv, Busy
      <4> QED BY <2>0, <3>1, <4>1, <4>2 DEF TypeOK, ContextType
    <3> QED BY <2>1, <2>3, <3>1 DEF ClientTurn, Fsm_LINK
  <2>4. CASE Bookkeeping
    BY <2>1, <2>4, BookkeepingFrame DEF ctxVars
  <2>5. CASE Accept \/ AcceptOutOfMemory \/ NextClient
    BY <2>1, <2>5 DEF Accept, AcceptOutOfMemory, NextClient, ctxVars
  <2>6. ASSUME NEW s \in Shells, ShellData(s)
        PROVE  A
    <3>1. PICK r \in pdip_recv(s) :
             Fsm_WAIT_EOC_DATA(s, r) \/ Fsm_WAIT_STATUS_DATA(s, r) \/ Fsm_FREEING_DATA(s, r)
      BY <2>6 DEF ShellData
    <3>2. r.display \in Seq(Token)
      BY <2>0, RecvType
    <3>3. ASSUME Parted(s, "shells") PROVE A
      BY <2>1, <2>2, <3>3 DEF Parted, Release
    <3>4. CASE Fsm_WAIT_EOC_DATA(s, r)
      BY <2>1, <3>2, <3>3, <3>4, EocPhases
    <3>5. CASE Fsm_WAIT_STATUS_DATA(s, r)
      BY <2>0, <2>1, <3>2, <3>3, <3>5, StatusPhases
    <3>6. CASE Fsm_FREEING_DATA(s, r)
      BY <2>1, <3>6 DEF Fsm_FREEING_DATA
    <3> QED BY <3>1, <3>4, <3>5, <3>6
  <2>7. CASE ClientCmd
    <3>1. client_shell[Head(todo)] \in Shells \cup {NoShell}
      BY <2>0, <2>7, Cursor DEF ClientCmd, Fsm_CMD, TypeOK, ContextType
    <3>2. ASSUME NEW s \in Shells, DeliverAndRelease(s, <<EOC(<< >>)>>, "next", {}) PROVE A
      <4>1. Parted(s, "next")
        BY <3>2, RefusedParted
      <4> QED BY <2>1, <2>2, <4>1 DEF Parted, Release
    <3> QED BY <2>1, <2>7, <3>1, <3>2 DEF ClientCmd, Fsm_CMD, ctxVars
  <2>8. CASE ClientDcnx
    <3>1. client_shell[Head(todo)] \in Shells \cup {NoShell}
      BY <2>0, <2>8, Cursor DEF ClientDcnx, TypeOK, ContextType
    <3> QED BY <2>1, <2>2, <2>8, <3>1 DEF ClientDcnx, Fsm_DCNX
  <2>9. CASE \E c \in Clients : Client(c) \/ GracefulClose(c)
    BY <2>1, <2>9, ClientFrame DEF daemonVars, ctxVars
  <2>10. CASE \E s \in Shells : Shell(s) \/ ShellDie(s)
    BY <2>1, <2>10, ShellFrame DEF daemonVars, ctxVars
  <2>11. CASE UNCHANGED vars
    BY <2>11
  <2> QED
    BY <1>1, NextSplit, <2>3, <2>4, <2>5, <2>6, <2>7, <2>8, <2>9, <2>10, <2>11
<1> QED BY Inductive, <1>1, PTL DEF Spec, NoSharing

-----------------------------------------------------------------------------
(* What pdip_recv() does of a text that ends with a prompt.                *)

\* Texts put together.
LEMMA TextJoin ==
  ASSUME NEW S, NEW a \in Seq(S), NEW b \in Seq(S), NEW d \in Seq(S)
  PROVE  (a \o b) \o d = a \o (b \o d) /\ a \o b \in Seq(S)
<1>1. Associates(a, b, d)
  BY ConcatAssociates
<1>2. a \o b \in Seq(S)
  BY ConcatProperties
<1> QED BY <1>1, <1>2 DEF Associates

\* A token at the end of texts put together.
LEMMA TextAppend ==
  ASSUME NEW S, NEW a \in Seq(S), NEW b \in Seq(S), NEW t \in S
  PROVE  a \o Append(b, t) = Append(a \o b, t) /\ a \o b \in Seq(S)
<1>1. <<t>> \in Seq(S) /\ a \o b \in Seq(S)
  BY SeqOne, ConcatProperties
<1>2. Append(b, t) = b \o <<t>> /\ Append(a \o b, t) = (a \o b) \o <<t>>
  BY <1>1, AppendIsConcat
<1>3. Associates(a, b, <<t>>)
  BY <1>1, ConcatAssociates
<1> QED BY <1>1, <1>2, <1>3 DEF Associates

\* The parts of a text of members of T are texts of members of T.
LEMMA TextParts ==
  ASSUME NEW S, NEW T, NEW a \in Seq(S), NEW b \in Seq(S), a \o b \in Seq(T)
  PROVE  a \in Seq(T) /\ b \in Seq(T)
<1> DEFINE z == a \o b
<1>1. Len(a) \in Nat /\ Len(b) \in Nat
  BY LenProperties
<1>2. /\ Len(z) = Len(a) + Len(b)
      /\ \A i \in 1..(Len(a) + Len(b)) : z[i] = IF i <= Len(a) THEN a[i] ELSE b[i - Len(a)]
  BY ConcatProperties
<1>3. \A i \in 1..Len(z) : z[i] \in T
  BY ElementOfSeq
<1> HIDE DEF z
<1>4. ASSUME NEW i \in 1..Len(a) PROVE a[i] \in T
  <2>1. i \in 1..(Len(a) + Len(b)) /\ i <= Len(a)
    BY <1>1
  <2> QED BY <1>2, <1>3, <2>1
<1>5. ASSUME NEW i \in 1..Len(b) PROVE b[i] \in T
  <2>1. Len(a) + i \in 1..(Len(a) + Len(b)) /\ ~(Len(a) + i <= Len(a)) /\ (Len(a) + i) - Len(a) = i
    BY <1>1
  <2>2. z[Len(a) + i] = b[i] /\ z[Len(a) + i] \in T
    BY <1>2, <1>3, <2>1
  <2> QED BY <2>2
<1>6. SubSeq(a, 1, Len(a)) \in Seq(T)
  BY <1>1, <1>4, SubSeqProperties
<1>7. SubSeq(b, 1, Len(b)) \in Seq(T)
  BY <1>1, <1>5, SubSeqProperties
<1> QED BY <1>6, <1>7, SubSeqFull

\* Text f is text v and token p; it is the texts a and b.
Ends(f, v, p) == f = Append(v, p)
Joins(f, a, b) == f = a \o b

\* When a text that ends with p is cut, the second part is empty or ends
\* with p too.
LEMMA CutEnding ==
  ASSUME NEW S, NEW a \in Seq(S), NEW b \in Seq(S), NEW v \in Seq(S), NEW p \in S,
         NEW f, Joins(f, a, b), Ends(f, v, p)
  PROVE  \/ b = << >> /\ Ends(a, v, p)
         \/ \E w \in Seq(S) : Joins(v, a, w) /\ Ends(b, w, p)
<1>1. CASE b = << >>
  <2>1. a \o << >> = a
    BY ConcatEmptySeq
  <2> QED BY <1>1, <2>1 DEF Ends, Joins
<1>2. CASE b # << >>
  <2>1. PICK w \in Seq(S), q \in S : b = Append(w, q)
    BY <1>2, SequenceEmptyOrAppend
  <2>2. a \o Append(w, q) = Append(a \o w, q) /\ a \o w \in Seq(S)
    BY TextAppend
  <2>3. Append(a \o w, q) = Append(v, p)
    BY <2>1, <2>2 DEF Ends, Joins
  <2> DEFINE u == a \o w
  <2>4. u \in Seq(S) /\ Append(u, q) = Append(v, p)
    BY <2>2, <2>3
  <2>5. u = v /\ q = p
    <3> HIDE DEF u
    <3> QED BY <2>4, AppendInjective
  <2> QED BY <2>1, <2>5 DEF Ends, Joins
<1> QED BY <1>1, <1>2

\* A prompt found in a text whose only prompt is its last token is that one.
LEMMA OnlyPrompt ==
  ASSUME NEW S, NEW T, NEW a \in Seq(S), NEW y \in Seq(S), NEW v \in Seq(S), v \in Seq(T),
         NEW t \in S, t \notin T, NEW p \in S,
         NEW f, NEW g, Ends(g, a, t), Joins(f, g, y), Ends(f, v, p)
  PROVE  a = v /\ y = << >> /\ t = p
<1>1. g \in Seq(S) /\ g = Append(a, t)
  BY AppendProperties DEF Ends
<1>2. ASSUME NEW w \in Seq(S), Joins(v, g, w) PROVE FALSE
  <2>1. g \in Seq(T)
    BY <1>1, <1>2, TextParts DEF Joins
  <2>2. Len(a) \in Nat /\ Len(g) = Len(a) + 1 /\ g[Len(a) + 1] = t
    BY <1>1, AppendProperties, LenProperties
  <2>3. Len(a) + 1 \in 1..Len(g)
    BY <2>2
  <2>4. g[Len(a) + 1] \in T
    BY <2>1, <2>3, ElementOfSeq
  <2> QED BY <2>2, <2>4
<1>3. y = << >> /\ Ends(g, v, p)
  BY <1>1, <1>2, CutEnding
<1>4. Append(a, t) = Append(v, p)
  BY <1>1, <1>3 DEF Ends
<1>5. a = v /\ t = p
  BY <1>4, AppendInjective
<1> QED BY <1>3, <1>5

\* No prompt is found in a text without prompt.
LEMMA NoPromptFound ==
  ASSUME NEW S, NEW T, NEW a \in Seq(S), NEW y \in Seq(S), NEW t \in S, t \notin T,
         NEW f \in Seq(T), NEW g, Ends(g, a, t), Joins(f, g, y)
  PROVE  FALSE
<1>1. g \in Seq(S) /\ Len(a) \in Nat /\ Len(g) = Len(a) + 1 /\ g[Len(a) + 1] = t
  BY AppendProperties, LenProperties DEF Ends
<1>2. g \in Seq(T)
  BY <1>1, TextParts DEF Joins
<1>3. Len(a) + 1 \in 1..Len(g)
  BY <1>1
<1>4. g[Len(a) + 1] \in T
  BY <1>2, <1>3, ElementOfSeq
<1> QED BY <1>1, <1>4

-----------------------------------------------------------------------------
(* The dialogue with a shell.                                              *)

\* The prompt and the status a shell writes about command x.
Pr(x) == [k |-> "prompt", of |-> x, i |-> 0]
St(x) == [k |-> "status", of |-> x, i |-> 0]

\* Texts without a prompt; texts of command x.
NoPrompt == {t \in Token : t.k # "prompt"}
Speech == Seq(NoPrompt)
Words(x) == Seq([k : {"line", "part"}, of : {x}, i : Nat])

\* What shell s has written and rsystemd has not handled.
Unread(s) == outstanding[s] \o pty[s]

\* The shell waits at its prompt.
Resting(s) == stdin[s] = << >> /\ job[s] = << >> /\ pty[s] = << >> /\ outstanding[s] = << >>

\* It is dead and nothing it has written can be taken for an answer.
Muted(s) == ~alive[s] /\ pty[s] = << >> /\ ~PromptFound(outstanding[s])

\* Command x, or the request of the status of x, was sent to it.
Told(s, in) == /\ alive[s] /\ stdin[s] = <<in>>
               /\ job[s] = << >> /\ pty[s] = << >> /\ outstanding[s] = << >>
Ordered(s, x) == Told(s, [k |-> "cmd", of |-> x])
Asked(s, x) == Told(s, [k |-> "status", of |-> NoCmd]) /\ last[s] = x

\* It has written u, which is still to be read, will write rest, then the
\* prompt; or the prompt is written; or it died after u.
Says(s, u, rest, x) ==
    /\ stdin[s] = << >> /\ last[s] = x
    /\ \/ alive[s] /\ Unread(s) = u /\ job[s] = Append(rest, Pr(x))
       \/ job[s] = << >> /\ rest = << >> /\ Unread(s) = Append(u, Pr(x))
       \/ ~alive[s] /\ job[s] = << >> /\ Unread(s) = u

\* Each state of the machine and where the shell may be then, unless a failure
\* has put it out of step.
Dialogue(s) ==
    \/ s \in desynced
    \/ Muted(s)
    \/ shell_state[s] \in {"FREE", "ALLOCATED"} /\ Resting(s)
    \/ shell_state[s] \in {"WAIT_EOC", "FREEING"} /\ \E x \in Cmd : Ordered(s, x)
    \/ shell_state[s] \in {"WAIT_STATUS", "FREEING"} /\ \E x \in Cmd : Asked(s, x)
    \/ /\ shell_state[s] \in {"WAIT_EOC", "WAIT_STATUS", "FREEING"}
       /\ \E x \in Cmd, u \in Speech, rest \in Speech : Says(s, u, rest, x)

DialogueInv == \A s \in Shells : Dialogue(s)

\* The outcomes of pdip_recv() as cuts of what the shell has written.
Reads(s, r) ==
    /\ r.display \in Seq(Token) /\ r.left \in Seq(Token) /\ r.unread \in Seq(Token)
    /\ \/ /\ r.rc = "FOUND" /\ r.left = << >>
          /\ \E g \in Seq(Token), t \in Token :
                t.k = "prompt" /\ Ends(g, r.display, t) /\ Joins(Unread(s), g, r.unread)
       \/ /\ r.rc = "DATA" /\ r.display # << >> /\ EndsLine(r.display[Len(r.display)])
          /\ Joins(Unread(s), r.display, r.left \o r.unread)
       \/ /\ r.rc = "AGAIN"
          /\ Unread(s) = r.left \o r.unread
       \/ /\ r.rc = "ERROR" /\ ~alive[s] /\ pty[s] = << >> /\ ~PromptFound(outstanding[s])
          /\ r.left = outstanding[s] /\ r.unread = << >>

\* Texts of tokens put together.
LEMMA TokensJoin ==
  \A a, b, d \in Seq(Token) : (a \o b) \o d = a \o (b \o d) /\ a \o b \in Seq(Token)
BY TextJoin

\* A token at the end of texts put together.
LEMMA TokensAppend ==
  \A a, b \in Seq(Token), t \in Token : a \o Append(b, t) = Append(a \o b, t)
BY TextAppend

\* Two tokens.
LEMMA TokenPair ==
  ASSUME NEW a \in Token, NEW b \in Token
  PROVE  Append(<<a>>, b) = <<a, b>>
<1>1. <<a>> \in Seq(Token) /\ Len(<<a>>) = 1 /\ <<a>>[1] = a
  BY SeqOne
<1>2. <<a, b>> \in Seq(Token) /\ Len(<<a, b>>) = 2 /\ <<a, b>>[1] = a /\ <<a, b>>[2] = b
  OBVIOUS
<1>3. /\ Append(<<a>>, b) \in Seq(Token) /\ Len(Append(<<a>>, b)) = 2
      /\ Append(<<a>>, b)[1] = a /\ Append(<<a>>, b)[2] = b
  BY <1>1, AppendProperties
<1>4. \A j \in 1..2 : Append(<<a>>, b)[j] = <<a, b>>[j]
  BY <1>2, <1>3
<1> QED BY <1>2, <1>3, <1>4, SeqEqual

\* What a scan of the data finds is a cut of the data.
LEMMA ScanCut ==
  ASSUME NEW d \in Seq(Token), NEW r \in Scan(d)
  PROVE  /\ r.display \in Seq(Token) /\ r.left \in Seq(Token)
         /\ \/ /\ r.rc = "FOUND" /\ r.left = << >>
               /\ \E t \in Token : t.k = "prompt" /\ Ends(d, r.display, t)
            \/ /\ r.rc = "DATA" /\ r.display # << >> /\ EndsLine(r.display[Len(r.display)])
               /\ d = r.display \o r.left
            \/ r.rc = "AGAIN" /\ r.left = d
<1>0. r.display \in Seq(Token) /\ r.left \in Seq(Token) /\ Len(d) \in Nat
  BY ScanType, LenProperties
<1>1. CASE PromptFound(d)
  <2>1. r = [rc |-> "FOUND", display |-> SubSeq(d, 1, Len(d) - 1), left |-> << >>]
    BY <1>1 DEF Scan
  <2>2. Len(d) \in 1..Len(d) /\ 1 \in 1..Len(d) /\ d[Len(d)] \in Token
    BY <1>0, <1>1, EmptySeq, ElementOfSeq DEF PromptFound
  <2>3. d = SubSeq(d, 1, Len(d) - 1) \o <<d[Len(d)]>>
    BY <2>2, SubSeqRecursiveSecond, SubSeqFull
  <2>4. Ends(d, r.display, d[Len(d)])
    <3>1. r.display = SubSeq(d, 1, Len(d) - 1)
      BY <2>1
    <3>2. \A e \in Token : Append(r.display, e) = r.display \o <<e>>
      BY <1>0, AppendIsConcat
    <3> QED BY <2>2, <2>3, <3>1, <3>2, Zenon DEF Ends
  <2> QED BY <1>0, <1>1, <2>1, <2>2, <2>4 DEF PromptFound
<1>2. CASE ~PromptFound(d) /\ LineEnds(d) = {}
  <2>1. r = [rc |-> "AGAIN", display |-> << >>, left |-> d]
    BY <1>2 DEF Scan
  <2> QED BY <1>0, <2>1
<1>3. CASE ~PromptFound(d) /\ LineEnds(d) # {}
  <2>1. PICK j \in LineEnds(d) :
             r = [rc |-> "DATA", display |-> SubSeq(d, 1, j), left |-> SubSeq(d, j + 1, Len(d))]
    BY <1>3 DEF Scan
  <2>2. j \in 1..Len(d) /\ EndsLine(d[j])
    BY DEF LineEnds
  <2>3. j \in 0..Len(d) /\ j # 0
    BY <1>0, <2>2
  <2>4. /\ Len(r.display) = j /\ r.display[j] = d[j] /\ d = r.display \o r.left
    BY <2>1, <2>2, <2>3, CutSeq
  <2>5. r.display # << >>
    BY <2>3, <2>4, EmptySeq
  <2> QED BY <1>0, <2>1, <2>2, <2>4, <2>5
<1> QED BY <1>1, <1>2, <1>3

\* So is what pdip_recv() returns.
LEMMA RecvCut ==
  ASSUME TypeOK, NEW s \in Shells, NEW r \in Received(s)
  PROVE  Reads(s, r)
<1>0. outstanding[s] \in Seq(Token) /\ pty[s] \in Seq(Token) /\ Len(pty[s]) \in Nat
  BY LenProperties DEF TypeOK, ShellType
<1>1. r.display \in Seq(Token) /\ r.left \in Seq(Token) /\ r.unread \in Seq(Token)
  BY ReceivedType
<1>2. CASE RecvOutstanding(outstanding[s]) # {}
  <2>1. PICK q \in RecvOutstanding(outstanding[s]) :
            r = [rc |-> q.rc, display |-> q.display, left |-> q.left, unread |-> pty[s]]
    BY <1>2 DEF Received
  <2>2. q \in Scan(outstanding[s]) /\ q.rc = "FOUND"
    BY <2>1 DEF RecvOutstanding
  <2>3. q.left = << >> /\ \E t \in Token : t.k = "prompt" /\ Ends(outstanding[s], q.display, t)
    BY <1>0, <2>2, ScanCut
  <2>4. Joins(Unread(s), outstanding[s], r.unread)
    BY <2>1 DEF Joins, Unread
  <2> QED BY <1>0, <1>1, <2>1, <2>2, <2>3, <2>4 DEF Reads
<1>3. CASE RecvOutstanding(outstanding[s]) = {} /\ pty[s] = << >>
  <2>1. ~alive[s] /\ r = [rc |-> "ERROR", display |-> << >>, left |-> outstanding[s], unread |-> << >>]
    BY <1>3 DEF Received
  <2>2. ~PromptFound(outstanding[s])
    <3> SUFFICES ASSUME PromptFound(outstanding[s]) PROVE FALSE
      OBVIOUS
    <3> DEFINE q == [rc |-> "FOUND", display |-> SubSeq(outstanding[s], 1, Len(outstanding[s]) - 1),
                     left |-> << >>]
    <3>1. q \in Scan(outstanding[s]) /\ q.rc = "FOUND"
      BY DEF Scan
    <3> QED BY <1>3, <3>1 DEF RecvOutstanding
  <2> QED BY <1>1, <1>3, <2>1, <2>2 DEF Reads
<1>4. CASE RecvOutstanding(outstanding[s]) = {} /\ pty[s] # << >>
  <2>1. PICK n \in 1..Len(pty[s]) : \E q \in RecvRead(outstanding[s], pty[s], n) :
            r = [rc |-> q.rc, display |-> q.display, left |-> q.left,
                 unread |-> SubSeq(pty[s], n + 1, Len(pty[s]))]
    BY <1>4 DEF Received
  <2> DEFINE a == SubSeq(pty[s], 1, n)
             b == SubSeq(pty[s], n + 1, Len(pty[s]))
             d == outstanding[s] \o a
  <2>2. PICK q \in RecvRead(outstanding[s], pty[s], n) :
            r = [rc |-> q.rc, display |-> q.display, left |-> q.left, unread |-> b]
    BY <2>1
  <2>3. a \in Seq(Token) /\ b \in Seq(Token) /\ a \o b = pty[s]
    BY <1>0, CutSeq
  <2>4. q \in Scan(d)
    BY <2>2 DEF RecvRead
  <2> HIDE DEF a, b
  <2>5. d \in Seq(Token) /\ Unread(s) = d \o b
    <3>1. d \in Seq(Token) /\ d \o b = outstanding[s] \o (a \o b)
      BY <1>0, <2>3, TokensJoin
    <3> QED BY <2>3, <3>1 DEF Unread
  <2> HIDE DEF d
  <2>6. /\ q.display \in Seq(Token) /\ q.left \in Seq(Token)
        /\ \/ /\ q.rc = "FOUND" /\ q.left = << >>
              /\ \E t \in Token : t.k = "prompt" /\ Ends(d, q.display, t)
           \/ /\ q.rc = "DATA" /\ q.display # << >> /\ EndsLine(q.display[Len(q.display)])
              /\ d = q.display \o q.left
           \/ q.rc = "AGAIN" /\ q.left = d
    BY <2>4, <2>5, ScanCut
  <2>7. (q.display \o q.left) \o b = q.display \o (q.left \o b)
    <3>1. q.display \in Seq(Token) /\ q.left \in Seq(Token) /\ b \in Seq(Token)
      BY <2>3, <2>6
    <3> QED BY <3>1, TokensJoin
  <2>8. Joins(Unread(s), d, b)
    BY <2>5 DEF Joins
  <2>9. q.rc = "DATA" => Joins(Unread(s), q.display, q.left \o b)
    BY <2>5, <2>6, <2>7 DEF Joins
  <2> QED BY <1>1, <2>2, <2>5, <2>6, <2>8, <2>9 DEF Reads
<1> QED BY <1>2, <1>3, <1>4

\* The prompt of a command is a token, and no text without prompt holds it.
LEMMA PromptIs ==
  ASSUME NEW x \in Cmd
  PROVE  Pr(x) \in Token /\ Pr(x) \notin NoPrompt /\ ~EndsLine(Pr(x))
BY DEF Pr, Token, Kinds, NoPrompt, EndsLine

\* Speech is text.
LEMMA SpeechIs == \A u \in Speech : u \in Seq(Token)
<1>1. NoPrompt \subseteq Token
  BY DEF NoPrompt
<1> QED BY <1>1, SeqMonotonic DEF Speech

\* The text that is left once r is handled.
LEMMA UnreadNext ==
  ASSUME TypeOK, NEW s \in Shells, NEW r,
         outstanding' = [outstanding EXCEPT ![s] = r.left], pty' = [pty EXCEPT ![s] = r.unread]
  PROVE  Unread(s)' = r.left \o r.unread /\ outstanding'[s] = r.left /\ pty'[s] = r.unread
BY DEF TypeOK, ShellType, Unread

\* The end of file is only read when nothing is left that could be an answer.
LEMMA ErrorMutes ==
  ASSUME TypeOK, NEW s \in Shells, NEW r \in Received(s), r.rc = "ERROR",
         outstanding' = [outstanding EXCEPT ![s] = r.left], pty' = [pty EXCEPT ![s] = r.unread],
         alive'[s] = alive[s]
  PROVE  Muted(s)'
<1>1. Reads(s, r) /\ outstanding'[s] = r.left /\ pty'[s] = r.unread
  BY RecvCut, UnreadNext
<1> QED BY <1>1 DEF Reads, Muted

\* A muted shell gives the end of file, and one that has written nothing
\* lets the daemon wait.
LEMMA MutedRecv ==
  ASSUME NEW s \in Shells, NEW r \in Received(s)
  PROVE  /\ Muted(s) => r.rc = "ERROR"
         /\ ~(alive[s] /\ pty[s] = << >> /\ outstanding[s] = << >>)
<1>1. ASSUME ~PromptFound(outstanding[s]) PROVE RecvOutstanding(outstanding[s]) = {}
  <2>1. \A q \in Scan(outstanding[s]) : q.rc # "FOUND"
    BY <1>1 DEF Scan
  <2> QED BY <2>1 DEF RecvOutstanding
<1>2. ~PromptFound(<< >>)
  BY DEF PromptFound
<1> QED BY <1>1, <1>2 DEF Received, Muted

\* When the prompt comes, what is displayed is all that was left to say.
LEMMA SaysFound ==
  ASSUME TypeOK, NEW s \in Shells, NEW r \in Received(s), r.rc = "FOUND",
         NEW x \in Cmd, NEW u \in Speech, NEW rest \in Speech, Says(s, u, rest, x)
  PROVE  job[s] = << >> /\ rest = << >> /\ r.display = u /\ r.left = << >> /\ r.unread = << >>
<1>1. Reads(s, r)
  BY RecvCut
<1>2. /\ u \in Seq(Token) /\ u \in Seq(NoPrompt)
      /\ r.display \in Seq(Token) /\ r.left \in Seq(Token) /\ r.unread \in Seq(Token)
  BY <1>1, SpeechIs DEF Speech, Reads
<1>3. Pr(x) \in Token /\ Pr(x) \notin NoPrompt
  BY PromptIs
<1>4. PICK g \in Seq(Token), t \in Token :
          t.k = "prompt" /\ Ends(g, r.display, t) /\ Joins(Unread(s), g, r.unread)
  BY <1>1 DEF Reads
<1>5. t \notin NoPrompt /\ r.left = << >>
  BY <1>1, <1>4 DEF NoPrompt, Reads
<1>6. CASE Unread(s) = u
  BY <1>2, <1>4, <1>5, <1>6, NoPromptFound
<1>7. CASE job[s] = << >> /\ rest = << >> /\ Unread(s) = Append(u, Pr(x))
  <2>1. Ends(Unread(s), u, Pr(x))
    BY <1>7 DEF Ends
  <2>2. r.display = u /\ r.unread = << >>
    BY <1>2, <1>3, <1>4, <1>5, <2>1, OnlyPrompt
  <2> QED BY <1>5, <1>7, <2>2
<1> QED BY <1>6, <1>7 DEF Says

\* What a reception makes of what the shell says: the prompt comes with all
\* the text before it, and the lines that come before it are taken from it.
LEMMA SaysRecv ==
  ASSUME TypeOK, NEW s \in Shells, NEW r \in Received(s),
         NEW x \in Cmd, NEW u \in Speech, NEW rest \in Speech, Says(s, u, rest, x),
         outstanding' = [outstanding EXCEPT ![s] = r.left], pty' = [pty EXCEPT ![s] = r.unread]
  PROVE  /\ r.rc = "FOUND" => /\ job[s] = << >> /\ rest = << >> /\ r.display = u
                              /\ r.left = << >> /\ r.unread = << >>
         /\ r.rc = "DATA" =>
               \E w \in Speech :
                  /\ Joins(u, r.display, w) /\ r.display # << >>
                  /\ (/\ stdin'[s] = stdin[s] /\ job'[s] = job[s]
                      /\ last'[s] = last[s] /\ alive'[s] = alive[s]) => Says(s, w, rest, x)'
         /\ (/\ r.rc = "AGAIN" /\ stdin'[s] = stdin[s] /\ job'[s] = job[s]
             /\ last'[s] = last[s] /\ alive'[s] = alive[s]) => Says(s, u, rest, x)'
<1> DEFINE y == r.left \o r.unread
<1>1. Reads(s, r) /\ Unread(s)' = y
  BY RecvCut, UnreadNext
<1>2. /\ u \in Seq(Token) /\ u \in Seq(NoPrompt)
      /\ r.display \in Seq(Token) /\ r.left \in Seq(Token) /\ r.unread \in Seq(Token)
  BY <1>1, SpeechIs DEF Speech, Reads
<1>3. y \in Seq(Token) /\ Pr(x) \in Token /\ Pr(x) \notin NoPrompt
  BY <1>2, TokensJoin, PromptIs
<1> HIDE DEF y
<1>4. CASE r.rc = "AGAIN"
  <2>1. Unread(s)' = Unread(s)
    BY <1>1, <1>4 DEF Reads, y
  <2> QED BY <1>4, <2>1 DEF Says
<1>5. CASE r.rc = "FOUND"
  BY <1>5, SaysFound
<1>6. CASE r.rc = "DATA"
  <2>1. /\ Joins(Unread(s), r.display, y)
        /\ r.display # << >> /\ EndsLine(r.display[Len(r.display)])
    BY <1>1, <1>6 DEF Reads, y
  <2>2. CASE Unread(s) = u /\ ~(job[s] = << >> /\ rest = << >> /\ Unread(s) = Append(u, Pr(x)))
    <3>1. y \in Speech
      BY <1>2, <1>3, <2>1, <2>2, TextParts DEF Joins, Speech
    <3>2. (/\ stdin'[s] = stdin[s] /\ job'[s] = job[s] /\ last'[s] = last[s] /\ alive'[s] = alive[s])
             => Says(s, y, rest, x)'
      BY <1>1, <2>2 DEF Says
    <3> QED BY <1>6, <2>1, <2>2, <3>1, <3>2
  <2>3. CASE job[s] = << >> /\ rest = << >> /\ Unread(s) = Append(u, Pr(x))
    <3>1. Ends(Unread(s), u, Pr(x))
      BY <2>3 DEF Ends
    <3>2. ~Ends(r.display, u, Pr(x))
      <4>1. Len(Append(u, Pr(x))) = Len(u) + 1 /\ Append(u, Pr(x))[Len(u) + 1] = Pr(x)
        BY <1>2, <1>3, AppendProperties
      <4> QED BY <2>1, <4>1, PromptIs DEF Ends
    <3>3. PICK w \in Seq(Token) : Joins(u, r.display, w) /\ Ends(y, w, Pr(x))
      BY <1>2, <1>3, <2>1, <3>1, <3>2, CutEnding
    <3>4. w \in Speech
      BY <1>2, <3>3, TextParts DEF Joins, Speech
    <3>5. (/\ stdin'[s] = stdin[s] /\ job'[s] = job[s] /\ last'[s] = last[s] /\ alive'[s] = alive[s])
             => Says(s, w, rest, x)'
      BY <1>1, <2>3, <3>3 DEF Says, Ends
    <3> QED BY <1>6, <2>1, <3>3, <3>4, <3>5
  <2> QED BY <2>2, <2>3 DEF Says
<1> QED BY <1>1, <1>4, <1>5, <1>6 DEF Reads

-----------------------------------------------------------------------------
(* A free shell is quiet.                                                  *)

\* The text of a command is speech.
LEMMA WordsAre ==
  ASSUME NEW x \in Cmd
  PROVE  /\ Words(x) \subseteq Speech /\ << >> \in Words(x) /\ << >> \in Speech
         /\ St(x) \in NoPrompt /\ <<St(x)>> \in Speech
<1>1. [k : {"line", "part"}, of : {x}, i : Nat] \subseteq NoPrompt
  BY DEF NoPrompt, Token, Kinds
<1>2. Words(x) \subseteq Speech
  BY <1>1, SeqMonotonic DEF Words, Speech
<1>3. St(x) \in NoPrompt
  BY DEF NoPrompt, Token, Kinds, St
<1> QED BY <1>2, <1>3, SeqOne, EmptySeq DEF Words, Speech

\* What a step leaves to shell s.
SameText(s) ==
    /\ stdin'[s] = stdin[s] /\ job'[s] = job[s] /\ last'[s] = last[s] /\ alive'[s] = alive[s]
    /\ pty'[s] = pty[s] /\ outstanding'[s] = outstanding[s]

\* The parts of the dialogue are about the shell's text only.
LEMMA SamePhase ==
  ASSUME NEW s, SameText(s)
  PROVE  /\ Muted(s)' = Muted(s) /\ Resting(s)' = Resting(s)
         /\ \A x : Ordered(s, x)' = Ordered(s, x) /\ Asked(s, x)' = Asked(s, x)
         /\ \A u, rest, x : Says(s, u, rest, x)' = Says(s, u, rest, x)
BY DEF SameText, Muted, Resting, Ordered, Asked, Told, Says, Unread

\* A shell may be linked or left without a word said.
LEMMA StateDialogue ==
  ASSUME NEW s, Dialogue(s), SameText(s), desynced \subseteq desynced',
         \/ shell_state'[s] = shell_state[s]
         \/ shell_state[s] \in {"FREE", "ALLOCATED"} /\ shell_state'[s] \in {"FREE", "ALLOCATED"}
         \/ shell_state[s] \in {"WAIT_EOC", "WAIT_STATUS"} /\ shell_state'[s] = "FREEING"
  PROVE  Dialogue(s)'
<1>1. CASE Muted(s)
  BY <1>1, SamePhase DEF Dialogue
<1>2. CASE shell_state[s] \in {"FREE", "ALLOCATED"} /\ Resting(s)
  BY <1>2, SamePhase DEF Dialogue
<1>3. CASE shell_state[s] \in {"WAIT_EOC", "FREEING"} /\ \E x \in Cmd : Ordered(s, x)
  BY <1>3, SamePhase DEF Dialogue
<1>4. CASE shell_state[s] \in {"WAIT_STATUS", "FREEING"} /\ \E x \in Cmd : Asked(s, x)
  BY <1>4, SamePhase DEF Dialogue
<1>5. CASE /\ shell_state[s] \in {"WAIT_EOC", "WAIT_STATUS", "FREEING"}
           /\ \E x \in Cmd, u \in Speech, rest \in Speech : Says(s, u, rest, x)
  <2>1. shell_state'[s] \in {"WAIT_EOC", "WAIT_STATUS", "FREEING"}
    BY <1>5
  <2>2. PICK x \in Cmd, u \in Speech, rest \in Speech : Says(s, u, rest, x)
    BY <1>5
  <2>3. Says(s, u, rest, x)'
    BY <2>2, SamePhase
  <2> QED BY <2>1, <2>3 DEF Dialogue
<1>6. CASE s \in desynced
  BY <1>6 DEF Dialogue
<1> QED BY <1>1, <1>2, <1>3, <1>4, <1>5, <1>6 DEF Dialogue

\* A shell that is out of step is never in step again.
LEMMA DesyncGrows ==
  ASSUME TypeOK, [Next]_vars
  PROVE  desynced \subseteq desynced'
<1>1. CASE Bookkeeping
  BY <1>1, BookkeepingFrame
<1>2. CASE Accept \/ AcceptOutOfMemory \/ ClientTurn \/ NextClient
  BY <1>2 DEF Accept, AcceptOutOfMemory, ClientTurn, NextClient, mainEnv, commonEnv
<1>3. CASE ClientCmd \/ ClientDcnx
  BY <1>3 DEF ClientCmd, ClientDcnx, readEnv
<1>4. ASSUME NEW s \in Shells, ShellData(s) PROVE desynced \subseteq desynced'
  <2>1. PICK r \in pdip_recv(s) :
           Fsm_WAIT_EOC_DATA(s, r) \/ Fsm_WAIT_STATUS_DATA(s, r) \/ Fsm_FREEING_DATA(s, r)
    BY <1>4 DEF ShellData
  <2>2. r.display \in Seq(Token)
    BY RecvType
  <2>3. Parted(s, "shells") => desynced \subseteq desynced'
    BY DEF Parted
  <2> QED BY <2>1, <2>2, <2>3, EocPhases, StatusPhases DEF Fsm_FREEING_DATA
<1>5. ASSUME NEW c \in Clients, Client(c) \/ GracefulClose(c) PROVE UNCHANGED desynced
  BY <1>5, ClientFrame DEF daemonVars
<1>6. ASSUME NEW s \in Shells, Shell(s) \/ ShellDie(s) PROVE UNCHANGED desynced
  BY <1>6, ShellFrame DEF daemonVars
<1>7. CASE UNCHANGED vars
  BY <1>7 DEF vars
<1> QED BY NextSplit, <1>1, <1>2, <1>3, <1>4, <1>5, <1>6, <1>7

\* The shell begins to answer what it was told.
LEMMA StartSays ==
  ASSUME TypeOK, NEW s \in Shells, ShellStart(s), NEW x \in Cmd
  PROVE  /\ Ordered(s, x) => /\ \E rest \in Words(x) : Says(s, << >>, rest, x)'
                             /\ started' = started \cup {x}
         /\ Asked(s, x) => Says(s, << >>, <<St(x)>>, x)' /\ started' = started
<1>0. /\ stdin \in [Shells -> Seq(Input)] /\ job \in [Shells -> Seq(Token)]
      /\ last \in [Shells -> Cmd]
  BY DEF TypeOK, ShellType
<1>1. CASE Ordered(s, x)
  <2> DEFINE in == [k |-> "cmd", of |-> x]
  <2>1. alive[s] /\ stdin[s] = <<in>> /\ pty[s] = << >> /\ outstanding[s] = << >>
    BY <1>1 DEF Ordered, Told
  <2>2. Head(<<in>>) = in /\ Tail(<<in>>) = << >>
    OBVIOUS
  <2>3. Head(stdin[s]) = in /\ in.k = "cmd" /\ in.of = x
    BY <2>1, <2>2
  <2> HIDE DEF in
  <2>4. PICK out \in Outputs :
             job' = [job EXCEPT ![s] =
                    [j \in 1..Len(out) |-> [k |-> out[j], of |-> x, i |-> j]]
                    \o <<[k |-> "prompt", of |-> x, i |-> 0]>>]
    BY <2>3 DEF ShellStart
  <2>5. last' = [last EXCEPT ![s] = x] /\ started' = started \cup {x}
    BY <2>3 DEF ShellStart
  <2> DEFINE rest == [j \in 1..Len(out) |-> [k |-> out[j], of |-> x, i |-> j]]
  <2>6. rest \in Words(x)
    <3>1. out \in Seq({"line", "part"})
      BY RsystemdAssumption
    <3>2. Len(out) \in Nat /\ \A j \in 1..Len(out) : out[j] \in {"line", "part"}
      BY <3>1, LenProperties, ElementOfSeq
    <3>3. \A j \in 1..Len(out) : rest[j] \in [k : {"line", "part"}, of : {x}, i : Nat]
      BY <3>2
    <3>4. SubSeq(rest, 1, Len(out)) \in Words(x) /\ rest \in Seq([k : {"line", "part"}, of : {x}, i : Nat])
      BY <3>2, <3>3, SubSeqProperties DEF Words
    <3> QED BY <3>4 DEF Words
  <2> HIDE DEF rest
  <2>7. rest \in Seq(Token) /\ Pr(x) \in Token
    BY <2>6, WordsAre, SpeechIs, PromptIs
  <2>8. job'[s] = Append(rest, Pr(x))
    BY <1>0, <2>4, <2>7, AppendIsConcat DEF rest, Pr
  <2>9. stdin'[s] = << >> /\ last'[s] = x
    BY <1>0, <2>1, <2>2, <2>5 DEF ShellStart
  <2>10. alive'[s] /\ Unread(s)' = << >>
    BY <2>1 DEF ShellStart, Unread, daemonVars
  <2>11. Says(s, << >>, rest, x)'
    BY <2>8, <2>9, <2>10 DEF Says
  <2>12. ~Asked(s, x)
    BY <2>1 DEF Asked, Told, in
  <2> QED BY <2>5, <2>6, <2>11, <2>12
<1>2. CASE Asked(s, x)
  <2> DEFINE in == [k |-> "status", of |-> NoCmd]
  <2>1. alive[s] /\ stdin[s] = <<in>> /\ pty[s] = << >> /\ outstanding[s] = << >> /\ last[s] = x
    BY <1>2 DEF Asked, Told
  <2>2. Head(<<in>>) = in /\ Tail(<<in>>) = << >>
    OBVIOUS
  <2>3. job'[s] = <<St(x), Pr(x)>> /\ last' = last /\ started' = started
    BY <1>0, <2>1, <2>2 DEF ShellStart, St, Pr
  <2>4. Append(<<St(x)>>, Pr(x)) = <<St(x), Pr(x)>>
    BY WordsAre, PromptIs, TokenPair DEF NoPrompt
  <2>5. stdin'[s] = << >>
    BY <1>0, <2>1, <2>2 DEF ShellStart
  <2>6. alive'[s] /\ Unread(s)' = << >>
    BY <2>1 DEF ShellStart, Unread, daemonVars
  <2>7. ~Ordered(s, x)
    BY <2>1 DEF Ordered, Told
  <2> QED BY <2>1, <2>3, <2>4, <2>5, <2>6, <2>7 DEF Says
<1> QED BY <1>1, <1>2

\* The shell writes its next token.
LEMMA EmitSays ==
  ASSUME TypeOK, NEW s \in Shells, ShellEmit(s),
         NEW x \in Cmd, NEW u \in Speech, NEW rest \in Speech, Says(s, u, rest, x)
  PROVE  \/ rest = << >> /\ Head(job[s]) = Pr(x) /\ Says(s, u, << >>, x)'
         \/ /\ rest # << >> /\ Head(job[s]) = Head(rest) /\ Tail(rest) \in Speech
            /\ Head(rest) \in NoPrompt /\ Append(u, Head(rest)) \in Speech
            /\ Says(s, Append(u, Head(rest)), Tail(rest), x)'
<1> DEFINE t == Head(job[s])
<1>0. /\ outstanding[s] \in Seq(Token) /\ pty[s] \in Seq(Token) /\ job[s] \in Seq(Token)
      /\ u \in Seq(Token) /\ rest \in Seq(Token) /\ u \in Seq(NoPrompt) /\ rest \in Seq(NoPrompt)
      /\ Pr(x) \in Token
  BY SpeechIs, PromptIs DEF TypeOK, ShellType, Speech
<1>1. alive[s] /\ Unread(s) = u /\ job[s] = Append(rest, Pr(x)) /\ stdin[s] = << >> /\ last[s] = x
  BY DEF ShellEmit, Says
<1>2. /\ t = (IF rest = << >> THEN Pr(x) ELSE Head(rest))
      /\ Tail(job[s]) = IF rest = << >> THEN << >> ELSE Append(Tail(rest), Pr(x))
  BY <1>0, <1>1, HeadTailAppend
<1>3. t \in Token
  BY <1>0, SeqTail DEF ShellEmit
<1>4. Unread(s)' = Append(u, t)
  <2>1. pty'[s] = Append(pty[s], t) /\ outstanding'[s] = outstanding[s]
    BY DEF ShellEmit, TypeOK, ShellType, daemonVars
  <2> HIDE DEF t
  <2>2. outstanding[s] \o Append(pty[s], t) = Append(outstanding[s] \o pty[s], t)
    BY <1>0, <1>3, TokensAppend
  <2> QED BY <1>1, <2>1, <2>2 DEF Unread
<1>5. job'[s] = Tail(job[s]) /\ stdin'[s] = << >> /\ last'[s] = x /\ alive'[s]
  BY <1>1 DEF ShellEmit, TypeOK, ShellType, daemonVars
<1>6. CASE rest = << >>
  BY <1>2, <1>4, <1>5, <1>6 DEF Says
<1>7. CASE rest # << >>
  <2>1. Tail(rest) \in Speech /\ Head(rest) \in NoPrompt
    BY <1>0, <1>7, SeqTail DEF Speech
  <2>2. Append(u, Head(rest)) \in Speech
    BY <1>0, <2>1, AppendProperties DEF Speech
  <2> QED BY <1>2, <1>4, <1>5, <1>7, <2>1, <2>2 DEF Says
<1> QED BY <1>6, <1>7

\* What the end of the shell leaves of the dialogue.
LEMMA DieDialogue ==
  ASSUME NEW s, ~alive'[s], job'[s] = << >>, stdin'[s] = << >>, last'[s] = last[s],
         pty'[s] = pty[s], outstanding'[s] = outstanding[s]
  PROVE  /\ Muted(s) \/ Resting(s) \/ (\E x : Ordered(s, x) \/ Asked(s, x)) => Muted(s)'
         /\ \A u, rest, x : Says(s, u, rest, x) => Says(s, u, rest, x)'
<1>1. ~PromptFound(<< >>)
  BY DEF PromptFound
<1>2. Unread(s)' = Unread(s)
  BY DEF Unread
<1> QED BY <1>1, <1>2 DEF Muted, Resting, Ordered, Asked, Told, Says

\* At the end of an exchange the shell becomes free.
LEMMA ReleaseState ==
  ASSUME TypeOK, LinkInv, NEW s \in Shells, shell_state[s] \in Busy, NEW then, Parted(s, then)
  PROVE  /\ Linked(s) /\ Heard(shell_client[s], then)
         /\ shell_state' = [shell_state EXCEPT ![s] = "FREE"] /\ shell_state'[s] = "FREE"
         /\ client_shell' = [client_shell EXCEPT ![shell_client[s]] = NoShell]
         /\ shell_client' = [shell_client EXCEPT ![s] = NoClient]
<1>1. Linked(s)
  BY DEF LinkInv, Linked, Shells, NoShell
<1> QED BY <1>1 DEF Parted, Release, TypeOK, ContextType

\* When pdip_recv() lacks memory the shell is out of step: it may have still
\* its prompt to write.
LEMMA NoMemoryDesyncs ==
  ASSUME NEW s, NEW r, r.rc = "NOMEM", LinkInv, TypeOK, s \in Shells,
         Fsm_WAIT_EOC_DATA(s, r) \/ Fsm_WAIT_STATUS_DATA(s, r) \/ Fsm_FREEING_DATA(s, r)
  PROVE  s \in desynced'
<1>1. Unfinished(s, r) = {s}
  BY DEF Unfinished
<1>2. shell_state[s] \in Busy => Linked(s)
  BY DEF LinkInv, Linked, Shells, NoShell
<1> QED BY <1>1, <1>2 DEF Fsm_WAIT_EOC_DATA, Fsm_WAIT_STATUS_DATA, Fsm_FREEING_DATA, Busy, DeliverAndRelease

\* One input sent to a shell that has none.
LEMMA SendFirst ==
  ASSUME TypeOK, NEW s \in Shells, stdin[s] = << >>, NEW in \in Input, pdip_send(s, in)
  PROVE  stdin'[s] = <<in>>
<1>1. << >> \in Seq(Input) /\ Append(<< >>, in) = << >> \o <<in>> /\ <<in>> \in Seq(Input)
  BY EmptySeq, AppendIsConcat, SeqOne
<1>2. << >> \o <<in>> = <<in>>
  BY <1>1, ConcatEmptySeq
<1> QED BY <1>1, <1>2 DEF pdip_send, TypeOK, ShellType

\* The data of a shell are handled while the dialogue is at that point.
LEMMA DataDialogue ==
  ASSUME TypeOK, LinkInv, DialogueInv, NEW s \in Shells, ShellData(s)
  PROVE  Dialogue(s)'
<1>1. PICK r \in pdip_recv(s) :
          /\ r.rc # "AGAIN"
          /\ outstanding' = [outstanding EXCEPT ![s] = r.left]
          /\ pty' = [pty EXCEPT ![s] = r.unread]
          /\ \/ Fsm_WAIT_EOC_DATA(s, r) \/ Fsm_WAIT_STATUS_DATA(s, r) \/ Fsm_FREEING_DATA(s, r)
  BY DEF ShellData
<1>2. job' = job /\ last' = last /\ alive' = alive
  BY DEF ShellData, shellVars
<1>3. outstanding'[s] = r.left /\ pty'[s] = r.unread /\ r.display \in Seq(Token)
  BY <1>1, UnreadNext, RecvType
<1>4. shell_state[s] \in {"WAIT_EOC", "WAIT_STATUS", "FREEING"}
      /\ (shell_state[s] # "FREEING" => shell_state[s] \in Busy)
  BY <1>1 DEF Fsm_WAIT_EOC_DATA, Fsm_WAIT_STATUS_DATA, Fsm_FREEING_DATA, Busy
<1> SUFFICES ASSUME s \notin desynced' PROVE Dialogue(s)'
  BY DEF Dialogue
<1>7. s \notin desynced
  BY DesyncGrows DEF Next, Daemon
<1>8. r \in Received(s) /\ r.rc # "NOMEM"
  BY <1>1, NoMemoryIs, NoMemoryDesyncs DEF pdip_recv
<1>9. Reads(s, r)
  BY <1>8, RecvCut
<1>5. CASE r.rc = "ERROR"
  BY <1>1, <1>2, <1>5, <1>8, ErrorMutes DEF Dialogue
<1>6. CASE r.rc # "ERROR"
  <2>1. ~Muted(s) /\ \A x \in Cmd : ~Ordered(s, x) /\ ~Asked(s, x)
    BY <1>6, <1>8, MutedRecv DEF Ordered, Asked, Told
  <2>2. PICK x \in Cmd, u \in Speech, rest \in Speech : Says(s, u, rest, x)
    BY <1>4, <1>7, <2>1 DEF DialogueInv, Dialogue
  <2>3. stdin[s] = << >> /\ last[s] = x
    BY <2>2 DEF Says
  <2>4. CASE r.rc = "DATA"
    <3>1. stdin' = stdin /\ shell_state'[s] = shell_state[s]
      <4>1. Unfinished(s, r) = {s}
        BY <2>4 DEF Unfinished
      <4>2. ~BrokenDisplay(s, r)
        BY <4>1 DEF BrokenDisplay
      <4> QED BY <1>1, <2>4, <4>2 DEF Fsm_WAIT_EOC_DATA, BrokenDisplay, Fsm_WAIT_STATUS_DATA,
                                      Fsm_FREEING_DATA, TypeOK, ContextType
    <3>2. PICK w \in Speech : Says(s, w, rest, x)'
      BY <1>1, <1>2, <1>8, <2>2, <2>4, <3>1, SaysRecv
    <3> QED BY <1>4, <3>1, <3>2 DEF Dialogue
  <2>5. CASE r.rc = "FOUND"
    <3>1. job'[s] = << >> /\ outstanding'[s] = << >> /\ pty'[s] = << >>
      BY <1>1, <1>2, <1>3, <1>8, <2>2, <2>5, SaysRecv
    <3>2. CASE stdin' = stdin /\ shell_state'[s] = "FREE"
      BY <2>3, <3>1, <3>2 DEF Dialogue, Resting
    <3>3. CASE /\ pdip_send(s, [k |-> "status", of |-> NoCmd])
               /\ shell_state' = [shell_state EXCEPT ![s] = "WAIT_STATUS"]
      <4>1. [k |-> "status", of |-> NoCmd] \in Input
        BY RsystemdAssumption DEF Input, Cmd, NoCmd
      <4>2. stdin'[s] = <<[k |-> "status", of |-> NoCmd]>>
        BY <2>3, <3>3, <4>1, SendFirst
      <4>3. shell_state'[s] = "WAIT_STATUS"
        BY <3>3 DEF TypeOK, ContextType
      <4>4. CASE alive[s]
        <5>1. Asked(s, x)'
          BY <1>2, <2>3, <3>1, <4>2, <4>4 DEF Asked, Told
        <5> QED BY <4>3, <5>1 DEF Dialogue
      <4>5. CASE ~alive[s]
        BY <1>2, <3>1, <4>5 DEF Dialogue, Muted, PromptFound
      <4> QED BY <4>4, <4>5
    <3>4. shell_state[s] # "FREEING" /\ Parted(s, "shells") => shell_state'[s] = "FREE"
      BY <1>4, ReleaseState
    <3>5. CASE Fsm_WAIT_EOC_DATA(s, r)
      <4>1. shell_state[s] # "FREEING"
        BY <3>5 DEF Fsm_WAIT_EOC_DATA
      <4> QED BY <1>3, <2>5, <3>2, <3>3, <3>4, <3>5, <4>1, EocPhases
    <3>6. CASE Fsm_WAIT_STATUS_DATA(s, r)
      <4>1. shell_state[s] # "FREEING"
        BY <3>6 DEF Fsm_WAIT_STATUS_DATA
      <4> QED BY <1>3, <2>5, <3>2, <3>4, <3>6, <4>1, StatusPhases
    <3>7. CASE Fsm_FREEING_DATA(s, r)
      BY <2>5, <3>2, <3>7 DEF Fsm_FREEING_DATA, TypeOK, ContextType
    <3> QED BY <1>1, <3>5, <3>6, <3>7
  <2> QED BY <1>1, <1>6, <1>9, <2>4, <2>5 DEF Reads
<1> QED BY <1>5, <1>6

\* What the daemon has read is a command.
LEMMA CommandIs ==
  ASSUME TypeOK, RoundInv, ClientCmd
  PROVE  <<Head(todo), c2s[Head(todo)][2].n>> \in Cmd
<1>1. Head(todo) \in Clients /\ Len(c2s[Head(todo)]) > 1
  BY Cursor DEF ClientCmd, rsysd_read_client
<1>2. c2s[Head(todo)] \in Seq(Packet) /\ 2 \in 1..Len(c2s[Head(todo)])
  BY <1>1, LenProperties DEF TypeOK, SocketType
<1>3. c2s[Head(todo)][2] \in Packet
  BY <1>2, ElementOfSeq
<1> QED BY <1>1, <1>3 DEF Packet, Cmd

\* A command is sent to a shell that waits for it, or that is dead.
LEMMA CommandTold ==
  ASSUME TypeOK, DialogueInv, NEW s \in Shells, shell_state[s] = "ALLOCATED", s \notin desynced, NEW x \in Cmd,
         pdip_send(s, [k |-> "cmd", of |-> x]), UNCHANGED <<shellVars, ptyVars>>
  PROVE  IF alive[s] THEN Ordered(s, x)' ELSE Muted(s)'
<1>1. Muted(s) \/ Resting(s)
  BY DEF DialogueInv, Dialogue
<1>2. CASE Resting(s) /\ alive[s]
  <2>1. [k |-> "cmd", of |-> x] \in Input
    BY DEF Input
  <2>2. stdin'[s] = <<[k |-> "cmd", of |-> x]>>
    BY <1>2, <2>1, SendFirst DEF Resting
  <2> QED BY <1>2, <2>2 DEF Ordered, Told, Resting, shellVars, ptyVars
<1>3. CASE Muted(s) \/ (Resting(s) /\ ~alive[s])
  BY <1>3 DEF Muted, Resting, shellVars, ptyVars, PromptFound
<1> QED BY <1>1, <1>2, <1>3

\* Every step keeps the machine of each shell in step with the shell.
LEMMA DialogueStep ==
  ASSUME TypeOK, RoundInv, LinkInv, DialogueInv, [Next]_vars
  PROVE  DialogueInv'
<1> USE DEF DialogueInv
<1>0. /\ stdin \in [Shells -> Seq(Input)] /\ job \in [Shells -> Seq(Token)]
      /\ last \in [Shells -> Cmd] /\ alive \in [Shells -> BOOLEAN]
      /\ pty \in [Shells -> Seq(Token)] /\ outstanding \in [Shells -> Seq(Token)]
      /\ shell_state \in [Shells -> ShellStates]
  BY DEF TypeOK, ShellType, ContextType
<1>D. desynced \subseteq desynced'
  BY DesyncGrows
<1>1. ASSUME NEW s \in Shells, NEW t \in Shells,
             s # t => SameText(t) /\ shell_state'[t] = shell_state[t], Dialogue(s)'
      PROVE  Dialogue(t)'
  BY <1>1, <1>D, StateDialogue
<1>2. CASE UNCHANGED <<stdin, shellVars, ptyVars, shell_state>>
  <2>1. ASSUME NEW s \in Shells PROVE SameText(s) /\ shell_state'[s] = shell_state[s]
    BY <1>2 DEF SameText, shellVars, ptyVars
  <2> QED BY <1>D, <2>1, StateDialogue
<1>3. ASSUME NEW s \in Shells, NEW st, shell_state' = [shell_state EXCEPT ![s] = st],
             UNCHANGED <<stdin, shellVars, ptyVars>>,
             \/ shell_state[s] \in {"FREE", "ALLOCATED"} /\ st \in {"FREE", "ALLOCATED"}
             \/ shell_state[s] \in {"WAIT_EOC", "WAIT_STATUS"} /\ st = "FREEING"
      PROVE  DialogueInv'
  <2>1. ASSUME NEW t \in Shells PROVE SameText(t) /\ (t # s => shell_state'[t] = shell_state[t])
    BY <1>0, <1>3 DEF SameText, shellVars, ptyVars
  <2>2. shell_state'[s] = st
    BY <1>0, <1>3
  <2>3. Dialogue(s)'
    BY <1>3, <1>D, <2>1, <2>2, StateDialogue
  <2> QED BY <1>1, <2>1, <2>3
<1>4. CASE Bookkeeping
  <2>1. CASE LoopTest \/ Select \/ ShellsDone \/ ClientsDone \/ MainError \/ rsysd_signal
    BY <1>2, <2>1 DEF LoopTest, Select, ShellsDone, ClientsDone, MainError, rsysd_signal, mainEnv, commonEnv, ctxVars
  <2>2. ASSUME NEW s \in Shells, ShellUnexpectedData(s) PROVE DialogueInv'
    BY <1>2, <2>2 DEF ShellUnexpectedData, ctxVars
  <2>3. CASE MainEnd
    <3>1. ASSUME NEW s \in Shells PROVE Dialogue(s)'
      <4>1. /\ ~alive'[s] /\ job'[s] = << >> /\ stdin'[s] = << >> /\ last'[s] = last[s]
            /\ pty'[s] = pty[s] /\ outstanding'[s] = outstanding[s] /\ shell_state'[s] = shell_state[s]
        BY <2>3 DEF MainEnd, daemonVars, ctxVars
      <4> QED BY <1>D, <4>1, DieDialogue DEF Dialogue
    <3> QED BY <3>1
  <2>4. ASSUME NEW s \in Shells, ShellPartialData(s) PROVE DialogueInv'
    <3>1. PICK r \in Received(s) :
              /\ r.rc = "AGAIN"
              /\ outstanding' = [outstanding EXCEPT ![s] = r.left]
              /\ pty' = [pty EXCEPT ![s] = r.unread]
      BY <2>4, NoMemoryIs DEF ShellPartialData, pdip_recv
    <3>2. /\ shell_state[s] \in {"WAIT_EOC", "WAIT_STATUS", "FREEING"} /\ shell_state' = shell_state
          /\ stdin' = stdin /\ job' = job /\ last' = last /\ alive' = alive
      BY <2>4 DEF ShellPartialData, ctxVars, shellVars
    <3>3. ~Muted(s) /\ \A x \in Cmd : ~Ordered(s, x) /\ ~Asked(s, x)
      BY <3>1, MutedRecv DEF Ordered, Asked, Told
    <3>4. ASSUME s \notin desynced PROVE Dialogue(s)'
      <4>1. PICK x \in Cmd, u \in Speech, rest \in Speech : Says(s, u, rest, x)
        BY <3>2, <3>3, <3>4 DEF Dialogue
      <4>2. Says(s, u, rest, x)'
        BY <3>1, <3>2, <4>1, SaysRecv
      <4> QED BY <3>2, <4>2 DEF Dialogue
    <3>6. Dialogue(s)'
      BY <1>D, <3>4 DEF Dialogue
    <3>7. \A t \in Shells : s # t => SameText(t) /\ shell_state'[t] = shell_state[t]
      BY <1>0, <3>1, <3>2 DEF SameText
    <3> QED BY <1>1, <3>6, <3>7
  <2> QED BY <1>4, <2>1, <2>2, <2>3, <2>4 DEF Bookkeeping
<1>5. CASE Accept \/ AcceptOutOfMemory \/ NextClient
  BY <1>2, <1>5 DEF Accept, AcceptOutOfMemory, NextClient, mainEnv, commonEnv, ctxVars
<1>6. ASSUME NEW s \in Shells, ShellData(s) PROVE DialogueInv'
  <2>1. Dialogue(s)'
    BY <1>6, DataDialogue
  <2>2. PICK r \in pdip_recv(s) :
          /\ outstanding' = [outstanding EXCEPT ![s] = r.left]
          /\ pty' = [pty EXCEPT ![s] = r.unread]
          /\ \/ Fsm_WAIT_EOC_DATA(s, r) \/ Fsm_WAIT_STATUS_DATA(s, r) \/ Fsm_FREEING_DATA(s, r)
    BY <1>6 DEF ShellData
  <2>3. job' = job /\ last' = last /\ alive' = alive
    BY <1>6 DEF ShellData, shellVars
  <2>4. \A t \in Shells : s # t => stdin'[t] = stdin[t] /\ shell_state'[t] = shell_state[t]
    <3>1. r.display \in Seq(Token)
      BY <2>2, RecvType
    <3>2. Parted(s, "shells") => \A t \in Shells : s # t => shell_state'[t] = shell_state[t]
      BY <1>0 DEF Parted, Release
    <3>3. CASE Fsm_WAIT_EOC_DATA(s, r)
      BY <1>0, <3>1, <3>2, <3>3, EocPhases DEF pdip_send
    <3>4. CASE Fsm_WAIT_STATUS_DATA(s, r)
      BY <3>1, <3>2, <3>4, StatusPhases
    <3>5. CASE Fsm_FREEING_DATA(s, r)
      BY <1>0, <3>5 DEF Fsm_FREEING_DATA
    <3> QED BY <2>2, <3>3, <3>4, <3>5
  <2>5. \A t \in Shells : s # t => SameText(t) /\ shell_state'[t] = shell_state[t]
    BY <1>0, <2>2, <2>3, <2>4 DEF SameText
  <2> QED BY <1>1, <2>1, <2>5
<1>7. CASE ClientTurn
  <2>1. UNCHANGED <<stdin, shellVars, ptyVars>>
    BY <1>7 DEF ClientTurn, mainEnv, commonEnv
  <2>2. ASSUME NEW s \in rsysd_get_shell, Fsm_LINK(s, Head(todo)) PROVE DialogueInv'
    <3>1. s \in Shells /\ shell_state[s] = "FREE"
      BY DEF rsysd_get_shell
    <3> QED BY <1>3, <2>1, <2>2, <3>1 DEF Fsm_LINK
  <2> QED BY <1>2, <1>7, <2>1, <2>2 DEF ClientTurn
<1>8. CASE ClientCmd
  <2>1. Head(todo) \in Clients /\ client_shell[Head(todo)] \in Shells \cup {NoShell}
    BY <1>8, Cursor DEF ClientCmd, TypeOK, ContextType
  <2>2. UNCHANGED <<shellVars, ptyVars>>
    BY <1>8 DEF ClientCmd, readEnv
  <2>3. CASE client_shell[Head(todo)] = NoShell
    BY <1>2, <1>8, <2>2, <2>3 DEF ClientCmd, ctxVars, Shells
  <2>4. CASE client_shell[Head(todo)] # NoShell
    <3>1. PICK s \in Shells : s = client_shell[Head(todo)]
      BY <2>1, <2>4
    <3>2. PICK x \in Cmd : Fsm_CMD(s, x)
      BY <1>8, <2>4, <3>1, CommandIs DEF ClientCmd
    <3>3. CASE UNCHANGED <<stdin, shell_state>>
      BY <1>2, <2>2, <3>3
    <3>4. ASSUME shell_state[s] = "ALLOCATED", DeliverAndRelease(s, <<EOC(<< >>)>>, "next", {}), UNCHANGED stdin
          PROVE  DialogueInv'
      <4>0. Parted(s, "next")
        BY <3>4, RefusedParted
      <4>1. shell_state' = [shell_state EXCEPT ![s] = "FREE"]
        BY <3>4, <4>0, ReleaseState DEF Busy
      <4> QED BY <1>3, <2>2, <3>4, <4>1
    <3>5. CASE /\ shell_state[s] = "ALLOCATED" /\ pdip_send(s, [k |-> "cmd", of |-> x])
               /\ shell_state' = [shell_state EXCEPT ![s] = "WAIT_EOC"]
      <4>1. s \in desynced \/ Ordered(s, x)' \/ Muted(s)'
        BY <2>2, <3>5, CommandTold
      <4>2. shell_state'[s] = "WAIT_EOC"
        BY <1>0, <3>5
      <4>3. Dialogue(s)'
        BY <1>D, <4>1, <4>2 DEF Dialogue
      <4>4. \A t \in Shells : s # t => SameText(t) /\ shell_state'[t] = shell_state[t]
        BY <1>0, <2>2, <3>5 DEF SameText, pdip_send, shellVars, ptyVars
      <4> QED BY <1>1, <4>3, <4>4
    <3> QED BY <3>2, <3>3, <3>4, <3>5 DEF Fsm_CMD, ctxVars
  <2> QED BY <2>3, <2>4
<1>9. CASE ClientDcnx
  <2> DEFINE s == client_shell[Head(todo)]
  <2>1. s \in Shells \cup {NoShell}
    BY <1>9, Cursor DEF ClientDcnx, TypeOK, ContextType
  <2>2. UNCHANGED <<stdin, shellVars, ptyVars>>
    BY <1>9 DEF ClientDcnx, readEnv
  <2>3. CASE UNCHANGED shell_state
    BY <1>2, <2>2, <2>3
  <2>4. CASE s # NoShell /\ Fsm_DCNX(s)
    <3> HIDE DEF s
    <3>1. CASE shell_state[s] = "ALLOCATED"
      <4>1. shell_state' = [shell_state EXCEPT ![s] = "FREE"]
        BY <2>1, <2>4, <3>1 DEF Fsm_DCNX
      <4> QED BY <1>3, <2>1, <2>2, <2>4, <3>1, <4>1
    <3>2. CASE shell_state[s] \in {"WAIT_EOC", "WAIT_STATUS"}
      <4>1. shell_state' = [shell_state EXCEPT ![s] = "FREEING"]
        BY <2>1, <2>4, <3>2 DEF Fsm_DCNX
      <4> QED BY <1>3, <2>1, <2>2, <2>4, <3>2, <4>1
    <3>3. CASE shell_state[s] \notin {"ALLOCATED", "WAIT_EOC", "WAIT_STATUS"}
      BY <2>3, <2>4, <3>3 DEF Fsm_DCNX
    <3> QED BY <3>1, <3>2, <3>3
  <2> QED BY <1>9, <2>3, <2>4 DEF ClientDcnx
<1>10. ASSUME NEW c \in Clients, Client(c) \/ GracefulClose(c) PROVE DialogueInv'
  <2>1. UNCHANGED <<stdin, shellVars, pty>>
    BY <1>10 DEF Client, GracefulClose, rsys_lib_initialize, rsystem_header, rsystem_body,
                 rsystem_reply, rsystem_torn, rsystem_error, rsys_lib_exit
  <2> QED BY <1>2, <1>10, <2>1, ClientFrame DEF daemonVars, ctxVars, ptyVars
<1>11. ASSUME NEW s \in Shells, Shell(s) \/ ShellDie(s) PROVE DialogueInv'
  <2>1. shell_state' = shell_state /\ outstanding' = outstanding
    BY <1>11, ShellFrame DEF daemonVars, ctxVars
  <2>2. \A t \in Shells : s # t => SameText(t) /\ shell_state'[t] = shell_state[t]
    BY <1>0, <1>11, <2>1 DEF Shell, ShellDie, ShellStart, ShellEmit, SameText
  <2>6. CASE s \in desynced
    <3>1. Dialogue(s)'
      BY <1>D, <2>6 DEF Dialogue
    <3> QED BY <1>1, <2>2, <3>1
  <2>3. CASE ShellStart(s) /\ s \notin desynced
    <3>1. alive[s] /\ stdin[s] # << >>
      BY <2>3 DEF ShellStart
    <3>2. ~Muted(s) /\ ~Resting(s) /\ \A u, rest, x : ~Says(s, u, rest, x)
      BY <3>1 DEF Muted, Resting, Says
    <3>3. CASE shell_state[s] \in {"WAIT_EOC", "FREEING"} /\ \E x \in Cmd : Ordered(s, x)
      <4>1. PICK x \in Cmd : Ordered(s, x)
        BY <3>3
      <4>2. PICK rest \in Words(x) : Says(s, << >>, rest, x)'
        BY <2>3, <4>1, StartSays
      <4>3. rest \in Speech /\ << >> \in Speech
        BY WordsAre
      <4> QED BY <1>1, <2>1, <2>2, <3>3, <4>2, <4>3 DEF Dialogue
    <3>4. CASE shell_state[s] \in {"WAIT_STATUS", "FREEING"} /\ \E x \in Cmd : Asked(s, x)
      <4>1. PICK x \in Cmd : Asked(s, x)
        BY <3>4
      <4>2. Says(s, << >>, <<St(x)>>, x)' /\ <<St(x)>> \in Speech /\ << >> \in Speech
        BY <2>3, <4>1, StartSays, WordsAre
      <4> QED BY <1>1, <2>1, <2>2, <3>4, <4>2 DEF Dialogue
    <3> QED BY <2>3, <3>2, <3>3, <3>4 DEF Dialogue
  <2>4. CASE ShellEmit(s) /\ s \notin desynced
    <3>1. alive[s] /\ job[s] # << >>
      BY <2>4 DEF ShellEmit
    <3>2. ~Muted(s) /\ ~Resting(s) /\ \A x : ~Ordered(s, x) /\ ~Asked(s, x)
      BY <3>1 DEF Muted, Resting, Ordered, Asked, Told
    <3>3. PICK x \in Cmd, u \in Speech, rest \in Speech : Says(s, u, rest, x)
      BY <2>4, <3>2 DEF Dialogue
    <3>4. \E v \in Speech, w \in Speech : Says(s, v, w, x)'
      BY <2>4, <3>3, EmitSays, WordsAre
    <3>5. shell_state'[s] \in {"WAIT_EOC", "WAIT_STATUS", "FREEING"}
      BY <2>1, <2>4, <3>2 DEF Dialogue
    <3>6. Dialogue(s)'
      BY <3>4, <3>5 DEF Dialogue
    <3> QED BY <1>1, <2>2, <3>6
  <2>5. CASE ShellDie(s)
    <3>1. /\ ~alive'[s] /\ job'[s] = << >> /\ stdin'[s] = << >> /\ last'[s] = last[s]
          /\ pty'[s] = pty[s] /\ outstanding'[s] = outstanding[s] /\ shell_state'[s] = shell_state[s]
      BY <1>0, <2>1, <2>5 DEF ShellDie
    <3>2. Dialogue(s)'
      BY <1>D, <3>1, DieDialogue DEF Dialogue
    <3> QED BY <1>1, <2>2, <3>2
  <2> QED BY <1>11, <2>3, <2>4, <2>5, <2>6 DEF Shell
<1>12. CASE UNCHANGED vars
  BY <1>2, <1>12 DEF vars, ctxVars
<1> QED
  BY NextSplit, <1>4, <1>5, <1>6, <1>7, <1>8, <1>9, <1>10, <1>11, <1>12

\* At the start every shell is at its prompt.
LEMMA DialogueInit == Init => DialogueInv
<1> SUFFICES ASSUME Init, NEW s \in Shells PROVE Dialogue(s)
  BY DEF DialogueInv
<1>1. Resting(s) /\ shell_state[s] = "FREE"
  BY DEF Init, Resting
<1> QED BY <1>1 DEF Dialogue

\* A shell is never free, or given to a client, with a word of the former
\* client's command still to read or to come (FreeShellQuiet), unless a write
\* to that client, or the memory of pdip_recv(), has failed before its prompt.
THEOREM FreeShellsQuiet == Spec => []FreeShellQuiet
<1>1. Init => DialogueInv
  BY DialogueInit
<1>2. IndInv /\ DialogueInv /\ [Next]_vars => DialogueInv'
  BY DialogueStep DEF IndInv
<1>3. DialogueInv => FreeShellQuiet
  BY DEF DialogueInv, Dialogue, FreeShellQuiet, Muted, Resting
<1> QED BY Inductive, <1>1, <1>2, <1>3, PTL DEF Spec

-----------------------------------------------------------------------------
(* What the client has got of the dialogue.                                *)

\* The numbers of commands are those their clients have given.
KnownCmd == {x \in Cmd : x[1] \in Clients => x[2] <= ncmd[x[1]]}

NumberInv ==
    /\ started \subseteq KnownCmd
    /\ \A s \in Shells : /\ last[s] \in KnownCmd
                         /\ stdin[s] \in Seq([k : {"cmd", "status"}, of : KnownCmd])
                         /\ job[s] \in Seq([k : Kinds, of : KnownCmd, i : Nat])
    /\ \A c \in Clients : c2s[c] \in Seq([k : {"hdr", "body"}, n : 0..ncmd[c]])

\* Shell t will print nothing more of command x; no shell has heard of it.
OtherInput(x) == {in \in Input : in.of # x}
OtherToken(x) == {t \in Token : t.k \in {"line", "part"} => t.of # x}
Clean(t, x) == alive[t] => stdin[t] \in Seq(OtherInput(x)) /\ job[t] \in Seq(OtherToken(x))
Untold(x) == /\ x \notin started
             /\ \A t \in Shells : stdin[t] \in Seq(OtherInput(x)) /\ job[t] \in Seq(OtherToken(x))

\* A client that has displayed a has displayed t once it has read q.
Shown(m) == IF m.type = "DISPLAY" THEN m.data ELSE << >>
Shows(a, q, t) ==
    \E f \in [0..Len(q) -> Seq(Token)] :
        /\ f[0] = a /\ f[Len(q)] = t
        /\ \A j \in 1..Len(q) : f[j] = f[j - 1] \o Shown(q[j])

\* Displays of text of command x.
DisplayMsg(x) == [type : {"DISPLAY"}, data : Words(x)]
OutOfMemoryMsg == [type : {"OOM"}, data : {<< >>}]

\* Where client c is with its current command x. Nobody will write to it any
\* more, or it does not listen.
Lost(c) ==
    /\ \/ clst[c] = "gone"
       \/ clst[c] = "failed" /\ srv[c] = "none"
       \/ client_state[c] # "ALLOCATED" /\ srv[c] \notin {"none", "backlog"}
       \/ clst[c] = "idle" /\ pc \in Stopped
    /\ ret[c] = << >> /\ s2c[c] \in Seq(OutOfMemoryMsg)

\* It can be served, and no shell works for it.
Unserved(c) ==
    /\ client_state[c] = "ALLOCATED" \/ srv[c] \in {"none", "backlog"}
    /\ client_shell[c] # NoShell => shell_state[client_shell[c]] = "ALLOCATED"

\* It calls nothing; its last command, if any, is over.
Idle(c, x) ==
    /\ clst[c] \in {"off", "idle"} /\ Unserved(c) /\ \A t \in Shells : Clean(t, x)
    /\ c2s[c] = << >> /\ s2c[c] = << >>
    /\ ret[c] # << >> => /\ client_state[c] = "ALLOCATED"
                         /\ ret[c] = <<St(x)>> /\ shown[c] = said[c]

\* The command is on its way.
Sending(c, x) ==
    /\ Unserved(c) /\ Untold(x)
    /\ \/ clst[c] = "body" /\ Len(c2s[c]) = 1
       \/ clst[c] = "wait" /\ Len(c2s[c]) = 2 /\ <<c, c2s[c][2].n>> = x
    /\ s2c[c] = << >> /\ ret[c] = << >> /\ shown[c] = << >> /\ said[c] = << >>

\* Shell s works on it: what is still to be read of it, and what c will have
\* displayed.
Printing(c, s, x) ==
    \E u \in Words(x), rest \in Words(x), t \in Seq(Token) :
        Says(s, u, rest, x) /\ Shows(shown[c], s2c[c], t) /\ said[c] = t \o u
Telling(s, x) ==
    \/ Says(s, << >>, <<St(x)>>, x) \/ Says(s, <<St(x)>>, << >>, x)
    \/ Says(s, << >>, << >>, x) /\ shell_status[s] = <<St(x)>>
Working(c, s, x) ==
    \/ Muted(s)
    \/ shell_state[s] = "WAIT_EOC" /\ Ordered(s, x) /\ Shows(shown[c], s2c[c], said[c])
    \/ shell_state[s] = "WAIT_EOC" /\ Printing(c, s, x)
    \/ /\ shell_state[s] = "WAIT_STATUS" /\ (Asked(s, x) \/ Telling(s, x))
       /\ Shows(shown[c], s2c[c], said[c])
Served(c, s, x) ==
    /\ clst[c] = "wait" /\ client_shell[c] = s /\ c2s[c] = << >> /\ ret[c] = << >>
    /\ shell_state[s] \in {"WAIT_EOC", "WAIT_STATUS"}
    /\ s2c[c] \in Seq(DisplayMsg(x))
    /\ \A t \in Shells \ {s} : Clean(t, x)
    /\ Working(c, s, x)

\* The answer waits for it.
Verdict(c, x, m) ==
    \/ m = EOC(<< >>)
    \/ m = EOC(<<St(x)>>) /\ Shows(shown[c], s2c[c], said[c])
    \/ m = [type |-> "BUSY", data |-> << >>] /\ Untold(x)
Answered(c, x) ==
    /\ clst[c] = "wait" /\ client_state[c] = "ALLOCATED" /\ Unserved(c)
    /\ \A t \in Shells : Clean(t, x)
    /\ c2s[c] = << >> /\ ret[c] = << >>
    /\ \E d \in Seq(DisplayMsg(x)), m \in Msg : s2c[c] = Append(d, m) /\ Verdict(c, x, m)

Talk(c, x) ==
    \/ Lost(c) \/ Idle(c, x) \/ Sending(c, x) \/ Answered(c, x)
    \/ \E s \in Shells : Served(c, s, x)
TalkInv == \A c \in Clients \ Interruptible : c \notin misled => Talk(c, <<c, ncmd[c]>>)

\* A client of a shell that is out of step is known as one of the misled.
MisledInv == \A c \in Clients : client_shell[c] # NoShell /\ client_shell[c] \in desynced => c \in misled

-----------------------------------------------------------------------------
(* What shells are told and what they print about it.                      *)

\* What command x prints when its output is out.
Prints(x, out) == [j \in 1..Len(out) |-> [k |-> out[j], of |-> x, i |-> j]]
                  \o <<[k |-> "prompt", of |-> x, i |-> 0]>>

\* The shell takes up its next input.
LEMMA StartJob ==
  ASSUME NEW s, ShellStart(s), NEW in, in = Head(stdin[s])
  PROVE  /\ in.k = "cmd" \/ in.k = "status"
         /\ in.k = "cmd" =>
            /\ last' = [last EXCEPT ![s] = in.of] /\ started' = started \cup {in.of}
            /\ \E out \in Outputs :
                  job' = [job EXCEPT ![s] = Prints(in.of, out)]
         /\ in.k = "status" => UNCHANGED <<last, started>>
BY DEF ShellStart, Prints

\* Commands of I, and what is printed about them, J: a shell that has only
\* these goes on so while it is sent nothing else.
LEMMA InputStep ==
  ASSUME TypeOK, RoundInv, [Next]_vars, NEW t \in Shells, NEW I, NEW J,
         stdin[t] \in Seq(I), job[t] \in Seq(J),
         [k |-> "status", of |-> NoCmd] \in I,
         ClientCmd => [k |-> "cmd", of |-> <<Head(todo), c2s[Head(todo)][2].n>>] \in I,
         \A in \in I : in.k = "cmd" =>
             \A w \in {"line", "part", "prompt"}, j \in Nat : [k |-> w, of |-> in.of, i |-> j] \in J,
         \A w \in {"status", "prompt"} : [k |-> w, of |-> last[t], i |-> 0] \in J
  PROVE  stdin'[t] \in Seq(I) /\ job'[t] \in Seq(J)
<1>0. /\ stdin \in [Shells -> Seq(Input)] /\ job \in [Shells -> Seq(Token)]
      /\ << >> \in Seq(I) /\ << >> \in Seq(J)
  BY EmptySeq DEF TypeOK, ShellType
<1>1. CASE UNCHANGED <<stdin, job>>
  BY <1>1
<1>2. ASSUME NEW s \in Shells, NEW in \in I, pdip_send(s, in) PROVE stdin'[t] \in Seq(I)
  <2>1. stdin'[t] = IF s = t THEN Append(stdin[t], in) ELSE stdin[t]
    BY <1>0, <1>2 DEF pdip_send
  <2> QED BY <2>1, AppendProperties
<1>3. CASE Bookkeeping
  <2>1. CASE MainEnd
    BY <1>0, <2>1 DEF MainEnd
  <2> QED BY <1>1, <1>3, <2>1 DEF Bookkeeping, LoopTest, Select, ShellsDone, ClientsDone, MainError,
             rsysd_signal, ShellPartialData, ShellUnexpectedData, mainEnv, commonEnv, shellVars
<1>4. CASE Accept \/ AcceptOutOfMemory \/ NextClient \/ ClientTurn
  BY <1>1, <1>4 DEF Accept, AcceptOutOfMemory, NextClient, ClientTurn, mainEnv, commonEnv, shellVars
<1>5. ASSUME NEW s \in Shells, ShellData(s) PROVE stdin'[t] \in Seq(I) /\ job' = job
  <2>1. job' = job
    BY <1>5 DEF ShellData, shellVars
  <2>2. stdin' = stdin \/ pdip_send(s, [k |-> "status", of |-> NoCmd])
    BY <1>5 DEF ShellData, Fsm_WAIT_EOC_DATA, Fsm_WAIT_STATUS_DATA, Fsm_FREEING_DATA
  <2> QED BY <1>2, <2>1, <2>2
<1>6. CASE ClientCmd
  <2>1. job' = job
    BY <1>6 DEF ClientCmd, readEnv, shellVars
  <2>2. client_shell[Head(todo)] \in Shells \cup {NoShell}
    BY <1>6, Cursor DEF ClientCmd, TypeOK, ContextType
  <2>3. \/ stdin' = stdin
        \/ /\ client_shell[Head(todo)] # NoShell
           /\ pdip_send(client_shell[Head(todo)], [k |-> "cmd", of |-> <<Head(todo), c2s[Head(todo)][2].n>>])
    BY <1>6 DEF ClientCmd, Fsm_CMD
  <2> QED BY <1>2, <1>6, <2>1, <2>2, <2>3
<1>7. CASE ClientDcnx
  BY <1>1, <1>7 DEF ClientDcnx, readEnv, shellVars
<1>8. ASSUME NEW c \in Clients, Client(c) \/ GracefulClose(c) PROVE UNCHANGED <<stdin, job>>
  BY <1>8 DEF Client, GracefulClose, rsys_lib_initialize, rsystem_header, rsystem_body,
              rsystem_reply, rsystem_torn, rsystem_error, rsys_lib_exit, shellVars
<1>9. ASSUME NEW s \in Shells, ShellStart(s) PROVE stdin'[t] \in Seq(I) /\ job'[t] \in Seq(J)
  <2>1. CASE s # t
    BY <1>0, <1>9, <2>1 DEF ShellStart
  <2>2. CASE s = t
    <3>1. stdin[t] # << >> /\ stdin'[t] = Tail(stdin[t])
      BY <1>0, <1>9, <2>2 DEF ShellStart
    <3>2. stdin'[t] \in Seq(I) /\ Head(stdin[t]) \in I
      BY <3>1, SeqTail
    <3>3. PICK in \in I : in = Head(stdin[t])
      BY <3>2
    <3>4. CASE in.k = "cmd"
      <4>1. PICK out \in Outputs :
             job' = [job EXCEPT ![t] = Prints(in.of, out)]
        BY <1>9, <2>2, <3>3, <3>4, StartJob
      <4> DEFINE rest == [j \in 1..Len(out) |-> [k |-> out[j], of |-> in.of, i |-> j]]
      <4>0. out \in Seq({"line", "part"})
        BY RsystemdAssumption
      <4>2. Len(out) \in Nat /\ \A j \in 1..Len(out) : out[j] \in {"line", "part"}
        BY <4>0, LenProperties, ElementOfSeq
      <4>3. ASSUME NEW j \in 1..Len(out) PROVE rest[j] \in J
        <5>1. out[j] \in {"line", "part", "prompt"} /\ j \in Nat
          BY <4>2
        <5>2. [k |-> out[j], of |-> in.of, i |-> j] \in J
          BY <3>4, <5>1
        <5> QED BY <5>2
      <4>4. rest \in Seq(J)
        <5>1. rest \in [1..Len(out) -> J]
          BY <4>3
        <5> QED BY <4>2, <5>1
      <4>5. [k |-> "prompt", of |-> in.of, i |-> 0] \in J
        BY <3>4
      <4>6. <<[k |-> "prompt", of |-> in.of, i |-> 0]>> \in Seq(J)
        BY <4>5, SeqOne
      <4> HIDE DEF rest
      <4> QED BY <1>0, <3>2, <4>1, <4>4, <4>6, ConcatProperties DEF rest, Prints
    <3>5. CASE in.k = "status"
      <4>1. job'[t] = <<[k |-> "status", of |-> last[t], i |-> 0],
                        [k |-> "prompt", of |-> last[t], i |-> 0]>>
        BY <1>0, <1>9, <2>2, <3>3, <3>5 DEF ShellStart
      <4>2. [k |-> "status", of |-> last[t], i |-> 0] \in J /\ [k |-> "prompt", of |-> last[t], i |-> 0] \in J
        OBVIOUS
      <4> QED BY <3>2, <4>1, <4>2
    <3>6. in.k = "cmd" \/ in.k = "status"
      BY <1>9, <2>2, <3>3 DEF ShellStart
    <3> QED BY <3>4, <3>5, <3>6
  <2> QED BY <2>1, <2>2
<1>10. ASSUME NEW s \in Shells, ShellEmit(s) PROVE stdin'[t] \in Seq(I) /\ job'[t] \in Seq(J)
  <2>1. /\ stdin' = stdin
        /\ job'[t] = job[t] \/ (job[t] # << >> /\ job'[t] = Tail(job[t]))
    BY <1>0, <1>10 DEF ShellEmit
  <2> QED BY <2>1, SeqTail
<1>11. ASSUME NEW s \in Shells, ShellDie(s) PROVE stdin'[t] \in Seq(I) /\ job'[t] \in Seq(J)
  BY <1>0, <1>11 DEF ShellDie
<1>12. CASE UNCHANGED vars
  BY <1>1, <1>12 DEF vars, shellVars
<1> QED BY NextSplit, <1>3, <1>4, <1>5, <1>6, <1>7, <1>8, <1>9, <1>10, <1>11, <1>12, <1>1 DEF Shell

\* A shell has begun the commands it had begun, and the one it takes up.
LEMMA StartedStep ==
  ASSUME TypeOK, [Next]_vars
  PROVE  \/ started' = started /\ last' = last
         \/ \E s \in Shells :
               /\ ShellStart(s) /\ stdin[s] # << >> /\ Head(stdin[s]).k = "cmd"
               /\ started' = started \cup {Head(stdin[s]).of}
               /\ last' = [last EXCEPT ![s] = Head(stdin[s]).of]
<1>1. CASE Bookkeeping \/ Accept \/ AcceptOutOfMemory \/ NextClient \/ ClientTurn
  BY <1>1 DEF Bookkeeping, LoopTest, Select, ShellsDone, ClientsDone, MainEnd, MainError, rsysd_signal,
              ShellPartialData, ShellUnexpectedData, Accept, AcceptOutOfMemory, NextClient, ClientTurn,
              mainEnv, commonEnv, shellVars, histVars
<1>2. ASSUME NEW s \in Shells, ShellData(s) PROVE started' = started /\ last' = last
  BY <1>2 DEF ShellData, shellVars, histVars
<1>3. CASE ClientCmd \/ ClientDcnx
  BY <1>3 DEF ClientCmd, ClientDcnx, readEnv, shellVars, histVars
<1>4. ASSUME NEW c \in Clients, Client(c) \/ GracefulClose(c) PROVE started' = started /\ last' = last
  BY <1>4 DEF Client, GracefulClose, rsys_lib_initialize, rsystem_header, rsystem_body,
              rsystem_reply, rsystem_torn, rsystem_error, rsys_lib_exit, shellVars, histVars
<1>5. ASSUME NEW s \in Shells, ShellEmit(s) \/ ShellDie(s) PROVE started' = started /\ last' = last
  BY <1>5 DEF ShellEmit, ShellDie, histVars
<1>6. ASSUME NEW s \in Shells, ShellStart(s)
      PROVE  \/ started' = started /\ last' = last
             \/ /\ stdin[s] # << >> /\ Head(stdin[s]).k = "cmd"
                /\ started' = started \cup {Head(stdin[s]).of}
                /\ last' = [last EXCEPT ![s] = Head(stdin[s]).of]
  BY <1>6 DEF ShellStart
<1>7. CASE UNCHANGED vars
  BY <1>7 DEF vars, shellVars, histVars
<1> QED BY NextSplit, <1>1, <1>2, <1>3, <1>4, <1>5, <1>6, <1>7 DEF Shell

\* A client numbers its commands in order, and writes its current number;
\* the daemon reads what was written.
LEMMA PacketStep ==
  ASSUME TypeOK, RoundInv, [Next]_vars, NEW c \in Clients
  PROVE  \/ ncmd'[c] = ncmd[c] /\ c2s'[c] = c2s[c]
         \/ ncmd'[c] = ncmd[c] /\ c2s'[c] = Append(c2s[c], [k |-> "body", n |-> ncmd[c]])
         \/ ncmd'[c] = ncmd[c] /\ c2s[c] # << >> /\ c2s'[c] = Tail(c2s[c])
         \/ ncmd'[c] = ncmd[c] /\ Len(c2s[c]) > 1 /\ c2s'[c] = SubSeq(c2s[c], 3, Len(c2s[c]))
         \/ /\ ncmd'[c] = ncmd[c] + 1
            /\ c2s'[c] = c2s[c] \/ c2s'[c] = Append(c2s[c], [k |-> "hdr", n |-> ncmd[c] + 1])
<1>0. ncmd \in [Clients -> 0..MaxCmds] /\ c2s \in [Clients -> Seq(Packet)]
  BY DEF TypeOK, SocketType
<1>1. CASE Bookkeeping \/ Accept \/ AcceptOutOfMemory \/ NextClient \/ ClientTurn
  BY <1>1 DEF Bookkeeping, LoopTest, Select, ShellsDone, ClientsDone, MainEnd, MainError, rsysd_signal,
              ShellPartialData, ShellUnexpectedData, Accept, AcceptOutOfMemory, NextClient, ClientTurn,
              mainEnv, commonEnv, procVars
<1>2. ASSUME NEW s \in Shells, ShellData(s) PROVE ncmd' = ncmd /\ c2s' = c2s
  BY <1>2 DEF ShellData, procVars
<1>3. CASE ClientCmd
  <2>1. ncmd' = ncmd /\ rsysd_read_client(Head(todo))
    BY <1>3 DEF ClientCmd, readEnv, procVars
  <2> QED BY <1>0, <2>1 DEF rsysd_read_client
<1>4. CASE ClientDcnx
  <2>1. /\ ncmd' = ncmd
        /\ c2s' = [c2s EXCEPT ![Head(todo)] = IF @ = << >> THEN @ ELSE Tail(@)]
    BY <1>4 DEF ClientDcnx, readEnv, procVars
  <2> QED BY <1>0, <2>1
<1>5. ASSUME NEW d \in Clients, rsystem_header(d)
      PROVE  \/ ncmd'[c] = ncmd[c] /\ c2s'[c] = c2s[c]
             \/ /\ ncmd'[c] = ncmd[c] + 1
                /\ c2s'[c] = c2s[c] \/ c2s'[c] = Append(c2s[c], [k |-> "hdr", n |-> ncmd[c] + 1])
  <2>1. /\ ncmd' = [ncmd EXCEPT ![d] = @ + 1]
        /\ \/ c2s' = c2s
           \/ c2s' = [c2s EXCEPT ![d] = Append(@, [k |-> "hdr", n |-> ncmd[d] + 1])]
    BY <1>5 DEF rsystem_header, ClientWrite
  <2> QED BY <1>0, <2>1
<1>6. ASSUME NEW d \in Clients, rsystem_body(d)
      PROVE  /\ ncmd'[c] = ncmd[c]
             /\ c2s'[c] = c2s[c] \/ c2s'[c] = Append(c2s[c], [k |-> "body", n |-> ncmd[c]])
  <2>1. /\ ncmd' = ncmd
        /\ \/ c2s' = c2s
           \/ c2s' = [c2s EXCEPT ![d] = Append(@, [k |-> "body", n |-> ncmd[d]])]
    BY <1>6 DEF rsystem_body, ClientWrite
  <2> QED BY <1>0, <2>1
<1>7. ASSUME NEW d \in Clients, Client(d) \/ GracefulClose(d), ~rsystem_header(d), ~rsystem_body(d)
      PROVE  ncmd' = ncmd /\ c2s' = c2s
  BY <1>7 DEF Client, GracefulClose, rsys_lib_initialize, rsystem_reply, rsystem_torn, rsystem_error, rsys_lib_exit,
              procVars
<1>8. ASSUME NEW s \in Shells, Shell(s) \/ ShellDie(s) PROVE ncmd' = ncmd /\ c2s' = c2s
  BY <1>8 DEF Shell, ShellStart, ShellEmit, ShellDie, procVars
<1>9. CASE UNCHANGED vars
  BY <1>9 DEF vars, procVars
<1> QED BY NextSplit, <1>1, <1>2, <1>3, <1>4, <1>5, <1>6, <1>7, <1>8, <1>9

\* The number of a command is never ahead of its client's.
LEMMA NumberStep ==
  ASSUME TypeOK, RoundInv, LinkInv, NumberInv, [Next]_vars
  PROVE  NumberInv'
<1>0. /\ ncmd \in [Clients -> 0..MaxCmds] /\ ncmd' \in [Clients -> 0..MaxCmds]
      /\ c2s \in [Clients -> Seq(Packet)] /\ MaxCmds \in Nat
      /\ last \in [Shells -> Cmd]
  BY TypeStep, RsystemdAssumption DEF TypeOK, SocketType, ShellType
<1>1. ASSUME NEW c \in Clients PROVE ncmd[c] <= ncmd'[c]
  <2>1. ncmd'[c] = ncmd[c] \/ ncmd'[c] = ncmd[c] + 1
    BY PacketStep
  <2>2. ncmd[c] \in Nat
    BY <1>0
  <2> QED BY <2>1, <2>2
<1>2. PICK K : K = KnownCmd
  OBVIOUS
<1>3. K \subseteq Cmd /\ K \subseteq KnownCmd' /\ NoCmd \in K
  BY <1>0, <1>1, <1>2, RsystemdAssumption DEF KnownCmd, Cmd, NoCmd
<1> DEFINE I == [k : {"cmd", "status"}, of : K]
           J == [k : Kinds, of : K, i : Nat]
<1>4. ClientCmd => <<Head(todo), c2s[Head(todo)][2].n>> \in K
  <2> SUFFICES ASSUME ClientCmd PROVE <<Head(todo), c2s[Head(todo)][2].n>> \in K
    OBVIOUS
  <2>1. Head(todo) \in Clients /\ Len(c2s[Head(todo)]) > 1
    BY Cursor DEF ClientCmd, rsysd_read_client
  <2>2. c2s[Head(todo)] \in Seq([k : {"hdr", "body"}, n : 0..ncmd[Head(todo)]])
    BY <2>1 DEF NumberInv
  <2>3. Len(c2s[Head(todo)]) \in Nat
    BY <2>2, LenProperties
  <2>4. c2s[Head(todo)][2] \in [k : {"hdr", "body"}, n : 0..ncmd[Head(todo)]]
    <3>1. 2 \in 1..Len(c2s[Head(todo)])
      BY <2>1, <2>3
    <3> QED BY <2>2, <3>1, ElementOfSeq
  <2>5. ncmd[Head(todo)] \in 0..MaxCmds
    BY <1>0, <2>1
  <2>6. c2s[Head(todo)][2].n \in 0..MaxCmds /\ c2s[Head(todo)][2].n <= ncmd[Head(todo)]
    BY <1>0, <2>4, <2>5
  <2> QED BY <1>2, <2>1, <2>6 DEF KnownCmd, Cmd
<1>5. ASSUME NEW t \in Shells
      PROVE  stdin'[t] \in Seq(I) /\ job'[t] \in Seq(J)
  <2>1. stdin[t] \in Seq(I) /\ job[t] \in Seq(J) /\ last[t] \in K
    BY <1>2 DEF NumberInv
  <2>2. [k |-> "status", of |-> NoCmd] \in I
    BY <1>3
  <2>3. ClientCmd => [k |-> "cmd", of |-> <<Head(todo), c2s[Head(todo)][2].n>>] \in I
    BY <1>4
  <2>4. \A in \in I : in.k = "cmd" =>
             \A w \in {"line", "part", "prompt"}, j \in Nat : [k |-> w, of |-> in.of, i |-> j] \in J
    BY DEF Kinds
  <2>5. \A w \in {"status", "prompt"} : [k |-> w, of |-> last[t], i |-> 0] \in J
    BY <2>1 DEF Kinds
  <2> HIDE DEF I, J
  <2> QED BY <2>1, <2>2, <2>3, <2>4, <2>5, InputStep
<1>6. /\ I \subseteq [k : {"cmd", "status"}, of : KnownCmd']
      /\ J \subseteq [k : Kinds, of : KnownCmd', i : Nat]
  BY <1>3
<1>7. ASSUME NEW t \in Shells
      PROVE  /\ stdin'[t] \in Seq([k : {"cmd", "status"}, of : KnownCmd'])
             /\ job'[t] \in Seq([k : Kinds, of : KnownCmd', i : Nat])
  <2> HIDE DEF I, J
  <2> QED BY <1>5, <1>6, SeqMonotonic
<1>8. ASSUME NEW s \in Shells, stdin[s] # << >> PROVE Head(stdin[s]).of \in K
  <2>1. stdin[s] \in Seq(I)
    BY <1>2 DEF NumberInv
  <2>2. Head(stdin[s]) \in I
    BY <1>8, <2>1, SeqTail
  <2> QED BY <2>2
<1>9. started' \subseteq K /\ \A s \in Shells : last'[s] \in K
  <2>1. started \subseteq K /\ \A s \in Shells : last[s] \in K
    BY <1>2 DEF NumberInv
  <2> QED BY <1>0, <1>8, <2>1, StartedStep
<1>10. ASSUME NEW c \in Clients PROVE c2s'[c] \in Seq([k : {"hdr", "body"}, n : 0..ncmd'[c]])
  <2> DEFINE P == [k : {"hdr", "body"}, n : 0..ncmd[c]]
             Q == [k : {"hdr", "body"}, n : 0..ncmd'[c]]
  <2>0. ncmd[c] \in Nat /\ ncmd'[c] \in Nat /\ ncmd[c] <= ncmd'[c]
    BY <1>0, <1>1
  <2>1. P \subseteq Q /\ [k |-> "body", n |-> ncmd'[c]] \in Q /\ [k |-> "hdr", n |-> ncmd'[c]] \in Q
    BY <2>0
  <2>2. c2s[c] \in Seq(P)
    BY DEF NumberInv
  <2> HIDE DEF P, Q
  <2>3. c2s[c] \in Seq(Q) /\ Len(c2s[c]) \in Nat
    BY <2>1, <2>2, SeqMonotonic, LenProperties
  <2>4. CASE c2s'[c] = c2s[c]
    BY <2>3, <2>4 DEF Q
  <2>5. CASE c2s'[c] = Append(c2s[c], [k |-> "body", n |-> ncmd'[c]])
    BY <2>1, <2>3, <2>5, AppendProperties DEF Q
  <2>6. CASE c2s'[c] = Append(c2s[c], [k |-> "hdr", n |-> ncmd'[c]])
    BY <2>1, <2>3, <2>6, AppendProperties DEF Q
  <2>7. CASE c2s[c] # << >> /\ c2s'[c] = Tail(c2s[c])
    BY <2>3, <2>7, SeqTail DEF Q
  <2>8. CASE Len(c2s[c]) > 1 /\ c2s'[c] = SubSeq(c2s[c], 3, Len(c2s[c]))
    <3>1. Len(c2s[c]) <= Len(c2s[c])
      BY <2>3
    <3>2. SubSeq(c2s[c], 3, Len(c2s[c])) \in Seq(Q)
      BY <2>3, <3>1, SeqSub
    <3> QED BY <2>8, <3>2 DEF Q
  <2> QED BY <2>4, <2>5, <2>6, <2>7, <2>8, PacketStep
<1> QED BY <1>3, <1>7, <1>9, <1>10 DEF NumberInv

-----------------------------------------------------------------------------
(* What a client displays of the messages that wait for it.                *)

\* The text of a message.
LEMMA ShownType ==
  ASSUME NEW m \in Msg
  PROVE  Shown(m) \in Seq(Token)
BY EmptySeq DEF Shown, Msg

\* A client with no message has displayed all it will.
LEMMA ShowsNone ==
  ASSUME NEW a \in Seq(Token)
  PROVE  Shows(a, << >>, a) /\ \A t : Shows(a, << >>, t) => t = a
<1> DEFINE f == [j \in 0..0 |-> a]
<1>1. f \in [0..Len(<< >>) -> Seq(Token)] /\ f[0] = a /\ Len(<< >>) = 0
  OBVIOUS
<1>2. Shows(a, << >>, a)
  <2> HIDE DEF f
  <2> QED BY <1>1 DEF Shows
<1> QED BY <1>1, <1>2 DEF Shows

\* A message read is displayed before the others.
LEMMA ShowsRead ==
  ASSUME NEW a, NEW q \in Seq(Msg), q # << >>, NEW t, Shows(a, q, t)
  PROVE  Shows(a \o Shown(Head(q)), Tail(q), t)
<1>1. PICK f \in [0..Len(q) -> Seq(Token)] :
          /\ f[0] = a /\ f[Len(q)] = t
          /\ \A j \in 1..Len(q) : f[j] = f[j - 1] \o Shown(q[j])
  BY DEF Shows
<1>2. /\ Len(q) \in Nat /\ Len(q) >= 1 /\ Len(Tail(q)) = Len(q) - 1 /\ Head(q) = q[1]
      /\ \A j \in 1..Len(Tail(q)) : Tail(q)[j] = q[j + 1]
  BY EmptySeq, LenProperties, HeadTailProperties
<1> DEFINE n == Len(q)
           g == [j \in 0..(n - 1) |-> f[j + 1]]
<1> HIDE DEF n
<1>3. n \in Nat /\ n >= 1 /\ f \in [0..n -> Seq(Token)]
  BY <1>1, <1>2 DEF n
<1>4. g \in [0..(n - 1) -> Seq(Token)] /\ g[0] = f[1] /\ g[n - 1] = f[n]
  <2>1. \A j \in 0..(n - 1) : j + 1 \in 0..n
    BY <1>3
  <2>2. \A j \in 0..(n - 1) : f[j + 1] \in Seq(Token)
    BY <1>3, <2>1
  <2>3. 0 \in 0..(n - 1) /\ n - 1 \in 0..(n - 1) /\ (n - 1) + 1 = n /\ 0 + 1 = 1
    BY <1>3
  <2> QED BY <2>2, <2>3
<1>5. g[0] = a \o Shown(Head(q))
  <2>1. 1 \in 1..Len(q) /\ 1 - 1 = 0
    BY <1>2
  <2> QED BY <1>1, <1>2, <1>4, <2>1
<1>6. ASSUME NEW j \in 1..Len(Tail(q)) PROVE g[j] = g[j - 1] \o Shown(Tail(q)[j])
  <2>1. j + 1 \in 1..Len(q) /\ (j + 1) - 1 = j /\ j \in 0..(n - 1) /\ j - 1 \in 0..(n - 1) /\ (j - 1) + 1 = j
    BY <1>2 DEF n
  <2>2. g[j] = f[j + 1] /\ g[j - 1] = f[j]
    BY <2>1
  <2>3. f[j + 1] = f[j] \o Shown(q[j + 1])
    BY <1>1, <2>1
  <2> QED BY <1>2, <2>2, <2>3
<1>7. g \in [0..Len(Tail(q)) -> Seq(Token)] /\ g[Len(Tail(q))] = t
  BY <1>1, <1>2, <1>4 DEF n
<1> HIDE DEF g
<1> QED BY <1>5, <1>6, <1>7 DEF Shows

\* A message sent is displayed after the others.
LEMMA ShowsSend ==
  ASSUME NEW a, NEW q \in Seq(Msg), NEW m \in Msg, NEW t, Shows(a, q, t)
  PROVE  Shows(a, Append(q, m), t \o Shown(m))
<1>1. PICK f \in [0..Len(q) -> Seq(Token)] :
          /\ f[0] = a /\ f[Len(q)] = t
          /\ \A j \in 1..Len(q) : f[j] = f[j - 1] \o Shown(q[j])
  BY DEF Shows
<1> DEFINE p == Append(q, m)
           n == Len(q)
           y == t \o Shown(m)
<1>2. n \in Nat /\ Len(p) = n + 1 /\ p[n + 1] = m /\ \A j \in 1..n : p[j] = q[j]
  BY LenProperties, AppendProperties
<1>3. y \in Seq(Token)
  <2>1. Len(q) \in 0..Len(q)
    BY LenProperties
  <2>2. t \in Seq(Token)
    BY <1>1, <2>1
  <2> QED BY <2>2, ShownType, TokensJoin
<1> HIDE DEF p, y
<1> DEFINE g == [j \in 0..(n + 1) |-> IF j = n + 1 THEN y ELSE f[j]]
<1>4. g \in [0..(n + 1) -> Seq(Token)] /\ g[0] = a /\ g[n + 1] = y /\ \A j \in 0..n : g[j] = f[j]
  <2> HIDE DEF n
  <2>1. n \in Nat /\ f \in [0..n -> Seq(Token)] /\ f[0] = a
    BY <1>1, <1>2 DEF n
  <2>2. \A j \in 0..(n + 1) : j = n + 1 \/ j \in 0..n
    BY <2>1
  <2>3. 0 \in 0..(n + 1) /\ 0 # n + 1 /\ n + 1 \in 0..(n + 1) /\ \A j \in 0..n : j \in 0..(n + 1) /\ j # n + 1
    BY <2>1
  <2> QED BY <1>3, <2>1, <2>2, <2>3
<1>5. ASSUME NEW j \in 1..(n + 1) PROVE g[j] = g[j - 1] \o Shown(p[j])
  <2> HIDE DEF g
  <2>1. CASE j = n + 1
    <3>1. n \in 0..n /\ (n + 1) - 1 = n
      BY <1>2
    <3>2. g[n] = t
      BY <1>1, <1>4, <3>1
    <3> QED BY <1>2, <1>4, <2>1, <3>1, <3>2 DEF y
  <2>2. CASE j # n + 1
    <3>1. j \in 1..n /\ j \in 0..n /\ j - 1 \in 0..n
      BY <1>2, <2>2
    <3> QED BY <1>1, <1>2, <1>4, <3>1
  <2> QED BY <2>1, <2>2
<1> HIDE DEF g, n
<1> QED BY <1>2, <1>4, <1>5 DEF Shows, p, y

\* A display adds its text.
LEMMA ShowsDisplay ==
  ASSUME NEW a, NEW q \in Seq(Msg), NEW d \in Seq(Token), NEW t, Shows(a, q, t)
  PROVE  /\ t \in Seq(Token) /\ Shows(a, q \o Display(d), t \o d)
         /\ q \o Display(d) = q \/ q \o Display(d) = Append(q, [type |-> "DISPLAY", data |-> d])
<1>0. t \in Seq(Token) /\ Len(q) \in Nat
  <2>1. Len(q) \in Nat
    BY LenProperties
  <2>2. Len(q) \in 0..Len(q)
    BY <2>1
  <2> QED BY <2>1, <2>2 DEF Shows
<1>1. CASE d = << >>
  <2>1. Display(d) = << >> /\ q \o << >> = q /\ t \o << >> = t
    BY <1>0, <1>1, ConcatEmptySeq DEF Display
  <2> QED BY <1>0, <1>1, <2>1
<1>2. CASE d # << >>
  <2> DEFINE m == [type |-> "DISPLAY", data |-> d]
  <2>1. m \in Msg /\ Shown(m) = d /\ Display(d) = <<m>>
    BY <1>2 DEF Msg, Shown, Display
  <2> HIDE DEF m
  <2>2. Append(q, m) = q \o <<m>>
    BY <2>1, AppendIsConcat
  <2>3. Shows(a, Append(q, m), t \o Shown(m))
    BY <2>1, ShowsSend
  <2> QED BY <1>0, <2>1, <2>2, <2>3 DEF m
<1> QED BY <1>1, <1>2

-----------------------------------------------------------------------------
(* What a step leaves of a client's exchange.                              *)

\* A dead shell stays dead, and a daemon that has ended has ended.
LEMMA EndsForEver ==
  ASSUME TypeOK, [Next]_vars
  PROVE  /\ \A t \in Shells : alive'[t] => alive[t]
         /\ pc \in Stopped => pc' \in Stopped
<1>0. alive \in [Shells -> BOOLEAN]
  BY DEF TypeOK, ShellType
<1>1. CASE Bookkeeping \/ Accept \/ AcceptOutOfMemory \/ NextClient \/ ClientTurn
  <2>1. pc \notin Stopped
    BY <1>1 DEF Bookkeeping, LoopTest, Select, ShellsDone, ClientsDone, MainEnd, MainError, rsysd_signal,
              ShellPartialData, ShellUnexpectedData, ShellTurn, Accept, AcceptOutOfMemory, NextClient,
              ClientTurn, Stopped
  <2>2. alive' = alive \/ alive' = [s \in Shells |-> FALSE]
    BY <1>1 DEF Bookkeeping, LoopTest, Select, ShellsDone, ClientsDone, MainEnd, MainError, rsysd_signal,
              ShellPartialData, ShellUnexpectedData, Accept, AcceptOutOfMemory, NextClient, ClientTurn,
              mainEnv, commonEnv, shellVars
  <2> QED BY <1>0, <2>1, <2>2
<1>2. ASSUME NEW s \in Shells, ShellData(s) PROVE alive' = alive /\ pc \notin Stopped
  BY <1>2 DEF ShellData, ShellTurn, shellVars, Stopped
<1>3. CASE ClientCmd \/ ClientDcnx
  BY <1>3 DEF ClientCmd, ClientDcnx, readEnv, shellVars, Stopped
<1>4. ASSUME NEW c \in Clients, Client(c) \/ GracefulClose(c) PROVE alive' = alive /\ pc' = pc
  BY <1>4 DEF Client, GracefulClose, rsys_lib_initialize, rsystem_header, rsystem_body,
              rsystem_reply, rsystem_torn, rsystem_error, rsys_lib_exit, shellVars
<1>5. ASSUME NEW s \in Shells, Shell(s) \/ ShellDie(s)
      PROVE  (\A t \in Shells : alive'[t] => alive[t]) /\ pc' = pc
  BY <1>0, <1>5 DEF Shell, ShellStart, ShellEmit, ShellDie
<1>6. CASE UNCHANGED vars
  BY <1>6 DEF vars, shellVars
<1> QED BY NextSplit, <1>1, <1>2, <1>3, <1>4, <1>5, <1>6

\* What the shells know of a command that its client is not sending now.
LEMMA CleanStep ==
  ASSUME TypeOK, RoundInv, [Next]_vars, NEW c \in Clients, NEW x \in Cmd, x[1] = c,
         ~(ClientCmd /\ Head(todo) = c)
  PROVE  /\ \A t \in Shells : Clean(t, x) => Clean(t, x)'
         /\ Untold(x) => Untold(x)'
<1> DEFINE I == OtherInput(x)
           J == OtherToken(x)
<1>1. NoCmd # x /\ NoCmd \in Cmd
  BY RsystemdAssumption DEF NoCmd, Cmd
<1>2. [k |-> "status", of |-> NoCmd] \in I
  BY <1>1 DEF OtherInput, Input
<1>3. ClientCmd => [k |-> "cmd", of |-> <<Head(todo), c2s[Head(todo)][2].n>>] \in I
  BY CommandIs DEF OtherInput, Input
<1>4. \A in \in I : in.k = "cmd" =>
             \A w \in {"line", "part", "prompt"}, j \in Nat : [k |-> w, of |-> in.of, i |-> j] \in J
  BY DEF OtherInput, OtherToken, Input, Token, Kinds
<1>5. ASSUME NEW t \in Shells, stdin[t] \in Seq(I), job[t] \in Seq(J)
      PROVE  stdin'[t] \in Seq(I) /\ job'[t] \in Seq(J)
  <2>1. last[t] \in Cmd
    BY DEF TypeOK, ShellType
  <2>2. \A w \in {"status", "prompt"} : [k |-> w, of |-> last[t], i |-> 0] \in J
    BY <2>1 DEF OtherToken, Token, Kinds
  <2> HIDE DEF I, J
  <2> QED BY <1>2, <1>3, <1>4, <1>5, <2>2, InputStep
<1>6. ASSUME Untold(x) PROVE x \notin started'
  <2>1. ASSUME NEW s \in Shells, stdin[s] # << >> PROVE Head(stdin[s]).of # x
    <3>1. stdin[s] \in Seq(I)
      BY <1>6 DEF Untold
    <3>2. Head(stdin[s]) \in I
      BY <2>1, <3>1, SeqTail
    <3> QED BY <3>2 DEF OtherInput
  <2> QED BY <1>6, <2>1, StartedStep DEF Untold
<1>7. \A t \in Shells : alive'[t] => alive[t]
  BY EndsForEver
<1> QED BY <1>5, <1>6, <1>7 DEF Clean, Untold

\* The client and what the daemon keeps about it are left alone.
Own(c) ==
    /\ clst'[c] = clst[c] /\ shown'[c] = shown[c] /\ ret'[c] = ret[c] /\ said'[c] = said[c]
    /\ srv'[c] = srv[c] /\ c2s'[c] = c2s[c] /\ s2c'[c] = s2c[c]
    /\ client_state'[c] = client_state[c] /\ client_shell'[c] = client_shell[c]

\* Shell s is where it was in the dialogue, or dead.
Keeps(s) ==
    /\ shell_state'[s] = shell_state[s] /\ shell_status'[s] = shell_status[s]
    /\ Muted(s) => Muted(s)'
    /\ \A x \in Cmd : /\ Ordered(s, x) => Ordered(s, x)' \/ Muted(s)'
                      /\ Asked(s, x) => Asked(s, x)' \/ Muted(s)'
                      /\ \A u, rest \in Speech : Says(s, u, rest, x) => Says(s, u, rest, x)'

\* What is said of command x by shells that are left alone.
Others(x) == /\ \A t \in Shells : Clean(t, x) => Clean(t, x)'
             /\ Untold(x) => Untold(x)'

\* A client that is left alone is where it was.
LEMMA OwnFrame ==
  ASSUME NEW c, NEW x, Own(c), Others(x), pc \in Stopped => pc' \in Stopped,
         client_shell[c] # NoShell => shell_state'[client_shell[c]] = shell_state[client_shell[c]]
  PROVE  /\ Lost(c) => Lost(c)'
         /\ Idle(c, x) => Idle(c, x)'
         /\ Sending(c, x) => Sending(c, x)'
         /\ Answered(c, x) => Answered(c, x)'
<1>1. Unserved(c) => Unserved(c)'
  BY DEF Own, Unserved
<1>2. Lost(c) => Lost(c)'
  BY DEF Own, Lost
<1>3. Idle(c, x) => Idle(c, x)'
  BY <1>1 DEF Own, Others, Idle
<1>4. Sending(c, x) => Sending(c, x)'
  BY <1>1 DEF Own, Others, Sending
<1>5. \A m : Verdict(c, x, m) => Verdict(c, x, m)'
  BY DEF Own, Others, Verdict
<1>6. Answered(c, x) => Answered(c, x)'
  BY <1>1, <1>5 DEF Own, Others, Answered
<1> QED BY <1>2, <1>3, <1>4, <1>6

\* So is a client whose shell works on.
LEMMA ServedFrame ==
  ASSUME NEW c, NEW x \in Cmd, NEW s \in Shells, Own(c), Others(x), Keeps(s), Served(c, s, x)
  PROVE  Served(c, s, x)'
<1>1. ASSUME Printing(c, s, x) PROVE Printing(c, s, x)'
  <2>1. PICK u \in Words(x), rest \in Words(x), t \in Seq(Token) :
            Says(s, u, rest, x) /\ Shows(shown[c], s2c[c], t) /\ said[c] = t \o u
    BY <1>1 DEF Printing
  <2>2. Says(s, u, rest, x)'
    BY <2>1, WordsAre DEF Keeps
  <2> QED BY <2>1, <2>2 DEF Printing, Own
<1>2. Telling(s, x) => Telling(s, x)'
  BY WordsAre DEF Telling, Keeps
<1>3. Working(c, s, x)'
  BY <1>1, <1>2 DEF Served, Working, Keeps, Own
<1> QED BY <1>3 DEF Served, Own, Keeps, Others

\* Any client that is left alone.
LEMMA TalkFrame ==
  ASSUME NEW c, NEW x \in Cmd, Own(c), Others(x), pc \in Stopped => pc' \in Stopped, Talk(c, x),
         client_shell[c] \in Shells \cup {NoShell}, client_shell[c] # NoShell => Keeps(client_shell[c])
  PROVE  Talk(c, x)'
<1>1. client_shell[c] # NoShell => shell_state'[client_shell[c]] = shell_state[client_shell[c]]
  BY DEF Keeps
<1>2. ASSUME NEW s \in Shells, Served(c, s, x) PROVE Served(c, s, x)'
  <2>1. client_shell[c] = s /\ s # NoShell
    BY <1>2 DEF Served, Shells, NoShell
  <2> QED BY <1>2, <2>1, ServedFrame
<1> QED BY <1>1, <1>2, OwnFrame DEF Talk

\* Shells that a step leaves alone keep their dialogue.
LEMMA SameKeeps ==
  ASSUME NEW s, SameText(s), shell_state'[s] = shell_state[s], shell_status'[s] = shell_status[s]
  PROVE  Keeps(s)
BY SamePhase DEF Keeps

\* So do shells that end.
LEMMA DieKeeps ==
  ASSUME NEW s, ~alive'[s], job'[s] = << >>, stdin'[s] = << >>, last'[s] = last[s],
         pty'[s] = pty[s], outstanding'[s] = outstanding[s],
         shell_state'[s] = shell_state[s], shell_status'[s] = shell_status[s]
  PROVE  Keeps(s)
BY DieDialogue DEF Keeps

-----------------------------------------------------------------------------
(* The steps of a client in its own exchange.                              *)

\* A client that can be served has an open connection, or none yet.
LEMMA LiveSocket ==
  ASSUME ListInv, LinkInv, NEW c \in Clients
  PROVE  /\ client_state[c] = "ALLOCATED" => srv[c] = "open"
         /\ Unserved(c) => srv[c] \in {"none", "backlog", "open"}
         /\ \A s \in Shells : \A x : Served(c, s, x) => client_state[c] = "ALLOCATED" /\ srv[c] = "open"
<1>1. client_state[c] = "ALLOCATED" => srv[c] = "open"
  BY DEF ListInv
<1>2. ASSUME NEW s \in Shells, NEW x, Served(c, s, x) PROVE client_state[c] = "ALLOCATED"
  <2>1. client_shell[c] = s /\ s # NoShell
    BY <1>2 DEF Served, Shells, NoShell
  <2>2. shell_client[s] = c /\ c # NoClient
    BY <2>1, RsystemdAssumption DEF LinkInv
  <2> QED BY <2>2 DEF LinkInv
<1> QED BY <1>1, <1>2 DEF Unserved

\* The connection.
LEMMA TalkInitialize ==
  ASSUME TypeOK, ListInv, LinkInv, NEW c \in Clients, NEW x \in Cmd, Talk(c, x), Others(x),
         rsys_lib_initialize(c)
  PROVE  Talk(c, x)'
<1>1. clst[c] = "off" /\ srv[c] = "none"
  BY DEF rsys_lib_initialize, ListInv
<1>2. Idle(c, x)
  BY <1>1 DEF Talk, Lost, Sending, Answered, Served
<1>3. UNCHANGED <<client_state, client_shell, shell_state, shown, ret, c2s, s2c, said, pc>>
  BY DEF rsys_lib_initialize, daemonVars, ctxVars, histVars
<1>4. clst \in [Clients -> {"off", "idle", "body", "wait", "failed", "gone"}]
      /\ srv \in [Clients -> {"none", "backlog", "open", "graceful", "closed"}]
  BY DEF TypeOK, SocketType
<1>5. CASE pc \in Stopped
  <2>1. clst'[c] = "failed" /\ srv'[c] = "none"
    BY <1>1, <1>4, <1>5 DEF rsys_lib_initialize
  <2>2. client_state[c] # "ALLOCATED"
    BY <1>1, LiveSocket
  <2>3. ret[c] = << >> /\ s2c[c] = << >>
    BY <1>2, <2>2 DEF Idle
  <2>4. Lost(c)'
    BY <1>3, <2>1, <2>3, EmptySeq DEF Lost
  <2> QED BY <2>4 DEF Talk
<1>6. CASE pc \notin Stopped
  <2>1. clst'[c] = "idle" /\ srv'[c] = "backlog"
    BY <1>4, <1>6 DEF rsys_lib_initialize
  <2>2. Unserved(c)'
    BY <1>2, <1>3, <2>1 DEF Idle, Unserved
  <2>3. \A t \in Shells : Clean(t, x)'
    BY <1>2 DEF Idle, Others
  <2>4. Idle(c, x)'
    BY <1>2, <1>3, <2>1, <2>2, <2>3 DEF Idle
  <2> QED BY <2>4 DEF Talk
<1> QED BY <1>5, <1>6

\* A new command: no shell can have heard of it.
LEMMA TalkHeader ==
  ASSUME TypeOK, ListInv, LinkInv, NumberInv, NEW c \in Clients, NEW x \in Cmd, Talk(c, x),
         rsystem_header(c), NEW y, y = <<c, ncmd[c] + 1>>
  PROVE  Talk(c, y)'
<1>0. /\ clst \in [Clients -> {"off", "idle", "body", "wait", "failed", "gone"}]
      /\ ncmd \in [Clients -> 0..MaxCmds] /\ MaxCmds \in Nat
      /\ shown \in [Clients -> Seq(Token)] /\ ret \in [Clients -> Seq(Token)]
      /\ c2s \in [Clients -> Seq(Packet)] /\ said \in [Clients -> Seq(Token)]
  BY RsystemdAssumption DEF TypeOK, SocketType
<1>1. /\ clst[c] = "idle" /\ ncmd[c] < MaxCmds
      /\ shown'[c] = << >> /\ ret'[c] = << >> /\ said'[c] = << >>
      /\ UNCHANGED <<pc, srv, s2c, client_state, client_shell, shell_state, stdin, job, started>>
  BY <1>0 DEF rsystem_header, daemonVars, ctxVars, shellVars
<1>2. \/ Hungup(c) /\ clst'[c] = "gone"
      \/ /\ ~Hungup(c) /\ clst'[c] = "body"
         /\ c2s'[c] = Append(c2s[c], [k |-> "hdr", n |-> ncmd[c] + 1])
  BY <1>0 DEF rsystem_header, ClientWrite
<1>3. Lost(c) \/ Idle(c, x)
  BY <1>1 DEF Talk, Sending, Answered, Served
<1>4. s2c[c] \in Seq(OutOfMemoryMsg)
  BY <1>3, EmptySeq DEF Lost, Idle
<1>5. CASE Hungup(c)
  <2>1. Lost(c)'
    BY <1>1, <1>2, <1>4, <1>5 DEF Lost
  <2> QED BY <2>1 DEF Talk
<1>6. CASE ~Hungup(c) /\ Lost(c)
  <2>1. client_state[c] # "ALLOCATED" /\ srv[c] \notin {"none", "backlog"}
    BY <1>1, <1>6 DEF Lost, Hungup
  <2>2. Lost(c)'
    BY <1>1, <1>4, <2>1 DEF Lost
  <2> QED BY <2>2 DEF Talk
<1>7. CASE ~Hungup(c) /\ Idle(c, x)
  <2>1. Unserved(c)'
    BY <1>1, <1>7 DEF Idle, Unserved
  <2>2. y \notin KnownCmd
    <3>1. ncmd[c] \in Nat /\ ~(ncmd[c] + 1 <= ncmd[c])
      BY <1>0
    <3> QED BY <3>1 DEF KnownCmd
  <2>3. Untold(y)
    <3>1. y \notin started
      BY <2>2 DEF NumberInv
    <3>2. ASSUME NEW t \in Shells PROVE stdin[t] \in Seq(OtherInput(y)) /\ job[t] \in Seq(OtherToken(y))
      <4>1. /\ stdin[t] \in Seq([k : {"cmd", "status"}, of : KnownCmd])
            /\ job[t] \in Seq([k : Kinds, of : KnownCmd, i : Nat])
        BY DEF NumberInv
      <4>2. KnownCmd \subseteq Cmd
        BY DEF KnownCmd
      <4>3. /\ [k : {"cmd", "status"}, of : KnownCmd] \subseteq OtherInput(y)
            /\ [k : Kinds, of : KnownCmd, i : Nat] \subseteq OtherToken(y)
        BY <2>2, <4>2 DEF OtherInput, OtherToken, Input, Token
      <4> QED BY <4>1, <4>3, SeqMonotonic
    <3> QED BY <3>1, <3>2 DEF Untold
  <2>4. Untold(y)'
    BY <1>1, <2>3 DEF Untold
  <2>5. Len(c2s'[c]) = 1
    <3>1. c2s[c] = << >> /\ [k |-> "hdr", n |-> ncmd[c] + 1] \in Packet
      BY <1>0, <1>1, <1>7 DEF Idle, Packet
    <3>2. << >> \in Seq(Packet) /\ Len(<< >>) = 0
      BY EmptySeq
    <3>3. \A p \in Packet : Len(Append(<< >>, p)) = 1
      BY <3>2, AppendProperties
    <3> QED BY <1>2, <1>7, <3>1, <3>3
  <2>6. Sending(c, y)'
    BY <1>1, <1>2, <1>7, <2>1, <2>4, <2>5 DEF Sending, Idle
  <2> QED BY <2>6 DEF Talk
<1> QED BY <1>3, <1>5, <1>6, <1>7

\* The body of the command.
LEMMA TalkBody ==
  ASSUME TypeOK, NEW c \in Clients, NEW x \in Cmd, x = <<c, ncmd[c]>>, Talk(c, x), Others(x),
         rsystem_body(c)
  PROVE  Talk(c, x)'
<1>0. /\ clst \in [Clients -> {"off", "idle", "body", "wait", "failed", "gone"}]
      /\ c2s \in [Clients -> Seq(Packet)] /\ ncmd[c] \in 0..MaxCmds
  BY DEF TypeOK, SocketType
<1>1. /\ clst[c] = "body"
      /\ UNCHANGED <<pc, srv, s2c, client_state, client_shell, shell_state, shown, ret, said>>
  BY DEF rsystem_body, daemonVars, ctxVars, histVars
<1>2. \/ clst'[c] = "gone"
      \/ /\ clst'[c] = "wait"
         /\ c2s'[c] = Append(c2s[c], [k |-> "body", n |-> ncmd[c]])
  BY <1>0 DEF rsystem_body, ClientWrite
<1>3. Lost(c) \/ Sending(c, x)
  BY <1>1 DEF Talk, Idle, Answered, Served
<1>4. CASE clst'[c] = "gone" \/ Lost(c)
  <2>1. ret[c] = << >> /\ s2c[c] \in Seq(OutOfMemoryMsg)
    BY <1>3, EmptySeq DEF Lost, Sending
  <2>2. Lost(c)'
    BY <1>1, <1>4, <2>1 DEF Lost
  <2> QED BY <2>2 DEF Talk
<1>5. CASE clst'[c] # "gone" /\ Sending(c, x)
  <2>1. Unserved(c)' /\ Untold(x)'
    BY <1>1, <1>5 DEF Sending, Unserved, Others
  <2>2. Len(c2s'[c]) = 2 /\ c2s'[c][2] = [k |-> "body", n |-> ncmd[c]]
    <3>1. Len(c2s[c]) = 1 /\ [k |-> "body", n |-> ncmd[c]] \in Packet
      BY <1>0, <1>1, <1>5 DEF Sending, Packet
    <3>2. ASSUME NEW q \in Seq(Packet), NEW p \in Packet, Len(q) = 1
          PROVE  Len(Append(q, p)) = 2 /\ Append(q, p)[2] = p
      <4>1. Len(Append(q, p)) = Len(q) + 1 /\ Append(q, p)[Len(q) + 1] = p
        BY AppendProperties
      <4> QED BY <3>2, <4>1
    <3>3. c2s'[c] = Append(c2s[c], [k |-> "body", n |-> ncmd[c]]) /\ c2s[c] \in Seq(Packet)
      BY <1>0, <1>2, <1>5
    <3> QED BY <3>1, <3>2, <3>3
  <2>3. <<c, c2s'[c][2].n>> = x
    BY <2>2
  <2>4. Sending(c, x)'
    BY <1>1, <1>2, <1>5, <2>1, <2>2, <2>3 DEF Sending
  <2> QED BY <2>4 DEF Talk
<1> QED BY <1>3, <1>4, <1>5

\* The end of the connection, and of the process.
LEMMA TalkLeaves ==
  ASSUME TypeOK, ListInv, LinkInv, NEW c \in Clients \ Interruptible, NEW x \in Cmd, Talk(c, x),
         rsystem_error(c) \/ rsys_lib_exit(c)
  PROVE  Talk(c, x)'
<1>0. /\ clst \in [Clients -> {"off", "idle", "body", "wait", "failed", "gone"}]
      /\ s2c \in [Clients -> Seq(Msg)] /\ ret \in [Clients -> Seq(Token)]
  BY DEF TypeOK, SocketType
<1>1. CASE rsys_lib_exit(c)
  <2>1. clst'[c] = "gone" /\ ret'[c] = << >> /\ s2c'[c] = << >>
    BY <1>0, <1>1 DEF rsys_lib_exit
  <2>2. Lost(c)'
    BY <2>1, EmptySeq DEF Lost
  <2> QED BY <2>2 DEF Talk
<1>2. CASE rsystem_error(c)
  <2>1. /\ clst[c] = "wait" /\ s2c[c] = << >> /\ Hungup(c) /\ clst'[c] = "idle"
        /\ UNCHANGED <<pc, srv, s2c, client_state, ret>>
    BY <1>0, <1>2 DEF rsystem_error, daemonVars, ctxVars
  <2>2. ret[c] = << >>
    BY <2>1 DEF Talk, Lost, Idle, Sending, Answered, Served
  <2>3. CASE pc \in Stopped
    <3>1. Lost(c)'
      BY <2>1, <2>2, <2>3, EmptySeq DEF Lost
    <3> QED BY <3>1 DEF Talk
  <2>4. CASE srv[c] = "closed"
    <3>1. client_state[c] # "ALLOCATED"
      BY <2>4, LiveSocket
    <3>2. Lost(c)'
      BY <2>1, <2>2, <2>4, <3>1, EmptySeq DEF Lost
    <3> QED BY <3>2 DEF Talk
  <2> QED BY <2>1, <2>3, <2>4 DEF Hungup
<1> QED BY <1>1, <1>2

\* Displays of a command are messages.
LEMMA DisplayMsgs ==
  ASSUME NEW x \in Cmd
  PROVE  /\ DisplayMsg(x) \subseteq Msg /\ Seq(DisplayMsg(x)) \subseteq Seq(Msg)
         /\ << >> \in Seq(DisplayMsg(x))
<1>1. Words(x) \subseteq Seq(Token)
  BY WordsAre, SpeechIs
<1>2. DisplayMsg(x) \subseteq Msg
  BY <1>1 DEF DisplayMsg, Msg
<1> QED BY <1>2, SeqMonotonic, EmptySeq

\* A message is read.
LEMMA TalkReply ==
  ASSUME TypeOK, NEW c \in Clients, NEW x \in Cmd, Talk(c, x), Others(x), rsystem_reply(c)
  PROVE  Talk(c, x)'
<1> DEFINE q == s2c[c]
           m == Head(s2c[c])
<1>0. /\ clst \in [Clients -> {"off", "idle", "body", "wait", "failed", "gone"}]
      /\ s2c \in [Clients -> Seq(Msg)] /\ ret \in [Clients -> Seq(Token)]
      /\ shown \in [Clients -> Seq(Token)] /\ said \in [Clients -> Seq(Token)]
  BY DEF TypeOK, SocketType
<1>1. /\ clst[c] = "wait" /\ q \in Seq(Msg) /\ q # << >> /\ s2c'[c] = Tail(q)
      /\ UNCHANGED <<pc, srv, c2s, client_state, client_shell, shell_state, shell_status, said>>
      /\ UNCHANGED <<stdin, shellVars, ptyVars>>
  BY <1>0 DEF rsystem_reply, daemonVars, ctxVars, histVars, ptyVars
<1>2. \/ m.type = "DISPLAY" /\ shown'[c] = shown[c] \o m.data /\ clst'[c] = "wait" /\ ret'[c] = ret[c]
      \/ m.type = "EOC" /\ shown'[c] = shown[c] /\ clst'[c] = "idle" /\ ret'[c] = m.data
      \/ m.type \in {"BUSY", "OOM"} /\ shown'[c] = shown[c] /\ clst'[c] = "idle" /\ ret'[c] = ret[c]
  BY <1>0, <1>1 DEF rsystem_reply
<1>3. \A t : Shows(shown[c], q, t) => Shows(shown'[c], Tail(q), t)
  <2> SUFFICES ASSUME NEW t, Shows(shown[c], q, t) PROVE Shows(shown'[c], Tail(q), t)
    OBVIOUS
  <2>1. Shows(shown[c] \o Shown(m), Tail(q), t)
    <3> HIDE DEF q
    <3> QED BY <1>1, ShowsRead DEF q
  <2>2. shown[c] \o << >> = shown[c]
    BY <1>0, ConcatEmptySeq
  <2> QED BY <1>2, <2>1, <2>2 DEF Shown
<1>4. Unserved(c) => Unserved(c)'
  BY <1>1 DEF Unserved
<1>5. CASE Lost(c)
  <2>1. m \in OutOfMemoryMsg /\ Tail(q) \in Seq(OutOfMemoryMsg)
    BY <1>1, <1>5, SeqTail DEF Lost
  <2>2. ret'[c] = ret[c]
    BY <1>2, <2>1 DEF OutOfMemoryMsg
  <2>3. Lost(c)'
    BY <1>1, <1>5, <2>1, <2>2 DEF Lost
  <2> QED BY <2>3 DEF Talk
<1>6. CASE Answered(c, x)
  <2>1. PICK d \in Seq(DisplayMsg(x)), v \in Msg : q = Append(d, v) /\ Verdict(c, x, v)
    BY <1>6 DEF Answered
  <2>2. /\ d \in Seq(Msg)
        /\ m = (IF d = << >> THEN v ELSE Head(d))
        /\ Tail(q) = IF d = << >> THEN << >> ELSE Append(Tail(d), v)
    BY <2>1, DisplayMsgs, HeadTailAppend
  <2>3. \A t \in Shells : Clean(t, x)'
    BY <1>6 DEF Answered, Others
  <2>4. Unserved(c)' /\ c2s'[c] = << >> /\ client_state'[c] = "ALLOCATED" /\ ret[c] = << >>
    BY <1>1, <1>4, <1>6 DEF Answered
  <2>5. CASE d = << >>
    <3>1. m = v /\ s2c'[c] = << >>
      BY <1>1, <2>2, <2>5
    <3>2. CASE v = EOC(<<St(x)>>) /\ Shows(shown[c], q, said[c])
      <4>1. Shows(shown'[c], << >>, said[c])
        BY <1>1, <1>3, <3>1, <3>2
      <4>2. shown'[c] = shown[c] /\ clst'[c] = "idle" /\ ret'[c] = <<St(x)>>
        <5>1. v.type = "EOC" /\ v.data = <<St(x)>>
          BY <3>2 DEF EOC
        <5> HIDE DEF m
        <5> QED BY <1>2, <3>1, <5>1
      <4>3. said[c] = shown[c]
        BY <1>0, <4>1, <4>2, ShowsNone
      <4>4. Idle(c, x)'
        BY <1>1, <2>3, <2>4, <3>1, <4>2, <4>3 DEF Idle
      <4> QED BY <4>4 DEF Talk
    <3>3. CASE v = EOC(<< >>) \/ v = [type |-> "BUSY", data |-> << >>]
      <4>1. clst'[c] = "idle" /\ ret'[c] = << >>
        <5>1. v.type \in {"EOC", "BUSY"} /\ v.data = << >>
          BY <3>3 DEF EOC
        <5> HIDE DEF m
        <5> QED BY <1>2, <2>4, <3>1, <5>1
      <4>2. Idle(c, x)'
        BY <1>1, <2>3, <2>4, <3>1, <4>1 DEF Idle
      <4> QED BY <4>2 DEF Talk
    <3> QED BY <2>1, <3>2, <3>3 DEF Verdict
  <2>6. CASE d # << >>
    <3>1. Head(d) \in DisplayMsg(x) /\ Tail(d) \in Seq(DisplayMsg(x))
      BY <2>6, SeqTail
    <3>2. m.type = "DISPLAY" /\ s2c'[c] = Append(Tail(d), v)
      BY <1>1, <2>2, <2>6, <3>1 DEF DisplayMsg
    <3>3. clst'[c] = "wait" /\ ret'[c] = << >>
      BY <1>2, <2>4, <3>2
    <3>4. Verdict(c, x, v)'
      BY <1>1, <1>3, <2>1 DEF Verdict, Others
    <3>5. Answered(c, x)'
      BY <2>3, <2>4, <3>1, <3>2, <3>3, <3>4 DEF Answered
    <3> QED BY <3>5 DEF Talk
  <2> QED BY <2>5, <2>6
<1>7. ASSUME NEW s \in Shells, Served(c, s, x) PROVE Talk(c, x)'
  <2>1. m \in DisplayMsg(x) /\ Tail(q) \in Seq(DisplayMsg(x))
    BY <1>1, <1>7, SeqTail DEF Served
  <2>2. clst'[c] = "wait" /\ ret'[c] = ret[c]
    BY <1>2, <2>1 DEF DisplayMsg
  <2>3. SameText(s) /\ shell_state'[s] = shell_state[s] /\ shell_status'[s] = shell_status[s]
    BY <1>1 DEF SameText, shellVars, ptyVars
  <2>4. Keeps(s)
    BY <2>3, SameKeeps
  <2>5. Printing(c, s, x) => Printing(c, s, x)'
    <3> SUFFICES ASSUME Printing(c, s, x) PROVE Printing(c, s, x)'
      OBVIOUS
    <3>1. PICK u \in Words(x), rest \in Words(x), t \in Seq(Token) :
              Says(s, u, rest, x) /\ Shows(shown[c], q, t) /\ said[c] = t \o u
      BY DEF Printing
    <3>2. Says(s, u, rest, x)' /\ Shows(shown'[c], s2c'[c], t)
      BY <1>1, <1>3, <2>4, <3>1, WordsAre DEF Keeps
    <3> QED BY <1>1, <3>1, <3>2 DEF Printing
  <2>6. Telling(s, x) => Telling(s, x)'
    BY <2>4, WordsAre DEF Telling, Keeps
  <2>7. Shows(shown[c], q, said[c]) => Shows(shown'[c], s2c'[c], said'[c])
    BY <1>1, <1>3
  <2>8. Working(c, s, x)'
    BY <1>7, <2>4, <2>5, <2>6, <2>7 DEF Served, Working, Keeps
  <2>9. Served(c, s, x)'
    BY <1>1, <1>7, <2>1, <2>2, <2>8 DEF Served, Others
  <2> QED BY <2>9 DEF Talk
<1> QED BY <1>1, <1>5, <1>6, <1>7 DEF Talk, Idle, Sending

-----------------------------------------------------------------------------
(* The steps of the shells in the exchange of a client.                    *)

\* A client looks on while shells other than its own work.
LEMMA TalkOther ==
  ASSUME NEW c, NEW x \in Cmd, Own(c), Others(x), pc \in Stopped => pc' \in Stopped, Talk(c, x),
         client_shell[c] # NoShell => shell_state'[client_shell[c]] = shell_state[client_shell[c]],
         \A s \in Shells : Served(c, s, x) => Keeps(s)
  PROVE  Talk(c, x)'
<1>1. ASSUME NEW s \in Shells, Served(c, s, x) PROVE Served(c, s, x)'
  BY <1>1, ServedFrame
<1> QED BY <1>1, OwnFrame DEF Talk

\* What a step of a shell leaves alone.
LEMMA ShellLeaves ==
  ASSUME TypeOK, NEW s \in Shells, Shell(s) \/ ShellDie(s), NEW c \in Clients
  PROVE  /\ UNCHANGED <<pc, ctxVars>> /\ (said'[c] = said[c] => Own(c))
         /\ clst'[c] = clst[c] /\ client_shell'[c] = client_shell[c] /\ c2s'[c] = c2s[c]
         /\ ret'[c] = ret[c] /\ shown'[c] = shown[c] /\ s2c'[c] = s2c[c]
         /\ shell_state'[s] = shell_state[s] /\ shell_status'[s] = shell_status[s]
         /\ client_shell[c] # NoShell => shell_state'[client_shell[c]] = shell_state[client_shell[c]]
         /\ \A t \in Shells : t # s => Keeps(t)
<1>1. UNCHANGED <<pc, daemonVars, clst, backlog, srv, c2s, s2c, shown, ret>>
  BY DEF Shell, ShellDie, ShellStart, ShellEmit, procVars
<1>2. UNCHANGED <<pc, ctxVars, outstanding, client_state, client_shell, shell_state, shell_status>>
  BY <1>1 DEF daemonVars, ctxVars
<1>3. \A t \in Shells : t # s => SameText(t)
  BY <1>2 DEF Shell, ShellDie, ShellStart, ShellEmit, TypeOK, ShellType, SameText
<1>4. \A t \in Shells : t # s => Keeps(t)
  BY <1>2, <1>3, SameKeeps
<1> QED BY <1>1, <1>2, <1>4 DEF Own

\* A shell begins to answer.
LEMMA TalkStart ==
  ASSUME TypeOK, NEW c \in Clients, NEW x \in Cmd, Talk(c, x), Others(x), NEW s \in Shells, ShellStart(s)
  PROVE  Talk(c, x)'
<1>1. Shell(s) /\ said'[c] = said[c]
  BY DEF Shell, ShellStart
<1>2. CASE ~Served(c, s, x)
  BY <1>1, <1>2, ShellLeaves, TalkOther
<1>3. CASE Served(c, s, x)
  <2>1. alive[s] /\ stdin[s] # << >>
    BY DEF ShellStart
  <2>2. ~Muted(s) /\ \A u, rest : ~Says(s, u, rest, x)
    BY <2>1 DEF Muted, Says
  <2>3. ~Printing(c, s, x) /\ ~Telling(s, x)
    BY <2>2 DEF Printing, Telling
  <2>4. /\ clst'[c] = clst[c] /\ client_shell'[c] = client_shell[c] /\ c2s'[c] = c2s[c]
        /\ ret'[c] = ret[c] /\ shown'[c] = shown[c] /\ s2c'[c] = s2c[c]
        /\ shell_state'[s] = shell_state[s]
    BY <1>1, ShellLeaves
  <2>5. ASSUME shell_state[s] = "WAIT_EOC", Ordered(s, x), Shows(shown[c], s2c[c], said[c])
        PROVE  Working(c, s, x)'
    <3>1. PICK rest \in Words(x) : Says(s, << >>, rest, x)'
      BY <2>5, StartSays
    <3>2. said[c] \in Seq(Token)
      BY DEF TypeOK, SocketType
    <3>3. said[c] = said[c] \o << >> /\ << >> \in Words(x)
      BY <3>2, ConcatEmptySeq, WordsAre
    <3>4. Printing(c, s, x)'
      BY <1>1, <2>4, <2>5, <3>1, <3>2, <3>3 DEF Printing
    <3> QED BY <2>4, <2>5, <3>4 DEF Working
  <2>6. ASSUME shell_state[s] = "WAIT_STATUS", Asked(s, x), Shows(shown[c], s2c[c], said[c])
        PROVE  Working(c, s, x)'
    <3>1. Says(s, << >>, <<St(x)>>, x)'
      BY <2>6, StartSays
    <3> QED BY <1>1, <2>4, <2>6, <3>1 DEF Working, Telling
  <2>7. Working(c, s, x)'
    BY <1>3, <2>2, <2>3, <2>5, <2>6 DEF Served, Working
  <2>8. Served(c, s, x)'
    BY <1>3, <2>4, <2>7 DEF Served, Others
  <2> QED BY <2>8 DEF Talk
<1> QED BY <1>2, <1>3

\* A shell writes: the next word is its client's, and nobody else's.
LEMMA TalkEmit ==
  ASSUME TypeOK, NEW c \in Clients, NEW x \in Cmd, x = <<c, ncmd[c]>>, Talk(c, x), Others(x),
         NEW s \in Shells, ShellEmit(s)
  PROVE  Talk(c, x)'
<1> DEFINE h == Head(job[s])
<1>0. Shell(s) /\ alive[s] /\ job[s] # << >>
  BY DEF Shell, ShellEmit
<1>1. said'[c] = IF h.k \in {"line", "part"} /\ h.of = x /\ clst[c] # "gone"
                 THEN Append(said[c], h) ELSE said[c]
  BY DEF ShellEmit
<1>2. job[s] \in Seq(OtherToken(x)) => said'[c] = said[c]
  <2> SUFFICES ASSUME job[s] \in Seq(OtherToken(x)) PROVE said'[c] = said[c]
    OBVIOUS
  <2>1. h \in OtherToken(x)
    BY <1>0, SeqTail
  <2> QED BY <1>1, <2>1 DEF OtherToken
<1>3. CASE said'[c] = said[c] /\ ~Served(c, s, x)
  BY <1>0, <1>3, ShellLeaves, TalkOther
<1>4. CASE Lost(c)
  <2>1. Lost(c)'
    BY <1>0, <1>4, ShellLeaves DEF Lost, ShellEmit, daemonVars, ctxVars
  <2> QED BY <2>1 DEF Talk
<1>5. CASE (Idle(c, x) \/ Sending(c, x) \/ Answered(c, x)) /\ ~Served(c, s, x)
  <2>1. job[s] \in Seq(OtherToken(x))
    BY <1>0, <1>5 DEF Idle, Sending, Answered, Clean, Untold
  <2> QED BY <1>2, <1>3, <1>5, <2>1
<1>6. ASSUME NEW t \in Shells, Served(c, t, x), ~Served(c, s, x) PROVE Talk(c, x)'
  <2>1. t # s
    BY <1>6
  <2>2. job[s] \in Seq(OtherToken(x))
    BY <1>0, <1>6, <2>1 DEF Served, Clean
  <2> QED BY <1>2, <1>3, <1>6, <2>2
<1>7. CASE Served(c, s, x)
  <2>1. ~Muted(s) /\ ~Ordered(s, x) /\ ~Asked(s, x)
    BY <1>0 DEF Muted, Ordered, Asked, Told
  <2>2. /\ clst'[c] = clst[c] /\ client_shell'[c] = client_shell[c] /\ c2s'[c] = c2s[c]
        /\ ret'[c] = ret[c] /\ shown'[c] = shown[c] /\ s2c'[c] = s2c[c]
        /\ shell_state'[s] = shell_state[s] /\ shell_status'[s] = shell_status[s]
    BY <1>0, ShellLeaves
  <2>3. ASSUME Printing(c, s, x) PROVE Printing(c, s, x)'
    <3>1. PICK u \in Words(x), rest \in Words(x), t \in Seq(Token) :
              Says(s, u, rest, x) /\ Shows(shown[c], s2c[c], t) /\ said[c] = t \o u
      BY <2>3 DEF Printing
    <3>2. u \in Speech /\ rest \in Speech /\ u \in Seq(Token) /\ << >> \in Words(x)
      BY WordsAre, SpeechIs
    <3>3. \/ rest = << >> /\ h = Pr(x) /\ Says(s, u, << >>, x)'
          \/ rest # << >> /\ h = Head(rest) /\ Says(s, Append(u, Head(rest)), Tail(rest), x)'
      BY <3>1, <3>2, EmitSays
    <3>4. CASE rest = << >> /\ h = Pr(x) /\ Says(s, u, << >>, x)'
      <4>1. said'[c] = said[c]
        BY <1>1, <3>4 DEF Pr
      <4> QED BY <2>2, <3>1, <3>2, <3>4, <4>1 DEF Printing
    <3>5. CASE rest # << >> /\ h = Head(rest) /\ Says(s, Append(u, Head(rest)), Tail(rest), x)'
      <4>1. h \in [k : {"line", "part"}, of : {x}, i : Nat] /\ Tail(rest) \in Words(x)
        BY <3>5, SeqTail DEF Words
      <4>2. Append(u, h) \in Words(x) /\ h \in Token
        <5> HIDE DEF h
        <5> QED BY <4>1, AppendProperties DEF Words, Token, Kinds
      <4>3. clst[c] # "gone"
        BY <1>7 DEF Served
      <4>4. said'[c] = Append(said[c], h)
        BY <1>1, <4>1, <4>3
      <4>5. Append(t \o u, h) = t \o Append(u, h)
        <5> HIDE DEF h
        <5> QED BY <3>2, <4>2, TokensAppend
      <4>6. said'[c] = t \o Append(u, h)
        BY <3>1, <4>4, <4>5
      <4> QED BY <2>2, <3>1, <3>5, <4>1, <4>2, <4>6 DEF Printing
    <3> QED BY <3>3, <3>4, <3>5
  <2>4. ASSUME Telling(s, x) PROVE Telling(s, x)' /\ said'[c] = said[c]
    <3>0. /\ << >> \in Speech /\ <<St(x)>> \in Speech
          /\ Pr(x).k \notin {"line", "part"} /\ St(x).k \notin {"line", "part"}
      BY WordsAre DEF Pr, St
    <3>1. CASE Says(s, << >>, <<St(x)>>, x)
      <4>1. Head(<<St(x)>>) = St(x) /\ Tail(<<St(x)>>) = << >> /\ Append(<< >>, St(x)) = <<St(x)>>
            /\ <<St(x)>> # << >>
        OBVIOUS
      <4>2. PICK rest \in Speech : rest = <<St(x)>>
        BY <3>0
      <4>3. rest # << >> /\ Head(rest) = St(x) /\ Tail(rest) = << >> /\ Says(s, << >>, rest, x)
        BY <3>1, <4>1, <4>2
      <4>4. h = Head(rest) /\ Says(s, Append(<< >>, Head(rest)), Tail(rest), x)'
        BY <3>0, <4>3, EmitSays
      <4>5. h = St(x) /\ Says(s, <<St(x)>>, << >>, x)'
        BY <4>1, <4>3, <4>4
      <4> QED BY <1>1, <3>0, <4>5 DEF Telling
    <3>2. CASE Says(s, <<St(x)>>, << >>, x)
      <4>1. h = Pr(x) /\ Says(s, <<St(x)>>, << >>, x)'
        BY <3>0, <3>2, EmitSays
      <4> QED BY <1>1, <3>0, <4>1 DEF Telling
    <3>3. CASE Says(s, << >>, << >>, x) /\ shell_status[s] = <<St(x)>>
      <4>1. h = Pr(x) /\ Says(s, << >>, << >>, x)'
        BY <3>0, <3>3, EmitSays
      <4> QED BY <1>1, <2>2, <3>0, <3>3, <4>1 DEF Telling
    <3> QED BY <2>4, <3>1, <3>2, <3>3 DEF Telling
  <2>5. Working(c, s, x)'
    BY <1>7, <2>1, <2>2, <2>3, <2>4 DEF Served, Working
  <2>6. Served(c, s, x)'
    BY <1>7, <2>2, <2>5 DEF Served, Others
  <2> QED BY <2>6 DEF Talk
<1> QED BY <1>4, <1>5, <1>6, <1>7 DEF Talk

\* A shell ends.
LEMMA TalkDie ==
  ASSUME TypeOK, NEW c \in Clients, NEW x \in Cmd, Talk(c, x), Others(x), NEW s \in Shells, ShellDie(s)
  PROVE  Talk(c, x)'
<1>1. said'[c] = said[c]
  BY DEF ShellDie, histVars
<1>2. /\ ~alive'[s] /\ job'[s] = << >> /\ stdin'[s] = << >> /\ last'[s] = last[s]
      /\ pty'[s] = pty[s] /\ outstanding'[s] = outstanding[s]
  BY DEF ShellDie, TypeOK, ShellType, daemonVars
<1>3. Keeps(s)
  BY <1>2, ShellLeaves, DieKeeps
<1>4. \A t \in Shells : Keeps(t)
  BY <1>3, ShellLeaves
<1> QED BY <1>1, <1>4, ShellLeaves, TalkOther

-----------------------------------------------------------------------------
(* The steps of the daemon in the exchange of a client.                    *)

\* What is written to a client is written to no other.
LEMMA HeardOthers ==
  ASSUME TypeOK, NEW d, NEW then, Heard(d, then), NEW c \in Clients, c # d
  PROVE  s2c'[c] = s2c[c]
BY DEF Heard, TypeOK, SocketType

\* What a write that succeeds adds to the messages of a client.
LEMMA WriteIs ==
  ASSUME TypeOK, NEW d \in Clients, NEW m, NEW then, Write(d, m, then)
  PROVE  /\ \A c \in Clients : c # d => s2c'[c] = s2c[c]
         /\ clst[d] = "gone" => s2c'[d] = s2c[d]
         /\ clst[d] # "gone" => s2c'[d] = s2c[d] \o m
<1>1. s2c \in [Clients -> Seq(Msg)] /\ d # NoClient
  BY RsystemdAssumption DEF TypeOK, SocketType
<1>2. s2c[d] \o << >> = s2c[d]
  BY <1>1, ConcatEmptySeq
<1> QED BY <1>1, <1>2 DEF Write

\* Client d gets all the messages m, if it is there.
Gets(d, m) == s2c'[d] = IF clst[d] = "gone" THEN s2c[d] ELSE s2c[d] \o m

\* No write has failed for a client that is not misled.
LEMMA DeliverIs ==
  ASSUME TypeOK, NEW d \in Clients, NEW m, NEW then, NEW also, Deliver(d, m, then, also), d \notin misled'
  PROVE  Gets(d, m) /\ d \notin also
<1>1. Write(d, m, then) /\ d \notin also
  BY DEF Deliver, WriteFails
<1>2. /\ clst[d] = "gone" => s2c'[d] = s2c[d]
      /\ clst[d] # "gone" => s2c'[d] = s2c[d] \o m
  BY <1>1, WriteIs
<1> QED BY <1>1, <1>2 DEF Gets

\* Nor is it separated from a shell that has something to write.
LEMMA ReleaseIs ==
  ASSUME TypeOK, LinkInv, NEW s \in Shells, shell_state[s] \in Busy, NEW m \in Seq(Msg), NEW then, NEW lost,
         DeliverAndRelease(s, m, then, lost), NEW c \in Clients, c = shell_client[s], c \notin misled'
  PROVE  Gets(c, m) /\ s \notin lost /\ client_shell'[c] = NoShell
<1>1. Linked(s)
  BY DEF LinkInv, Linked, Shells, NoShell
<1>2. Deliver(c, m, then, {shell_client[t] : t \in lost}) /\ Release(s)
  BY <1>1 DEF DeliverAndRelease
<1>3. client_shell'[c] = NoShell
  BY <1>2 DEF Release, TypeOK, ContextType
<1>4. s \in lost => c \in {shell_client[t] : t \in lost}
  OBVIOUS
<1> QED BY <1>2, <1>3, <1>4, DeliverIs

\* The shell whose data is incomplete is where it was.
LEMMA PartialKeeps ==
  ASSUME TypeOK, NEW s \in Shells, ShellPartialData(s), NEW t \in Shells
  PROVE  Keeps(t)
<1>1. PICK r \in pdip_recv(s) :
          /\ r.rc = "AGAIN"
          /\ outstanding' = [outstanding EXCEPT ![s] = r.left]
          /\ pty' = [pty EXCEPT ![s] = r.unread]
  BY DEF ShellPartialData
<1>0. r \in Received(s)
  BY <1>1, NoMemoryIs DEF pdip_recv
<1>2. UNCHANGED <<stdin, job, last, alive, shell_state, shell_status>>
  BY DEF ShellPartialData, ctxVars, shellVars
<1>3. CASE t # s
  <2>1. SameText(t)
    BY <1>1, <1>2, <1>3 DEF SameText, TypeOK, ShellType
  <2> QED BY <1>2, <2>1, SameKeeps
<1>4. CASE t = s
  <2>1. ~Muted(s) /\ \A x \in Cmd : ~Ordered(s, x) /\ ~Asked(s, x)
    BY <1>0, <1>1, MutedRecv DEF Ordered, Asked, Told
  <2>2. \A x \in Cmd : \A u, rest \in Speech : Says(s, u, rest, x) => Says(s, u, rest, x)'
    BY <1>0, <1>1, <1>2, SaysRecv
  <2> QED BY <1>2, <1>4, <2>1, <2>2 DEF Keeps
<1> QED BY <1>3, <1>4

\* The steps of main() between its exchanges.
LEMMA TalkMain ==
  ASSUME TypeOK, NEW c \in Clients, NEW x \in Cmd, Talk(c, x), Others(x),
         pc \in Stopped => pc' \in Stopped, Bookkeeping
  PROVE  Talk(c, x)'
<1>1. UNCHANGED <<ctxVars, clst, srv>>
  BY BookkeepingFrame
<1>2. UNCHANGED <<shown, ret, said, c2s, s2c>>
  BY DEF Bookkeeping, LoopTest, Select, ShellsDone, ClientsDone, MainEnd, MainError, rsysd_signal,
         ShellPartialData, ShellUnexpectedData, mainEnv, commonEnv, procVars, histVars
<1>3. Own(c)
  BY <1>1, <1>2 DEF Own, ctxVars
<1>4. ASSUME NEW s \in Shells PROVE Keeps(s)
  <2>1. shell_state' = shell_state /\ shell_status' = shell_status
    BY <1>1 DEF ctxVars
  <2>2. CASE MainEnd
    <3>1. /\ ~alive'[s] /\ job'[s] = << >> /\ stdin'[s] = << >> /\ last'[s] = last[s]
          /\ pty'[s] = pty[s] /\ outstanding'[s] = outstanding[s]
      BY <2>2 DEF MainEnd, daemonVars
    <3> QED BY <2>1, <3>1, DieKeeps
  <2>3. ASSUME NEW t \in Shells, ShellPartialData(t) PROVE Keeps(s)
    BY <2>3, PartialKeeps
  <2>4. CASE UNCHANGED <<ptyVars, stdin, shellVars>>
    <3>1. SameText(s)
      BY <2>4 DEF SameText, ptyVars, shellVars
    <3> QED BY <2>1, <3>1, SameKeeps
  <2>5. CASE LoopTest \/ Select \/ ShellsDone \/ ClientsDone \/ MainError \/ rsysd_signal
    BY <2>4, <2>5 DEF LoopTest, Select, ShellsDone, ClientsDone, MainError, rsysd_signal, mainEnv, commonEnv
  <2>6. ASSUME NEW t \in Shells, ShellUnexpectedData(t) PROVE Keeps(s)
    BY <2>4, <2>6 DEF ShellUnexpectedData
  <2> QED BY <2>2, <2>3, <2>5, <2>6 DEF Bookkeeping
<1>5. client_shell[c] \in Shells \cup {NoShell}
  BY DEF TypeOK, ContextType
<1> QED BY <1>3, <1>4, <1>5, TalkFrame

\* The steps that say nothing to shells, about the clients they leave alone.
LEMMA TalkQuiet ==
  ASSUME TypeOK, NEW c \in Clients, NEW x \in Cmd, Talk(c, x), Others(x),
         pc \in Stopped => pc' \in Stopped, Own(c),
         UNCHANGED <<ptyVars, stdin, shellVars, shell_status>>,
         client_shell[c] # NoShell => shell_state'[client_shell[c]] = shell_state[client_shell[c]]
  PROVE  Talk(c, x)'
<1>1. \A s \in Shells : SameText(s) /\ shell_status'[s] = shell_status[s]
  BY DEF SameText, ptyVars, shellVars
<1>2. client_shell[c] # NoShell => Keeps(client_shell[c])
  BY <1>1, SameKeeps DEF TypeOK, ContextType
<1>3. client_shell[c] \in Shells \cup {NoShell}
  BY DEF TypeOK, ContextType
<1> QED BY <1>2, <1>3, TalkFrame

\* A connection is accepted.
LEMMA TalkAccept ==
  ASSUME TypeOK, RoundInv, LinkInv, NEW c \in Clients, NEW x \in Cmd, Talk(c, x), Others(x),
         pc \in Stopped => pc' \in Stopped, Accept
  PROVE  Talk(c, x)'
<1>0. /\ UNCHANGED <<ptyVars, stdin, shellVars, shell_status, shell_state>>
      /\ UNCHANGED <<clst, shown, ret, said, c2s, s2c>>
      /\ srv' = [srv EXCEPT ![Head(backlog)] = "open"]
      /\ client_state' = [client_state EXCEPT ![Head(backlog)] = "ALLOCATED"]
      /\ client_shell' = [client_shell EXCEPT ![Head(backlog)] = NoShell]
      /\ srv \in [Clients -> {"none", "backlog", "open", "graceful", "closed"}]
      /\ client_state \in [Clients -> {"NONE", "FREE", "ALLOCATED"}]
      /\ client_shell \in [Clients -> Shells \cup {NoShell}]
  BY DEF Accept, mainEnv, commonEnv, procVars, histVars, TypeOK, SocketType, ContextType
<1>1. CASE c # Head(backlog)
  <2>1. Own(c)
    BY <1>0, <1>1 DEF Own
  <2> QED BY <1>0, <2>1, TalkQuiet
<1>2. CASE c = Head(backlog)
  <2>1. pc = "accept" /\ backlog # << >>
    BY Cursor DEF Accept
  <2>2. srv[c] = "backlog"
    <3>1. Head(backlog) \in Range(backlog)
      BY <2>1, TailList DEF RoundInv, ListInv, TypeOK, SocketType
    <3> QED BY <1>2, <3>1 DEF RoundInv, ListInv
  <2>3. client_state[c] # "ALLOCATED"
    BY <2>2, LiveSocket DEF RoundInv
  <2>4. client_state'[c] = "ALLOCATED" /\ client_shell'[c] = NoShell /\ srv'[c] = "open"
    BY <1>0, <1>2
  <2>5. CASE Lost(c)
    <3>1. clst[c] = "gone"
      BY <2>1, <2>2, <2>5 DEF Lost, Stopped
    <3>2. Lost(c)'
      BY <1>0, <2>5, <3>1 DEF Lost
    <3> QED BY <3>2 DEF Talk
  <2>6. Unserved(c)'
    BY <2>4 DEF Unserved
  <2>7. Idle(c, x) => Idle(c, x)'
    BY <1>0, <2>4, <2>6 DEF Idle, Others
  <2>8. Sending(c, x) => Sending(c, x)'
    BY <1>0, <2>4, <2>6 DEF Sending, Others
  <2>9. ~Answered(c, x) /\ \A s \in Shells : ~Served(c, s, x)
    BY <2>3, LiveSocket DEF Answered, RoundInv
  <2> QED BY <2>5, <2>7, <2>8, <2>9 DEF Talk
<1> QED BY <1>1, <1>2

\* A connection is refused.
LEMMA TalkRefuse ==
  ASSUME TypeOK, RoundInv, LinkInv, NEW c \in Clients, NEW x \in Cmd, Talk(c, x), Others(x),
         pc \in Stopped => pc' \in Stopped, AcceptOutOfMemory, c \notin misled'
  PROVE  Talk(c, x)'
<1>0. /\ UNCHANGED <<ptyVars, stdin, shellVars, shell_status, shell_state, client_state, client_shell>>
      /\ UNCHANGED <<clst, shown, ret, said, c2s>>
      /\ srv' = [srv EXCEPT ![Head(backlog)] = "graceful"]
      /\ srv \in [Clients -> {"none", "backlog", "open", "graceful", "closed"}]
  BY DEF AcceptOutOfMemory, mainEnv, commonEnv, procVars, histVars, ctxVars, TypeOK, SocketType
<1>1. /\ pc = "accept" /\ backlog # << >> /\ Head(backlog) \in Clients
      /\ Deliver(Head(backlog), <<[type |-> "OOM", data |-> << >>]>>, "shells", {})
  BY Cursor DEF AcceptOutOfMemory
<1>2. CASE c # Head(backlog)
  <2>0. s2c'[c] = s2c[c]
    BY <1>1, <1>2, TellHeard, HeardOthers
  <2>1. Own(c)
    BY <1>0, <1>1, <1>2, <2>0 DEF Own
  <2> QED BY <1>0, <2>1, TalkQuiet
<1>3. CASE c = Head(backlog)
  <2>1. srv[c] = "backlog"
    <3>1. Head(backlog) \in Range(backlog)
      BY <1>1, TailList DEF RoundInv, ListInv, TypeOK, SocketType
    <3> QED BY <1>3, <3>1 DEF RoundInv, ListInv
  <2>2. client_state[c] # "ALLOCATED"
    BY <2>1, LiveSocket DEF RoundInv
  <2>3. Lost(c) \/ Idle(c, x) \/ Sending(c, x)
    BY <2>2, LiveSocket DEF Talk, Answered, RoundInv
  <2>4. ret[c] = << >> /\ s2c[c] \in Seq(OutOfMemoryMsg)
    BY <2>2, <2>3, EmptySeq DEF Lost, Idle, Sending
  <2>5. s2c'[c] \in Seq(OutOfMemoryMsg)
    <3>1. [type |-> "OOM", data |-> << >>] \in OutOfMemoryMsg
      BY DEF OutOfMemoryMsg
    <3>2. <<[type |-> "OOM", data |-> << >>]>> \in Seq(OutOfMemoryMsg)
      BY <3>1, SeqOne
    <3>3. \A q \in Seq(OutOfMemoryMsg) : q \o <<[type |-> "OOM", data |-> << >>]>> \in Seq(OutOfMemoryMsg)
      BY <3>2, ConcatProperties
    <3>4. Gets(c, <<[type |-> "OOM", data |-> << >>]>>)
      BY <1>1, <1>3, DeliverIs
    <3> QED BY <2>4, <3>3, <3>4 DEF Gets
  <2>6. client_state'[c] # "ALLOCATED" /\ srv'[c] = "graceful"
    BY <1>0, <1>3, <2>2
  <2>7. Lost(c)'
    BY <1>0, <2>4, <2>5, <2>6 DEF Lost
  <2> QED BY <2>7 DEF Talk
<1> QED BY <1>2, <1>3

\* The graceful thread closes a socket.
LEMMA TalkGraceful ==
  ASSUME TypeOK, RoundInv, LinkInv, NEW c \in Clients, NEW x \in Cmd, Talk(c, x), Others(x),
         NEW d \in Clients, GracefulClose(d)
  PROVE  Talk(c, x)'
<1>0. /\ UNCHANGED <<ptyVars, stdin, shellVars, shell_status, shell_state, client_state, client_shell>>
      /\ UNCHANGED <<pc, clst, shown, ret, said, c2s, s2c>>
      /\ srv' = [srv EXCEPT ![d] = "closed"] /\ srv[d] = "graceful"
      /\ srv \in [Clients -> {"none", "backlog", "open", "graceful", "closed"}]
  BY DEF GracefulClose, daemonVars, procVars, histVars, ctxVars, ptyVars, TypeOK, SocketType
<1>1. CASE c # d
  <2>1. Own(c)
    BY <1>0, <1>1 DEF Own
  <2> QED BY <1>0, <2>1, TalkQuiet
<1>2. CASE c = d
  <2>1. Lost(c)
    BY <1>0, <1>2, LiveSocket DEF Talk, Idle, Sending, Answered, RoundInv
  <2>2. srv'[c] = "closed"
    BY <1>0, <1>2
  <2>3. Lost(c)'
    BY <1>0, <1>2, <2>1, <2>2 DEF Lost
  <2> QED BY <2>3 DEF Talk
<1> QED BY <1>1, <1>2

\* The cursor leaves a client, which is freed if it is gone.
LEMMA TalkNext ==
  ASSUME TypeOK, RoundInv, LinkInv, NEW c \in Clients, NEW x \in Cmd, Talk(c, x), Others(x),
         pc \in Stopped => pc' \in Stopped, NextClient
  PROVE  Talk(c, x)'
<1>0. /\ UNCHANGED <<ptyVars, stdin, shellVars, shell_status, shell_state, client_shell>>
      /\ UNCHANGED <<clst, shown, ret, said, c2s, s2c>>
      /\ srv \in [Clients -> {"none", "backlog", "open", "graceful", "closed"}]
      /\ client_state \in [Clients -> {"NONE", "FREE", "ALLOCATED"}]
  BY DEF NextClient, mainEnv, commonEnv, procVars, histVars, TypeOK, SocketType, ContextType
<1>1. \/ UNCHANGED <<client_state, srv>>
      \/ /\ client_state[Head(todo)] = "FREE"
         /\ client_state' = [client_state EXCEPT ![Head(todo)] = "NONE"]
         /\ srv' = [srv EXCEPT ![Head(todo)] = "graceful"]
  BY DEF NextClient
<1>2. CASE c # Head(todo) \/ UNCHANGED <<client_state, srv>>
  <2>1. Own(c)
    BY <1>0, <1>1, <1>2 DEF Own
  <2> QED BY <1>0, <2>1, TalkQuiet
<1>3. CASE /\ c = Head(todo) /\ client_state[c] = "FREE"
           /\ client_state'[c] = "NONE" /\ srv'[c] = "graceful"
  <2>1. srv[c] = "open" /\ client_state[c] # "ALLOCATED"
    BY <1>3 DEF RoundInv, ListInv
  <2>2. Lost(c)
    BY <2>1, LiveSocket DEF Talk, Idle, Sending, Answered, Unserved, RoundInv
  <2>3. Lost(c)'
    BY <1>0, <1>3, <2>2 DEF Lost
  <2> QED BY <2>3 DEF Talk
<1> QED BY <1>0, <1>1, <1>2, <1>3

\* A client gets a shell.
LEMMA TalkTurn ==
  ASSUME TypeOK, RoundInv, LinkInv, NEW c \in Clients, NEW x \in Cmd, Talk(c, x), Others(x),
         pc \in Stopped => pc' \in Stopped, ClientTurn
  PROVE  Talk(c, x)'
<1>0. /\ UNCHANGED <<ptyVars, stdin, shellVars, shell_status, client_state>>
      /\ UNCHANGED <<clst, shown, ret, said, c2s, s2c, srv>>
      /\ client_shell \in [Clients -> Shells \cup {NoShell}]
      /\ shell_state \in [Shells -> ShellStates]
  BY DEF ClientTurn, mainEnv, commonEnv, procVars, histVars, TypeOK, ContextType
<1>1. CASE UNCHANGED <<client_shell, shell_state>>
  <2>1. Own(c)
    BY <1>0, <1>1 DEF Own
  <2> QED BY <1>0, <1>1, <2>1, TalkQuiet
<1>2. ASSUME NEW s \in rsysd_get_shell, client_state[Head(todo)] = "ALLOCATED",
             client_shell[Head(todo)] = NoShell, Fsm_LINK(s, Head(todo))
      PROVE  Talk(c, x)'
  <2>1. s \in Shells /\ shell_state[s] = "FREE"
    BY DEF rsysd_get_shell
  <2>2. /\ client_shell' = [client_shell EXCEPT ![Head(todo)] = s]
        /\ shell_state' = [shell_state EXCEPT ![s] = "ALLOCATED"]
    BY <1>2 DEF Fsm_LINK
  <2>3. client_shell[c] # s
    BY <2>1, RsystemdAssumption DEF LinkInv, Busy, Shells, NoShell
  <2>4. CASE c # Head(todo)
    <3>1. Own(c)
      BY <1>0, <2>2, <2>4 DEF Own
    <3>2. client_shell[c] # NoShell => shell_state'[client_shell[c]] = shell_state[client_shell[c]]
      BY <1>0, <2>2, <2>3
    <3> QED BY <1>0, <3>1, <3>2, TalkQuiet
  <2>5. CASE c = Head(todo)
    <3>1. client_shell'[c] = s /\ shell_state'[s] = "ALLOCATED" /\ client_state'[c] = "ALLOCATED"
      BY <1>0, <1>2, <2>1, <2>2, <2>5
    <3>2. Unserved(c)'
      BY <3>1 DEF Unserved
    <3>3. Lost(c) => Lost(c)'
      BY <1>0 DEF Lost
    <3>4. Idle(c, x) => Idle(c, x)'
      BY <1>0, <3>2 DEF Idle, Others
    <3>5. Sending(c, x) => Sending(c, x)'
      BY <1>0, <3>2 DEF Sending, Others
    <3>6. \A m : Verdict(c, x, m) => Verdict(c, x, m)'
      BY <1>0 DEF Verdict, Others
    <3>7. Answered(c, x) => Answered(c, x)'
      BY <1>0, <3>2, <3>6 DEF Answered, Others
    <3>8. \A t \in Shells : ~Served(c, t, x)
      BY <1>2, <2>5 DEF Served, Shells, NoShell
    <3> QED BY <3>3, <3>4, <3>5, <3>7, <3>8 DEF Talk
  <2> QED BY <2>4, <2>5
<1> QED BY <1>1, <1>2 DEF ClientTurn

\* The client whose message is read has an open connection and a context.
LEMMA ReadCursor ==
  ASSUME TypeOK, RoundInv, pc = "read"
  PROVE  Head(todo) \in Clients /\ client_state[Head(todo)] = "ALLOCATED" /\ srv[Head(todo)] = "open"
<1>1. todo # << >> /\ Head(todo) \in Clients
  BY Cursor
<1>2. Head(todo) \in Range(todo)
  BY <1>1, TailList DEF RoundInv, ListInv, TypeOK, MainType
<1>3. Head(todo) \in rsysd_fdset
  BY <1>2 DEF RoundInv, ReadyInv
<1>4. client_state[Head(todo)] # "NONE" /\ client_state[Head(todo)] # "FREE"
  BY <1>1, <1>3 DEF RoundInv, ListInv
<1> QED BY <1>1, <1>4 DEF RoundInv, ListInv, TypeOK, ContextType

\* Two clients have two shells.
LEMMA OtherShell ==
  ASSUME LinkInv, NEW c \in Clients, NEW d \in Clients, c # d, client_shell[c] # NoShell
  PROVE  client_shell[c] # client_shell[d]
BY DEF LinkInv

\* A client that hears only from the daemon loses nothing that it does not
\* send itself.
LEMMA TalkCmdOther ==
  ASSUME TypeOK, RoundInv, LinkInv, NEW c \in Clients, NEW x \in Cmd, Talk(c, x), Others(x),
         pc \in Stopped => pc' \in Stopped, ClientCmd, c # Head(todo)
  PROVE  Talk(c, x)'
<1> DEFINE d == Head(todo)
           s == client_shell[d]
<1>0. /\ client_shell \in [Clients -> Shells \cup {NoShell}] /\ shell_state \in [Shells -> ShellStates]
      /\ s2c \in [Clients -> Seq(Msg)] /\ c2s \in [Clients -> Seq(Packet)]
      /\ stdin \in [Shells -> Seq(Input)]
  BY DEF TypeOK, ContextType, SocketType, ShellType
<1>1. /\ d \in Clients /\ s \in Shells \cup {NoShell} /\ c # d
  BY <1>0, ReadCursor DEF ClientCmd
<1>2. /\ UNCHANGED <<ptyVars, shellVars, clst, shown, ret, said, srv, client_state, shell_status>>
      /\ c2s'[c] = c2s[c]
  BY <1>0, <1>1 DEF ClientCmd, readEnv, procVars, histVars, rsysd_read_client, Fsm_CMD, ctxVars
<1>3. s # NoShell => shell_client[s] = d
  BY <1>1 DEF LinkInv
<1>4. /\ s2c'[c] = s2c[c] /\ client_shell'[c] = client_shell[c]
      /\ \A t \in Shells : t # s => stdin'[t] = stdin[t] /\ shell_state'[t] = shell_state[t]
  <2>1. CASE s = NoShell
    <3>1. Deliver(d, <<[type |-> "BUSY", data |-> << >>]>>, "next", {}) /\ UNCHANGED <<stdin, ctxVars>>
      BY <2>1 DEF ClientCmd
    <3>2. s2c'[c] = s2c[c]
      <4> HIDE DEF d
      <4> QED BY <1>1, <3>1, TellHeard, HeardOthers
    <3> QED BY <3>1, <3>2 DEF ctxVars
  <2>2. CASE s # NoShell
    <3>1. PICK y : Fsm_CMD(s, y)
      BY <2>2 DEF ClientCmd
    <3> HIDE DEF d, s
    <3>2. CASE /\ pdip_send(s, [k |-> "cmd", of |-> y]) /\ UNCHANGED <<s2c, client_shell>>
               /\ shell_state' = [shell_state EXCEPT ![s] = "WAIT_EOC"]
      BY <1>0, <1>1, <2>2, <3>2 DEF pdip_send
    <3>3. CASE DeliverAndRelease(s, <<EOC(<< >>)>>, "next", {}) /\ UNCHANGED stdin
      <4>1. Parted(s, "next")
        BY <3>3, RefusedParted
      <4>2. CASE Linked(s)
        <5>1. /\ Heard(d, "next")
              /\ client_shell' = [client_shell EXCEPT ![d] = NoShell]
              /\ shell_state' = [shell_state EXCEPT ![s] = "FREE"]
          BY <1>3, <2>2, <4>1, <4>2 DEF Parted, Release
        <5>2. s2c'[c] = s2c[c]
          BY <1>1, <5>1, HeardOthers
        <5> QED BY <1>0, <1>1, <3>3, <5>1, <5>2
      <4>3. CASE ~Linked(s)
        BY <3>3, <4>1, <4>3 DEF Parted
      <4> QED BY <4>2, <4>3
    <3>4. CASE UNCHANGED <<stdin, s2c, ctxVars>>
      BY <3>4 DEF ctxVars
    <3> QED BY <3>1, <3>2, <3>3, <3>4 DEF Fsm_CMD
  <2> QED BY <2>1, <2>2
<1>5. Own(c)
  BY <1>2, <1>4 DEF Own
<1>6. client_shell[c] # NoShell => Keeps(client_shell[c])
  <2> SUFFICES ASSUME client_shell[c] # NoShell PROVE Keeps(client_shell[c])
    OBVIOUS
  <2>1. client_shell[c] \in Shells /\ client_shell[c] # s
    BY <1>0, <1>1, OtherShell
  <2> DEFINE t == client_shell[c]
  <2>2. SameText(t) /\ shell_state'[t] = shell_state[t] /\ shell_status'[t] = shell_status[t]
    BY <1>2, <1>4, <2>1 DEF SameText, ptyVars, shellVars
  <2> QED BY <2>2, SameKeeps
<1> QED BY <1>0, <1>5, <1>6, TalkFrame

\* The command of a client is read: it runs, or its answer is sent at once.
LEMMA TalkCmd ==
  ASSUME TypeOK, RoundInv, LinkInv, DialogueInv, NEW c \in Clients, NEW x \in Cmd, Talk(c, x),
         ClientCmd, c = Head(todo), c \notin misled',
         client_shell[c] # NoShell => client_shell[c] \notin desynced
  PROVE  Talk(c, x)'
<1> DEFINE s == client_shell[c]
<1>0. /\ client_shell \in [Clients -> Shells \cup {NoShell}] /\ shell_state \in [Shells -> ShellStates]
      /\ s2c \in [Clients -> Seq(Msg)] /\ c2s \in [Clients -> Seq(Packet)]
      /\ stdin \in [Shells -> Seq(Input)] /\ shown \in [Clients -> Seq(Token)]
  BY DEF TypeOK, ContextType, SocketType, ShellType
<1>1. /\ client_state[c] = "ALLOCATED" /\ srv[c] = "open" /\ s \in Shells \cup {NoShell}
      /\ pc = "read" /\ Len(c2s[c]) > 1
  BY <1>0, ReadCursor DEF ClientCmd, rsysd_read_client
<1>2. /\ UNCHANGED <<ptyVars, shellVars, clst, shown, ret, said, srv, started, client_state, shell_status>>
      /\ c2s'[c] = SubSeq(c2s[c], 3, Len(c2s[c]))
  BY <1>0 DEF ClientCmd, readEnv, procVars, histVars, rsysd_read_client, Fsm_CMD, ctxVars
<1>3. c2s[c] # << >>
  <2>1. Len(<< >>) = 0
    BY EmptySeq
  <2> QED BY <1>1, <2>1
<1>4. s # NoShell => shell_client[s] = c /\ shell_state[s] \in Busy
  <2>1. s # NoShell => shell_client[s] = c /\ s \in Shells /\ c # NoClient
    BY <1>1, RsystemdAssumption DEF LinkInv
  <2> QED BY <2>1 DEF LinkInv
<1>5. \/ /\ s = NoShell /\ Deliver(c, <<[type |-> "BUSY", data |-> << >>]>>, "next", {})
         /\ UNCHANGED <<stdin, ctxVars>>
      \/ s # NoShell /\ Fsm_CMD(s, <<c, c2s[c][2].n>>)
  BY DEF ClientCmd
<1> HIDE DEF s
<1>6. ASSUME NEW m \in Seq(Msg), s # NoShell, DeliverAndRelease(s, m, "next", {})
      PROVE  Gets(c, m) /\ client_shell'[c] = NoShell
  <2>1. s \in Shells /\ shell_state[s] \in Busy /\ c = shell_client[s]
    BY <1>1, <1>4, <1>6
  <2> QED BY <1>6, <2>1, ReleaseIs
<1>7. CASE Lost(c)
  <2>1. clst[c] = "gone"
    BY <1>1, <1>7 DEF Lost, Stopped
  <2>0. <<EOC(<< >>)>> \in Seq(Msg)
    BY EmptySeq, EOCType
  <2>2. s2c'[c] = s2c[c]
    BY <1>5, <1>6, <2>0, <2>1, DeliverIs DEF Fsm_CMD, Gets
  <2>3. Lost(c)'
    BY <1>2, <1>7, <2>1, <2>2 DEF Lost
  <2> QED BY <2>3 DEF Talk
<1>8. CASE Sending(c, x)
  <2>1. /\ clst[c] = "wait" /\ Len(c2s[c]) = 2 /\ <<c, c2s[c][2].n>> = x
        /\ s2c[c] = << >> /\ ret[c] = << >> /\ shown[c] = << >> /\ said[c] = << >>
        /\ Unserved(c) /\ Untold(x)
    BY <1>1, <1>8 DEF Sending
  <2>2. c2s'[c] = << >>
    BY <1>2, <2>1, SubSeqEmpty
  <2>3. ASSUME UNCHANGED stdin PROVE Untold(x)' /\ \A t \in Shells : Clean(t, x)'
    BY <1>2, <2>1, <2>3 DEF Untold, Clean, shellVars
  <2>4. ASSUME NEW m \in Msg, s2c'[c] = s2c[c] \o <<m>>, UNCHANGED stdin, client_shell'[c] = NoShell,
               m = EOC(<< >>) \/ m = [type |-> "BUSY", data |-> << >>]
        PROVE  Talk(c, x)'
    <3>1. s2c'[c] = << >> \o <<m>>
      BY <2>1, <2>4
    <3>2. << >> \in Seq(DisplayMsg(x)) /\ << >> \in Seq(Msg)
      BY DisplayMsgs, EmptySeq
    <3>3. s2c'[c] = Append(<< >>, m)
      BY <3>1, <3>2, AppendIsConcat
    <3>4. Verdict(c, x, m)'
      BY <2>3, <2>4 DEF Verdict
    <3>5. Unserved(c)' /\ client_state'[c] = "ALLOCATED"
      BY <1>1, <1>2, <2>4 DEF Unserved
    <3>6. Answered(c, x)'
      BY <1>2, <2>1, <2>2, <2>3, <2>4, <3>2, <3>3, <3>4, <3>5 DEF Answered
    <3> QED BY <3>6 DEF Talk
  <2>5. CASE s = NoShell
    <3>1. [type |-> "BUSY", data |-> << >>] \in Msg
      BY EmptySeq DEF Msg
    <3>2. client_shell'[c] = NoShell /\ UNCHANGED stdin
      BY <1>5, <2>5 DEF ctxVars, s
    <3>3. s2c'[c] = s2c[c] \o <<[type |-> "BUSY", data |-> << >>]>>
      BY <1>5, <2>1, <2>5, DeliverIs DEF Gets
    <3> QED BY <2>4, <3>1, <3>2, <3>3
  <2>6. CASE s # NoShell
    <3>1. shell_state[s] = "ALLOCATED" /\ s \in Shells
      BY <1>1, <2>1, <2>6 DEF Unserved, s
    <3>2. CASE DeliverAndRelease(s, <<EOC(<< >>)>>, "next", {}) /\ UNCHANGED stdin
      <4>1. EOC(<< >>) \in Msg /\ <<EOC(<< >>)>> \in Seq(Msg)
        BY EmptySeq, EOCType
      <4>2. Gets(c, <<EOC(<< >>)>>) /\ client_shell'[c] = NoShell
        BY <1>6, <2>6, <3>2, <4>1
      <4> QED BY <2>1, <2>4, <3>2, <4>1, <4>2 DEF Gets
    <3>3. CASE /\ pdip_send(s, [k |-> "cmd", of |-> x])
               /\ shell_state' = [shell_state EXCEPT ![s] = "WAIT_EOC"]
               /\ UNCHANGED <<s2c, client_shell>>
      <4>1. PICK z \in Shells : z = s /\ z \notin desynced
        BY <2>6, <3>1 DEF s
      <4>2. IF alive[z] THEN Ordered(z, x)' ELSE Muted(z)'
        BY <1>2, <3>1, <3>3, <4>1, CommandTold
      <4>3. shell_state'[z] = "WAIT_EOC" /\ client_shell'[c] = z
        BY <1>0, <3>3, <4>1 DEF s
      <4>4. Shows(shown'[c], s2c'[c], said'[c])
        BY <1>0, <1>2, <2>1, <3>3, ShowsNone
      <4>5. Working(c, z, x)'
        BY <4>2, <4>3, <4>4 DEF Working
      <4>6. \A t \in Shells \ {z} : Clean(t, x)'
        <5>1. \A t \in Shells \ {z} : stdin'[t] = stdin[t] /\ job'[t] = job[t]
          BY <1>0, <1>2, <3>3, <4>1 DEF pdip_send, shellVars
        <5> QED BY <2>1, <5>1 DEF Untold, Clean
      <4>7. s2c'[c] \in Seq(DisplayMsg(x))
        BY <2>1, <3>3, DisplayMsgs
      <4>8. Served(c, z, x)'
        BY <1>2, <2>1, <2>2, <4>3, <4>5, <4>6, <4>7 DEF Served
      <4> QED BY <4>8 DEF Talk
    <3> QED BY <1>5, <2>1, <2>6, <3>1, <3>2, <3>3 DEF Fsm_CMD
  <2> QED BY <2>5, <2>6
<1> QED BY <1>3, <1>7, <1>8 DEF Talk, Idle, Answered, Served

\* A client is deleted.
LEMMA TalkDcnx ==
  ASSUME TypeOK, RoundInv, LinkInv, NEW c \in Clients, NEW x \in Cmd, Talk(c, x), Others(x),
         pc \in Stopped => pc' \in Stopped, ClientDcnx
  PROVE  Talk(c, x)'
<1> DEFINE d == Head(todo)
           s == client_shell[d]
<1>0. /\ client_shell \in [Clients -> Shells \cup {NoShell}] /\ shell_state \in [Shells -> ShellStates]
      /\ client_state \in [Clients -> {"NONE", "FREE", "ALLOCATED"}] /\ c2s \in [Clients -> Seq(Packet)]
  BY DEF TypeOK, ContextType, SocketType
<1>1. /\ d \in Clients /\ client_state[d] = "ALLOCATED" /\ srv[d] = "open" /\ s \in Shells \cup {NoShell}
      /\ pc = "read" /\ (clst[d] = "gone" \/ c2s[d] # << >>)
  BY <1>0, ReadCursor DEF ClientDcnx
<1>2. /\ UNCHANGED <<ptyVars, stdin, shellVars, clst, shown, ret, said, srv, s2c, shell_status>>
      /\ c2s' = [c2s EXCEPT ![d] = IF @ = << >> THEN @ ELSE Tail(@)]
  BY DEF ClientDcnx, readEnv, procVars, histVars
<1>3. s # NoShell => shell_client[s] = d /\ shell_state[s] \in Busy
  BY <1>0, <1>1, RsystemdAssumption DEF LinkInv
<1>4. /\ client_state' = [client_state EXCEPT ![d] = "FREE"]
      /\ client_shell' = [client_shell EXCEPT ![d] = NoShell]
      /\ s = NoShell => shell_state' = shell_state
      /\ s # NoShell => \E st : shell_state' = [shell_state EXCEPT ![s] = st]
  <2>1. \/ s # NoShell /\ Fsm_DCNX(s)
        \/ s = NoShell /\ rsysd_delete_client(d, "next") /\ UNCHANGED shell_state
    BY DEF ClientDcnx
  <2> HIDE DEF d, s
  <2> QED BY <1>1, <1>3, <2>1 DEF Fsm_DCNX, rsysd_delete_client, Busy
<1> HIDE DEF d, s
<1>5. CASE c # d
  <2>1. Own(c)
    BY <1>0, <1>2, <1>4, <1>5 DEF Own
  <2>2. client_shell[c] # NoShell => client_shell[c] # s /\ client_shell[c] \in Shells
    BY <1>0, <1>1, <1>5, OtherShell DEF s
  <2>3. client_shell[c] # NoShell => shell_state'[client_shell[c]] = shell_state[client_shell[c]]
    BY <1>0, <1>4, <2>2
  <2> QED BY <1>2, <2>1, <2>3, TalkQuiet
<1>6. CASE c = d
  <2>1. Lost(c) \/ Sending(c, x)
    BY <1>1, <1>6 DEF Talk, Idle, Answered, Served
  <2>2. ret[c] = << >> /\ s2c[c] \in Seq(OutOfMemoryMsg)
    BY <2>1, EmptySeq DEF Lost, Sending
  <2>3. client_state'[c] = "FREE" /\ srv'[c] = "open"
    BY <1>0, <1>1, <1>2, <1>4, <1>6
  <2>4. Lost(c)'
    BY <1>2, <2>2, <2>3 DEF Lost
  <2> QED BY <2>4 DEF Talk
<1> QED BY <1>5, <1>6

\* The data of a shell are handled, for the clients of the other shells.
LEMMA TalkDataOther ==
  ASSUME TypeOK, LinkInv, NEW c \in Clients, NEW x \in Cmd, Talk(c, x), Others(x),
         pc \in Stopped => pc' \in Stopped, NEW s \in Shells, ShellData(s), c # shell_client[s]
  PROVE  Talk(c, x)'
<1> DEFINE d == shell_client[s]
<1>0. /\ client_shell \in [Clients -> Shells \cup {NoShell}] /\ shell_state \in [Shells -> ShellStates]
      /\ stdin \in [Shells -> Seq(Input)] /\ outstanding \in [Shells -> Seq(Token)]
      /\ pty \in [Shells -> Seq(Token)] /\ shell_status \in [Shells -> Seq(Token)]
      /\ d \in Clients \cup {NoClient}
  BY DEF TypeOK, ContextType, ShellType
<1>1. PICK r \in pdip_recv(s) :
          /\ outstanding' = [outstanding EXCEPT ![s] = r.left]
          /\ pty' = [pty EXCEPT ![s] = r.unread]
          /\ \/ Fsm_WAIT_EOC_DATA(s, r) \/ Fsm_WAIT_STATUS_DATA(s, r) \/ Fsm_FREEING_DATA(s, r)
  BY DEF ShellData
<1>2. UNCHANGED <<client_state, job, last, alive, clst, shown, ret, said, srv, c2s>>
  BY DEF ShellData, shellVars, procVars, histVars
<1>3. r.display \in Seq(Token)
  BY <1>1, RecvType
<1>4. ASSUME Parted(s, "shells")
      PROVE  /\ s2c'[c] = s2c[c] /\ client_shell'[c] = client_shell[c]
             /\ \A t \in Shells : t # s => shell_state'[t] = shell_state[t]
  <2>1. CASE Linked(s)
    <3>1. Heard(d, "shells") /\ Release(s)
      BY <1>4, <2>1 DEF Parted
    <3> QED BY <1>0, <3>1, HeardOthers DEF Release
  <2>2. CASE ~Linked(s)
    BY <1>4, <2>2 DEF Parted
  <2> QED BY <2>1, <2>2
<1>5. ASSUME NEW m, Write(d, m, "shells") PROVE s2c'[c] = s2c[c]
  BY <1>0, <1>5, WriteIs DEF Write
<1>6. /\ s2c'[c] = s2c[c] /\ client_shell'[c] = client_shell[c]
      /\ \A t \in Shells : t # s => /\ stdin'[t] = stdin[t] /\ shell_state'[t] = shell_state[t]
                                     /\ shell_status'[t] = shell_status[t]
  <2> HIDE DEF d
  <2>1. CASE Fsm_WAIT_EOC_DATA(s, r)
    <3>1. CASE Parted(s, "shells") /\ UNCHANGED <<stdin, shell_status>>
      BY <1>4, <3>1
    <3>2. CASE /\ Write(d, Display(r.display), "shells")
               /\ UNCHANGED <<client_shell, shell_status>>
               /\ \/ /\ pdip_send(s, [k |-> "status", of |-> NoCmd])
                     /\ shell_state' = [shell_state EXCEPT ![s] = "WAIT_STATUS"]
                  \/ UNCHANGED <<stdin, shell_state>>
      BY <1>0, <1>5, <3>2 DEF pdip_send
    <3> QED BY <1>3, <2>1, <3>1, <3>2, EocPhases DEF d
  <2>2. CASE Fsm_WAIT_STATUS_DATA(s, r)
    <3>1. \A t \in Shells : t # s => shell_status'[t] = shell_status[t]
      BY <1>0, <2>2 DEF Fsm_WAIT_STATUS_DATA
    <3>2. UNCHANGED stdin
      BY <2>2 DEF Fsm_WAIT_STATUS_DATA
    <3>3. Parted(s, "shells") \/ UNCHANGED <<s2c, shell_state, client_shell>>
      BY <1>3, <2>2, StatusPhases
    <3> QED BY <1>4, <3>1, <3>2, <3>3
  <2>3. CASE Fsm_FREEING_DATA(s, r)
    BY <1>0, <2>3 DEF Fsm_FREEING_DATA
  <2> QED BY <1>1, <2>1, <2>2, <2>3
<1>7. Own(c)
  BY <1>2, <1>6 DEF Own
<1>9. client_shell[c] # NoShell => Keeps(client_shell[c])
  <2> SUFFICES ASSUME client_shell[c] # NoShell PROVE Keeps(client_shell[c])
    OBVIOUS
  <2> DEFINE t == client_shell[c]
  <2>1. t \in Shells /\ t # s
    BY <1>0 DEF LinkInv
  <2>2. SameText(t) /\ shell_state'[t] = shell_state[t] /\ shell_status'[t] = shell_status[t]
    BY <1>0, <1>1, <1>2, <1>6, <2>1 DEF SameText
  <2> QED BY <2>2, SameKeeps
<1> QED BY <1>0, <1>7, <1>9, TalkFrame

\* An end of command closes the exchange.
LEMMA TalkRelease ==
  ASSUME TypeOK, LinkInv, NEW c \in Clients, NEW x \in Cmd, NEW s \in Shells, Served(c, s, x),
         shell_client[s] = c, NEW m \in Msg, NEW d \in Seq(DisplayMsg(x)), NEW q,
         q = Append(d, m), s2c'[c] = q, Verdict(c, x, m)', Others(x), Clean(s, x)',
         client_shell'[c] = NoShell, UNCHANGED <<client_state, clst, c2s, ret>>
  PROVE  Talk(c, x)'
<1>1. client_state[c] = "ALLOCATED"
  BY RsystemdAssumption DEF LinkInv
<1>2. Unserved(c)' /\ client_state'[c] = "ALLOCATED"
  BY <1>1 DEF Unserved
<1>3. \A t \in Shells : Clean(t, x)'
  BY DEF Served, Others
<1>4. Answered(c, x)'
  BY <1>2, <1>3 DEF Answered, Served
<1> QED BY <1>4 DEF Talk

\* The data of its shell are handled, for a client that is served.
LEMMA TalkData ==
  ASSUME TypeOK, LinkInv, NEW c \in Clients, NEW x \in Cmd, Others(x),
         NEW s \in Shells, ShellData(s), c = shell_client[s], Served(c, s, x), c \notin misled'
  PROVE  Talk(c, x)'
<1> DEFINE q == s2c[c]
<1>0. /\ client_shell \in [Clients -> Shells \cup {NoShell}] /\ shell_state \in [Shells -> ShellStates]
      /\ stdin \in [Shells -> Seq(Input)] /\ shell_status \in [Shells -> Seq(Token)]
      /\ q \in Seq(Msg) /\ said[c] \in Seq(Token) /\ c # NoClient
  BY RsystemdAssumption DEF TypeOK, ContextType, ShellType, SocketType
<1>1. PICK r \in pdip_recv(s) :
          /\ r.rc # "AGAIN"
          /\ outstanding' = [outstanding EXCEPT ![s] = r.left]
          /\ pty' = [pty EXCEPT ![s] = r.unread]
          /\ \/ Fsm_WAIT_EOC_DATA(s, r) \/ Fsm_WAIT_STATUS_DATA(s, r) \/ Fsm_FREEING_DATA(s, r)
  BY DEF ShellData
<1>2. UNCHANGED <<client_state, job, last, alive, clst, shown, ret, said, srv, c2s>>
  BY DEF ShellData, shellVars, procVars, histVars
<1>3. /\ clst[c] = "wait" /\ q \in Seq(DisplayMsg(x)) /\ client_shell[c] = s
      /\ shell_state[s] \in {"WAIT_EOC", "WAIT_STATUS"} /\ Working(c, s, x) /\ c2s[c] = << >> /\ ret[c] = << >>
      /\ \A t \in Shells \ {s} : Clean(t, x)
  BY DEF Served
<1>4. \A m, then : Write(c, m, then) => s2c'[c] = q \o m
  BY <1>3, WriteIs
<1>5. ASSUME NEW m \in Seq(Msg), NEW then, NEW lost, DeliverAndRelease(s, m, then, lost)
      PROVE  s2c'[c] = q \o m /\ client_shell'[c] = NoShell /\ s \notin lost
  <2>1. shell_state[s] \in Busy
    BY <1>3 DEF Busy
  <2>2. Gets(c, m) /\ s \notin lost /\ client_shell'[c] = NoShell
    BY <1>5, <2>1, ReleaseIs
  <2> QED BY <1>3, <2>2 DEF Gets
<1>6. ASSUME ~alive[s], NEW lost, DeliverAndRelease(s, <<EOC(<< >>)>>, "shells", lost) PROVE Talk(c, x)'
  <2>1. s2c'[c] = q \o <<EOC(<< >>)>> /\ client_shell'[c] = NoShell /\ EOC(<< >>) \in Msg
    <3>1. EOC(<< >>) \in Msg /\ <<EOC(<< >>)>> \in Seq(Msg)
      BY EmptySeq, EOCType
    <3> QED BY <1>5, <1>6, <3>1
  <2>2. s2c'[c] = Append(q, EOC(<< >>))
    BY <1>0, <2>1, AppendIsConcat
  <2>3. Clean(s, x)' /\ Verdict(c, x, EOC(<< >>))'
    BY <1>2, <1>6 DEF Clean, Verdict
  <2> QED BY <1>2, <1>3, <2>1, <2>2, <2>3, TalkRelease
<1>7. r \in Received(s)
  <2> SUFFICES ASSUME r.rc = "NOMEM" PROVE FALSE
    BY <1>1, NoMemoryIs DEF pdip_recv
  <2>1. DeliverAndRelease(s, <<EOC(<< >>)>>, "shells", Unfinished(s, r))
    BY <1>1, <1>3 DEF Fsm_WAIT_EOC_DATA, Fsm_WAIT_STATUS_DATA, Fsm_FREEING_DATA
  <2>2. s \in Unfinished(s, r)
    BY DEF Unfinished
  <2>3. <<EOC(<< >>)>> \in Seq(Msg)
    BY EmptySeq, EOCType
  <2> QED BY <1>5, <2>1, <2>2, <2>3
<1>8. CASE r.rc = "ERROR"
  <2>1. ~alive[s]
    BY <1>7, <1>8, RecvCut DEF Reads
  <2>2. DeliverAndRelease(s, <<EOC(<< >>)>>, "shells", Unfinished(s, r))
    BY <1>1, <1>3, <1>8 DEF Fsm_WAIT_EOC_DATA, Fsm_WAIT_STATUS_DATA, Fsm_FREEING_DATA
  <2> QED BY <1>6, <2>1, <2>2
<1>9. CASE r.rc # "ERROR"
  <2>1. ~Muted(s) /\ ~Ordered(s, x) /\ ~Asked(s, x)
    BY <1>7, <1>9, MutedRecv DEF Ordered, Asked, Told
  <2>2. r.rc \in {"FOUND", "DATA"}
    BY <1>1, <1>7, <1>9, RecvCut DEF Reads
  <2>3. r.display \in Seq(Token)
    BY <1>7, RecvCut DEF Reads
  <2>4. CASE shell_state[s] = "WAIT_EOC"
    <3>1. PICK u \in Words(x), rest \in Words(x), t \in Seq(Token) :
              Says(s, u, rest, x) /\ Shows(shown[c], q, t) /\ said[c] = t \o u
      BY <1>3, <2>1, <2>4 DEF Working, Printing
    <3>2. u \in Speech /\ rest \in Speech /\ u \in Seq(Token)
      BY WordsAre, SpeechIs
    <3>3. Fsm_WAIT_EOC_DATA(s, r)
      BY <1>1, <2>4 DEF Fsm_WAIT_STATUS_DATA, Fsm_FREEING_DATA
    <3>4. /\ Shows(shown[c], q \o Display(r.display), t \o r.display)
          /\ \/ q \o Display(r.display) = q
             \/ q \o Display(r.display) = Append(q, [type |-> "DISPLAY", data |-> r.display])
      <4> DEFINE d == r.display
                 a == shown[c]
      <4>1. q \in Seq(Msg) /\ d \in Seq(Token) /\ Shows(a, q, t)
        BY <1>0, <2>3, <3>1
      <4> HIDE DEF q, d, a
      <4>2. /\ Shows(a, q \o Display(d), t \o d)
            /\ q \o Display(d) = q \/ q \o Display(d) = Append(q, [type |-> "DISPLAY", data |-> d])
        BY <4>1, ShowsDisplay
      <4> QED BY <4>2 DEF q, d, a
    <3>5. r.display \in Words(x) => q \o Display(r.display) \in Seq(DisplayMsg(x))
      <4> SUFFICES ASSUME r.display \in Words(x)
                   PROVE  q \o Display(r.display) \in Seq(DisplayMsg(x))
        OBVIOUS
      <4>1. [type |-> "DISPLAY", data |-> r.display] \in DisplayMsg(x)
        BY DEF DisplayMsg
      <4>2. Append(q, [type |-> "DISPLAY", data |-> r.display]) \in Seq(DisplayMsg(x))
        BY <1>3, <4>1, AppendProperties
      <4> QED BY <1>3, <3>4, <4>2
    <3> DEFINE p == q \o Display(r.display)
    <3> HIDE DEF p
    <3>6. CASE r.rc = "DATA"
      <4>0. ~BrokenDisplay(s, r)
        BY BrokenParted
      <4>1. /\ UNCHANGED <<stdin, shell_state, client_shell, shell_status>> /\ s2c'[c] = p
        BY <1>4, <3>3, <3>6, <4>0 DEF Fsm_WAIT_EOC_DATA, BrokenDisplay, p
      <4>2. PICK w \in Speech : Joins(u, r.display, w) /\ Says(s, w, rest, x)'
        <5>1. stdin'[s] = stdin[s] /\ job'[s] = job[s] /\ last'[s] = last[s] /\ alive'[s] = alive[s]
          BY <1>2, <4>1
        <5>2. Says(s, u, rest, x)
          BY <3>1
        <5> QED BY <1>1, <1>7, <3>2, <3>6, <5>1, <5>2, SaysRecv
      <4>3. r.display \in Words(x) /\ w \in Words(x) /\ w \in Seq(Token)
        BY <2>3, <4>2, SpeechIs, TextParts DEF Joins, Words
      <4>4. said[c] = (t \o r.display) \o w /\ t \o r.display \in Seq(Token)
        <5>1. (t \o r.display) \o w = t \o (r.display \o w) /\ t \o r.display \in Seq(Token)
          BY <2>3, <4>3, TokensJoin
        <5> QED BY <3>1, <4>2, <5>1 DEF Joins
      <4>5. Printing(c, s, x)'
        BY <1>2, <3>4, <4>1, <4>2, <4>3, <4>4 DEF Printing, p
      <4>6. Working(c, s, x)'
        BY <2>4, <4>1, <4>5 DEF Working
      <4>7. Served(c, s, x)'
        BY <1>2, <1>3, <3>5, <4>1, <4>3, <4>6 DEF Served, Others, p
      <4> QED BY <4>7 DEF Talk
    <3>7. CASE r.rc = "FOUND"
      <4>1. job[s] = << >> /\ r.display = u /\ r.left = << >> /\ r.unread = << >>
        BY <1>7, <3>1, <3>2, <3>7, SaysFound
      <4>2. Shows(shown[c], p, said[c]) /\ p \in Seq(DisplayMsg(x)) /\ p \in Seq(Msg)
        BY <3>1, <3>4, <3>5, <4>1, DisplayMsgs DEF p
      <4>3. CASE /\ s2c'[c] = p /\ pdip_send(s, [k |-> "status", of |-> NoCmd])
                 /\ shell_state' = [shell_state EXCEPT ![s] = "WAIT_STATUS"]
                 /\ UNCHANGED client_shell
        <5>1. shell_state'[s] = "WAIT_STATUS"
          BY <1>0, <4>3
        <5>2. outstanding'[s] = << >> /\ pty'[s] = << >>
          BY <1>1, <4>1, UnreadNext
        <5>3. stdin'[s] = <<[k |-> "status", of |-> NoCmd]>>
          <6>1. [k |-> "status", of |-> NoCmd] \in Input
            BY RsystemdAssumption DEF Input, Cmd, NoCmd
          <6> QED BY <3>1, <4>3, <6>1, SendFirst DEF Says
        <5>4. Asked(s, x)' \/ Muted(s)'
          <6>1. CASE alive[s]
            BY <1>2, <3>1, <4>1, <5>2, <5>3, <6>1 DEF Asked, Told, Says
          <6>2. CASE ~alive[s]
            BY <1>2, <5>2, <6>2 DEF Muted, PromptFound
          <6> QED BY <6>1, <6>2
        <5>5. Working(c, s, x)'
          BY <1>2, <4>2, <4>3, <5>1, <5>4 DEF Working
        <5>6. Served(c, s, x)'
          BY <1>2, <1>3, <4>2, <4>3, <5>1, <5>5 DEF Served, Others
        <5> QED BY <5>6 DEF Talk
      <4>4. CASE ~alive[s] /\ DeliverAndRelease(s, Append(Display(r.display), EOC(<< >>)), "shells", {})
        <5>2. EOC(<< >>) \in Msg /\ Display(r.display) \in Seq(Msg)
          BY <2>3, EmptySeq, EOCType, DisplayType
        <5>0. Append(Display(r.display), EOC(<< >>)) \in Seq(Msg)
          BY <5>2, AppendProperties
        <5>1. s2c'[c] = q \o Append(Display(r.display), EOC(<< >>)) /\ client_shell'[c] = NoShell
          BY <1>5, <4>4, <5>0
        <5>3. s2c'[c] = Append(p, EOC(<< >>))
          <6>1. \A a, b \in Seq(Msg), m \in Msg : a \o Append(b, m) = Append(a \o b, m)
            BY TextAppend
          <6>2. q \o Append(Display(r.display), EOC(<< >>)) = Append(q \o Display(r.display), EOC(<< >>))
            BY <1>0, <5>2, <6>1
          <6> QED BY <5>1, <6>2 DEF p
        <5>4. Clean(s, x)' /\ Verdict(c, x, EOC(<< >>))'
          BY <1>2, <4>4 DEF Clean, Verdict
        <5> QED BY <1>2, <4>2, <5>1, <5>2, <5>3, <5>4, TalkRelease
      <4>5. ~BrokenDisplay(s, r)
        BY BrokenParted
      <4> QED BY <1>4, <3>3, <3>7, <4>3, <4>4, <4>5 DEF Fsm_WAIT_EOC_DATA, BrokenDisplay, p
    <3> QED BY <2>2, <3>6, <3>7
  <2>5. CASE shell_state[s] = "WAIT_STATUS"
    <3>0. /\ << >> \in Speech /\ <<St(x)>> \in Speech /\ << >> \in Seq(Token) /\ <<St(x)>> # << >>
          /\ <<St(x)>> \in Seq(Token) /\ St(x) \in Token
      BY WordsAre, SpeechIs, EmptySeq DEF NoPrompt
    <3>1. Telling(s, x) /\ Shows(shown[c], q, said[c])
      BY <1>3, <2>1, <2>5 DEF Working
    <3>2. Fsm_WAIT_STATUS_DATA(s, r) /\ UNCHANGED stdin
      BY <1>1, <2>5 DEF Fsm_WAIT_EOC_DATA, Fsm_WAIT_STATUS_DATA, Fsm_FREEING_DATA
    <3>3. CASE r.rc = "DATA"
      <4>1. /\ UNCHANGED <<shell_state, client_shell, s2c>>
            /\ shell_status' = [shell_status EXCEPT ![s] = rsysd_read_shell_status(s, r)]
        BY <3>2, <3>3 DEF Fsm_WAIT_STATUS_DATA
      <4>2. ASSUME NEW rest \in Speech, Says(s, << >>, rest, x) PROVE FALSE
        <5>1. PICK w \in Speech : Joins(<< >>, r.display, w) /\ r.display # << >>
          BY <1>1, <1>7, <3>0, <3>3, <4>2, SaysRecv
        <5>2. w \in Seq(Token)
          BY SpeechIs
        <5>3. \A a, b \in Seq(Token) : a \o b = << >> => a = << >>
          BY ConcatEqualIffEmpty
        <5> QED BY <2>3, <5>1, <5>2, <5>3 DEF Joins
      <4>3. Says(s, <<St(x)>>, << >>, x)
        BY <3>0, <3>1, <4>2 DEF Telling
      <4>4. PICK w \in Speech : /\ Joins(<<St(x)>>, r.display, w) /\ r.display # << >>
                                /\ Says(s, w, << >>, x)'
        <5>1. stdin'[s] = stdin[s] /\ job'[s] = job[s] /\ last'[s] = last[s] /\ alive'[s] = alive[s]
          BY <1>2, <3>2
        <5> QED BY <1>1, <1>7, <3>0, <3>3, <4>3, <5>1, SaysRecv
      <4>5. w = << >> /\ r.display = <<St(x)>>
        <5>1. w \in Seq(Token) /\ <<St(x)>> = r.display \o w
          BY <4>4, SpeechIs DEF Joins
        <5>2. Len(<<St(x)>>) = Len(r.display) + Len(w) /\ Len(<<St(x)>>) = 1
          <6>1. \A a, b \in Seq(Token) : Len(a \o b) = Len(a) + Len(b)
            BY ConcatProperties
          <6> QED BY <2>3, <5>1, <6>1
        <5>3. Len(r.display) \in Nat \ {0} /\ Len(w) \in Nat
          BY <2>3, <4>4, <5>1, EmptySeq, LenProperties
        <5>4. w = << >>
          BY <5>1, <5>2, <5>3, EmptySeq
        <5>5. \A a \in Seq(Token) : a \o << >> = a
          BY ConcatEmptySeq
        <5> QED BY <2>3, <5>1, <5>4, <5>5
      <4>6. shell_status'[s] = <<St(x)>>
        BY <1>0, <3>0, <4>1, <4>5 DEF rsysd_read_shell_status
      <4>7. Working(c, s, x)'
        BY <1>2, <2>5, <3>1, <4>1, <4>4, <4>5, <4>6 DEF Working, Telling
      <4>8. Served(c, s, x)'
        BY <1>2, <1>3, <4>1, <4>7 DEF Served, Others
      <4> QED BY <4>8 DEF Talk
    <3>4. CASE r.rc = "FOUND"
      <4>1. DeliverAndRelease(s, <<EOC(rsysd_read_shell_status(s, r))>>, "shells", {})
        BY <3>2, <3>4 DEF Fsm_WAIT_STATUS_DATA
      <4>2. \A u, rest \in Speech : Says(s, u, rest, x) =>
               rest = << >> /\ r.display = u /\ job[s] = << >> /\ stdin[s] = << >>
        <5> SUFFICES ASSUME NEW u \in Speech, NEW rest \in Speech, Says(s, u, rest, x)
                     PROVE  rest = << >> /\ r.display = u /\ job[s] = << >> /\ stdin[s] = << >>
          OBVIOUS
        <5>1. rest = << >> /\ r.display = u /\ job[s] = << >>
          BY <1>7, <3>4, SaysFound
        <5>2. stdin[s] = << >>
          BY DEF Says
        <5> QED BY <5>1, <5>2
      <4>3. rsysd_read_shell_status(s, r) = <<St(x)>> /\ job[s] = << >> /\ stdin[s] = << >>
        <5>1. CASE Says(s, << >>, <<St(x)>>, x)
          BY <3>0, <4>2, <5>1
        <5>2. CASE Says(s, <<St(x)>>, << >>, x)
          <6>1. r.display = <<St(x)>> /\ job[s] = << >> /\ stdin[s] = << >>
            BY <3>0, <4>2, <5>2
          <6> QED BY <3>0, <6>1 DEF rsysd_read_shell_status
        <5>3. CASE Says(s, << >>, << >>, x) /\ shell_status[s] = <<St(x)>>
          <6>1. r.display = << >> /\ job[s] = << >> /\ stdin[s] = << >>
            BY <3>0, <4>2, <5>3
          <6> QED BY <5>3, <6>1 DEF rsysd_read_shell_status
        <5> QED BY <3>1, <5>1, <5>2, <5>3 DEF Telling
      <4> DEFINE m == EOC(<<St(x)>>)
      <4>4. m \in Msg /\ Shown(m) = << >>
        BY <3>0, EOCType DEF Shown, EOC
      <4>5. s2c'[c] = q \o <<m>> /\ client_shell'[c] = NoShell
        <5>1. <<m>> \in Seq(Msg)
          BY <3>0, EOCType
        <5> QED BY <1>5, <4>1, <4>3, <5>1
      <4> HIDE DEF m
      <4>6. s2c'[c] = Append(q, m)
        BY <1>0, <4>4, <4>5, AppendIsConcat
      <4>7. Shows(shown[c], Append(q, m), said[c])
        <5>1. Shows(shown[c], Append(q, m), said[c] \o << >>)
          BY <1>0, <3>1, <4>4, ShowsSend
        <5>2. said[c] \o << >> = said[c]
          BY <1>0, ConcatEmptySeq
        <5> QED BY <5>1, <5>2
      <4>8. Verdict(c, x, m)'
        BY <1>2, <4>6, <4>7 DEF Verdict, m
      <4>9. Clean(s, x)'
        BY <1>2, <3>2, <4>3, EmptySeq DEF Clean
      <4> QED BY <1>2, <1>3, <4>4, <4>5, <4>6, <4>8, <4>9, TalkRelease
    <3> QED BY <2>2, <3>3, <3>4
  <2> QED BY <1>3, <2>4, <2>5
<1> QED BY <1>8, <1>9

\* The data of its shell are handled, whatever the client does meanwhile.
LEMMA TalkDataOwn ==
  ASSUME TypeOK, RoundInv, LinkInv, NEW c \in Clients, NEW x \in Cmd, Talk(c, x), Others(x),
         NEW s \in Shells, ShellData(s), c = shell_client[s], c \notin misled'
  PROVE  Talk(c, x)'
<1>0. c # NoClient /\ s # NoShell
  BY RsystemdAssumption DEF Shells, NoShell
<1>1. client_shell[c] = s /\ client_state[c] = "ALLOCATED" /\ shell_state[s] \in Busy
  BY <1>0 DEF LinkInv
<1>2. srv[c] = "open"
  BY <1>1, LiveSocket DEF RoundInv
<1>3. PICK r \in pdip_recv(s) :
          \/ Fsm_WAIT_EOC_DATA(s, r) \/ Fsm_WAIT_STATUS_DATA(s, r) \/ Fsm_FREEING_DATA(s, r)
  BY DEF ShellData
<1>4. pc \notin Stopped /\ UNCHANGED <<client_state, clst, ret, srv>>
  BY DEF ShellData, ShellTurn, procVars, Stopped
<1>5. shell_state[s] \in {"WAIT_EOC", "WAIT_STATUS"}
  BY <1>1, <1>3 DEF Fsm_WAIT_EOC_DATA, Fsm_WAIT_STATUS_DATA, Fsm_FREEING_DATA, Busy
<1>6. CASE Lost(c)
  <2>1. clst[c] = "gone" /\ ret[c] = << >> /\ s2c[c] \in Seq(OutOfMemoryMsg)
    BY <1>1, <1>2, <1>4, <1>6 DEF Lost
  <2>2. \A m, then : Write(c, m, then) => s2c'[c] = s2c[c]
    BY <2>1, WriteIs
  <2>3. ASSUME NEW m \in Seq(Msg), NEW lost, DeliverAndRelease(s, m, "shells", lost) PROVE s2c'[c] = s2c[c]
    <3>1. Gets(c, m)
      BY <1>1, <2>3, ReleaseIs
    <3> QED BY <2>1, <3>1 DEF Gets
  <2>4. s2c'[c] = s2c[c]
    <3>1. r.display \in Seq(Token) /\ << >> \in Seq(Token)
      BY <1>3, RecvType, EmptySeq
    <3>2. \A d \in Seq(Token) : EOC(d) \in Msg /\ <<EOC(d)>> \in Seq(Msg)
      BY EOCType
    <3>3. CASE Fsm_WAIT_EOC_DATA(s, r)
      <4>1. Append(Display(r.display), EOC(<< >>)) \in Seq(Msg)
        <5>1. Display(r.display) \in Seq(Msg)
          BY <3>1, DisplayType
        <5> QED BY <3>1, <3>2, <5>1, AppendProperties
      <4>2. ~BrokenDisplay(s, r)
        BY BrokenParted
      <4> QED BY <2>2, <2>3, <3>1, <3>2, <3>3, <4>1, <4>2 DEF Fsm_WAIT_EOC_DATA, BrokenDisplay
    <3>4. CASE Fsm_WAIT_STATUS_DATA(s, r)
      <4>1. rsysd_read_shell_status(s, r) \in Seq(Token)
        BY <3>1 DEF rsysd_read_shell_status, TypeOK, ContextType
      <4> QED BY <2>3, <3>1, <3>2, <3>4, <4>1 DEF Fsm_WAIT_STATUS_DATA
    <3> QED BY <1>3, <1>5, <3>3, <3>4 DEF Fsm_FREEING_DATA
  <2>5. Lost(c)'
    BY <1>4, <2>1, <2>4 DEF Lost
  <2> QED BY <2>5 DEF Talk
<1>7. CASE \E t \in Shells : Served(c, t, x)
  <2>1. Served(c, s, x)
    BY <1>1, <1>7 DEF Served
  <2> QED BY <2>1, TalkData
<1>8. ~Unserved(c)
  BY <1>0, <1>1, <1>5 DEF Unserved
<1> QED BY <1>6, <1>7, <1>8 DEF Talk, Idle, Sending, Answered

\* The calls of the other clients.
LEMMA TalkClientOther ==
  ASSUME TypeOK, NEW c \in Clients, NEW x \in Cmd, Talk(c, x), Others(x),
         NEW d \in Clients, d # c, Client(d)
  PROVE  Talk(c, x)'
<1>1. UNCHANGED <<pc, daemonVars>>
  BY ClientFrame
<1>2. UNCHANGED <<stdin, shellVars, pty>>
  BY DEF Client, rsys_lib_initialize, rsystem_header, rsystem_body, rsystem_reply, rsystem_torn,
         rsystem_error, rsys_lib_exit
<1>3. /\ clst \in [Clients -> {"off", "idle", "body", "wait", "gone", "failed"}]
      /\ shown \in [Clients -> Seq(Token)] /\ ret \in [Clients -> Seq(Token)]
      /\ said \in [Clients -> Seq(Token)] /\ c2s \in [Clients -> Seq(Packet)]
      /\ s2c \in [Clients -> Seq(Msg)]
      /\ srv \in [Clients -> {"none", "backlog", "open", "graceful", "closed"}]
  BY DEF TypeOK, SocketType
<1>4. /\ clst'[c] = clst[c] /\ shown'[c] = shown[c] /\ ret'[c] = ret[c] /\ said'[c] = said[c]
      /\ srv'[c] = srv[c] /\ c2s'[c] = c2s[c] /\ s2c'[c] = s2c[c]
  BY <1>3 DEF Client, rsys_lib_initialize, rsystem_header, rsystem_body, rsystem_reply, rsystem_torn,
              rsystem_error, rsys_lib_exit, ClientWrite, histVars
<1>5. Own(c) /\ UNCHANGED <<ptyVars, stdin, shellVars, shell_status>> /\ shell_state' = shell_state
  BY <1>1, <1>2, <1>4 DEF Own, daemonVars, ctxVars, ptyVars
<1> QED BY <1>1, <1>5, TalkQuiet

\* The numbers of a client's commands change when it sends a header only.
LEMMA NumberKept ==
  ASSUME TypeOK, [Next]_vars, NEW c \in Clients, ~rsystem_header(c)
  PROVE  ncmd'[c] = ncmd[c]
<1>1. ncmd \in [Clients -> Nat]
  BY DEF TypeOK, SocketType
<1>2. CASE UNCHANGED vars
  BY <1>2 DEF vars, procVars
<1>3. CASE Next
  <2>1. ASSUME NEW d \in Clients, Client(d) \/ GracefulClose(d) PROVE ncmd'[c] = ncmd[c]
    <3>1. CASE rsystem_header(d)
      BY <1>1, <3>1 DEF rsystem_header
    <3> QED BY <2>1, <3>1 DEF Client, rsys_lib_initialize, rsystem_body, rsystem_reply, rsystem_torn,
                              rsystem_error, rsys_lib_exit, GracefulClose, procVars
  <2>2. ASSUME NEW s \in Shells, Shell(s) \/ ShellDie(s) PROVE ncmd' = ncmd
    BY <2>2 DEF Shell, ShellStart, ShellEmit, ShellDie, procVars
  <2>3. ASSUME NEW s \in Shells, ShellData(s) PROVE ncmd' = ncmd
    BY <2>3 DEF ShellData, procVars
  <2>4. CASE Bookkeeping
    BY <2>4 DEF Bookkeeping, LoopTest, Select, ShellsDone, ClientsDone, MainEnd, MainError,
                rsysd_signal, ShellPartialData, ShellUnexpectedData, mainEnv, commonEnv, procVars
  <2>5. CASE Accept \/ AcceptOutOfMemory \/ ClientTurn \/ ClientCmd \/ ClientDcnx \/ NextClient
    BY <2>5 DEF Accept, AcceptOutOfMemory, ClientTurn, ClientCmd, ClientDcnx, NextClient,
                mainEnv, commonEnv, readEnv, procVars
  <2> QED BY <1>3, <2>1, <2>2, <2>3, <2>4, <2>5, NextSplit
<1> QED BY <1>2, <1>3

\* A client to which no write has failed has no torn message.
LEMMA NotTorn ==
  ASSUME TypeOK, NEW c \in Clients, NEW x \in Cmd, Talk(c, x)
  PROVE  ~rsystem_torn(c)
<1> SUFFICES ASSUME s2c[c] # << >>, Head(s2c[c]).type = "TORN" PROVE FALSE
  BY DEF rsystem_torn
<1>1. \A S : \A f \in Seq(S) : f # << >> => Head(f) \in S
  OBVIOUS
<1>2. CASE Lost(c)
  BY <1>1, <1>2 DEF Lost, OutOfMemoryMsg
<1>3. CASE \E s \in Shells : Served(c, s, x)
  <2>1. Head(s2c[c]) \in DisplayMsg(x)
    BY <1>1, <1>3 DEF Served
  <2> QED BY <2>1 DEF DisplayMsg
<1>4. CASE Answered(c, x)
  <2>1. PICK d \in Seq(DisplayMsg(x)), m \in Msg : s2c[c] = Append(d, m) /\ Verdict(c, x, m)
    BY <1>4 DEF Answered
  <2>2. m.type # "TORN"
    BY <2>1 DEF Verdict, EOC
  <2>3. Head(Append(d, m)) \in DisplayMsg(x) \cup {m}
    <3>1. d \in Seq(DisplayMsg(x) \cup {m}) /\ m \in DisplayMsg(x) \cup {m}
      OBVIOUS
    <3>2. Append(d, m) \in Seq(DisplayMsg(x) \cup {m}) /\ Append(d, m) # << >>
      BY <2>1, <3>1, AppendProperties
    <3> QED BY <1>1, <3>2
  <2> QED BY <2>1, <2>2, <2>3 DEF DisplayMsg
<1> QED BY <1>2, <1>3, <1>4 DEF Talk, Idle, Sending

\* A client's own calls.
LEMMA TalkClient ==
  ASSUME TypeOK, RoundInv, LinkInv, NumberInv, NEW c \in Clients \ Interruptible, NEW x \in Cmd,
         x = <<c, ncmd[c]>>, Talk(c, x), Others(x), Client(c), ~rsystem_header(c)
  PROVE  Talk(c, x)'
<1>1. ListInv
  BY DEF RoundInv
<1>2. CASE rsys_lib_initialize(c)
  BY <1>1, <1>2, TalkInitialize
<1>3. CASE rsystem_body(c)
  BY <1>3, TalkBody
<1>4. CASE rsystem_reply(c)
  BY <1>4, TalkReply
<1>5. CASE rsystem_error(c) \/ rsys_lib_exit(c)
  BY <1>1, <1>5, TalkLeaves
<1>6. ~rsystem_torn(c)
  BY NotTorn
<1> QED BY <1>2, <1>3, <1>4, <1>5, <1>6 DEF Client

\* Every step, but the reading of its command and its next header, leaves a
\* client in one of its phases.
LEMMA TalkSteps ==
  ASSUME TypeOK, RoundInv, LinkInv, NumberInv, NEW c \in Clients \ Interruptible, NEW x \in Cmd,
         x = <<c, ncmd[c]>>, Talk(c, x), Others(x), pc \in Stopped => pc' \in Stopped,
         Next, ~rsystem_header(c), ~(ClientCmd /\ Head(todo) = c), c \notin misled'
  PROVE  Talk(c, x)'
<1>1. CASE Bookkeeping
  BY <1>1, TalkMain
<1>2. CASE Accept
  BY <1>2, TalkAccept
<1>3. CASE AcceptOutOfMemory
  BY <1>3, TalkRefuse
<1>4. ASSUME NEW s \in Shells, ShellData(s) PROVE Talk(c, x)'
  <2>1. CASE c = shell_client[s]
    BY <1>4, <2>1, TalkDataOwn
  <2>2. CASE c # shell_client[s]
    BY <1>4, <2>2, TalkDataOther
  <2> QED BY <2>1, <2>2
<1>5. CASE ClientTurn
  BY <1>5, TalkTurn
<1>6. CASE ClientCmd
  BY <1>6, TalkCmdOther
<1>7. CASE ClientDcnx
  BY <1>7, TalkDcnx
<1>8. CASE NextClient
  BY <1>8, TalkNext
<1>9. ASSUME NEW d \in Clients, Client(d) PROVE Talk(c, x)'
  <2>1. CASE d = c
    BY <1>9, <2>1, TalkClient
  <2>2. CASE d # c
    BY <1>9, <2>2, TalkClientOther
  <2> QED BY <2>1, <2>2
<1>10. ASSUME NEW d \in Clients, GracefulClose(d) PROVE Talk(c, x)'
  BY <1>10, TalkGraceful
<1>11. ASSUME NEW s \in Shells, Shell(s) \/ ShellDie(s) PROVE Talk(c, x)'
  <2>1. CASE ShellStart(s)
    BY <2>1, TalkStart
  <2>2. CASE ShellEmit(s)
    BY <2>2, TalkEmit
  <2>3. CASE ShellDie(s)
    BY <2>3, TalkDie
  <2> QED BY <1>11, <2>1, <2>2, <2>3 DEF Shell
<1> QED BY <1>1, <1>2, <1>3, <1>4, <1>5, <1>6, <1>7, <1>8, <1>9, <1>10, <1>11, NextSplit

\* What becomes of the misled clients when the data of a shell are handled.
LEMMA MisledData ==
  ASSUME TypeOK, LinkInv, NEW s \in Shells, ShellData(s)
  PROVE  /\ misled \subseteq misled' /\ desynced' \subseteq desynced \cup {s}
         /\ \A c \in Clients : client_shell'[c] \in {client_shell[c], NoShell}
         /\ s \in desynced' /\ s \notin desynced => \A c \in Clients : client_shell'[c] # s
<1>0. client_shell \in [Clients -> Shells \cup {NoShell}] /\ s # NoShell
  BY RsystemdAssumption DEF TypeOK, ContextType, Shells, NoShell
<1>1. PICK r \in pdip_recv(s) :
          Fsm_WAIT_EOC_DATA(s, r) \/ Fsm_WAIT_STATUS_DATA(s, r) \/ Fsm_FREEING_DATA(s, r)
  BY DEF ShellData
<1>2. r.display \in Seq(Token)
  BY RecvType
<1>3. CASE Parted(s, "shells")
  <2>1. CASE Linked(s)
    <3>1. /\ client_shell' = [client_shell EXCEPT ![shell_client[s]] = NoShell]
          /\ misled \subseteq misled' /\ desynced' \subseteq desynced \cup {s}
      BY <1>3, <2>1 DEF Parted, Release
    <3>2. \A c \in Clients : client_shell[c] = s => c = shell_client[s]
      BY <1>0 DEF LinkInv
    <3> QED BY <1>0, <3>1, <3>2
  <2>2. CASE ~Linked(s)
    BY <1>3, <2>2 DEF Parted
  <2> QED BY <2>1, <2>2
<1>4. CASE UNCHANGED <<client_shell, desynced, misled>>
  BY <1>4
<1>5. CASE Fsm_FREEING_DATA(s, r)
  <2>1. UNCHANGED <<client_shell, misled>> /\ desynced' \subseteq desynced \cup {s}
    BY <1>5 DEF Fsm_FREEING_DATA, Unfinished
  <2>2. shell_client[s] = NoClient
    BY <1>5 DEF Fsm_FREEING_DATA, LinkInv, Busy
  <2>3. \A c \in Clients : client_shell[c] # s
    BY <1>0, <2>2, RsystemdAssumption DEF LinkInv
  <2> QED BY <2>1, <2>3
<1> QED BY <1>1, <1>2, <1>3, <1>4, <1>5, EocPhases, StatusPhases

\* A misled client remains one, and a client gets a shell that is out of step
\* only if it becomes one.
LEMMA MisledStep ==
  ASSUME TypeOK, RoundInv, LinkInv, MisledInv, [Next]_vars
  PROVE  misled \subseteq misled' /\ MisledInv'
<1>0. client_shell \in [Clients -> Shells \cup {NoShell}]
  BY DEF TypeOK, ContextType
<1>1. ASSUME misled \subseteq misled', UNCHANGED desynced,
             \A c \in Clients : client_shell'[c] \in {client_shell[c], NoShell}
      PROVE  misled \subseteq misled' /\ MisledInv'
  BY <1>1 DEF MisledInv
<1>2. CASE Bookkeeping
  BY <1>1, <1>2, BookkeepingFrame DEF ctxVars
<1>3. CASE Accept
  BY <1>0, <1>1, <1>3 DEF Accept, mainEnv, commonEnv
<1>4. CASE AcceptOutOfMemory
  <2>1. misled \subseteq misled'
    BY <1>4 DEF AcceptOutOfMemory, Deliver, WriteFails
  <2> QED BY <1>1, <1>4, <2>1 DEF AcceptOutOfMemory, commonEnv, ctxVars
<1>5. ASSUME NEW s \in Shells, ShellData(s) PROVE misled \subseteq misled' /\ MisledInv'
  BY <1>5, MisledData DEF MisledInv
<1>6. CASE ClientTurn
  <2>1. ASSUME NEW s \in rsysd_get_shell, Fsm_LINK(s, Head(todo)) PROVE misled \subseteq misled' /\ MisledInv'
    <3>1. /\ client_shell' = [client_shell EXCEPT ![Head(todo)] = s] /\ UNCHANGED desynced
          /\ misled \subseteq misled' /\ (s \in desynced => Head(todo) \in misled')
      BY <1>6, <2>1 DEF Fsm_LINK, ClientTurn, commonEnv
    <3> QED BY <1>0, <3>1 DEF MisledInv
  <2>2. CASE UNCHANGED <<client_shell, misled>>
    BY <1>1, <1>6, <2>2 DEF ClientTurn, commonEnv
  <2> QED BY <1>6, <2>1, <2>2 DEF ClientTurn
<1>7. CASE ClientCmd
  <2>1. UNCHANGED desynced
    BY <1>7 DEF ClientCmd, readEnv
  <2>2. ASSUME NEW s \in Shells, NEW y, Fsm_CMD(s, y)
        PROVE  misled \subseteq misled' /\ \A c \in Clients : client_shell'[c] \in {client_shell[c], NoShell}
    <3>1. CASE UNCHANGED <<client_shell, misled>>
      BY <3>1
    <3>2. CASE DeliverAndRelease(s, <<EOC(<< >>)>>, "next", {})
      <4>1. Parted(s, "next")
        BY <3>2, RefusedParted
      <4> QED BY <1>0, <4>1 DEF Parted, Release
    <3> QED BY <2>2, <3>1, <3>2 DEF Fsm_CMD, ctxVars
  <2>3. CASE client_shell[Head(todo)] = NoShell
    BY <1>1, <1>7, <2>1, <2>3 DEF ClientCmd, Deliver, WriteFails, ctxVars
  <2>4. CASE client_shell[Head(todo)] # NoShell
    <3>1. client_shell[Head(todo)] \in Shells
      BY <1>0, <1>7, <2>4, ReadCursor DEF ClientCmd
    <3> QED BY <1>1, <1>7, <2>1, <2>2, <2>4, <3>1 DEF ClientCmd
  <2> QED BY <2>3, <2>4
<1>8. CASE ClientDcnx
  <2>1. UNCHANGED <<desynced, misled>>
    BY <1>8 DEF ClientDcnx, readEnv
  <2>2. ASSUME NEW d, rsysd_delete_client(d, "next")
        PROVE  \A c \in Clients : client_shell'[c] \in {client_shell[c], NoShell}
    BY <1>0, <2>2 DEF rsysd_delete_client
  <2> QED BY <1>1, <1>8, <2>1, <2>2 DEF ClientDcnx, Fsm_DCNX
<1>9. CASE NextClient
  BY <1>1, <1>9 DEF NextClient, mainEnv, commonEnv
<1>10. ASSUME NEW c \in Clients, Client(c) \/ GracefulClose(c) PROVE misled \subseteq misled' /\ MisledInv'
  BY <1>1, <1>10, ClientFrame DEF daemonVars, ctxVars
<1>11. ASSUME NEW s \in Shells, Shell(s) \/ ShellDie(s) PROVE misled \subseteq misled' /\ MisledInv'
  BY <1>1, <1>11, ShellFrame DEF daemonVars, ctxVars
<1>12. CASE UNCHANGED vars
  BY <1>1, <1>12 DEF vars, ctxVars
<1> QED BY NextSplit, <1>2, <1>3, <1>4, <1>5, <1>6, <1>7, <1>8, <1>9, <1>10, <1>11, <1>12

\* The phases are kept by every step.
LEMMA TalkStep ==
  ASSUME TypeOK, RoundInv, LinkInv, DialogueInv, NumberInv, MisledInv, TalkInv, [Next]_vars
  PROVE  TalkInv'
<1> SUFFICES ASSUME NEW c \in Clients \ Interruptible, c \notin misled' PROVE Talk(c, <<c, ncmd[c]>>)'
  BY DEF TalkInv
<1>0. c \notin misled /\ (client_shell[c] # NoShell => client_shell[c] \notin desynced)
  BY MisledStep DEF MisledInv
<1>1. ncmd \in [Clients -> 0..MaxCmds] /\ MaxCmds \in Nat
  BY RsystemdAssumption DEF TypeOK, SocketType
<1>2. PICK x \in Cmd : x = <<c, ncmd[c]>>
  BY <1>1 DEF Cmd
<1>3. Talk(c, x) /\ x[1] = c /\ c \in Clients
  BY <1>0, <1>2 DEF TalkInv
<1>4. pc \in Stopped => pc' \in Stopped
  BY EndsForEver
<1>5. CASE rsystem_header(c)
  <2>1. PICK y : y = <<c, ncmd[c] + 1>>
    OBVIOUS
  <2>2. y = <<c, ncmd'[c]>>
    BY <1>1, <1>5, <2>1 DEF rsystem_header
  <2>3. Talk(c, y)'
    BY <1>3, <1>5, <2>1, TalkHeader DEF RoundInv
  <2> QED BY <2>2, <2>3
<1>6. CASE ~rsystem_header(c)
  <2>1. x = <<c, ncmd'[c]>>
    BY <1>2, <1>6, NumberKept
  <2>2. Talk(c, x)'
    <3>1. CASE ClientCmd /\ Head(todo) = c
      BY <1>0, <1>3, <3>1, TalkCmd
    <3>2. CASE ~(ClientCmd /\ Head(todo) = c)
      <4>1. Others(x)
        BY <1>3, <3>2, CleanStep DEF Others
      <4>2. CASE UNCHANGED vars
        <5>1. Own(c) /\ UNCHANGED <<ptyVars, stdin, shellVars, shell_status, shell_state>>
          BY <4>2 DEF vars, Own, ctxVars, procVars, histVars
        <5> QED BY <1>3, <1>4, <4>1, <5>1, TalkQuiet
      <4>3. CASE Next
        BY <1>2, <1>3, <1>4, <1>6, <3>2, <4>1, <4>3, TalkSteps
      <4> QED BY <4>2, <4>3
    <3> QED BY <3>1, <3>2
  <2> QED BY <2>1, <2>2
<1> QED BY <1>5, <1>6

\* At first no command has a number, and every client is idle.
LEMMA TalkInit == Init => NumberInv /\ MisledInv /\ TalkInv
<1> SUFFICES ASSUME Init PROVE NumberInv /\ MisledInv /\ TalkInv
  OBVIOUS
<1>1. \A S : << >> \in Seq(S)
  BY EmptySeq
<1>2. NoCmd \in KnownCmd
  BY RsystemdAssumption DEF NoCmd, Cmd, KnownCmd
<1>3. NumberInv
  BY <1>1, <1>2 DEF Init, NumberInv
<1>4. ASSUME NEW c \in Clients PROVE Idle(c, <<c, ncmd[c]>>)
  BY <1>1 DEF Init, Idle, Unserved, Clean
<1>5. TalkInv
  BY <1>4, RsystemdAssumption DEF TalkInv, Talk
<1>6. MisledInv
  BY DEF Init, MisledInv
<1> QED BY <1>3, <1>5, <1>6

\* The phases of the clients, and what they rest on, hold for ever.
THEOREM Conversations == Spec => [](IndInv /\ DialogueInv /\ NumberInv /\ MisledInv /\ TalkInv)
<1> DEFINE Inv == IndInv /\ DialogueInv /\ NumberInv /\ MisledInv /\ TalkInv
<1>1. Init => Inv
  BY InitInd, DialogueInit, TalkInit
<1>2. Inv /\ [Next]_vars => Inv'
  <2> SUFFICES ASSUME Inv, [Next]_vars PROVE Inv'
    OBVIOUS
  <2>1. TypeOK /\ LinkInv /\ RoundInv
    BY DEF IndInv
  <2>2. IndInv'
    BY TypeStep, LinkStep, ListStep, ReadyStep, AssertStep DEF IndInv, RoundInv
  <2>3. DialogueInv'
    BY <2>1, DialogueStep
  <2>4. NumberInv'
    BY <2>1, NumberStep
  <2>5. MisledInv'
    BY <2>1, MisledStep
  <2>6. TalkInv'
    BY <2>1, TalkStep
  <2> QED BY <2>2, <2>3, <2>4, <2>5, <2>6
<1> HIDE DEF Inv
<1>3. Spec => []Inv
  BY <1>1, <1>2, PTL DEF Spec
<1> QED BY <1>3 DEF Inv

\* What a message of any phase says is about command x, and only a command
\* no shell has heard of is answered by BUSY.
About(m, x) == /\ \A l \in 1..Len(m.data) : m.data[l].of = x
               /\ m.type = "BUSY" => Untold(x)

\* The displays are about the command they come from.
LEMMA DisplayAbout ==
  ASSUME NEW x, NEW m \in DisplayMsg(x)
  PROVE  About(m, x)
<1>1. m.type = "DISPLAY" /\ m.data \in Seq([k : {"line", "part"}, of : {x}, i : Nat])
  BY DEF DisplayMsg, Words
<1>2. \A l \in 1..Len(m.data) : m.data[l] \in [k : {"line", "part"}, of : {x}, i : Nat]
  BY <1>1, ElementOfSeq
<1> QED BY <1>1, <1>2 DEF About

\* So are the answers.
LEMMA VerdictAbout ==
  ASSUME NEW c, NEW x, NEW m, Verdict(c, x, m)
  PROVE  About(m, x)
<1>1. CASE m = EOC(<< >>)
  <2>1. m.data = << >> /\ m.type = "EOC"
    BY <1>1 DEF EOC
  <2> QED BY <2>1 DEF About
<1>2. CASE m = EOC(<<St(x)>>)
  <2>1. m.data = <<St(x)>> /\ m.type = "EOC"
    BY <1>2 DEF EOC
  <2>2. \A l \in 1..Len(<<St(x)>>) : <<St(x)>>[l].of = x
    BY DEF St
  <2> HIDE <1>2
  <2> QED BY <2>1, <2>2 DEF About
<1>3. CASE m = [type |-> "BUSY", data |-> << >>] /\ Untold(x)
  <2>1. m.data = << >> /\ Untold(x)
    BY <1>3
  <2> QED BY <2>1 DEF About
<1> QED BY <1>1, <1>2, <1>3 DEF Verdict

\* What a client is sent, and what its call returns, in every phase.
LEMMA TalkTells ==
  ASSUME TypeOK, NEW c \in Clients, NEW x \in Cmd, Talk(c, x)
  PROVE  /\ \A j \in 1..Len(s2c[c]) : About(s2c[c][j], x)
         /\ ret[c] # << >> => ret[c] = <<St(x)>> /\ shown[c] = said[c]
<1>1. CASE s2c[c] = << >>
  BY <1>1 DEF Talk, Lost, Idle, Sending, Answered, Served
<1>2. CASE s2c[c] # << >>
  <2>1. ret[c] = << >>
    BY <1>2 DEF Talk, Lost, Idle, Sending, Answered, Served
  <2>2. CASE Lost(c)
    <3>1. s2c[c] \in Seq(OutOfMemoryMsg)
      BY <2>2 DEF Lost
    <3>2. \A j \in 1..Len(s2c[c]) : s2c[c][j] \in OutOfMemoryMsg
      BY <3>1, ElementOfSeq
    <3>3. \A m \in OutOfMemoryMsg : About(m, x)
      BY DEF OutOfMemoryMsg, About
    <3> QED BY <2>1, <3>2, <3>3
  <2>3. ASSUME NEW s \in Shells, Served(c, s, x) PROVE \A j \in 1..Len(s2c[c]) : About(s2c[c][j], x)
    <3>1. s2c[c] \in Seq(DisplayMsg(x))
      BY <2>3 DEF Served
    <3>2. \A j \in 1..Len(s2c[c]) : s2c[c][j] \in DisplayMsg(x)
      BY <3>1, ElementOfSeq
    <3> QED BY <3>2, DisplayAbout
  <2>4. CASE Answered(c, x)
    <3>1. PICK d \in Seq(DisplayMsg(x)), m \in Msg : s2c[c] = Append(d, m) /\ Verdict(c, x, m)
      BY <2>4 DEF Answered
    <3>2. Len(d) \in Nat /\ \A j \in 1..Len(d) : d[j] \in DisplayMsg(x)
      BY LenProperties, ElementOfSeq
    <3>3. /\ Len(Append(d, m)) = Len(d) + 1 /\ Append(d, m)[Len(d) + 1] = m
          /\ \A j \in 1..Len(d) : Append(d, m)[j] = d[j]
      OBVIOUS
    <3>4. ASSUME NEW j \in 1..Len(s2c[c]) PROVE About(s2c[c][j], x)
      <4>1. CASE j \in 1..Len(d)
        BY <3>1, <3>2, <3>3, <4>1, DisplayAbout
      <4>2. CASE j = Len(d) + 1
        BY <3>1, <3>3, <4>2, VerdictAbout
      <4> QED BY <3>1, <3>2, <3>3, <4>1, <4>2
    <3> QED BY <2>1, <3>4
  <2> QED BY <1>2, <2>1, <2>2, <2>3, <2>4 DEF Talk, Idle, Sending
<1> QED BY <1>1, <1>2

\* A client that no signal interrupts, to which no write failed and that no
\* shell out of step served, gets what its own command wrote, all of it and in
\* order, and the status of that command, whatever happened to the other
\* clients and shells (OwnAnswers).
THEOREM AnswersOwned == Spec => []OwnAnswers
<1>1. ASSUME TypeOK, TalkInv PROVE OwnAnswers
  <2> SUFFICES ASSUME NEW c \in Clients \ (Interruptible \cup misled)
               PROVE  /\ \A j \in 1..Len(s2c[c]) : \A l \in 1..Len(s2c[c][j].data) :
                             s2c[c][j].data[l].of = <<c, ncmd[c]>>
                      /\ ret[c] # << >> => /\ ret[c][1].k = "status"
                                           /\ ret[c][1].of = <<c, ncmd[c]>>
                                           /\ shown[c] = said[c]
    BY DEF OwnAnswers
  <2>1. PICK x \in Cmd : x = <<c, ncmd[c]>>
    BY <1>1, RsystemdAssumption DEF Cmd, TypeOK, SocketType
  <2>2. Talk(c, x)
    BY <1>1, <2>1 DEF TalkInv
  <2>3. <<St(x)>>[1].k = "status" /\ <<St(x)>>[1].of = x
    BY DEF St
  <2> QED BY <1>1, <2>1, <2>2, <2>3, TalkTells DEF About
<1> QED BY Conversations, <1>1, PTL DEF IndInv

\* A command of such a client that is answered by BUSY is never run
\* (BusyNotRun).
THEOREM BusyNeverRuns == Spec => []BusyNotRun
<1>1. ASSUME TypeOK, TalkInv PROVE BusyNotRun
  <2> SUFFICES ASSUME NEW c \in Clients \ (Interruptible \cup misled), NEW j \in 1..Len(s2c[c]),
                      s2c[c][j].type = "BUSY"
               PROVE  /\ <<c, ncmd[c]>> \notin started
                      /\ \A s \in Shells : \A l \in 1..Len(stdin[s]) : stdin[s][l].of # <<c, ncmd[c]>>
    BY DEF BusyNotRun
  <2>1. PICK x \in Cmd : x = <<c, ncmd[c]>>
    BY <1>1, RsystemdAssumption DEF Cmd, TypeOK, SocketType
  <2>2. Talk(c, x)
    BY <1>1, <2>1 DEF TalkInv
  <2>3. Untold(x)
    BY <1>1, <2>2, TalkTells DEF About
  <2>4. ASSUME NEW s \in Shells, NEW l \in 1..Len(stdin[s]) PROVE stdin[s][l].of # x
    <3>1. stdin[s] \in Seq(OtherInput(x))
      BY <2>3 DEF Untold
    <3>2. stdin[s][l] \in OtherInput(x)
      BY <3>1, ElementOfSeq
    <3> QED BY <3>2 DEF OtherInput
  <2> QED BY <2>1, <2>3, <2>4 DEF Untold
<1> QED BY Conversations, <1>1, PTL DEF IndInv
=============================================================================
