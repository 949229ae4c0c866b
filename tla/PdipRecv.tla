------------------------------ MODULE PdipRecv ------------------------------
(***************************************************************************)
(* Reception and emission of a PDIP object (pdip_lib.c): pdip_recv() with  *)
(* or without regular expression, timeout and PDIP_FLAG_RECV_ON_THE_FLOW,  *)
(* pdip_flush() and pdip_send(), called one at a time by one thread, while *)
(* the controlled program writes, ends, and its end is noticed.            *)
(*                                                                         *)
(* A buffer is a record [data, sz]: the characters it holds and the size   *)
(* of its memory, 0 for a null pointer. A NUL, not counted in data, ends   *)
(* every text, so that a buffer needs one more byte than it has characters.*)
(***************************************************************************)
EXTENDS PdipRegex, FiniteSets

CONSTANTS Regexes,              \* the expressions the caller looks for
          NoRegex,              \* reception without regular expression
          Idle,                 \* no reception
          FlowFlags,            \* values of PDIP_FLAG_RECV_ON_THE_FLOW
          Increment,            \* buf_resize_increment
          Timeouts,             \* the timeouts the caller gives
          MaxText,              \* bound on the text the program writes
          MsgLen, MaxMsgs,      \* bounds on what is sent
          MemoryFaults          \* allocations that may fail

ASSUME RecvAssumption ==
    /\ Regexes \subseteq Regex
    /\ NoRegex \notin Regexes /\ Idle \notin Regexes \cup {NoRegex}
    /\ FlowFlags \subseteq BOOLEAN
    /\ Increment \in Nat /\ Increment > 1
    /\ Timeouts \subseteq Nat
    /\ MaxText \in Nat /\ MsgLen \in Nat \ {0} /\ MaxMsgs \in Nat

Forever == -1                   \* no timeout

VARIABLES
    pty,            \* text in the terminal, not read yet
    running,        \* the program still has the terminal
    state,          \* ALIVE, then ZOMBIE when SIGCHLD is handled, then DEAD
    flow,           \* PDIP_FLAG_RECV_ON_THE_FLOW
    outstanding,    \* the outstanding data of the object
    display,        \* the buffer of the caller
    pc,             \* where the calling thread is
    regex, timeout, \* arguments of the call; timeout is the time that remains
    rc,             \* what the last call returned
    got,            \* history: all the text given to the caller
    written,        \* history: number of characters the program has written
    msg, l,         \* message being sent, number of its characters written
    input,          \* what the program was sent
    short           \* history: messages not sent entirely

io == << pty, running, state, written >>
buffers == << outstanding, display, got >>
args == << regex, timeout, flow >>
sending == << msg, l, input, short >>
vars == << io, buffers, args, sending, pc, rc >>

Null == [data |-> << >>, sz |-> 0]
Drop(d, n) == SubSeq(d, n + 1, Len(d))
Take(d, n) == SubSeq(d, 1, n)

Init ==
    /\ pty = << >> /\ running = TRUE /\ state = "ALIVE" /\ written = 0
    /\ flow \in FlowFlags
    /\ outstanding = Null /\ display = Null /\ got = << >>
    /\ regex = NoRegex /\ timeout = Forever
    /\ pc = "user" /\ rc = "NONE"
    /\ msg = 0 /\ l = 0 /\ input = << >> /\ short = {}

-----------------------------------------------------------------------------
(* The controlled program and its death.                                   *)

ProgramWrites ==
    /\ running /\ written < MaxText
    /\ \E c \in Chars : pty' = Append(pty, c)
    /\ written' = written + 1
    /\ UNCHANGED << running, state, buffers, args, sending, pc, rc >>

ProgramEnds ==
    /\ running
    /\ running' = FALSE
    /\ UNCHANGED << pty, state, written, buffers, args, sending, pc, rc >>

\* The handler of SIGCHLD.
Sigchld ==
    /\ ~running /\ state = "ALIVE"
    /\ state' = "ZOMBIE"
    /\ UNCHANGED << pty, running, written, buffers, args, sending, pc, rc >>

\* The caller asks for the status of the dead program.
pdip_status ==
    /\ pc = "user" /\ ~running /\ state # "DEAD"
    /\ state' = "DEAD"
    /\ UNCHANGED << pty, running, written, buffers, args, sending, pc, rc >>

-----------------------------------------------------------------------------
(* Buffers.                                                                *)

\* Memory is only enlarged when the room behind the text is too small. The
\* first data become the outstanding data without copy.
Enlarged(o, d) == Len(d.data) > o.sz - (Len(o.data) + 1)

pdip_append_to_outstanding(o, d) ==
    IF o.sz = 0 THEN d
    ELSE [data |-> o.data \o d.data,
          sz   |-> IF Enlarged(o, d) THEN o.sz + Len(d.data) ELSE o.sz]

\* Mutant: no place for the NUL.
strdupTooShort(d, n) ==
    IF n = Len(d) THEN Null ELSE [data |-> Drop(d, n), sz |-> Len(d) - n]

\* Mutant: what follows the match is forgotten.
strdupNothing(d, n) == Null

\* The end of a buffer, duplicated in memory of the right size.
strdup(d, n) ==
    IF n = Len(d) THEN Null ELSE [data |-> Drop(d, n), sz |-> Len(d) - n + 1]

\* Mutant: the incomplete line is returned too.
LastCharacter(d) == Len(d)

\* The end of the last complete line of d, 0 if there is none.
LastLine(d) ==
    LET ends == {i \in 1..Len(d) : d[i] = NL}
    IN IF ends = {} THEN 0 ELSE CHOOSE i \in ends : \A j \in ends : j <= i

\* The buffer enlarged before a read.
Room(d) == IF d.sz - Len(d.data) < Increment THEN d.sz + Increment ELSE d.sz

-----------------------------------------------------------------------------
(* Ends of pdip_recv().                                                    *)

\* The arguments are forgotten, but for a timeout that has elapsed.
Returns(answer) ==
    /\ pc' = "user" /\ rc' = answer
    /\ regex' = NoRegex

Gives(answer, o, d) ==
    /\ outstanding' = o
    /\ display' = d
    /\ got' = got \o d.data
    /\ Returns(answer)

Dies(how, re, o) ==
    /\ outstanding' = o /\ display' = Null
    /\ pc' = how /\ rc' = "NONE"
    /\ regex' = re
    /\ UNCHANGED got

\* pdip_look_for_regex() has a match in the outstanding data o: what follows
\* it is duplicated, and stays. The duplication is not checked.
pdip_look_for_regex(re, o) ==
    LET n == MatchEnd(re, o.data)
    IN \/ /\ strlen(Drop(o.data, n)) = Len(o.data) - n
          /\ Gives("FOUND", strdup(o.data, n), [data |-> Take(o.data, n), sz |-> o.sz])
       \/ /\ strlen(Drop(o.data, n)) # Len(o.data) - n
          /\ Dies("aborted", re, o)
       \/ /\ "rest" \in MemoryFaults /\ n < Len(o.data)
          /\ Dies("crashed", re, o)

\* pdip_flush_internal() when there are outstanding data.
FlushAll(o) == Gives("DATA", Null, o)

\* pdip_flush_outstanding(): all but the last line when it is not complete.
FlushLines(o) ==
    LET n == LastLine(o.data)
    IN \/ /\ strlen(Drop(o.data, n)) = Len(o.data) - n
          /\ Gives("DATA", strdup(o.data, n), [data |-> Take(o.data, n), sz |-> o.sz])
       \/ /\ strlen(Drop(o.data, n)) # Len(o.data) - n
          /\ Dies("aborted", regex, o)
       \/ /\ "lines" \in MemoryFaults /\ n < Len(o.data)
          /\ outstanding' = o /\ display' = Null
          /\ UNCHANGED got
          /\ Returns("ENOMEM")

GoOn(o) ==
    /\ outstanding' = o /\ display' = Null
    /\ UNCHANGED << got, regex, pc, rc >>

-----------------------------------------------------------------------------
(* pdip_recv().                                                            *)

\* The call: outstanding data may be enough to answer. The caller passes its
\* buffer again, or has freed it.
pdip_recv(re, to, buffer) ==
    /\ pc = "user"
    /\ \/ /\ re = NoRegex /\ outstanding.sz > 0
          /\ FlushAll(outstanding)
          /\ timeout' = Forever
       \/ /\ re # NoRegex /\ outstanding.data # << >> /\ IsMatch(re, outstanding.data)
          /\ pdip_look_for_regex(re, outstanding)
          /\ timeout' = Forever
       \/ /\ IF re = NoRegex THEN outstanding.sz = 0
             ELSE outstanding.data # << >> => ~IsMatch(re, outstanding.data)
          /\ display' = buffer
          /\ regex' = re /\ timeout' = to
          /\ pc' = "read"
          /\ rc' = "NONE"
          /\ UNCHANGED << outstanding, got >>
    /\ UNCHANGED << io, flow, sending >>

\* The buffer of the caller at the next call.
CallerBuffers == {Null, [data |-> << >>, sz |-> display.sz]}

\* regcomp() refuses the expression.
BadRegex ==
    /\ pc = "user"
    /\ Returns("EINVAL")
    /\ UNCHANGED << io, buffers, timeout, flow, sending >>

\* n characters were read in buffer d. In a call with timeout, some time has
\* passed; "elapsed" when none is left.
Received(d, elapsed) ==
    LET o == pdip_append_to_outstanding(outstanding, d)
    IN \/ /\ regex = NoRegex
          /\ Gives("DATA", outstanding, d)
       \/ /\ regex # NoRegex /\ IsMatch(regex, o.data)
          /\ pdip_look_for_regex(regex, o)
       \/ /\ regex # NoRegex /\ ~IsMatch(regex, o.data)
          /\ \/ ~elapsed /\ (flow => LastLine(o.data) = 0) /\ GoOn(o)
             \/ ~elapsed /\ flow /\ LastLine(o.data) # 0 /\ FlushLines(o)
             \/ elapsed /\ flow /\ FlushAll(o)
             \/ /\ elapsed /\ ~flow
                /\ outstanding' = o /\ display' = Null
                /\ UNCHANGED got
                /\ Returns("TIMEOUT")
       \* realloc() fails: the outstanding data are lost, the new ones are
       \* returned with the error.
       \/ /\ "append" \in MemoryFaults
          /\ regex # NoRegex /\ outstanding.sz > 0 /\ Enlarged(outstanding, d)
          /\ Gives("ENOMEM", Null, d)

\* select() then read(), or a blocking read(): as many characters as there
\* are and as the buffer holds, one place being kept for the NUL.
pdip_read ==
    /\ pc = "read" /\ pty # << >>
    /\ \E n \in 1..Len(pty), to \in 0..timeout \cup {timeout} :
           /\ n <= Room(display) - 1
           /\ pty' = Drop(pty, n)
           /\ Received([data |-> Take(pty, n), sz |-> Room(display)], to = 0)
           /\ timeout' = IF pc' = "read" \/ to = 0 THEN to ELSE Forever
    /\ UNCHANGED << running, state, written, flow, sending >>

\* Nothing came before the end of the timeout.
TimeoutElapsed ==
    /\ pc = "read" /\ timeout # Forever /\ pty = << >> /\ running
    /\ timeout' = Forever
    /\ Returns("TIMEOUT")
    /\ UNCHANGED << io, buffers, flow, sending >>

\* Mutant: the end of file is taken for an interruption.
ReadAgain ==
    /\ pc = "read" /\ pty = << >> /\ ~running
    /\ UNCHANGED vars

\* The program is dead and the terminal is empty.
ReadError ==
    /\ pc = "read" /\ pty = << >> /\ ~running
    /\ display' = [display EXCEPT !.sz = Room(display)]
    /\ Returns("EIO")
    /\ timeout' = Forever
    /\ UNCHANGED << io, outstanding, got, flow, sending >>

\* The buffer cannot be enlarged.
ReallocFails ==
    /\ "read" \in MemoryFaults
    /\ pc = "read" /\ (timeout # Forever => pty # << >> \/ ~running)
    /\ Room(display) > display.sz
    /\ display' = Null
    /\ Returns("ENOMEM")
    /\ timeout' = Forever
    /\ UNCHANGED << io, outstanding, got, flow, sending >>

\* pdip_flush() refuses an object whose program is dead but not waited for.
pdip_flush ==
    /\ pc = "user"
    /\ \/ state = "ZOMBIE" /\ rc' = "EPERM" /\ UNCHANGED << buffers, regex, pc >>
       \/ state # "ZOMBIE" /\ outstanding.sz > 0 /\ FlushAll(outstanding)
       \/ /\ state # "ZOMBIE" /\ outstanding.sz = 0
          /\ rc' = "NONE"
          /\ display' = [display EXCEPT !.data = << >>]
          /\ UNCHANGED << outstanding, got, regex, pc >>
    /\ UNCHANGED << io, timeout, flow, sending >>

-----------------------------------------------------------------------------
(* pdip_send().                                                            *)

Sends(answer) == pc' = "user" /\ rc' = answer

pdip_send ==
    /\ pc = "user" /\ msg < MaxMsgs
    /\ msg' = msg + 1 /\ l' = 0
    /\ \/ state = "ALIVE" /\ pc' = "write" /\ UNCHANGED << rc, short >>
       \/ state # "ALIVE" /\ Sends("REFUSED") /\ short' = short \cup {msg'}
    /\ UNCHANGED << io, buffers, args, input >>

\* Mutant: each write() begins at the start of the message.
WriteFromStart ==
    /\ pc = "write"
    /\ \E k \in 1..(MsgLen - l) :
           /\ l' = l + k
           /\ input' = input \o [i \in 1..k |-> << msg, i >>]
           /\ IF l' = MsgLen THEN Sends("SENT") ELSE UNCHANGED << pc, rc >>
    /\ UNCHANGED << io, buffers, args, msg, short >>

\* One write() of pdip_write(), which may be partial.
pdip_write ==
    /\ pc = "write"
    /\ \E k \in 1..(MsgLen - l) :
           /\ l' = l + k
           /\ input' = input \o [i \in 1..k |-> << msg, l + i >>]
           /\ IF l' = MsgLen THEN Sends("SENT") ELSE UNCHANGED << pc, rc >>
    /\ UNCHANGED << io, buffers, args, msg, short >>

\* write() fails once the program has left: what was written is reported when
\* the death is known, an error otherwise.
WriteError ==
    /\ pc = "write" /\ ~running
    /\ Sends(IF state # "ALIVE" /\ l > 0 THEN "PART" ELSE "FAILED")
    /\ short' = short \cup {msg}
    /\ UNCHANGED << io, buffers, args, msg, l, input >>

-----------------------------------------------------------------------------
Calls ==
    \/ \E re \in Regexes \cup {NoRegex}, to \in Timeouts \cup {Forever}, b \in CallerBuffers :
           pdip_recv(re, to, b)
    \/ BadRegex
    \/ pdip_flush
    \/ pdip_send
    \/ pdip_status

Receives == pdip_read \/ TimeoutElapsed \/ ReadError \/ ReallocFails
Emits == pdip_write \/ WriteError

Next == ProgramWrites \/ ProgramEnds \/ Sigchld \/ Calls \/ Receives \/ Emits

Spec == Init /\ [][Next]_vars

\* The calling thread runs once it is in the library, and time passes.
FairSpec == Spec /\ WF_vars(Receives) /\ WF_vars(Emits)

-----------------------------------------------------------------------------
Buffer == [data : Seq(Chars), sz : Nat]

TypeOK ==
    /\ pty \in Seq(Chars) /\ running \in BOOLEAN /\ written \in Nat
    /\ state \in {"ALIVE", "ZOMBIE", "DEAD"}
    /\ flow \in BOOLEAN
    /\ outstanding \in Buffer /\ display \in Buffer
    /\ got \in Seq(Chars)
    /\ regex \in Regexes \cup {NoRegex} /\ timeout \in Nat \cup {Forever}
    /\ pc \in {"user", "read", "write", "aborted", "crashed"}
    /\ msg \in Nat /\ l \in 0..MsgLen
    /\ input \in Seq(Nat \X Nat) /\ short \subseteq Nat

-----------------------------------------------------------------------------
(* Properties.                                                             *)

Fits(b) == Len(b.data) < b.sz \/ b = Null

\* Every buffer has room for the NUL that is written behind its text, however
\* buffers are enlarged, exchanged and cut; and there is no empty outstanding
\* data: a buffer kept by the object holds text.
BufferRoom ==
    /\ Fits(outstanding) /\ Fits(display)
    /\ outstanding.data = << >> => outstanding.sz = 0

\* Between two reads, the outstanding data do not contain the expression, and
\* a call without expression leaves none behind: what a call waits for is
\* never already in its hands.
NothingMissed ==
    pc = "read" =>
        IF regex = NoRegex THEN outstanding.sz = 0
        ELSE outstanding.data # << >> => ~IsMatch(regex, outstanding.data)

\* What holds of the object between two steps of a call.
RecvInv == TypeOK /\ BufferRoom /\ NothingMissed

\* The text given to the caller by the step that just ended.
JustGiven == Drop(got', Len(got))

\* Data given on the flow never cut a match: no occurrence of the expression
\* in the text begins before the end of what is given, although the rest of
\* the text comes later. (Unless the timeout has just elapsed.)
MatchNotCut ==
    [][ (/\ pc = "read" /\ pc' = "user" /\ rc' = "DATA"
         /\ regex # NoRegex /\ timeout' # 0)
        => \A i \in Matches(regex, JustGiven \o outstanding'.data \o pty') :
               i >= Len(JustGiven) ]_vars

\* Whatever was sent reached the program once and in order, and a message is
\* only incomplete when the call said so, although write() may be partial.
InputWhole ==
    /\ \A i, j \in 1..Len(input) : i < j =>
           \/ input[i][1] < input[j][1]
           \/ input[i][1] = input[j][1] /\ input[i][2] < input[j][2]
    /\ \A m \in 1..msg, k \in 1..MsgLen :
           \/ \E i \in 1..Len(input) : input[i] = << m, k >>
           \/ m \in short
           \/ m = msg /\ k > l

\* A call with a timeout returns, and so does any call once the program is dead:
\* its death wakes up a reader that waits for ever, after the text it has left.
CallReturns ==
    (\/ pc = "read" /\ timeout # Forever
     \/ pc \in {"read", "write"} /\ ~running)
    ~> (pc \notin {"read", "write"})

\* Reception implements a channel that keeps the order of the text and loses
\* nothing: the queue is the outstanding data, then the terminal.
Channel == INSTANCE TextChannel
    WITH queue <- outstanding.data \o pty,
         asked <- IF pc \in {"read", "aborted", "crashed"} THEN regex ELSE Idle,
         rc <- IF rc \in {"SENT", "PART", "FAILED", "REFUSED"} THEN "NONE" ELSE rc

ImplementsChannel == Channel!Spec
=============================================================================
