--------------------------- MODULE PdipRecvProofs ---------------------------
(***************************************************************************)
(* Theorems about PdipRecv, for every set of characters and of regular     *)
(* expressions, every increment of the buffers, every timeout, every bound *)
(* on the text and on the messages, and every set of memory faults.        *)
(*                                                                         *)
(* RecvInv is inductive as it stands once one knows where a match and a    *)
(* line end; the refinement of TextChannel needs besides that a call under *)
(* way has no answer yet.                                                  *)
(***************************************************************************)
EXTENDS PdipRecv, ListLemmas

-----------------------------------------------------------------------------
(* Regular expressions.                                                    *)

\* strlen() of a text is the number of characters before its first NUL.
LEMMA StrlenIs ==
  ASSUME NEW d \in Seq(Chars)
  PROVE  /\ strlen(d) \in 0..Len(d)
         /\ (\A i \in 1..Len(d) : d[i] # NUL) => strlen(d) = Len(d)
         /\ (\E i \in 1..Len(d) : d[i] = NUL) =>
                /\ strlen(d) < Len(d) /\ d[strlen(d) + 1] = NUL
                /\ \A j \in 1..strlen(d) : d[j] # NUL
BY FirstOccurrence DEF strlen

\* A match ends in the text, after one line feed at least if it is empty and
\* stands before one.
LEMMA MatchEndIs ==
  ASSUME NEW re \in Regex, NEW d \in Seq(Chars), d # << >>, IsMatch(re, d)
  PROVE  MatchEnd(re, d) \in 0..Len(d)
<1>0. Len(d) \in Nat /\ Len(d) >= 1 /\ Len(re.pat) \in Nat
  BY LenProperties, EmptySeq DEF Regex
<1>1. Matches(re, d) \subseteq 0..(strlen(d) - Len(re.pat)) /\ Matches(re, d) # {}
  BY DEF Matches, IsMatch
<1>2. Matches(re, d) \in SUBSET Nat
  BY <1>1
<1>3. \E i \in Matches(re, d) : \A j \in Matches(re, d) : i <= j
  BY <1>1, <1>2, LeastNat
<1> DEFINE m == CHOOSE i \in Matches(re, d) : \A j \in Matches(re, d) : i <= j
<1>4. m \in Matches(re, d)
  BY <1>3
<1>5. m \in 0..(strlen(d) - Len(re.pat)) /\ rm_eo(re, d) = Len(re.pat) + m
  BY <1>1, <1>4 DEF rm_eo
<1> HIDE DEF m
<1>6. strlen(d) \in 0..Len(d)
  BY StrlenIs
<1>7. rm_eo(re, d) \in 0..Len(d) /\ 1 \in 0..Len(d)
  BY <1>0, <1>5, <1>6
<1> QED BY <1>7 DEF MatchEnd

\* LastLine(d) is the place of the last line feed, or 0.
LEMMA LastLineIs ==
  ASSUME NEW d \in Seq(Chars)
  PROVE  /\ LastLine(d) \in 0..Len(d)
         /\ LastLine(d) # 0 => /\ d[LastLine(d)] = NL
                               /\ \A i \in 1..Len(d) : d[i] = NL => i <= LastLine(d)
<1> DEFINE S == {i \in 1..Len(d) : d[i] = NL}
<1>0. Len(d) \in Nat
  BY LenProperties
<1>1. CASE S = {}
  <2>1. LastLine(d) = 0
    BY <1>1 DEF LastLine
  <2> QED BY <1>0, <2>1
<1>2. CASE S # {}
  <2>1. S \in SUBSET (0..Len(d))
    BY <1>0
  <2>2. LastLine(d) = CHOOSE i \in S : \A j \in S : j <= i
    BY <1>2 DEF LastLine
  <2>3. \E i \in S : \A j \in S : j <= i
    <3> HIDE DEF S
    <3> QED BY <1>0, <1>2, <2>1, GreatestNat
  <2>4. LastLine(d) \in S /\ \A j \in S : j <= LastLine(d)
    <3> HIDE DEF S
    <3> QED BY <2>2, <2>3
  <2> QED BY <1>0, <2>4
<1> QED BY <1>1, <1>2

-----------------------------------------------------------------------------
(* Buffers.                                                                *)

\* What the object may keep: text with room for its NUL, or nothing.
Held(o) == Fits(o) /\ (o.data = << >> => o.sz = 0)

\* No buffer.
LEMMA NullIs == Null \in Buffer /\ Held(Null) /\ Null.data = << >> /\ Null.sz = 0
<1>1. << >> \in Seq(Chars)
  BY EmptySeq
<1> QED BY <1>1 DEF Null, Buffer, Held, Fits

\* A kept buffer without memory has no text, one with memory has some.
LEMMA HeldIs ==
  ASSUME NEW o \in Buffer, Held(o)
  PROVE  /\ o.data \in Seq(Chars) /\ Len(o.data) \in Nat /\ o.sz \in Nat
         /\ o.sz = 0 <=> o.data = << >>
         /\ o.sz # 0 => Len(o.data) < o.sz
<1>1. o.data \in Seq(Chars) /\ Len(o.data) \in Nat /\ o.sz \in Nat
  BY LenProperties DEF Buffer
<1>2. CASE o = Null
  BY <1>1, <1>2, NullIs
<1>3. CASE o # Null
  <2>1. Len(o.data) < o.sz
    BY <1>3 DEF Held, Fits
  <2>2. o.sz # 0
    BY <1>1, <2>1
  <2> QED BY <1>1, <2>1, <2>2 DEF Held
<1> QED BY <1>2, <1>3

\* Appending to the outstanding data leaves room for the NUL, whether memory
\* had to be enlarged or not.
LEMMA AppendIs ==
  ASSUME NEW o \in Buffer, Held(o), NEW d \in Buffer, d.data # << >>, Len(d.data) < d.sz
  PROVE  LET a == pdip_append_to_outstanding(o, d)
         IN /\ a \in Buffer /\ Held(a)
            /\ a.data = o.data \o d.data /\ a.data # << >>
            /\ Len(a.data) = Len(o.data) + Len(d.data) /\ Len(a.data) < a.sz
<1> DEFINE a == pdip_append_to_outstanding(o, d)
           t == o.data \o d.data
           x == Len(o.data)
           y == Len(d.data)
<1>0. /\ o.data \in Seq(Chars) /\ x \in Nat /\ o.sz \in Nat
      /\ o.sz = 0 <=> o.data = << >>
      /\ o.sz # 0 => x < o.sz
  BY HeldIs
<1>1. d.data \in Seq(Chars) /\ y \in Nat /\ y >= 1 /\ d.sz \in Nat
  BY LenProperties, EmptySeq DEF Buffer
<1>2. t \in Seq(Chars) /\ Len(t) = x + y
  BY <1>0, <1>1, ConcatProperties
<1>3. t # << >>
  <2>1. x + y # 0
    <3> HIDE DEF x, y
    <3> QED BY <1>0, <1>1
  <2> HIDE DEF t
  <2> QED BY <1>2, <2>1, EmptySeq
<1>4. CASE o.sz = 0
  <2>1. a = d /\ o.data = << >>
    BY <1>0, <1>4 DEF pdip_append_to_outstanding
  <2>2. t = d.data
    BY <2>1, <1>1, ConcatEmptySeq
  <2> QED BY <2>1, <2>2, <1>2 DEF Held, Fits
<1>5. CASE o.sz # 0
  <2>1. a = [data |-> t, sz |-> IF y > o.sz - (x + 1) THEN o.sz + y ELSE o.sz]
    BY <1>5 DEF pdip_append_to_outstanding, Enlarged
  <2> HIDE DEF a, t, x, y
  <2>2. a.data = t /\ a.sz = IF y > o.sz - (x + 1) THEN o.sz + y ELSE o.sz
    BY <2>1
  <2>3. a.sz \in Nat /\ x + y < a.sz
    BY <2>2, <1>0, <1>1, <1>5
  <2>4. a \in Buffer
    BY <2>1, <2>2, <2>3, <1>2 DEF Buffer
  <2>5. Held(a)
    BY <2>2, <2>3, <1>2, <1>3 DEF Held, Fits
  <2> QED BY <2>2, <2>3, <2>4, <2>5, <1>2, <1>3 DEF a, t, x, y
<1> QED BY <1>4, <1>5

\* The end of a text, duplicated.
LEMMA StrdupIs ==
  ASSUME NEW d \in Seq(Chars), NEW n \in 0..Len(d)
  PROVE  strdup(d, n) \in Buffer /\ Held(strdup(d, n)) /\ strdup(d, n).data = Drop(d, n)
<1>0. Len(d) \in Nat /\ Drop(d, n) \in Seq(Chars) /\ Len(Drop(d, n)) = Len(d) - n
  BY LenProperties, CutSeq DEF Drop
<1>1. CASE n = Len(d)
  <2>1. strdup(d, n) = Null
    BY <1>1 DEF strdup
  <2>2. Drop(d, n) = << >>
    BY <1>0, <1>1, EmptySeq
  <2> QED BY <2>1, <2>2, NullIs
<1>2. CASE n # Len(d)
  <2>1. strdup(d, n) = [data |-> Drop(d, n), sz |-> Len(d) - n + 1]
    BY <1>2 DEF strdup
  <2>2. Len(d) - n + 1 \in Nat /\ Len(d) - n < Len(d) - n + 1 /\ Len(d) - n # 0
    BY <1>0, <1>2
  <2>3. Drop(d, n) # << >>
    BY <1>0, <2>2, EmptySeq
  <2> QED BY <1>0, <2>1, <2>2, <2>3 DEF Buffer, Held, Fits
<1> QED BY <1>1, <1>2

\* The beginning of a text, left where it is.
LEMMA TakeIs ==
  ASSUME NEW o \in Buffer, Held(o), NEW n \in 0..Len(o.data), o.data # << >>
  PROVE  /\ [data |-> Take(o.data, n), sz |-> o.sz] \in Buffer
         /\ Fits([data |-> Take(o.data, n), sz |-> o.sz])
<1>1. o.data \in Seq(Chars) /\ Len(o.data) \in Nat /\ o.sz \in Nat /\ Len(o.data) < o.sz
  BY HeldIs
<1>2. Take(o.data, n) \in Seq(Chars) /\ Len(Take(o.data, n)) = n
  BY <1>1, CutSeq DEF Take
<1>3. n < o.sz
  BY <1>1
<1> QED BY <1>1, <1>2, <1>3 DEF Buffer, Fits

\* A buffer is enlarged before a read if it has to be.
LEMMA RoomIs ==
  ASSUME NEW b \in Buffer
  PROVE  Room(b) \in Nat /\ (Fits(b) => Len(b.data) < Room(b))
<1>1. Len(b.data) \in Nat /\ b.sz \in Nat
  BY LenProperties DEF Buffer
<1>2. Room(b) \in Nat /\ Room(b) >= b.sz
  BY <1>1, RecvAssumption DEF Room
<1>3. CASE b = Null
  <2>1. Len(b.data) = 0 /\ b.sz = 0
    BY <1>3, NullIs, EmptySeq
  <2> QED BY <1>2, <2>1, RecvAssumption DEF Room
<1>4. CASE b # Null
  BY <1>1, <1>2, <1>4 DEF Fits
<1> QED BY <1>3, <1>4

-----------------------------------------------------------------------------
(* RecvInv is inductive.                                                   *)

\* The part of RecvInv about the text, and about what is received.
Reception ==
    /\ outstanding \in Buffer /\ display \in Buffer /\ got \in Seq(Chars)
    /\ regex \in Regexes \cup {NoRegex}
    /\ pc \in {"user", "read", "write", "aborted", "crashed"}
    /\ BufferRoom /\ NothingMissed

\* The other part.
Others ==
    /\ pty \in Seq(Chars) /\ running \in BOOLEAN /\ written \in Nat
    /\ state \in {"ALIVE", "ZOMBIE", "DEAD"}
    /\ flow \in BOOLEAN /\ timeout \in Nat \cup {Forever}
    /\ msg \in Nat /\ l \in 0..MsgLen
    /\ input \in Seq(Nat \X Nat) /\ short \subseteq Nat

\* The two parts are RecvInv.
LEMMA RecvInvParts == RecvInv <=> Reception /\ Others
BY DEF RecvInv, Reception, Others, TypeOK

\* The data held by the object when RecvInv holds.
LEMMA OutstandingIs ==
  ASSUME Reception
  PROVE  outstanding \in Buffer /\ Held(outstanding)
BY DEF Reception, BufferRoom, Held

\* The steps that end a call keep the buffers in order.
LEMMA GivesKeeps ==
  ASSUME Reception, NEW o \in Buffer, Held(o), NEW d \in Buffer, Fits(d), NEW a, Gives(a, o, d)
  PROVE  Reception'
<1>1. got' \in Seq(Chars)
  <2>1. d.data \in Seq(Chars) /\ got \in Seq(Chars)
    BY DEF Buffer, Reception
  <2> QED BY <2>1, ConcatProperties DEF Gives
<1> QED BY <1>1 DEF Gives, Returns, Reception, BufferRoom, NothingMissed, Held, Fits

\* So does a failed assertion or a crash.
LEMMA DiesKeeps ==
  ASSUME Reception, NEW o \in Buffer, Held(o), NEW re \in Regexes \cup {NoRegex},
         NEW how \in {"aborted", "crashed"}, Dies(how, re, o)
  PROVE  Reception'
<1>1. Null \in Buffer /\ Fits(Null)
  BY NullIs DEF Held
<1> QED BY <1>1 DEF Dies, Reception, BufferRoom, NothingMissed, Held, Fits

\* So does the answer of pdip_look_for_regex() when there is a match.
LEMMA LookKeeps ==
  ASSUME Reception, NEW o \in Buffer, Held(o), o.data # << >>,
         NEW re \in Regexes, IsMatch(re, o.data), pdip_look_for_regex(re, o)
  PROVE  Reception'
<1> DEFINE n == MatchEnd(re, o.data)
<1>1. re \in Regex /\ o.data \in Seq(Chars)
  BY RecvAssumption DEF Buffer
<1>2. n \in 0..Len(o.data)
  BY <1>1, MatchEndIs
<1> HIDE DEF n
<1>3. CASE Gives("FOUND", strdup(o.data, n), [data |-> Take(o.data, n), sz |-> o.sz])
  BY <1>1, <1>2, <1>3, StrdupIs, TakeIs, GivesKeeps
<1>4. CASE Dies("aborted", re, o) \/ Dies("crashed", re, o)
  BY <1>4, DiesKeeps
<1> QED BY <1>3, <1>4 DEF pdip_look_for_regex, n

\* So does giving all the outstanding data.
LEMMA FlushAllKeeps ==
  ASSUME Reception, NEW o \in Buffer, Held(o), FlushAll(o)
  PROVE  Reception'
BY NullIs, GivesKeeps DEF FlushAll, Held

\* So does giving the complete lines only.
LEMMA FlushLinesKeeps ==
  ASSUME Reception, NEW o \in Buffer, Held(o), o.data # << >>, FlushLines(o)
  PROVE  Reception'
<1> DEFINE n == LastLine(o.data)
<1>1. o.data \in Seq(Chars)
  BY DEF Buffer
<1>2. n \in 0..Len(o.data)
  BY <1>1, LastLineIs
<1> HIDE DEF n
<1>3. CASE Gives("DATA", strdup(o.data, n), [data |-> Take(o.data, n), sz |-> o.sz])
  BY <1>1, <1>2, <1>3, StrdupIs, TakeIs, GivesKeeps
<1>4. CASE Dies("aborted", regex, o)
  BY <1>4, DiesKeeps DEF Reception
<1>5. CASE outstanding' = o /\ display' = Null /\ UNCHANGED got /\ Returns("ENOMEM")
  BY <1>5, NullIs DEF Returns, Reception, BufferRoom, NothingMissed, Held, Fits
<1> QED BY <1>3, <1>4, <1>5 DEF FlushLines, n

\* Whatever comes of a read keeps the buffers in order, and what is looked for
\* is not in the data that stay.
LEMMA ReceivedKeeps ==
  ASSUME Reception, pc = "read", NEW d \in Buffer, d.data # << >>, Len(d.data) < d.sz,
         NEW elapsed, Received(d, elapsed)
  PROVE  Reception'
<1> DEFINE o == pdip_append_to_outstanding(outstanding, d)
<1>0. outstanding \in Buffer /\ Held(outstanding) /\ Fits(d)
  BY OutstandingIs DEF Fits
<1>1. o \in Buffer /\ Held(o) /\ o.data # << >>
  BY <1>0, AppendIs
<1> HIDE DEF o
<1>2. regex \in Regexes \cup {NoRegex}
  BY DEF Reception
<1>3. CASE Gives("DATA", outstanding, d) \/ Gives("ENOMEM", Null, d)
  BY <1>0, <1>3, NullIs, GivesKeeps
<1>4. CASE regex # NoRegex /\ IsMatch(regex, o.data) /\ pdip_look_for_regex(regex, o)
  BY <1>1, <1>2, <1>4, LookKeeps
<1>5. CASE regex # NoRegex /\ ~IsMatch(regex, o.data) /\ GoOn(o)
  BY <1>1, <1>5, NullIs DEF GoOn, Reception, BufferRoom, NothingMissed, Held, Fits
<1>6. CASE FlushLines(o) \/ FlushAll(o)
  BY <1>1, <1>6, FlushLinesKeeps, FlushAllKeeps
<1>7. CASE outstanding' = o /\ display' = Null /\ UNCHANGED got /\ Returns("TIMEOUT")
  BY <1>1, <1>7, NullIs DEF Returns, Reception, BufferRoom, NothingMissed, Held, Fits
<1> QED BY <1>3, <1>4, <1>5, <1>6, <1>7 DEF Received, o

\* What a read takes from the terminal: at least one character, and no more than
\* the buffer holds with its NUL.
LEMMA ReadIs ==
  ASSUME Reception, Others, pdip_read
  PROVE  \E n \in 1..Len(pty), to \in Nat \cup {Forever} :
             LET d == [data |-> Take(pty, n), sz |-> Room(display)]
             IN /\ d \in Buffer /\ d.data # << >> /\ Len(d.data) < d.sz
                /\ pty' = Drop(pty, n) /\ pty' \in Seq(Chars)
                /\ Received(d, to = 0)
                /\ timeout' = (IF pc' = "read" \/ to = 0 THEN to ELSE Forever)
<1>0. pty \in Seq(Chars) /\ Len(pty) \in Nat /\ display \in Buffer
      /\ timeout \in Nat \cup {Forever}
  BY LenProperties DEF Reception, Others
<1>1. PICK n \in 1..Len(pty), to \in 0..timeout \cup {timeout} :
          /\ n <= Room(display) - 1
          /\ pty' = Drop(pty, n)
          /\ Received([data |-> Take(pty, n), sz |-> Room(display)], to = 0)
          /\ timeout' = IF pc' = "read" \/ to = 0 THEN to ELSE Forever
  BY DEF pdip_read
<1>2. to \in Nat \cup {Forever}
  BY <1>0 DEF Forever
<1>3. Room(display) \in Nat
  BY <1>0, RoomIs
<1>4. n \in 0..Len(pty) /\ n >= 1 /\ n < Room(display)
  BY <1>0, <1>1, <1>3
<1>5. Take(pty, n) \in Seq(Chars) /\ Len(Take(pty, n)) = n /\ Drop(pty, n) \in Seq(Chars)
  BY <1>0, <1>4, CutSeq DEF Take, Drop
<1>6. Take(pty, n) # << >>
  BY <1>4, <1>5, EmptySeq
<1> DEFINE d == [data |-> Take(pty, n), sz |-> Room(display)]
<1>7. d \in Buffer /\ d.data # << >> /\ Len(d.data) < d.sz
  BY <1>3, <1>4, <1>5, <1>6 DEF Buffer
<1> QED BY <1>1, <1>2, <1>5, <1>7

\* Each step of a reception, of an emission and of the program keeps RecvInv.
LEMMA RecvStep ==
  ASSUME RecvInv, [Next]_vars
  PROVE  RecvInv'
<1> USE DEF Forever
<1>0. Reception /\ Others
  BY RecvInvParts
<1>1. SUFFICES Reception' /\ Others'
  BY DEF RecvInv, Reception, Others, TypeOK
<1>2. ASSUME UNCHANGED << outstanding, display, got, regex, pc >> PROVE Reception'
  BY <1>0, <1>2 DEF Reception, BufferRoom, NothingMissed, Fits
<1>3. ASSUME UNCHANGED << outstanding, display, got, regex >>, pc' \in {"user", "write"}
      PROVE  Reception'
  BY <1>0, <1>3 DEF Reception, BufferRoom, NothingMissed, Fits
<1>4. CASE ProgramWrites
  <2>1. Reception'
    BY <1>2, <1>4 DEF ProgramWrites, buffers, args
  <2>2. pty' \in Seq(Chars)
    BY <1>0, <1>4, AppendProperties DEF ProgramWrites, Others
  <2> QED BY <1>0, <1>4, <2>1, <2>2 DEF ProgramWrites, Others, args, sending
<1>5. CASE ProgramEnds \/ Sigchld \/ pdip_status
  <2>1. Reception'
    BY <1>2, <1>5 DEF ProgramEnds, Sigchld, pdip_status, buffers, args
  <2> QED BY <1>0, <1>5, <2>1 DEF ProgramEnds, Sigchld, pdip_status, Others, args, sending
<1>6. ASSUME NEW re \in Regexes \cup {NoRegex}, NEW to \in Timeouts \cup {Forever},
             NEW b \in CallerBuffers, pdip_recv(re, to, b)
      PROVE  Reception' /\ Others'
  <2>1. timeout' \in Nat \cup {Forever}
    BY <1>6, RecvAssumption DEF pdip_recv
  <2>2. Others'
    BY <1>0, <1>6, <2>1 DEF pdip_recv, Others, io, sending
  <2>3. outstanding \in Buffer /\ Held(outstanding)
    BY <1>0, OutstandingIs
  <2>4. CASE FlushAll(outstanding)
    BY <1>0, <2>2, <2>3, <2>4, FlushAllKeeps
  <2>5. CASE /\ re # NoRegex /\ outstanding.data # << >> /\ IsMatch(re, outstanding.data)
             /\ pdip_look_for_regex(re, outstanding)
    BY <1>0, <2>2, <2>3, <2>5, LookKeeps
  <2>6. CASE /\ IF re = NoRegex THEN outstanding.sz = 0
                ELSE outstanding.data # << >> => ~IsMatch(re, outstanding.data)
             /\ display' = b /\ regex' = re /\ pc' = "read"
             /\ UNCHANGED << outstanding, got >>
    <3>1. b \in Buffer /\ Fits(b)
      <4>1. CASE b = Null
        BY <4>1, NullIs DEF Held
      <4>2. CASE b = [data |-> << >>, sz |-> display.sz]
        <5>1. display.sz \in Nat /\ << >> \in Seq(Chars) /\ Len(<< >>) = 0
          BY <1>0, EmptySeq DEF Reception, Buffer
        <5>2. CASE display.sz = 0
          BY <4>2, <5>2, NullIs DEF Held, Null
        <5>3. CASE display.sz # 0
          BY <4>2, <5>1, <5>3 DEF Buffer, Fits
        <5> QED BY <5>2, <5>3
      <4> QED BY <4>1, <4>2 DEF CallerBuffers
    <3> QED BY <1>0, <2>2, <2>6, <3>1 DEF Reception, BufferRoom, NothingMissed, Fits
  <2> QED BY <1>6, <2>4, <2>5, <2>6 DEF pdip_recv
<1>7. CASE BadRegex
  <2>1. Reception'
    BY <1>0, <1>7 DEF BadRegex, Returns, buffers, Reception, BufferRoom, NothingMissed, Fits
  <2> QED BY <1>0, <1>7, <2>1 DEF BadRegex, Others, io, sending
<1>8. CASE pdip_flush
  <2>1. Others'
    BY <1>0, <1>8 DEF pdip_flush, Others, io, sending
  <2>2. CASE UNCHANGED << buffers, regex, pc >>
    BY <1>2, <2>1, <2>2 DEF buffers
  <2>3. CASE FlushAll(outstanding)
    BY <1>0, <2>1, <2>3, OutstandingIs, FlushAllKeeps
  <2>4. CASE display' = [display EXCEPT !.data = << >>] /\ UNCHANGED << outstanding, got, regex, pc >>
    <3>1. display'.data = << >> /\ display'.sz = display.sz /\ display' \in Buffer
      BY <1>0, <2>4, EmptySeq DEF Reception, Buffer
    <3>2. display.sz \in Nat /\ display' = [data |-> << >>, sz |-> display.sz]
      BY <1>0, <2>4 DEF Reception, Buffer
    <3>3. CASE display.sz = 0
      <4>1. display' = Null
        BY <3>2, <3>3 DEF Null
      <4> QED BY <1>0, <2>1, <2>4, <4>1, NullIs DEF Held, Reception, BufferRoom, NothingMissed, Fits
    <3>4. CASE display.sz # 0
      <4>1. Fits(display')
        BY <3>1, <3>2, <3>4, EmptySeq DEF Fits
      <4> QED BY <1>0, <2>1, <2>4, <3>1, <4>1 DEF Reception, BufferRoom, NothingMissed, Fits
    <3> QED BY <3>3, <3>4
  <2> QED BY <1>8, <2>2, <2>3, <2>4 DEF pdip_flush
<1>9. CASE pdip_send
  <2>1. Reception'
    BY <1>3, <1>9 DEF pdip_send, Sends, buffers, args
  <2>2. msg' \in Nat /\ l' = 0 /\ short' \in {short, short \cup {msg'}}
    BY <1>0, <1>9 DEF pdip_send, Others
  <2>3. l' \in 0..MsgLen /\ short' \subseteq Nat
    BY <1>0, <2>2, RecvAssumption DEF Others
  <2> QED BY <1>0, <1>9, <2>1, <2>2, <2>3 DEF pdip_send, Others, io, args
<1>10. CASE pdip_read
  <2>1. PICK n \in 1..Len(pty), to \in Nat \cup {Forever} :
             LET d == [data |-> Take(pty, n), sz |-> Room(display)]
             IN /\ d \in Buffer /\ d.data # << >> /\ Len(d.data) < d.sz
                /\ pty' = Drop(pty, n) /\ pty' \in Seq(Chars)
                /\ Received(d, to = 0)
                /\ timeout' = (IF pc' = "read" \/ to = 0 THEN to ELSE Forever)
    BY <1>0, <1>10, ReadIs
  <2>2. Reception'
    BY <1>0, <1>10, <2>1, ReceivedKeeps DEF pdip_read
  <2>3. timeout' \in Nat \cup {Forever}
    BY <2>1
  <2> QED BY <1>0, <1>10, <2>1, <2>2, <2>3 DEF pdip_read, Others, sending
<1>11. CASE TimeoutElapsed
  <2>1. Reception'
    BY <1>3, <1>11, <1>0 DEF TimeoutElapsed, Returns, buffers, Reception, BufferRoom, NothingMissed, Fits
  <2> QED BY <1>0, <1>11, <2>1 DEF TimeoutElapsed, Others, io, sending
<1>12. CASE ReadError
  <2>1. Others'
    BY <1>0, <1>12 DEF ReadError, Others, io, sending
  <2>2. display' \in Buffer /\ Fits(display')
    <3>1. /\ Room(display) \in Nat /\ Len(display.data) < Room(display)
          /\ display \in Buffer
      BY <1>0, RoomIs DEF Reception, BufferRoom
    <3>2. display' = [data |-> display.data, sz |-> Room(display)]
      BY <1>12, <3>1 DEF ReadError, Buffer
    <3> QED BY <3>1, <3>2 DEF Buffer, Fits
  <2> QED BY <1>0, <1>12, <2>1, <2>2 DEF ReadError, Returns, Reception, BufferRoom, NothingMissed, Fits
<1>13. CASE ReallocFails
  <2>1. Others'
    BY <1>0, <1>13 DEF ReallocFails, Others, io, sending
  <2> QED BY <1>0, <1>13, <2>1, NullIs DEF Held, ReallocFails, Returns, Reception, BufferRoom,
                                           NothingMissed, Fits
<1>14. CASE pdip_write
  <2>1. Reception'
    BY <1>0, <1>14 DEF pdip_write, Sends, buffers, args, Reception, BufferRoom, NothingMissed, Fits
  <2>2. PICK k \in 1..(MsgLen - l) : l' = l + k /\ input' = input \o [i \in 1..k |-> << msg, l + i >>]
    BY <1>14 DEF pdip_write
  <2>3. l \in Nat /\ msg \in Nat /\ k \in Nat /\ input \in Seq(Nat \X Nat) /\ l' \in 0..MsgLen
    BY <1>0, <2>2, RecvAssumption DEF Others
  <2>4. input' \in Seq(Nat \X Nat)
    <3>1. [i \in 1..k |-> << msg, l + i >>] \in Seq(Nat \X Nat)
      <4> DEFINE e(i) == << msg, l + i >>
      <4>1. \A i \in 1..k : e(i) \in Nat \X Nat
        BY <2>3
      <4> HIDE DEF e
      <4>2. [i \in 1..k |-> e(i)] \in Seq(Nat \X Nat)
        BY <2>3, <4>1
      <4> QED BY <4>2 DEF e
    <3> QED BY <2>2, <2>3, <3>1, ConcatProperties
  <2> QED BY <1>0, <1>14, <2>1, <2>3, <2>4 DEF pdip_write, Others, io, args
<1>15. CASE WriteError
  <2>1. Reception'
    BY <1>3, <1>15 DEF WriteError, Sends, buffers, args
  <2> QED BY <1>0, <1>15, <2>1 DEF WriteError, Others, io, args
<1>16. CASE UNCHANGED vars
  BY <1>0, <1>2, <1>16 DEF vars, io, buffers, args, sending, Others
<1> QED BY <1>4, <1>5, <1>6, <1>7, <1>8, <1>9, <1>10, <1>11, <1>12, <1>13, <1>14, <1>15, <1>16
    DEF Next, Calls, Receives, Emits

\* At any time, while the program writes and dies, every buffer has room for its
\* NUL, no expression that has come is still waited for, and types are right.
THEOREM RecvCorrect == Spec => []RecvInv
<1>1. Init => RecvInv
  <2> SUFFICES ASSUME Init PROVE RecvInv
    OBVIOUS
  <2>1. << >> \in Seq(Chars) /\ << >> \in Seq(Nat \X Nat)
    BY EmptySeq
  <2>2. Reception
    BY NullIs DEF Init, Reception, BufferRoom, NothingMissed, Held
  <2>3. Others
    BY <2>1, RecvAssumption DEF Init, Others, Forever
  <2> QED BY <2>2, <2>3, RecvInvParts
<1> QED BY <1>1, RecvStep, PTL DEF Spec

-----------------------------------------------------------------------------
(* What is sent.                                                           *)

\* Where an emission stands: what was written belongs to messages already
\* begun, up to l for the last one, which is over, or cut short, when no
\* emission is under way.
EmissionInv ==
    /\ pc = "write" => l < MsgLen /\ msg > 0
    /\ pc # "write" => l = MsgLen \/ msg \in short \/ msg = 0
    /\ \A i \in 1..Len(input) :
           /\ input[i][1] \in 1..msg /\ input[i][2] \in 1..MsgLen
           /\ input[i][1] = msg => input[i][2] <= l

\* The steps of a reception and of the program leave the emission alone.
LEMMA NotEmission ==
  ASSUME RecvInv, [Next]_vars, ~pdip_send, ~Emits
  PROVE  UNCHANGED sending /\ (pc' = "write" <=> pc = "write")
<1>1. CASE ProgramWrites \/ ProgramEnds \/ Sigchld \/ pdip_status \/ BadRegex
  BY <1>1 DEF ProgramWrites, ProgramEnds, Sigchld, pdip_status, BadRegex, Returns
<1>2. ASSUME NEW re \in Regexes \cup {NoRegex}, NEW to \in Timeouts \cup {Forever},
             NEW b \in CallerBuffers, pdip_recv(re, to, b)
      PROVE  UNCHANGED sending /\ pc = "user" /\ pc' # "write"
  BY <1>2 DEF pdip_recv, pdip_look_for_regex, FlushAll, Gives, Returns, Dies
<1>3. CASE pdip_flush
  BY <1>3 DEF pdip_flush, FlushAll, Gives, Returns
<1>4. CASE pdip_read
  <2>1. PICK n, to : Received([data |-> Take(pty, n), sz |-> Room(display)], to)
    BY <1>4 DEF pdip_read
  <2>2. pc' # "write"
    BY <1>4, <2>1 DEF pdip_read, Received, pdip_look_for_regex, FlushAll, FlushLines, GoOn, Gives, Returns, Dies
  <2> QED BY <1>4, <2>2 DEF pdip_read
<1>5. CASE TimeoutElapsed \/ ReadError \/ ReallocFails
  BY <1>5 DEF TimeoutElapsed, ReadError, ReallocFails, Returns
<1>6. CASE UNCHANGED vars
  BY <1>6 DEF vars
<1> QED BY <1>1, <1>2, <1>3, <1>4, <1>5, <1>6 DEF Next, Calls, Receives

\* Each step keeps what is known of the emission.
LEMMA EmissionStep ==
  ASSUME RecvInv, EmissionInv, InputWhole, [Next]_vars
  PROVE  EmissionInv' /\ InputWhole'
<1>0. /\ msg \in Nat /\ l \in 0..MsgLen /\ MsgLen \in Nat /\ MsgLen > 0
      /\ input \in Seq(Nat \X Nat) /\ Len(input) \in Nat /\ short \subseteq Nat
  BY RecvAssumption, LenProperties DEF RecvInv, TypeOK
<1>1. CASE ~pdip_send /\ ~Emits
  <2>1. UNCHANGED sending /\ (pc' = "write" <=> pc = "write")
    BY <1>1, NotEmission
  <2> QED BY <2>1 DEF sending, EmissionInv, InputWhole
<1>2. CASE pdip_send
  <2>1. /\ msg' = msg + 1 /\ l' = 0 /\ input' = input /\ pc = "user"
        /\ \/ pc' = "write" /\ short' = short
           \/ pc' = "user" /\ short' = short \cup {msg'}
    BY <1>2 DEF pdip_send, Sends
  <2>2. EmissionInv'
    BY <1>0, <2>1 DEF EmissionInv
  <2>3. ASSUME NEW m \in 1..msg', NEW k \in 1..MsgLen
        PROVE  \/ \E i \in 1..Len(input') : input'[i] = << m, k >>
               \/ m \in short'
               \/ m = msg' /\ k > l'
    <3>1. CASE m = msg'
      BY <1>0, <2>1, <3>1
    <3>2. CASE m # msg'
      <4>1. m \in 1..msg /\ msg # 0
        BY <1>0, <2>1, <3>2
      <4>2. \/ \E i \in 1..Len(input) : input[i] = << m, k >>
            \/ m \in short
            \/ m = msg /\ k > l
        BY <4>1 DEF InputWhole
      <4>3. CASE m = msg /\ k > l
        <5>1. m \in short
          BY <1>0, <2>1, <4>1, <4>3 DEF EmissionInv
        <5> QED BY <2>1, <5>1
      <4> QED BY <2>1, <4>2, <4>3
    <3> QED BY <3>1, <3>2
  <2>4. InputWhole'
    BY <2>1, <2>3 DEF InputWhole
  <2> QED BY <2>2, <2>4
<1>3. CASE pdip_write
  <2>1. PICK k \in 1..(MsgLen - l) :
             /\ l' = l + k
             /\ input' = input \o [i \in 1..k |-> << msg, l + i >>]
             /\ IF l' = MsgLen THEN Sends("SENT") ELSE UNCHANGED << pc, rc >>
    BY <1>3 DEF pdip_write
  <2>2. pc = "write" /\ UNCHANGED << msg, short >> /\ k \in Nat /\ k >= 1 /\ l + k <= MsgLen
    BY <1>0, <1>3, <2>1 DEF pdip_write
  <2> DEFINE e == [i \in 1..k |-> << msg, l + i >>]
             n == Len(input)
  <2>3. e \in Seq(Nat \X Nat) /\ Len(e) = k /\ \A i \in 1..k : e[i] = << msg, l + i >>
    <3> DEFINE f(i) == << msg, l + i >>
    <3>1. \A i \in 1..k : f(i) \in Nat \X Nat
      BY <1>0, <2>2
    <3> HIDE DEF f
    <3>2. /\ [i \in 1..k |-> f(i)] \in Seq(Nat \X Nat) /\ Len([i \in 1..k |-> f(i)]) = k
          /\ \A i \in 1..k : [j \in 1..k |-> f(j)][i] = f(i)
      BY <2>2, <3>1
    <3> QED BY <3>2 DEF f
  <2> HIDE DEF e
  <2>4. /\ Len(input') = n + k
        /\ \A i \in 1..(n + k) : input'[i] = IF i <= n THEN input[i] ELSE e[i - n]
    <3>1. input \in Seq(Nat \X Nat) /\ input' = input \o e
      BY <1>0, <2>1 DEF e
    <3>2. /\ Len(input \o e) = Len(input) + Len(e)
          /\ \A i \in 1..(Len(input) + Len(e)) :
                 (input \o e)[i] = IF i <= Len(input) THEN input[i] ELSE e[i - Len(input)]
      BY <2>3, <3>1, ConcatProperties
    <3> QED BY <2>3, <3>1, <3>2
  <2>5. ASSUME NEW i \in 1..(n + k), i > n
        PROVE  input'[i] = << msg, l + (i - n) >> /\ i - n \in 1..k
    <3>1. i - n \in 1..k
      BY <1>0, <2>2, <2>5
    <3> QED BY <1>0, <2>3, <2>4, <2>5, <3>1
  <2>6. ASSUME NEW i \in 1..n PROVE input'[i] = input[i]
    BY <1>0, <2>2, <2>4
  <2>7. (pc' = "write" /\ l' < MsgLen) \/ (pc' = "user" /\ l' = MsgLen)
    <3>1. l' \in Nat /\ l' <= MsgLen
      BY <1>0, <2>1, <2>2
    <3>2. CASE l' = MsgLen
      BY <2>1, <3>2 DEF Sends
    <3>3. CASE l' # MsgLen
      <4>1. pc' = "write"
        BY <2>1, <2>2, <3>3
      <4>2. l' < MsgLen
        BY <1>0, <3>1, <3>3
      <4> QED BY <4>1, <4>2
    <3> QED BY <3>2, <3>3
  <2> HIDE DEF n
  <2>8. n \in Nat /\ msg' = msg /\ short' = short /\ l' = l + k
    BY <1>0, <2>1, <2>2 DEF n
  <2>9. \A i \in 1..n : /\ input[i][1] \in 1..msg /\ input[i][2] \in 1..MsgLen
                        /\ input[i][1] = msg => input[i][2] <= l
    BY DEF EmissionInv, n
  <2>10. msg \in 1..msg
    BY <1>0, <2>2 DEF EmissionInv
  <2>11. ASSUME NEW i \in 1..(n + k)
         PROVE  /\ input'[i][1] \in 1..msg /\ input'[i][2] \in 1..MsgLen
                /\ input'[i][1] = msg => input'[i][2] <= l + k
    <3>1. CASE i > n
      <4>1. input'[i][1] = msg /\ input'[i][2] = l + (i - n) /\ i - n \in 1..k
        BY <2>5, <3>1
      <4>2. l + (i - n) \in 1..MsgLen /\ l + (i - n) <= l + k
        <5> DEFINE z == i - n
        <5>1. z \in Nat /\ z >= 1 /\ z <= k /\ l \in Nat /\ l + k <= MsgLen /\ MsgLen \in Nat
          BY <1>0, <2>2, <4>1
        <5> HIDE DEF z
        <5>2. l + z \in 1..MsgLen /\ l + z <= l + k
          BY <2>2, <5>1
        <5> QED BY <5>2 DEF z
      <4> QED BY <2>10, <4>1, <4>2
    <3>2. CASE ~(i > n)
      <4>1. i \in 1..n
        BY <2>8, <3>2
      <4>2. input'[i] = input[i]
        BY <2>6, <4>1
      <4>3. input[i][2] <= l => input[i][2] <= l + k
        BY <1>0, <2>2, <2>9, <4>1
      <4> QED BY <2>9, <4>1, <4>2, <4>3
    <3> QED BY <3>1, <3>2
  <2>12. EmissionInv'
    BY <1>0, <2>4, <2>7, <2>8, <2>10, <2>11 DEF EmissionInv
  <2>13. ASSUME NEW i \in 1..(n + k), NEW j \in 1..(n + k), i < j
         PROVE  \/ input'[i][1] < input'[j][1]
                \/ input'[i][1] = input'[j][1] /\ input'[i][2] < input'[j][2]
    <3>1. CASE j <= n
      <4>1. i \in 1..n /\ j \in 1..n
        BY <2>8, <2>13, <3>1
      <4>2. input'[i] = input[i] /\ input'[j] = input[j]
        BY <2>6, <4>1
      <4> QED BY <2>13, <4>1, <4>2 DEF InputWhole, n
    <3>2. CASE i <= n /\ j > n
      <4>1. i \in 1..n /\ input'[i] = input[i]
        BY <2>6, <2>8, <3>2
      <4>2. input'[j][1] = msg /\ input'[j][2] = l + (j - n) /\ j - n \in 1..k
        BY <2>5, <3>2
      <4>3. /\ input[i][1] \in 1..msg /\ input[i][2] \in 1..MsgLen
            /\ input[i][1] = msg => input[i][2] <= l
        BY <2>9, <4>1
      <4>4. input[i][1] < msg \/ (input[i][1] = msg /\ input[i][2] < l + (j - n))
        <5> DEFINE x == input[i][1]
                   y == input[i][2]
                   z == j - n
        <5>1. z \in Nat /\ z > 0
          BY <2>2, <4>2
        <5>2. x \in 1..msg /\ y \in 1..MsgLen /\ (x = msg => y <= l)
          BY <4>3
        <5> HIDE DEF x, y, z
        <5>3. msg \in Nat /\ l \in Nat /\ MsgLen \in Nat
          BY <1>0
        <5>4. x < msg \/ (x = msg /\ y < l + z)
          BY <5>1, <5>2, <5>3
        <5> QED BY <5>4 DEF x, y, z
      <4> QED BY <4>1, <4>2, <4>4
    <3>3. CASE i > n
      <4>1. j > n
        BY <2>8, <2>13, <3>3
      <4>2. /\ input'[i][1] = msg /\ input'[i][2] = l + (i - n)
            /\ input'[j][1] = msg /\ input'[j][2] = l + (j - n)
        BY <2>5, <3>3, <4>1
      <4>3. l + (i - n) < l + (j - n)
        BY <1>0, <2>8, <2>13
      <4> QED BY <4>2, <4>3
    <3> QED BY <2>8, <3>1, <3>2, <3>3
  <2>14. ASSUME NEW m \in 1..msg, NEW h \in 1..MsgLen
         PROVE  \/ \E i \in 1..(n + k) : input'[i] = << m, h >>
                \/ m \in short
                \/ m = msg /\ h > l + k
    <3>1. CASE \E i \in 1..n : input[i] = << m, h >>
      <4>1. PICK i \in 1..n : input[i] = << m, h >>
        BY <3>1
      <4>2. i \in 1..(n + k) /\ input'[i] = << m, h >>
        BY <2>2, <2>6, <2>8, <4>1
      <4> QED BY <4>2
    <3>2. CASE m = msg /\ h > l
      <4>1. CASE h > l + k
        BY <3>2, <4>1
      <4>2. CASE ~(h > l + k)
        <5> DEFINE i == n + (h - l)
        <5>1. i \in 1..(n + k) /\ i > n /\ l + (i - n) = h
          BY <1>0, <2>2, <2>8, <3>2, <4>2
        <5> HIDE DEF i
        <5>2. input'[i] = << m, h >>
          BY <2>5, <3>2, <5>1
        <5> QED BY <5>1, <5>2
      <4> QED BY <4>1, <4>2
    <3> QED BY <3>1, <3>2 DEF InputWhole, n
  <2>15. InputWhole'
    BY <2>4, <2>8, <2>13, <2>14 DEF InputWhole
  <2> QED BY <2>12, <2>15
<1>4. CASE WriteError
  <2>1. pc' = "user" /\ short' = short \cup {msg} /\ UNCHANGED << msg, l, input >>
    BY <1>4 DEF WriteError, Sends
  <2> QED BY <2>1 DEF EmissionInv, InputWhole
<1> QED BY <1>1, <1>2, <1>3, <1>4 DEF Emits

\* What the program is sent comes once and in order, and a message is complete
\* unless the call told otherwise, however write() cuts messages.
THEOREM InputIsWhole == Spec => []InputWhole
<1>1. Init => EmissionInv /\ InputWhole
  <2> SUFFICES ASSUME Init PROVE EmissionInv /\ InputWhole
    OBVIOUS
  <2>1. input = << >> /\ Len(input) = 0 /\ msg = 0 /\ pc = "user"
    BY EmptySeq DEF Init
  <2> QED BY <2>1 DEF EmissionInv, InputWhole
<1>2. RecvInv /\ EmissionInv /\ InputWhole /\ [Next]_vars => EmissionInv' /\ InputWhole'
  BY EmissionStep
<1> QED BY <1>1, <1>2, RecvCorrect, PTL DEF Spec

-----------------------------------------------------------------------------
(* Matches and lines.                                                      *)

\* The first NUL of a text is where it was before more text came.
LEMMA StrlenConcat ==
  ASSUME NEW o \in Seq(Chars), NEW p \in Seq(Chars)
  PROVE  \/ strlen(o \o p) = strlen(o)
         \/ strlen(o) = Len(o) /\ strlen(o \o p) >= Len(o)
<1> DEFINE w == o \o p
           x == strlen(o)
           y == strlen(w)
<1>1. /\ w \in Seq(Chars) /\ Len(w) = Len(o) + Len(p) /\ Len(o) \in Nat /\ Len(p) \in Nat
      /\ \A i \in 1..Len(o) : w[i] = o[i]
  BY LenProperties, ConcatProperties
<1> HIDE DEF w
<1>2. /\ x \in 0..Len(o)
      /\ (\A i \in 1..Len(o) : o[i] # NUL) => x = Len(o)
      /\ (\E i \in 1..Len(o) : o[i] = NUL) =>
             x < Len(o) /\ o[x + 1] = NUL /\ \A j \in 1..x : o[j] # NUL
  BY StrlenIs
<1>3. /\ y \in 0..Len(w)
      /\ (\A i \in 1..Len(w) : w[i] # NUL) => y = Len(w)
      /\ (\E i \in 1..Len(w) : w[i] = NUL) =>
             y < Len(w) /\ w[y + 1] = NUL /\ \A j \in 1..y : w[j] # NUL
  BY <1>1, StrlenIs
<1> HIDE DEF x, y
<1>4. CASE \E i \in 1..Len(o) : o[i] = NUL
  <2>1. x + 1 \in 1..Len(o) /\ x + 1 \in 1..Len(w) /\ w[x + 1] = NUL
    BY <1>1, <1>2, <1>4
  <2>2. w[y + 1] = NUL /\ \A j \in 1..y : w[j] # NUL
    BY <1>3, <2>1
  <2>3. ~(x + 1 <= y)
    <3>1. x + 1 <= y => x + 1 \in 1..y
      BY <1>2, <1>3, <1>1
    <3> QED BY <2>1, <2>2, <3>1
  <2>4. ~(y + 1 <= x)
    <3>1. y + 1 <= x => y + 1 \in 1..x /\ y + 1 \in 1..Len(o)
      BY <1>2, <1>3, <1>1
    <3> QED BY <1>1, <1>2, <1>4, <2>2, <3>1
  <2>5. y = x
    BY <1>1, <1>2, <1>3, <2>3, <2>4
  <2> QED BY <2>5 DEF x, y, w
<1>5. CASE \A i \in 1..Len(o) : o[i] # NUL
  <2>1. x = Len(o)
    BY <1>2, <1>5
  <2>2. y >= Len(o)
    <3>1. CASE \A i \in 1..Len(w) : w[i] # NUL
      BY <1>1, <1>3, <3>1
    <3>2. CASE \E i \in 1..Len(w) : w[i] = NUL
      <4>1. w[y + 1] = NUL /\ y \in Nat
        BY <1>1, <1>3, <3>2
      <4>2. y + 1 \notin 1..Len(o)
        BY <1>1, <1>5, <4>1
      <4> QED BY <1>1, <4>1, <4>2
    <3> QED BY <3>1, <3>2
  <2> QED BY <2>1, <2>2 DEF x, y, w
<1> QED BY <1>4, <1>5

\* Text that comes later adds no match before the last line feed of a text
\* without match, if the expression stands in one line.
LEMMA NotCut ==
  ASSUME NEW re \in Regex, \A j \in 1..Len(re.pat) : re.pat[j] # NL,
         NEW o \in Seq(Chars), NEW p \in Seq(Chars), ~IsMatch(re, o), LastLine(o) # 0,
         NEW i \in Matches(re, o \o p)
  PROVE  i >= LastLine(o)
<1> DEFINE w == o \o p
           m == Len(re.pat)
           n == LastLine(o)
<1>1. /\ w \in Seq(Chars) /\ Len(w) = Len(o) + Len(p) /\ Len(o) \in Nat /\ Len(p) \in Nat
      /\ \A j \in 1..Len(o) : w[j] = o[j]
  BY LenProperties, ConcatProperties
<1>2. re.pat \in Seq(Chars) /\ m \in Nat
  BY LenProperties DEF Regex
<1>3. n \in 1..Len(o) /\ o[n] = NL
  BY <1>1, LastLineIs
<1>4. strlen(w) \in 0..Len(w) /\ strlen(o) \in 0..Len(o)
  BY <1>1, StrlenIs
<1>5. strlen(w) = strlen(o) \/ (strlen(o) = Len(o) /\ strlen(w) >= Len(o))
  BY StrlenConcat
<1>6. /\ i \in 0..(strlen(w) - m)
      /\ SubSeq(w, i + 1, i + m) = re.pat
      /\ re.bol => i = 0 \/ w[i] = NL
      /\ re.eol => i + m = strlen(w) \/ w[i + m + 1] = NL
  BY DEF Matches
<1> HIDE DEF w, m, n
<1>7. i \in Nat /\ i + m <= Len(w)
  BY <1>1, <1>2, <1>4, <1>6
<1>8. SUFFICES ASSUME i < n PROVE FALSE
  BY <1>1, <1>3, <1>7 DEF n
<1>9. \A j \in 1..m : re.pat[j] = w[i + j]
  <2>1. \A j \in (i + 1)..(i + m) : w[j] \in Chars
    BY <1>1, <1>7, <1>2, LenProperties
  <2>2. \A j \in 1..((i + m) - (i + 1) + 1) : SubSeq(w, i + 1, i + m)[j] = w[(i + 1) + j - 1]
    <3> DEFINE a == i + 1
               b == i + m
    <3>1. a \in Int /\ b \in Int /\ \A j \in a..b : w[j] \in Chars
      BY <1>2, <1>7, <2>1
    <3> HIDE DEF a, b
    <3>2. \A j \in 1..(b - a + 1) : SubSeq(w, a, b)[j] = w[a + j - 1]
      BY <3>1, SubSeqProperties
    <3> QED BY <3>2 DEF a, b
  <2> TAKE j \in 1..m
  <2>3. j \in 1..((i + m) - (i + 1) + 1) /\ (i + 1) + j - 1 = i + j
    BY <1>2, <1>7
  <2> QED BY <1>6, <2>2, <2>3
<1>10. i + m < n
  <2> SUFFICES ASSUME ~(i + m < n) PROVE FALSE
    OBVIOUS
  <2>1. n - i \in 1..m /\ i + (n - i) = n
    BY <1>1, <1>2, <1>3, <1>7, <1>8
  <2>2. re.pat[n - i] = NL
    BY <1>1, <1>3, <1>9, <2>1
  <2> QED BY <2>1, <2>2 DEF m
<1>11. i + m <= Len(o) /\ i + m + 1 \in 1..Len(o) /\ n <= Len(o)
  BY <1>1, <1>2, <1>3, <1>7, <1>10
<1>12. SubSeq(o, i + 1, i + m) = re.pat
  <2> DEFINE s == SubSeq(o, i + 1, i + m)
             a == i + 1
             b == i + m
  <2>1. a \in Int /\ b \in Int /\ \A j \in a..b : o[j] \in Chars
    BY <1>1, <1>2, <1>7, <1>11, LenProperties
  <2>2. /\ SubSeq(o, a, b) \in Seq(Chars)
        /\ Len(SubSeq(o, a, b)) = IF a <= b THEN b - a + 1 ELSE 0
        /\ \A j \in 1..(b - a + 1) : SubSeq(o, a, b)[j] = o[a + j - 1]
    <3> HIDE DEF a, b
    <3> QED BY <2>1, SubSeqProperties
  <2>3. Len(s) = m
    <3>1. CASE a <= b
      BY <1>2, <1>7, <2>2, <3>1
    <3>2. CASE ~(a <= b)
      <4>1. m = 0
        BY <1>2, <1>7, <3>2
      <4> QED BY <2>2, <3>2, <4>1
    <3> QED BY <3>1, <3>2
  <2>4. ASSUME NEW j \in 1..m PROVE s[j] = re.pat[j]
    <3>1. j \in 1..(b - a + 1) /\ a + j - 1 = i + j /\ i + j \in 1..Len(o)
      BY <1>1, <1>2, <1>7, <1>11
    <3>2. s[j] = o[i + j]
      BY <2>2, <3>1
    <3> QED BY <1>1, <1>9, <3>1, <3>2
  <2>5. s \in Seq(Chars)
    BY <2>2
  <2> HIDE DEF s
  <2>6. s = re.pat
    BY <1>2, <2>3, <2>4, <2>5, SeqEqual DEF m
  <2> QED BY <2>6 DEF s
<1>13. i \in 0..(strlen(o) - m)
  <2>1. CASE strlen(w) = strlen(o)
    BY <1>6, <2>1
  <2>2. CASE strlen(o) = Len(o)
    BY <1>1, <1>2, <1>7, <1>11, <2>2
  <2> QED BY <1>5, <2>1, <2>2
<1>14. re.bol => i = 0 \/ o[i] = NL
  <2>1. i # 0 => i \in 1..Len(o)
    BY <1>2, <1>7, <1>11, <1>1
  <2> QED BY <1>1, <1>6, <2>1
<1>15. re.eol => i + m = strlen(o) \/ o[i + m + 1] = NL
  <2>1. CASE w[i + m + 1] = NL
    BY <1>1, <1>11, <2>1
  <2>2. CASE i + m = strlen(w)
    <3>1. ~(strlen(w) >= Len(o))
      BY <1>1, <1>2, <1>3, <1>7, <1>10, <2>2
    <3> QED BY <1>5, <2>2, <3>1
  <2> QED BY <1>6, <2>1, <2>2
<1>16. i \in Matches(re, o)
  BY <1>12, <1>13, <1>14, <1>15 DEF Matches, m
<1> QED BY <1>16 DEF IsMatch

\* The expressions stand in one line, as REG_NEWLINE supposes: a line feed written
\* in an expression could be split from what follows it.
OneLine == \A re \in Regexes : \A j \in 1..Len(re.pat) : re.pat[j] # NL

\* Only a read, on the flow and before the end of the timeout, gives data to a
\* call that looks for an expression and goes on looking for it.
LEMMA DataOnTheFlow ==
  ASSUME RecvInv, [Next]_vars, pc = "read", pc' = "user", rc' = "DATA",
         regex # NoRegex, timeout' # 0
  PROVE  \E o \in Buffer :
             /\ o.data # << >> /\ ~IsMatch(regex, o.data)
             /\ LastLine(o.data) # 0
             /\ pty' \in Seq(Chars)
             /\ Gives("DATA", strdup(o.data, LastLine(o.data)),
                      [data |-> Take(o.data, LastLine(o.data)), sz |-> o.sz])
<1>0. Reception /\ Others
  BY RecvInvParts
<1>1. pdip_read
  <2>1. ~(ProgramWrites \/ ProgramEnds \/ Sigchld \/ pdip_status \/ BadRegex \/ pdip_flush \/ pdip_send)
    BY DEF ProgramWrites, ProgramEnds, Sigchld, pdip_status, BadRegex, pdip_flush, pdip_send
  <2>2. \A re, to, b : ~pdip_recv(re, to, b)
    BY DEF pdip_recv
  <2>3. ~(TimeoutElapsed \/ ReadError \/ ReallocFails \/ pdip_write \/ WriteError \/ UNCHANGED vars)
    BY DEF TimeoutElapsed, ReadError, ReallocFails, pdip_write, WriteError, vars, Returns
  <2> QED BY <2>1, <2>2, <2>3 DEF Next, Calls, Receives, Emits
<1>2. PICK n \in 1..Len(pty), to \in Nat \cup {Forever} :
           LET d == [data |-> Take(pty, n), sz |-> Room(display)]
           IN /\ d \in Buffer /\ d.data # << >> /\ Len(d.data) < d.sz
              /\ pty' = Drop(pty, n) /\ pty' \in Seq(Chars)
              /\ Received(d, to = 0)
              /\ timeout' = (IF pc' = "read" \/ to = 0 THEN to ELSE Forever)
  BY <1>0, <1>1, ReadIs
<1> DEFINE d == [data |-> Take(pty, n), sz |-> Room(display)]
           o == pdip_append_to_outstanding(outstanding, d)
<1>3. d \in Buffer /\ d.data # << >> /\ Len(d.data) < d.sz /\ Received(d, to = 0) /\ to # 0
  BY <1>2
<1> HIDE DEF d
<1>4. o \in Buffer /\ o.data # << >>
  BY <1>0, <1>3, OutstandingIs, AppendIs
<1>5. ~IsMatch(regex, o.data) /\ LastLine(o.data) # 0 /\ FlushLines(o)
  BY <1>3 DEF Received, pdip_look_for_regex, Gives, Dies, GoOn, Returns
<1> HIDE DEF o
<1>6. Gives("DATA", strdup(o.data, LastLine(o.data)),
            [data |-> Take(o.data, LastLine(o.data)), sz |-> o.sz])
  BY <1>5 DEF FlushLines, Dies, Returns
<1> QED BY <1>2, <1>4, <1>5, <1>6

\* Data that are given while the expression is still looked for never cut one of
\* its occurrences, whatever comes next.
THEOREM MatchesWhole ==
  ASSUME OneLine
  PROVE  Spec => MatchNotCut
<1> DEFINE A == (/\ pc = "read" /\ pc' = "user" /\ rc' = "DATA"
                 /\ regex # NoRegex /\ timeout' # 0)
                => \A i \in Matches(regex, JustGiven \o outstanding'.data \o pty') :
                       i >= Len(JustGiven)
<1>1. ASSUME RecvInv, [Next]_vars PROVE A
  <2> SUFFICES ASSUME pc = "read", pc' = "user", rc' = "DATA", regex # NoRegex, timeout' # 0,
                      NEW i \in Matches(regex, JustGiven \o outstanding'.data \o pty')
               PROVE  i >= Len(JustGiven)
    OBVIOUS
  <2>1. PICK o \in Buffer :
             /\ o.data # << >> /\ ~IsMatch(regex, o.data)
             /\ LastLine(o.data) # 0
             /\ pty' \in Seq(Chars)
             /\ Gives("DATA", strdup(o.data, LastLine(o.data)),
                      [data |-> Take(o.data, LastLine(o.data)), sz |-> o.sz])
    BY <1>1, DataOnTheFlow
  <2> DEFINE n == LastLine(o.data)
             d == o.data
             a == Take(d, n)
             b == Drop(d, n)
  <2>2. d \in Seq(Chars) /\ n \in 0..Len(d) /\ got \in Seq(Chars) /\ regex \in Regexes
    BY <1>1, LastLineIs DEF Buffer, RecvInv, TypeOK
  <2>3. a \in Seq(Chars) /\ Len(a) = n /\ a \o b = d
    <3> HIDE DEF d, n
    <3> QED BY <2>2, CutSeq DEF Take, Drop
  <2>4. got' = got \o a /\ outstanding'.data = b
    BY <2>1, <2>2, StrdupIs DEF Gives
  <2>5. JustGiven = a
    <3> HIDE DEF a
    <3>1. SubSeq(got \o a, Len(got) + 1, Len(got \o a)) = a
      BY <2>2, <2>3, SplitConcat
    <3> QED BY <2>4, <3>1 DEF JustGiven, Drop
  <2>6. i \in Matches(regex, d \o pty')
    BY <2>3, <2>4, <2>5
  <2>7. regex \in Regex /\ \A j \in 1..Len(regex.pat) : regex.pat[j] # NL
    BY <1>1, <2>2, RecvAssumption DEF OneLine
  <2>8. i >= n
    BY <2>1, <2>2, <2>6, <2>7, NotCut
  <2> QED BY <2>3, <2>5, <2>8
<1>2. RecvInv /\ [Next]_vars => [A]_vars
  BY <1>1
<1> QED BY <1>2, RecvCorrect, PTL DEF Spec, MatchNotCut

-----------------------------------------------------------------------------
(* PdipRecv implements TextChannel.                                        *)

\* The state of the channel.
Queue == outstanding.data \o pty
Asked == IF pc \in {"read", "aborted", "crashed"} THEN regex ELSE Idle
Answered == IF rc \in {"SENT", "PART", "FAILED", "REFUSED"} THEN "NONE" ELSE rc

\* A call under way has no answer.
ReadPending == pc = "read" => rc = "NONE"

\* The channel looks for expressions as the library does.
LEMMA SameMatches ==
  ASSUME NEW re, NEW d
  PROVE  Channel!IsMatch(re, d) = IsMatch(re, d) /\ Channel!MatchEnd(re, d) = MatchEnd(re, d)
BY DEF Channel!IsMatch, Channel!MatchEnd, Channel!Matches, Channel!rm_eo, Channel!strlen,
       IsMatch, MatchEnd, Matches, rm_eo, strlen

\* A step that leaves the channel alone.
LEMMA ChannelStutters ==
  ASSUME UNCHANGED << Queue, got, Asked, Answered >>
  PROVE  UNCHANGED Channel!cvars
BY DEF Channel!cvars, Queue, Asked, Answered

\* A call that is under way, and what it looks for; one that is made and answered
\* at once looks for anything.
Looks(re) == re \in Regexes \cup {NoRegex} /\ (pc = "user" \/ (pc = "read" /\ re = regex))

\* The answer of such a call is a step of the channel.
LEMMA ChannelReturns ==
  ASSUME RecvInv, NEW re, Looks(re), Channel!Answer(re)
  PROVE  Channel!Next
<1>1. CASE pc = "user"
  <2>1. Asked = Idle
    BY <1>1 DEF Asked
  <2> QED BY <2>1 DEF Channel!Next, Channel!Return, Asked, Looks
<1>2. CASE pc = "read" /\ re = regex
  <2>1. Asked = re /\ Asked # Idle
    BY <1>2, RecvAssumption DEF Asked, Looks
  <2> QED BY <2>1 DEF Channel!Next, Channel!Return, Asked
<1> QED BY <1>1, <1>2 DEF Looks

\* The first characters of the queue are given.
LEMMA ChannelGives ==
  ASSUME NEW n, NEW a \in {"FOUND", "DATA", "TIMEOUT", "EIO"},
         got' = got \o SubSeq(Queue, 1, n), Queue' = SubSeq(Queue, n + 1, Len(Queue)),
         pc' = "user", rc' = a
  PROVE  Channel!Give(n, a)
<1>1. Asked' = Idle /\ Answered' = a
  BY DEF Asked, Answered
<1> QED BY <1>1 DEF Channel!Give, Queue, Asked, Answered

\* The queue, when d was gathered by the object and p is left in the terminal.
Gathered(d, p) == d \in Seq(Chars) /\ p \in Seq(Chars) /\ Queue = d \o p /\ pty' = p

\* The beginning of the gathered data is given, the rest is kept.
LEMMA ChannelCuts ==
  ASSUME NEW d, NEW p, Gathered(d, p), NEW n \in 0..Len(d),
         NEW a \in {"FOUND", "DATA", "TIMEOUT", "EIO"},
         got' = got \o Take(d, n), outstanding'.data = Drop(d, n), pc' = "user", rc' = a
  PROVE  Channel!Give(n, a)
<1>1. d \in Seq(Chars) /\ p \in Seq(Chars) /\ Queue = d \o p /\ pty' = p
  BY DEF Gathered
<1>2. /\ SubSeq(d \o p, 1, n) = SubSeq(d, 1, n)
      /\ SubSeq(d \o p, n + 1, Len(d \o p)) = SubSeq(d, n + 1, Len(d)) \o p
  BY <1>1, CutFirst
<1>3. got' = got \o SubSeq(Queue, 1, n)
  BY <1>1, <1>2 DEF Take
<1>4. Queue' = SubSeq(d, n + 1, Len(d)) \o p
  BY <1>1 DEF Queue, Drop
<1>5. Queue' = SubSeq(Queue, n + 1, Len(Queue))
  BY <1>1, <1>2, <1>4
<1> QED BY <1>3, <1>5, ChannelGives

\* The gathered data are the beginning of the queue.
LEMMA GatheredIs ==
  ASSUME NEW d, NEW p, Gathered(d, p), d # << >>
  PROVE  /\ Len(d) \in 1..Len(Queue) /\ SubSeq(Queue, 1, Len(d)) = d
         /\ Len(d) \in Nat /\ Len(Queue) \in Nat /\ Len(d) >= 1 /\ Len(d) <= Len(Queue)
<1>1. d \in Seq(Chars) /\ p \in Seq(Chars) /\ Queue = d \o p
  BY DEF Gathered
<1>2. /\ Len(d) \in Nat /\ Len(d) >= 1 /\ Len(p) \in Nat
      /\ Len(d \o p) = Len(d) + Len(p)
  BY <1>1, LenProperties, EmptySeq, ConcatProperties
<1>3. SubSeq(d \o p, 1, Len(d)) = d
  BY <1>1, SplitConcat
<1> QED BY <1>1, <1>2, <1>3

\* A failed assertion, or a crash, is a call that never returns.
LEMMA ChannelDies ==
  ASSUME NEW o \in Buffer, NEW p, Gathered(o.data, p), NEW re, Looks(re), ReadPending,
         NEW how \in {"aborted", "crashed"}, Dies(how, re, o)
  PROVE  Channel!Next \/ UNCHANGED Channel!cvars
<1>1. Queue' = Queue /\ got' = got /\ Asked' = re /\ Answered' = "NONE"
  BY DEF Dies, Queue, Asked, Answered, Gathered
<1>2. CASE pc = "user"
  <2>1. Asked = Idle
    BY <1>2 DEF Asked
  <2> QED BY <1>1, <2>1 DEF Channel!Next, Channel!Call, Queue, Asked, Answered, Looks
<1>3. CASE pc = "read" /\ re = regex
  <2>1. Asked = re /\ Answered = "NONE"
    BY <1>3 DEF Asked, Answered, ReadPending
  <2> QED BY <1>1, <2>1, ChannelStutters
<1> QED BY <1>2, <1>3 DEF Looks

\* A match in the gathered data is answered as the channel says.
LEMMA ChannelLooks ==
  ASSUME RecvInv, ReadPending, NEW o \in Buffer, o.data # << >>, NEW p, Gathered(o.data, p),
         NEW re \in Regexes, Looks(re), IsMatch(re, o.data), pdip_look_for_regex(re, o)
  PROVE  Channel!Next \/ UNCHANGED Channel!cvars
<1> DEFINE n == MatchEnd(re, o.data)
<1>1. re \in Regex /\ o.data \in Seq(Chars) /\ re # NoRegex
  BY RecvAssumption DEF Buffer
<1>2. n \in 0..Len(o.data)
  BY <1>1, MatchEndIs
<1>3. CASE Gives("FOUND", strdup(o.data, n), [data |-> Take(o.data, n), sz |-> o.sz])
  <2>1. Channel!Give(n, "FOUND")
    <3> HIDE DEF n
    <3> QED BY <1>1, <1>2, <1>3, StrdupIs, ChannelCuts DEF Gives, Returns
  <2>2. Len(o.data) \in 1..Len(Queue) /\ SubSeq(Queue, 1, Len(o.data)) = o.data
    BY GatheredIs
  <2>3. /\ Channel!IsMatch(re, SubSeq(Queue, 1, Len(o.data)))
        /\ Channel!Give(Channel!MatchEnd(re, SubSeq(Queue, 1, Len(o.data))), "FOUND")
    BY <2>1, <2>2, SameMatches
  <2>4. Channel!Answer(re)
    BY <1>1, <2>2, <2>3 DEF Channel!Answer, Queue
  <2> QED BY <2>4, ChannelReturns
<1> HIDE DEF n
<1>4. CASE Dies("aborted", re, o) \/ Dies("crashed", re, o)
  BY <1>4, ChannelDies
<1> QED BY <1>3, <1>4 DEF pdip_look_for_regex, n

\* So are the data that are given without match.
LEMMA ChannelData ==
  ASSUME RecvInv, NEW d, NEW p, Gathered(d, p), NEW re, Looks(re),
         NEW n \in 1..Len(d), re # NoRegex => ~IsMatch(re, d),
         got' = got \o Take(d, n), outstanding'.data = Drop(d, n), pc' = "user", rc' = "DATA"
  PROVE  Channel!Next
<1>1. d # << >> /\ n \in 0..Len(d)
  <2>1. d \in Seq(Chars) /\ Len(d) \in Nat
    BY LenProperties DEF Gathered
  <2>2. Len(d) # 0 /\ n \in 0..Len(d)
    BY <2>1
  <2> QED BY <2>2, EmptySeq
<1>2. Channel!Give(n, "DATA")
  BY <1>1, ChannelCuts
<1>3. /\ Len(d) \in n..Len(Queue) /\ SubSeq(Queue, 1, Len(d)) = d
      /\ n \in 1..Len(Queue)
  BY <1>1, GatheredIs
<1>4. re # NoRegex => \E seen \in n..Len(Queue) : ~Channel!IsMatch(re, SubSeq(Queue, 1, seen))
  BY <1>3, SameMatches
<1>5. Channel!Answer(re)
  BY <1>2, <1>3, <1>4 DEF Channel!Answer, Queue
<1> QED BY <1>5, ChannelReturns

\* A call ends and the text stays where it is.
LEMMA ChannelKeeps ==
  ASSUME RecvInv, Queue' = Queue, got' = got, pc' = "user", Queue \in Seq(Chars)
  PROVE  /\ \A a \in {"TIMEOUT", "EIO"} : rc' = a => Channel!Give(0, a)
         /\ rc' = "ENOMEM" => \A re : Channel!Answer(re)
<1>1. got \in Seq(Chars) /\ Len(Queue) \in Nat
  BY LenProperties DEF RecvInv, TypeOK
<1>2. SubSeq(Queue, 1, 0) = << >> /\ SubSeq(Queue, 1, Len(Queue)) = Queue
  <2>1. 0 \in 0..Len(Queue)
    BY <1>1
  <2>2. SubSeq(Queue, 1, 0) \in Seq(Chars) /\ Len(SubSeq(Queue, 1, 0)) = 0
    BY <2>1, CutSeq
  <2> QED BY <2>2, EmptySeq, SubSeqFull
<1>3. got \o << >> = got
  BY <1>1, ConcatEmptySeq
<1> DEFINE z == 0
<1>4. /\ z + 1 = 1 /\ z \in 0..Len(Queue) /\ z <= z
      /\ got' = got \o SubSeq(Queue, 1, z)
  BY <1>1, <1>2, <1>3
<1> HIDE DEF z
<1>7. Queue' = SubSeq(Queue, z + 1, Len(Queue)) /\ got' = got \o SubSeq(Queue, z + 1, z)
  BY <1>2, <1>4
<1>5. ASSUME NEW a \in {"TIMEOUT", "EIO"}, rc' = a PROVE Channel!Give(0, a)
  <2>1. Channel!Give(z, a)
    BY <1>4, <1>7, <1>5, ChannelGives
  <2> QED BY <2>1 DEF z
<1>6. ASSUME rc' = "ENOMEM", NEW re PROVE Channel!Answer(re)
  <2>1. Asked' = Idle /\ Answered' = "ENOMEM"
    BY <1>6 DEF Asked, Answered
  <2> QED BY <1>4, <1>7, <2>1 DEF Channel!Answer, Queue, Asked, Answered
<1> QED BY <1>5, <1>6

\* Without memory for the new text, the one that was gathered before is lost.
LEMMA ChannelLoses ==
  ASSUME RecvInv, NEW n \in 0..Len(pty), Gives("ENOMEM", Null, [data |-> Take(pty, n), sz |-> Room(display)]),
         pty' = Drop(pty, n), NEW re
  PROVE  Channel!Answer(re)
<1> DEFINE q == outstanding.data
           m == Len(q)
           e == m + n
<1>1. q \in Seq(Chars) /\ pty \in Seq(Chars) /\ m \in Nat /\ Len(pty) \in Nat
  BY LenProperties DEF RecvInv, TypeOK, Buffer
<1>2. Len(Queue) = m + Len(pty)
  BY <1>1, ConcatProperties DEF Queue
<1>3. SubSeq(Queue, m + 1, e) = Take(pty, n)
  BY <1>1, CutMiddle DEF Queue, Take
<1>4. SubSeq(Queue, e + 1, Len(Queue)) = Drop(pty, n)
  <2> HIDE DEF q
  <2> QED BY <1>1, CutSecond DEF q, Queue, Drop
<1>5. Drop(pty, n) \in Seq(Chars)
  BY <1>1, CutSeq DEF Drop
<1>6. Queue' = Drop(pty, n) /\ got' = got \o Take(pty, n) /\ Asked' = Idle /\ Answered' = "ENOMEM"
  <2>1. << >> \o Drop(pty, n) = Drop(pty, n)
    BY <1>5, ConcatEmptySeq
  <2> QED BY <2>1 DEF Gives, Returns, Null, Queue, Asked, Answered
<1>7. e \in 0..Len(Queue) /\ m \in 0..Len(Queue) /\ m <= e
  BY <1>1, <1>2
<1> HIDE DEF e, m
<1> QED BY <1>3, <1>4, <1>6, <1>7 DEF Channel!Answer, Queue, Asked, Answered

\* A text that is given entirely.
Whole(d) == /\ Len(d) \in 1..Len(d)
            /\ Take(d, Len(d)) = d /\ Drop(d, Len(d)) = << >>

\* Any text but the empty one can be.
LEMMA WholeIs ==
  ASSUME NEW d \in Seq(Chars), d # << >>
  PROVE  Whole(d)
<1>1. Len(d) \in Nat /\ Len(d) # 0
  BY LenProperties, EmptySeq
<1>2. Len(d) \in 1..Len(d) /\ Len(d) \in 0..Len(d) /\ Len(d) - Len(d) = 0
  BY <1>1
<1>3. Drop(d, Len(d)) \in Seq(Chars) /\ Len(Drop(d, Len(d))) = 0
  BY <1>2, CutSeq DEF Drop
<1>4. Take(d, Len(d)) = d
  BY SubSeqFull DEF Take
<1> QED BY <1>2, <1>3, <1>4, EmptySeq DEF Whole

\* Whatever comes of a read, the channel answers, or the call goes on.
LEMMA ChannelReceives ==
  ASSUME RecvInv, ReadPending, pc = "read", NEW n \in 1..Len(pty), NEW elapsed,
         pty' = Drop(pty, n),
         LET d == [data |-> Take(pty, n), sz |-> Room(display)]
         IN d \in Buffer /\ d.data # << >> /\ Len(d.data) < d.sz /\ Received(d, elapsed)
  PROVE  ReadPending' /\ (Channel!Next \/ UNCHANGED Channel!cvars)
<1> DEFINE d == [data |-> Take(pty, n), sz |-> Room(display)]
           o == pdip_append_to_outstanding(outstanding, d)
           p == Drop(pty, n)
<1>0. Reception /\ Others
  BY RecvInvParts
<1>1. d \in Buffer /\ d.data # << >> /\ Len(d.data) < d.sz /\ Received(d, elapsed)
  OBVIOUS
<1>2. outstanding \in Buffer /\ Held(outstanding)
  BY <1>0, OutstandingIs
<1>3. o \in Buffer /\ o.data # << >> /\ o.data = outstanding.data \o d.data
  BY <1>1, <1>2, AppendIs
<1>4. /\ outstanding.data \in Seq(Chars) /\ pty \in Seq(Chars) /\ n \in 0..Len(pty)
      /\ o.data \in Seq(Chars) /\ Len(pty) \in Nat
  <2> HIDE DEF o, d
  <2>1. outstanding.data \in Seq(Chars) /\ pty \in Seq(Chars) /\ o.data \in Seq(Chars)
    BY <1>0, <1>2, <1>3 DEF Buffer, Others
  <2>2. Len(pty) \in Nat
    BY <2>1, LenProperties
  <2> QED BY <2>1, <2>2
<1>5. Gathered(o.data, p)
  <2>1. /\ Take(pty, n) \in Seq(Chars) /\ p \in Seq(Chars)
        /\ Take(pty, n) \o p = pty
    BY <1>4, CutSeq DEF Take, Drop
  <2> DEFINE t == Take(pty, n)
  <2>2. o.data = outstanding.data \o t
    BY <1>3
  <2> HIDE DEF t, p, o
  <2>3. (outstanding.data \o t) \o p = outstanding.data \o (t \o p)
    <3> DEFINE q == outstanding.data
    <3>1. q \in Seq(Chars) /\ t \in Seq(Chars) /\ p \in Seq(Chars)
      BY <1>4, <2>1 DEF t
    <3> HIDE DEF q
    <3>2. Associates(q, t, p)
      BY <3>1, ConcatAssociates
    <3> QED BY <3>2 DEF q, Associates
  <2> QED BY <1>4, <2>1, <2>2, <2>3 DEF Gathered, Queue, t, p
<1>6. Looks(regex) /\ regex \in Regexes \cup {NoRegex}
  BY <1>0 DEF Looks, Reception
<1>7. ReadPending'
  BY <1>1 DEF ReadPending, Received, Gives, Returns, pdip_look_for_regex, Dies, FlushLines,
              FlushAll, GoOn
<1> HIDE DEF o, d, p
<1>8. CASE regex = NoRegex /\ Gives("DATA", outstanding, d)
  <2>1. outstanding.data = << >> /\ d.data \in Seq(Chars)
    BY <1>0, <1>1, <1>2, <1>8, HeldIs DEF Reception, NothingMissed, Buffer
  <2>2. o.data = d.data
    BY <1>3, <2>1, ConcatEmptySeq
  <2>3. Whole(d.data)
    BY <1>1, <2>1, WholeIs
  <2>4. outstanding'.data = Drop(d.data, Len(d.data)) /\ got' = got \o Take(d.data, Len(d.data))
    BY <1>8, <2>1, <2>3 DEF Gives, Whole
  <2> QED BY <1>5, <1>6, <1>7, <1>8, <2>2, <2>3, <2>4, ChannelData DEF Gives, Returns, Whole
<1>9. CASE regex # NoRegex /\ IsMatch(regex, o.data) /\ pdip_look_for_regex(regex, o)
  BY <1>3, <1>5, <1>6, <1>7, <1>9, ChannelLooks
<1>10. CASE GoOn(o)
  <2>1. Queue' = Queue /\ got' = got /\ Asked' = Asked /\ Answered' = Answered
    BY <1>5, <1>10 DEF GoOn, Queue, Asked, Answered, Gathered
  <2> QED BY <1>7, <2>1, ChannelStutters
<1>11. CASE /\ regex # NoRegex /\ ~IsMatch(regex, o.data) /\ LastLine(o.data) # 0
            /\ FlushLines(o)
  <2> DEFINE k == LastLine(o.data)
  <2>1. k \in 0..Len(o.data) /\ k \in 1..Len(o.data)
    <3>1. k \in 0..Len(o.data) /\ Len(o.data) \in Nat
      BY <1>4, LastLineIs, LenProperties
    <3> QED BY <1>11, <3>1
  <2> HIDE DEF k
  <2>2. CASE Gives("DATA", strdup(o.data, k), [data |-> Take(o.data, k), sz |-> o.sz])
    <3>1. strdup(o.data, k).data = Drop(o.data, k)
      BY <1>4, <2>1, StrdupIs
    <3> QED BY <1>5, <1>6, <1>7, <1>11, <2>1, <2>2, <3>1, ChannelData DEF Gives, Returns
  <2>3. CASE Dies("aborted", regex, o)
    BY <1>3, <1>5, <1>6, <1>7, <2>3, ChannelDies
  <2>4. CASE outstanding' = o /\ UNCHANGED got /\ Returns("ENOMEM")
    <3>1. Queue' = Queue /\ Queue \in Seq(Chars)
      BY <1>4, <1>5, <2>4, ConcatProperties DEF Queue, Gathered
    <3> QED BY <1>6, <1>7, <2>4, <3>1, ChannelKeeps, ChannelReturns DEF Returns
  <2> QED BY <1>11, <2>2, <2>3, <2>4 DEF FlushLines, k
<1>12. CASE regex # NoRegex /\ ~IsMatch(regex, o.data) /\ FlushAll(o)
  <2>1. Whole(o.data)
    BY <1>3, <1>4, WholeIs
  <2>2. outstanding'.data = Drop(o.data, Len(o.data)) /\ got' = got \o Take(o.data, Len(o.data))
    BY <1>12, <2>1 DEF FlushAll, Gives, Whole, Null
  <2> QED BY <1>5, <1>6, <1>7, <1>12, <2>1, <2>2, ChannelData DEF FlushAll, Gives, Returns, Whole
<1>13. CASE regex # NoRegex /\ outstanding' = o /\ UNCHANGED got /\ Returns("TIMEOUT")
  <2>1. Queue' = Queue /\ Queue \in Seq(Chars)
    BY <1>4, <1>5, <1>13, ConcatProperties DEF Queue, Gathered
  <2>2. Channel!Give(0, "TIMEOUT")
    BY <1>13, <2>1, ChannelKeeps DEF Returns
  <2>3. Channel!Answer(regex)
    BY <1>13, <2>2 DEF Channel!Answer
  <2> QED BY <1>6, <1>7, <2>3, ChannelReturns
<1>14. CASE Gives("ENOMEM", Null, d)
  <2>1. Channel!Answer(regex)
    BY <1>4, <1>14, ChannelLoses DEF d
  <2> QED BY <1>6, <1>7, <2>1, ChannelReturns
<1> QED BY <1>1, <1>8, <1>9, <1>10, <1>11, <1>12, <1>13, <1>14 DEF Received, o

\* Every step of the library is a step of the channel, or none.
LEMMA ChannelStep ==
  ASSUME RecvInv, ReadPending, [Next]_vars
  PROVE  ReadPending' /\ [Channel!Next]_(Channel!cvars)
<1>0. Reception /\ Others
  BY RecvInvParts
<1>1. /\ outstanding \in Buffer /\ Held(outstanding) /\ outstanding.data \in Seq(Chars)
      /\ pty \in Seq(Chars) /\ Queue \in Seq(Chars)
  <2>1. outstanding \in Buffer /\ Held(outstanding) /\ pty \in Seq(Chars)
    BY <1>0, OutstandingIs DEF Others
  <2>2. outstanding.data \in Seq(Chars)
    BY <2>1 DEF Buffer
  <2> QED BY <2>1, <2>2, ConcatProperties DEF Queue
<1>2. ASSUME UNCHANGED << outstanding, pty, got, regex, pc, rc >>
      PROVE  ReadPending' /\ [Channel!Next]_(Channel!cvars)
  <2>1. UNCHANGED << Queue, got, Asked, Answered >>
    BY <1>2 DEF Queue, Asked, Answered
  <2> QED BY <1>2, <2>1, ChannelStutters DEF ReadPending
<1>3. ASSUME UNCHANGED << outstanding, pty, got >>, pc \in {"user", "write"},
             pc' \in {"user", "write"}, Answered' \in {"EINVAL", "EPERM", "NONE"}
      PROVE  ReadPending' /\ [Channel!Next]_(Channel!cvars)
  <2>1. UNCHANGED << Queue, got >> /\ Asked = Idle /\ Asked' = Idle
    BY <1>3 DEF Queue, Asked
  <2> QED BY <1>3, <2>1 DEF ReadPending, Channel!Next, Channel!Refuse, Queue, Asked, Answered
<1>4. ASSUME outstanding.sz > 0, pc = "user", FlushAll(outstanding), pty' = pty
      PROVE  ReadPending' /\ [Channel!Next]_(Channel!cvars)
  <2>1. outstanding.data # << >>
    BY <1>1, <1>4, HeldIs
  <2>2. Whole(outstanding.data)
    BY <1>1, <2>1, WholeIs
  <2>3. /\ outstanding'.data = Drop(outstanding.data, Len(outstanding.data))
        /\ got' = got \o Take(outstanding.data, Len(outstanding.data))
        /\ pc' = "user" /\ rc' = "DATA"
    BY <1>4, <2>2 DEF FlushAll, Gives, Returns, Whole, Null
  <2>4. Gathered(outstanding.data, pty) /\ Looks(NoRegex)
    BY <1>1, <1>4 DEF Gathered, Queue, Looks
  <2>5. Channel!Next
    BY <2>2, <2>3, <2>4, ChannelData DEF Whole
  <2> QED BY <2>3, <2>5 DEF ReadPending
<1>5. CASE ProgramWrites
  <2>1. PICK c \in Chars : pty' = Append(pty, c)
    BY <1>5 DEF ProgramWrites
  <2>2. Queue' = Append(Queue, c)
    <3> DEFINE q == outstanding.data
    <3>1. q \in Seq(Chars) /\ pty \in Seq(Chars) /\ c \in Chars
      BY <1>1
    <3>2. Queue' = q \o Append(pty, c)
      BY <1>5, <2>1 DEF ProgramWrites, buffers, Queue
    <3> HIDE DEF q
    <3>3. q \o Append(pty, c) = Append(q \o pty, c)
      <4> DEFINE e == << c >>
      <4>1. Append(pty, c) = pty \o e /\ e \in Seq(Chars)
        BY <3>1, AppendIsConcat, SeqOne
      <4>2. q \o pty \in Seq(Chars)
        BY <3>1, ConcatProperties
      <4>3. Append(q \o pty, c) = (q \o pty) \o e
        BY <3>1, <4>2, AppendIsConcat
      <4> HIDE DEF e
      <4>4. Associates(q, pty, e)
        BY <3>1, <4>1, ConcatAssociates
      <4> QED BY <4>1, <4>3, <4>4 DEF Associates
    <3> QED BY <3>2, <3>3 DEF q, Queue
  <2>3. UNCHANGED << got, Asked, Answered >> /\ ReadPending'
    BY <1>5 DEF ProgramWrites, buffers, args, Asked, Answered, ReadPending
  <2> QED BY <2>2, <2>3 DEF Channel!Next, Channel!Write, Queue, Asked, Answered
<1>6. CASE ProgramEnds \/ Sigchld \/ pdip_status
  BY <1>2, <1>6 DEF ProgramEnds, Sigchld, pdip_status, buffers, args
<1>7. ASSUME NEW re \in Regexes \cup {NoRegex}, NEW to, NEW b, pdip_recv(re, to, b)
      PROVE  ReadPending' /\ [Channel!Next]_(Channel!cvars)
  <2>0. pc = "user" /\ pty' = pty
    BY <1>7 DEF pdip_recv, io
  <2>1. CASE outstanding.sz > 0 /\ FlushAll(outstanding)
    BY <1>4, <2>0, <2>1
  <2>2. CASE /\ re # NoRegex /\ outstanding.data # << >> /\ IsMatch(re, outstanding.data)
             /\ pdip_look_for_regex(re, outstanding)
    <3>1. Gathered(outstanding.data, pty) /\ Looks(re)
      BY <1>1, <2>0 DEF Gathered, Queue, Looks
    <3>2. Channel!Next \/ UNCHANGED Channel!cvars
      BY <1>1, <2>2, <3>1, ChannelLooks
    <3>3. ReadPending'
      BY <2>2 DEF pdip_look_for_regex, Gives, Returns, Dies, ReadPending
    <3> QED BY <3>2, <3>3
  <2>3. CASE regex' = re /\ pc' = "read" /\ rc' = "NONE" /\ UNCHANGED << outstanding, got >>
    <3>1. Asked = Idle /\ Asked' = re /\ Answered' = "NONE" /\ UNCHANGED << Queue, got >>
      BY <2>0, <2>3 DEF Asked, Answered, Queue
    <3> QED BY <2>3, <3>1 DEF ReadPending, Channel!Next, Channel!Call, Queue, Asked, Answered
  <2> QED BY <1>7, <2>1, <2>2, <2>3 DEF pdip_recv
<1>8. CASE BadRegex
  BY <1>3, <1>8 DEF BadRegex, Returns, buffers, io, Answered
<1>9. CASE pdip_flush
  <2>1. pc = "user" /\ pty' = pty
    BY <1>9 DEF pdip_flush, io
  <2>2. CASE rc' = "EPERM" /\ UNCHANGED << buffers, regex, pc >>
    BY <1>3, <2>1, <2>2 DEF buffers, Answered
  <2>3. CASE rc' = "NONE" /\ UNCHANGED << outstanding, got, regex, pc >>
    BY <1>3, <2>1, <2>3 DEF Answered
  <2>4. CASE outstanding.sz > 0 /\ FlushAll(outstanding)
    BY <1>4, <2>1, <2>4
  <2> QED BY <1>9, <2>2, <2>3, <2>4 DEF pdip_flush
<1>10. CASE pdip_send \/ pdip_write \/ WriteError
  <2>1. /\ UNCHANGED << outstanding, pty, got, regex >> /\ pc \in {"user", "write"}
        /\ pc' \in {"user", "write"}
    BY <1>10 DEF pdip_send, pdip_write, WriteError, Sends, io, buffers, args
  <2>2. rc' = rc \/ rc' \in {"SENT", "PART", "FAILED", "REFUSED"}
    BY <1>10 DEF pdip_send, pdip_write, WriteError, Sends
  <2>3. CASE rc' \in {"SENT", "PART", "FAILED", "REFUSED"}
    BY <1>3, <2>1, <2>3 DEF Answered
  <2>4. CASE rc' = rc
    <3>1. UNCHANGED << Queue, got, Asked, Answered >>
      BY <2>1, <2>4 DEF Queue, Asked, Answered
    <3> QED BY <2>1, <3>1, ChannelStutters DEF ReadPending
  <2> QED BY <2>2, <2>3, <2>4
<1>11. CASE pdip_read
  <2>1. PICK n \in 1..Len(pty), to \in Nat \cup {Forever} :
             LET d == [data |-> Take(pty, n), sz |-> Room(display)]
             IN /\ d \in Buffer /\ d.data # << >> /\ Len(d.data) < d.sz
                /\ pty' = Drop(pty, n)
                /\ Received(d, to = 0)
    BY <1>0, <1>11, ReadIs
  <2>2. pc = "read"
    BY <1>11 DEF pdip_read
  <2> QED BY <2>1, <2>2, ChannelReceives
<1>12. CASE TimeoutElapsed \/ ReadError \/ ReallocFails
  <2>1. /\ pc = "read" /\ pc' = "user" /\ got' = got /\ UNCHANGED << outstanding, pty >>
        /\ Queue' = Queue
    BY <1>12 DEF TimeoutElapsed, ReadError, ReallocFails, Returns, io, buffers, Queue
  <2>2. ReadPending'
    BY <2>1 DEF ReadPending
  <2>3. Looks(regex)
    BY <1>0, <2>1 DEF Looks, Reception
  <2>4. CASE TimeoutElapsed \/ ReadError
    <3>1. pty = << >>
      BY <2>4 DEF TimeoutElapsed, ReadError
    <3>2. Queue = outstanding.data
      <4> DEFINE q == outstanding.data
      <4>1. q \in Seq(Chars)
        BY <1>1
      <4> HIDE DEF q
      <4>2. q \o << >> = q
        BY <4>1, ConcatEmptySeq
      <4> QED BY <3>1, <4>2 DEF Queue, q
    <3>3. IF regex = NoRegex THEN Queue = << >> ELSE Queue # << >> => ~IsMatch(regex, Queue)
      BY <1>0, <1>1, <2>1, <3>2, HeldIs DEF Reception, NothingMissed
    <3>4. CASE TimeoutElapsed
      <4>1. Channel!Give(0, "TIMEOUT")
        BY <1>1, <2>1, <3>4, ChannelKeeps DEF TimeoutElapsed, Returns
      <4>2. Channel!Answer(regex)
        BY <3>3, <4>1 DEF Channel!Answer, Queue
      <4> QED BY <2>2, <2>3, <4>2, ChannelReturns
    <3>5. CASE ReadError
      <4>1. Channel!Give(0, "EIO")
        BY <1>1, <2>1, <3>5, ChannelKeeps DEF ReadError, Returns
      <4>2. IF regex = NoRegex THEN Queue = << >>
            ELSE Queue = << >> \/ ~Channel!IsMatch(regex, Queue)
        BY <3>3, SameMatches
      <4>3. Channel!Answer(regex)
        BY <4>1, <4>2 DEF Channel!Answer, Queue
      <4> QED BY <2>2, <2>3, <4>3, ChannelReturns
    <3> QED BY <2>4, <3>4, <3>5
  <2>5. CASE ReallocFails
    <3>1. Channel!Answer(regex)
      BY <1>1, <2>1, <2>5, ChannelKeeps DEF ReallocFails, Returns
    <3> QED BY <2>2, <2>3, <3>1, ChannelReturns
  <2> QED BY <1>12, <2>4, <2>5
<1>13. CASE UNCHANGED vars
  BY <1>2, <1>13 DEF vars, io, buffers, args
<1> QED BY <1>5, <1>6, <1>7, <1>8, <1>9, <1>10, <1>11, <1>12, <1>13
        DEF Next, Calls, Receives, Emits

\* Reception, whatever the sizes of the reads and of the buffers, is a channel
\* that keeps the order of the text of the program and loses none of it: the
\* outstanding data followed by the text in the terminal are its queue.
THEOREM Implements == Spec => ImplementsChannel
<1>1. Init => ReadPending /\ Channel!Init
  <2>1. << >> \o << >> = << >>
    BY EmptySeq, ConcatEmptySeq
  <2> QED BY <2>1 DEF Init, ReadPending, Channel!Init, Null
<1>2. RecvInv /\ ReadPending /\ [Next]_vars => ReadPending' /\ [Channel!Next]_(Channel!cvars)
  BY ChannelStep
<1> QED BY <1>1, <1>2, RecvCorrect, PTL DEF Spec, ImplementsChannel, Channel!Spec
=============================================================================
