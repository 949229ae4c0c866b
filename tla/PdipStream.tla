----------------------------- MODULE PdipStream -----------------------------
(***************************************************************************)
(* What pdip_recv() (pdip_lib.c) makes of the text a controlled program    *)
(* writes on its pseudo terminal, when it is called with a prompt as       *)
(* regular expression, without timeout and with PDIP_FLAG_RECV_ON_THE_FLOW *)
(* set, as rsystemd and isystem() do.                                      *)
(*                                                                         *)
(* The text is a sequence of tokens, records whose field k is              *)
(*   "line"   text ended by a line feed,                                   *)
(*   "part"   text without a line feed (the beginning of a line),          *)
(*   "status" the line written by "echo $?",                               *)
(*   "prompt" the prompt of the shell, which no line feed follows.         *)
(* No token begins with a line feed.                                       *)
(***************************************************************************)
EXTENDS Naturals, Sequences

Kinds == {"line", "part", "status", "prompt"}

\* The tokens after which the next character begins a line.
EndsLine(t) == t.k \in {"line", "status"}

\* "^prompt$" with REG_NEWLINE matches a prompt that begins a line and that
\* nothing follows on that line, here the last token of the data.
PromptFound(d) ==
    /\ d # << >>
    /\ d[Len(d)].k = "prompt"
    /\ Len(d) > 1 => EndsLine(d[Len(d) - 1])

\* The positions in d where a complete line ends.
LineEnds(d) == {j \in 1..Len(d) : EndsLine(d[j])}

\* What pdip_look_for_regex() then pdip_flush_outstanding() do of the data d
\* gathered so far: the prompt and all that precedes it is returned, or else
\* the complete lines, or else nothing yet. The prompt itself is left out of
\* "display": the callers strip it.
Scan(d) ==
    IF PromptFound(d)
    THEN {[rc |-> "FOUND", display |-> SubSeq(d, 1, Len(d) - 1), left |-> << >>]}
    ELSE IF LineEnds(d) = {}
    THEN {[rc |-> "AGAIN", display |-> << >>, left |-> d]}
    ELSE {[rc |-> "DATA", display |-> SubSeq(d, 1, j), left |-> SubSeq(d, j + 1, Len(d))] :
              j \in {k \in LineEnds(d) : \A l \in LineEnds(d) : l <= k}}

\* pdip_recv() looks for the prompt in the outstanding data before it reads.
RecvOutstanding(out) == {r \in Scan(out) : r.rc = "FOUND"}

\* One read of the first n tokens that wait in the terminal, appended to the
\* outstanding data. "AGAIN": the call goes on with another, blocking, read.
RecvRead(out, pty, n) == Scan(out \o SubSeq(pty, 1, n))
=============================================================================
