---------------------------- MODULE TextChannel -----------------------------
(***************************************************************************)
(* What pdip_recv() and pdip_flush() promise to a program that reads the   *)
(* text of another one: the text comes in order, no character is lost or   *)
(* given twice, a call that looks for a regular expression ends with the   *)
(* first match of what it has seen or without having skipped one, and      *)
(* "end of file" is only answered when nothing more can be given.          *)
(* Buffers, sizes, terminals and time are not part of it.                  *)
(***************************************************************************)
EXTENDS PdipRegex

CONSTANTS Regexes, NoRegex, Idle

VARIABLES queue,        \* written by the program, not given to the caller yet
          got,          \* given to the caller
          asked,        \* what the call under way looks for, or Idle
          rc            \* the answer of the last call

cvars == << queue, got, asked, rc >>

Init ==
    /\ queue = << >>
    /\ got = << >>
    /\ asked = Idle
    /\ rc = "NONE"

\* The program writes.
Write ==
    /\ \E c \in Chars : queue' = Append(queue, c)
    /\ UNCHANGED << got, asked, rc >>

Call ==
    /\ asked = Idle
    /\ asked' \in Regexes \cup {NoRegex}
    /\ rc' = "NONE"
    /\ UNCHANGED << queue, got >>

\* The n first characters go to the caller, and the call for "re" ends.
Give(n, answer) ==
    /\ got' = got \o SubSeq(queue, 1, n)
    /\ queue' = SubSeq(queue, n + 1, Len(queue))
    /\ asked' = Idle
    /\ rc' = answer

\* A call for re ends. It may have begun with this very step.
Answer(re) ==
    \* The first match of the text seen so far ends what is given.
    \/ /\ re # NoRegex
       /\ \E seen \in 1..Len(queue) :
              /\ IsMatch(re, SubSeq(queue, 1, seen))
              /\ Give(MatchEnd(re, SubSeq(queue, 1, seen)), "FOUND")
    \* The text given is part of a text without match.
    \/ \E n \in 1..Len(queue) :
           /\ re # NoRegex => \E seen \in n..Len(queue) : ~IsMatch(re, SubSeq(queue, 1, seen))
           /\ Give(n, "DATA")
    \/ /\ re = NoRegex => queue = << >>
       /\ Give(0, "TIMEOUT")
    \* End of file: nothing is left that could be given.
    \/ /\ IF re = NoRegex THEN queue = << >> ELSE queue = << >> \/ ~IsMatch(re, queue)
       /\ Give(0, "EIO")
    \* Without memory the text that was waiting may be lost.
    \/ \E n \in 0..Len(queue), m \in 0..Len(queue) :
           /\ m <= n
           /\ queue' = SubSeq(queue, n + 1, Len(queue))
           /\ got' = got \o SubSeq(queue, m + 1, n)
           /\ asked' = Idle
           /\ rc' = "ENOMEM"

Return ==
    \/ asked # Idle /\ Answer(asked)
    \/ asked = Idle /\ \E re \in Regexes \cup {NoRegex} : Answer(re)

\* A call refused for its arguments or for the state of the object, or which
\* has nothing to give.
Refuse ==
    /\ asked = Idle
    /\ rc' \in {"EINVAL", "EPERM", "NONE"}
    /\ UNCHANGED << queue, got, asked >>

Next == Write \/ Call \/ Return \/ Refuse

Spec == Init /\ [][Next]_cvars
=============================================================================
