----------------------------- MODULE PdipRegex ------------------------------
(***************************************************************************)
(* What regexec() answers to the PDIP library for expressions made of      *)
(* literal characters and anchors, compiled with REG_NEWLINE: the record   *)
(* [pat, bol, eol] stands for the characters pat, preceded by "^" when bol *)
(* and followed by "$" when eol.                                           *)
(***************************************************************************)
EXTENDS Integers, Sequences

CONSTANTS Chars,        \* the characters a program writes
          NL,           \* the line feed
          NUL           \* the NUL character, which a program may write or not

ASSUME CharsAssumption == NL \in Chars /\ NUL # NL

Regex == [pat : Seq(Chars), bol : BOOLEAN, eol : BOOLEAN]

\* A C string ends at its first NUL.
strlen(d) ==
    IF \E i \in 1..Len(d) : d[i] = NUL
    THEN CHOOSE i \in 0..(Len(d) - 1) :
            d[i + 1] = NUL /\ \A j \in 1..i : d[j] # NUL
    ELSE Len(d)

\* The offsets of d at which re matches. The first character of the string
\* begins a line and its end ends one, wherever the string was cut.
Matches(re, d) ==
    LET m == Len(re.pat)
    IN {i \in 0..(strlen(d) - m) :
            /\ SubSeq(d, i + 1, i + m) = re.pat
            /\ re.bol => i = 0 \/ d[i] = NL
            /\ re.eol => i + m = strlen(d) \/ d[i + m + 1] = NL}

IsMatch(re, d) == Matches(re, d) # {}

\* The end offset of the first match.
rm_eo(re, d) ==
    Len(re.pat) + CHOOSE i \in Matches(re, d) : \A j \in Matches(re, d) : i <= j

\* A line feed at which an empty match stands is taken with it.
MatchEnd(re, d) == IF rm_eo(re, d) = 0 /\ d[1] = NL THEN 1 ELSE rm_eo(re, d)

=============================================================================
