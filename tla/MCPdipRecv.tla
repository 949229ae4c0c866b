---------------------------- MODULE MCPdipRecv ------------------------------
(* Instances of PdipRecv for TLC.                                          *)
EXTENDS PdipRecv

\* "aa" and "^$": a match over two reads, and one that is empty and depends on
\* where a line begins and ends.
MCRegexes == {[pat |-> << "a", "a" >>, bol |-> FALSE, eol |-> FALSE],
              [pat |-> << >>, bol |-> TRUE, eol |-> TRUE]}
=============================================================================
