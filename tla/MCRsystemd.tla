----------------------------- MODULE MCRsystemd -----------------------------
(* Instances of Rsystemd for TLC. *)
EXTENDS Rsystemd

CONSTANTS c1, c2

QuietOrLine == {<< >>, <<"line">>}
OneLine == {<<"line">>}
SplitLine == {<<"part", "line">>}

\* The clients play the same part; nothing that is checked tells them apart.
ClientSymmetry == Permutations({c1, c2})
=============================================================================
