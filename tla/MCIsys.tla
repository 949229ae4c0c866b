------------------------------- MODULE MCIsys -------------------------------
(* Instances of Isys for TLC.                                              *)
EXTENDS Isys

MCMaxCalls == [p \in Procs |-> IF p = Father THEN 2 ELSE 1]

Program(out, how, n) == [out |-> out, how |-> how, n |-> n]

\* Nothing, a line and an empty one, the beginning of a line.
MCPrograms == {Program(<< >>, "exit", 0),
               Program(<< "line", "empty" >>, "exit", 127),
               Program(<< "part" >>, "signal", 9)}
=============================================================================
