---------------------------- MODULE MCPdipTool ------------------------------
(* Instances of PdipTool for TLC.                                          *)
EXTENDS PdipTool

\* "aa", a match over two reads, and "$", which is empty.
aa == [pat |-> << "a", "a" >>, bol |-> FALSE, eol |-> FALSE]
eol == [pat |-> << >>, bol |-> FALSE, eol |-> TRUE]

Cmd(k) == [k |-> k, re |-> NoRegex]
Recv(re) == [k |-> "recv", re |-> re]

\* Two synchronizations, the second with a timeout; processes of sh, waited for
\* or not, before a synchronization; the other commands, a timeout given and
\* cancelled among them.
MCScripts == {<< Recv(eol), Cmd("timeout"), Recv(aa) >>,
              << Cmd("sig"), Cmd("sh"), Recv(aa) >>,
              << Cmd("sh -s"), Cmd("sh"), Cmd("send"), Cmd("exit") >>,
              << Cmd("timeout"), Cmd("timeout 0"), Recv(aa), Cmd("other"), Cmd("bad") >>}

\* A script that only ends the interaction.
MCExit == {<< Cmd("exit") >>}
=============================================================================
