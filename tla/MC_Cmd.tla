-------------------------------- MODULE MC_Cmd --------------------------------
EXTENDS Cmd

\* SHELL_EXIT as the shell skeleton's cmd.h defines it.
ShellExitValue == -100

\* Command trees as the parser builds them: a simple command is op "none"
\* with its verb, a compound one has op and its two operands.
Prog == [op |-> "none", verb |-> "prog", arg |-> ""]
Cd(d) == [op |-> "none", verb |-> "cd", arg |-> d]
Assign(n) == [op |-> "none", verb |-> "assign", arg |-> n]
Exit == [op |-> "none", verb |-> "exit", arg |-> ""]
Op(o, c1, c2) == [op |-> o, cmd1 |-> c1, cmd2 |-> c2]

(* The shell reads four lines:                                             *)
(*   prog & prog && cd d        cd only if the background pair succeeded   *)
(*   V=v ; cd d | prog          a cd in a pipeline child, then a program   *)
(*   cd x || prog ; =v           a failing cd recovered by ||, a bad name  *)
(*   prog || exit               exit when the program fails                *)
ShellScript ==
    << Op("zero", Op("par", Prog, Prog), Cd("d")),
       Op("seq", Assign("V"), Op("pipe", Cd("d"), Prog)),
       Op("seq", Op("nzero", Cd("x"), Prog), Assign("")),
       Op("nzero", Prog, Exit) >>
=============================================================================
