--------------------------------- MODULE Cmd ---------------------------------
(***************************************************************************)
(* src/mini-shell-project-FreezeKickerz/src/cmd.c: parse_command runs a    *)
(* command tree.  Simple commands are assignments (setenv), cd, exit/quit  *)
(* and external programs run by a forked child; compound commands are      *)
(* ;, &, ||, && and |, the & and | branches each in a forked child.        *)
(*                                                                         *)
(* Only the shell process's own state is modelled: its working directory  *)
(* and environment.  What a child does to its own copy is lost when it     *)
(* exits, and reaches the parent only as an exit status, so a child is     *)
(* evaluated for its status alone.  Every call that can fail (fork, pipe,  *)
(* chdir, setenv) and every way a program can end (exit code, killed by a  *)
(* signal) is a nondeterministic choice: ParseCommand(c, sh) is the set of *)
(* results the call can return in shell state sh.                          *)
(*                                                                         *)
(* A result also records ok, whether the command did what it says: its     *)
(* processes were created, its last program exited 0, its cd or setenv     *)
(* took effect, its pipe connected.  cmd.c's own convention (parse_simple  *)
(* returns the child's exit code; a failed fork returns -1) is that status *)
(* 0 means exactly that.                                                   *)
(***************************************************************************)
EXTENDS Integers, Sequences

CONSTANTS
    SHELL_EXIT,   \* the value cmd.h gives exit/quit and the unknown operator
    Dirs,         \* directory names a cd can name
    Exists,       \* the ones chdir finds
    Home,         \* the shell's starting directory, in Exists
    Names,        \* variable names an assignment can set; "" is invalid
    Val,          \* the value assigned
    Unset,        \* an unset variable
    Script        \* the command trees the shell reads, one per line

\* A result of parse_command in the process that runs it.
Res(sh, st, ok) == [sh |-> sh, status |-> st, ok |-> ok, exited |-> FALSE]

\* A function declared bool returns its int expression as 0 or 1.
ToBool(x) == IF x = 0 THEN 0 ELSE 1

\* The status a parent's waitpid sees when a child calls exit(x): x & 0377.
ExitCode(x) == x % 256

\* The exit code of a child that ran exit(parse_command(...)) and got r.
ChildExit(r) == ExitCode(r.status)

\* shell_cd: chdir's 0 or -1 returned as bool, so failure is 1.
ShellCd(d, sh) ==
    IF d \in Exists THEN Res([sh EXCEPT !.cwd = d], ToBool(0), TRUE)
    ELSE Res(sh, ToBool(-1), FALSE)

\* shell_exit: exit(SHELL_EXIT) ends the process that calls it.
ShellExit(sh) == [sh |-> sh, status |-> SHELL_EXIT, ok |-> FALSE, exited |-> TRUE]

\* An assignment NAME=value: setenv(name, value, 1), whose -1 (EINVAL for
\* an empty name) is the status.
SetEnv(n, sh) ==
    IF n = "" THEN Res(sh, -1, FALSE)
    ELSE Res([sh EXCEPT !.env[n] = Val], 0, TRUE)

\* The cd branch of parse_command: a child performs the redirections and
\* its own chdir and exits 0; after waitpid the shell runs shell_cd itself.
\* If the fork fails the call returns -1 and the directory is unchanged.
CdCommand(d, sh) == {Res(sh, -1, FALSE), ShellCd(d, sh)}

\* parse_simple: fork fails (-1); or the child sets up redirections and
\* execs the program, which exits with 0 or 1 (1 is also EXIT_FAILURE when
\* exec fails) or is killed by a signal, which WIFEXITED turns into -1.
ParseSimple(sh) ==
    {Res(sh, -1, FALSE), Res(sh, 0, TRUE), Res(sh, 1, FALSE), Res(sh, -1, FALSE)}

RECURSIVE ParseCommand(_, _)

\* run_in_parallel: either fork failing returns false, which is 0, and so
\* does a second child killed by a signal (WIFEXITED false); otherwise the
\* parent waits for both and returns WEXITSTATUS(status2) as bool.  The
\* first child's status is dropped.
RunInParallel(c1, c2, sh) ==
    {Res(sh, 0, FALSE)}
    \cup {Res(sh, ToBool(ChildExit(r2)), r2.ok) : r2 \in ParseCommand(c2, sh)}

\* run_on_pipe: as run_in_parallel (a failed fork or a killed second child
\* returns false), but a failed pipe() is only reported and the children
\* run unconnected.
RunOnPipe(c1, c2, sh) ==
    {Res(sh, 0, FALSE)}
    \cup {Res(sh, ToBool(ChildExit(r2)), connected /\ r2.ok) :
            r2 \in ParseCommand(c2, sh), connected \in BOOLEAN}

\* parse_command(c): a simple command by its verb; ; runs both, && and ||
\* run cmd2 on a zero or non-zero status of cmd1.  An exit in cmd1 ends
\* the process, so nothing after it runs.
ParseCommand(c, sh) ==
    CASE c.op = "none" /\ c.verb = "assign" -> {SetEnv(c.arg, sh)}
      [] c.op = "none" /\ c.verb = "cd" -> CdCommand(c.arg, sh)
      [] c.op = "none" /\ c.verb = "exit" -> {ShellExit(sh)}
      [] c.op = "none" /\ c.verb = "prog" -> ParseSimple(sh)
      [] c.op = "seq" ->
            UNION {IF r1.exited THEN {r1} ELSE ParseCommand(c.cmd2, r1.sh) :
                     r1 \in ParseCommand(c.cmd1, sh)}
      [] c.op = "par" -> RunInParallel(c.cmd1, c.cmd2, sh)
      [] c.op = "nzero" ->
            UNION {IF r1.exited \/ r1.status = 0 THEN {r1}
                   ELSE {[r2 EXCEPT !.ok = r1.ok \/ r2.ok] : r2 \in ParseCommand(c.cmd2, r1.sh)} :
                     r1 \in ParseCommand(c.cmd1, sh)}
      [] c.op = "zero" ->
            UNION {IF r1.exited \/ r1.status # 0 THEN {r1}
                   ELSE {[r2 EXCEPT !.ok = r1.ok /\ r2.ok] : r2 \in ParseCommand(c.cmd2, r1.sh)} :
                     r1 \in ParseCommand(c.cmd1, sh)}
      [] c.op = "pipe" -> RunOnPipe(c.cmd1, c.cmd2, sh)

-----------------------------------------------------------------------------
VARIABLES
    cwd,      \* the shell's working directory
    env,      \* the shell's environment
    line,     \* the next line of Script
    status,   \* what parse_command returned for the last line
    ok,       \* whether that line did what it says
    alive     \* the shell has not exited

vars == <<cwd, env, line, status, ok, alive>>

Init ==
    /\ cwd = Home /\ env = [n \in Names \ {""} |-> Unset]
    /\ line = 1 /\ status = 0 /\ ok = TRUE /\ alive = TRUE

\* The shell's loop runs parse_command on each line it reads and stops
\* when it returns SHELL_EXIT.
ShellLoop ==
    /\ alive /\ line <= Len(Script)
    /\ \E r \in ParseCommand(Script[line], [cwd |-> cwd, env |-> env]) :
          /\ cwd' = r.sh.cwd /\ env' = r.sh.env
          /\ status' = r.status /\ ok' = r.ok
          /\ alive' = (~r.exited /\ r.status # SHELL_EXIT)
    /\ line' = line + 1

Next == ShellLoop

Spec == Init /\ [][Next]_vars

-----------------------------------------------------------------------------
TypeOK ==
    /\ cwd \in Exists /\ env \in [Names \ {""} -> {Unset, Val}]
    /\ line \in 1..(Len(Script) + 1) /\ status \in Int
    /\ ok \in BOOLEAN /\ alive \in BOOLEAN

(* The status the shell keeps for a line is 0 exactly when the line       *)
(* succeeded, the convention parse_simple sets ("return its exit code", a *)
(* failed fork -1) and that && and || act on.                             *)
StatusMeansSuccess == alive => ((status = 0) = ok)
=============================================================================
