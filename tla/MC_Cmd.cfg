\* The shell running four lines with every fork, pipe, program and cd
\* outcome.  The shell stops at the end of its script or on exit, so
\* deadlock is not an error.
CONSTANTS
    SHELL_EXIT <- ShellExitValue
    Dirs = {"/", "d", "x"}
    Exists = {"/", "d"}
    Home = "/"
    Names = {"V", ""}
    Val = Val
    Unset = Unset
    Script <- ShellScript
SPECIFICATION Spec
INVARIANT StatusMeansSuccess
CHECK_DEADLOCK FALSE
