---------------------------- MODULE MC_Simulator ----------------------------
EXTENDS Simulator

\* Ties between an arrival and a completion may go either way for the
\* policies whose handlers are indifferent to it.
TieEitherWay == {"FCFS", "LCFS", "SJF"}
\* MLFQ with an arrival handled before a completion at the same instant.
TieMLFQ == {"MLFQ"}
=============================================================================
