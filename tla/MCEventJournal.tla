--------------------------- MODULE MCEventJournal ---------------------------
(* EventJournal on small instances: the configurations choose the processes, *)
(* their commands and the failures.                                          *)
EXTENDS EventJournal, TLC

\* Every control point at which a kill loses nothing but the process.
SafeCrashes == ControlPoints \ {"idle", "written"}
AnyCrash == ControlPoints \ {"idle"}
NoCrash == {}

\* Processes are interchangeable.
Symmetry == Permutations(Proc)
=============================================================================
