---------------------------- MODULE MCCheckpoint ----------------------------
(* Checkpoint on small instances: the configurations choose the processes,   *)
(* their commands, the drift and the failures.                               *)
EXTENDS Checkpoint, TLC

AnyCrash == ControlPoints \ ({"idle", "exit"} \cup Appending)
\* A kill anywhere but between crate.checkpoint.completed and last_checkpoint.
SafeCrashes == AnyCrash \ {"complete", "completed"}
\* Kills while checkpoint.lock is held, before and after the crate is written.
KeyCrashes == {"build", "complete"}
NoCrash == {}

Symmetry == Permutations(Proc)
=============================================================================
