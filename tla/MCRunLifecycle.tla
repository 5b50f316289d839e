--------------------------- MODULE MCRunLifecycle ---------------------------
(* Instances of RunLifecycle: an agent that runs commands, and its hooks.     *)
EXTENDS RunLifecycle, TLC

CONSTANTS cli, hooks, n1, n2

\* A run is started, worked on or closed, and worked on or followed by the next.
AgentAndHooks ==
    (cli :> <<{"start"}, CommandNames \ {"start", "hook"}, {"start", "step", "complete", "phase"}>>)
    @@ (hooks :> <<{"hook"}>>)

\* Between them every save a checkpoint may do.
SomeExtras == {{"request", "drift"}, {"selection"}}

\* Not in the archiving behind the first move, between state.json and run.started,
\* or between an event and the field of state.json that repeats it.
SafeKills == {"write_state", "save_state", "events.ndjson"}

\* A run with a write undone is followed for a few events, into the next run.
UndoneBound == undone # {} => minted <= 6

Symmetry == Permutations({n1, n2})
=============================================================================
