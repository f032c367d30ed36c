------------------------------- MODULE MCStore -------------------------------
(***************************************************************************)
(* Small instances of Store for TLC.                                       *)
(***************************************************************************)
EXTENDS Store, TLC

CONSTANTS s1, s2,     \* states
          src, v1,    \* a checkpoint source and value
          e1, m1, m2  \* an event id, and two contents it could carry

Checkpointing == src :> v1

\* Moves the state only.
Quiet(s) == [state |-> s, checkpoints |-> NoCheckpoints, events |-> {}]

\* Moves source progress and emits nothing.
Progress(s) == [Quiet(s) EXCEPT !.checkpoints = Checkpointing]

\* Reports the occurrence e1 with the given content, and moves source progress.
Report(s, body) == [Progress(s) EXCEPT !.events = {[id |-> e1, body |-> body]}]

ProgressPayloads == {Progress(s1)}

LifecyclePayloads == {Progress(s1), Progress(s2)}

=============================================================================
