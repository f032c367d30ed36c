---------------------------- MODULE MCStoreSafety ----------------------------
(***************************************************************************)
(* One instance of Store with two scenarios, which together would be more  *)
(* than TLC can enumerate: frames, their events and retention vary while   *)
(* the row stays, or the rows under the name and what was read of them do. *)
(***************************************************************************)
EXTENDS MCStore

CONSTANT c1  \* the configuration of a new row

VARIABLE scenario

\* The first also when a name comes back; the others while a row stays.
SafetyPayloads == {Quiet(s1), Report(s1, m1), Report(s1, m2)}

\* Bound: one row in one state and configuration that is not due, or frames that
\* report nothing.  Configurations of different rows are never compared, so that
\* each begins with the same one.
Within ==
    /\ deployment.configRevision = 1 => deployment.config = c1
    /\ \/ /\ scenario = "frames"
          /\ deployment.id <= 1 /\ deployment.configRevision <= 1
          /\ deployment.state \in {s1, None} /\ deployment.expiry # "due"
       \/ /\ scenario = "names"
          /\ \A i \in DOMAIN commits : commits[i].frame.payload = Quiet(s1)

SafetyInit == Init /\ scenario \in {"frames", "names"}

SafetyNext == Next /\ UNCHANGED scenario /\ Within'

SafetySpec == SafetyInit /\ [][SafetyNext]_<<storeVars, scenario>>

=============================================================================
