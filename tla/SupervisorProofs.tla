--------------------------- MODULE SupervisorProofs ---------------------------
(***************************************************************************)
(* Theorems about one worker process (Supervisor.tla), for any numbers of  *)
(* callbacks and commits: which deadline is watched, why a callback is     *)
(* given up, what ends a plan, and what the daemon is told of failures.    *)
(***************************************************************************)
EXTENDS Supervisor, TLAPS

-----------------------------------------------------------------------------
(* The invariant *)

\* Deadlines are numbered by commits, and only the last commit is in progress.
CommitsInOrder == failed \in Nat /\ scope \in {0, admitted}

\* A callback outlives its part of the plan only when it was given up on.
CallbackJoined ==
    /\ plan.at \in {"due", "resting"} => callback.at = "none"
    /\ plan.at = "ended" /\ plan.err # "running" => callback.at = "none"
    /\ plan.err = "running" => plan.at \in {"ended", "done"}

\* A run that is not over has not been reported.
ReportPending ==
    plan.at \in {"watching", "joining", "expired", "ended"} => failures < callbacks

\* What reminds Commit of the stop deadline came from a stop frame.
StopHeard == commitStop \/ commitTimed \/ graceOver => request # "none"

\* Something tells the plan of an uncertain commit before it runs a callback.
UncertainHeard ==
    /\ unsettled => wireFailed \/ fatal \/ request # "none"
    /\ unsettled /\ plan.at = "resting" => fatal \/ request # "none"
    /\ unsettled => plan.at # "due"

\* Main cancels the plan for a stop frame, for the plan's end, or as it exits.
CancelledForCause ==
    /\ cancelled /\ Running /\ request = "none" => plan.at = "done"
    /\ main \in {"hook", "reporting"} => plan.at = "done"
    /\ main = "stopping" => request # "none"

\* Each failed callback is in a run frame, or is about to be.
FailuresReported ==
    Running /\ request = "none" =>
        /\ plan.at \in {"due", "resting", "watching", "joining", "expired"}
                => failures = failed
        /\ plan.at = "ended"
                => failed = failures + (IF Failure(plan.err) THEN 1 ELSE 0)
        /\ plan.at = "done" /\ ~wireFailed
                => failures = failed /\ (plan.err = "ok" \/ plan.reported)

\* The stopped frame is the last thing a process does.
StoppedIsLast == Running => stopped = "none"

\* What a reader of every frame would count.
Sent == failures + (IF stopped = "unclean" THEN 1 ELSE 0)

\* The frames of a process that sent its last one account for each failed callback.
StoppedAccounts ==
    stopped # "none" /\ request = "none" =>
        Sent = failed + (IF stopped = "unclean" /\ plan.err = "ok" THEN 1 ELSE 0)

SupervisorInv ==
    /\ TypeOK
    /\ CommitsInOrder
    /\ CommitsWatched
    /\ CallbackJoined
    /\ ReportPending
    /\ StopHeard
    /\ UncertainHeard
    /\ CancelledForCause
    /\ FailuresReported
    /\ StoppedIsLast
    /\ StoppedAccounts

\* serve only returns from a process that is over, and believes what it says.
ServeAgrees ==
    /\ serve # "reading" => ~Running
    /\ serve \in {"stopped", "unclean"} =>
        /\ heard = failures /\ stopped # "none"
        /\ serve = "unclean" <=> stopped = "unclean"

\* At most the last failure is in no run frame.
FailuresSent == request = "none" => failed \in {failures, failures + 1}

CountInv == SupervisorInv /\ ServeAgrees /\ FailuresSent

-----------------------------------------------------------------------------
(* The steps *)

\* TypeOK in the three parts that most steps disturb separately.
ControlTyped ==
    /\ kind \in {"continuous", "every", "once"}
    /\ main \in {"ready", "stopping", "hook", "reporting", "exited"}
    /\ plan \in [at : {"due", "watching", "joining", "expired", "ended",
                       "resting", "done"},
                 err : PlanErrors, reported : BOOLEAN]
    /\ callback \in [at : {"none", "working", "committing", "returned"},
                     err : Errors]
    /\ request \in {"none", "read", "taken"}
    /\ stopped \in {"none", "clean", "reported", "unclean"}
    /\ serve \in {"reading", "stopped", "unclean", "lost"}

CountersTyped ==
    /\ {scope, timer, passed} \subseteq 0..admitted /\ admitted \in 0..MaxCommits
    /\ callback.at = "committing" <=> scope > 0
    /\ callbacks \in 0..MaxCallbacks /\ failures \in 0..callbacks
    /\ heard \in 0..failures

FlagsTyped ==
    {expired, changed, commitStop, commitTimed, cancelled, fatal, wireFailed,
        graceOver, unsettled} \subseteq BOOLEAN

\* What is left of the invariant without the types.
ProtocolInv ==
    /\ CommitsInOrder /\ CommitsWatched /\ CallbackJoined /\ ReportPending
    /\ StopHeard /\ UncertainHeard /\ CancelledForCause
    /\ FailuresReported /\ StoppedIsLast /\ StoppedAccounts

LEMMA InvariantParts ==
    SupervisorInv <=> ControlTyped /\ CountersTyped /\ FlagsTyped /\ ProtocolInv
  BY DEF SupervisorInv, TypeOK, ControlTyped, CountersTyped, FlagsTyped, ProtocolInv

\* The same of the next state.
LEMMA InvariantPartsNext ==
    ASSUME ControlTyped', CountersTyped', FlagsTyped', ProtocolInv'
    PROVE  SupervisorInv'
  BY DEF SupervisorInv, TypeOK, ControlTyped, CountersTyped, FlagsTyped, ProtocolInv

\* The callback and its commits: a deadline is set and withdrawn with its signal.
LEMMA CallbackStepKeeps ==
    ASSUME SupervisorInv, CallbackStep
    PROVE  SupervisorInv'
<1> USE SupervisorBounds DEF Running, time, channels, commitVars, frames, daemon
<1>1. ControlTyped /\ CountersTyped /\ FlagsTyped /\ ProtocolInv
  BY InvariantParts
<1>2. CASE Running /\ AdmitCommit
  <2>1. ControlTyped' /\ FlagsTyped'
    <3>1. ControlTyped'
      BY <1>1, <1>2 DEF ControlTyped, Errors, PlanErrors, AdmitCommit, ScopeBegins, Notify
    <3>2. FlagsTyped'
      BY <1>1, <1>2 DEF FlagsTyped, AdmitCommit, ScopeBegins, Notify
    <3> QED
      BY <3>1, <3>2
  <2>2. CountersTyped'
    BY <1>1, <1>2 DEF CountersTyped, ProtocolInv, CommitsInOrder, CallbackJoined,
       ReportPending, AdmitCommit, ScopeBegins, Notify
  <2>3. ProtocolInv'
    BY <1>1, <1>2 DEF ProtocolInv, CommitsInOrder, CommitsWatched, CallbackJoined, ReportPending,
       StopHeard, UncertainHeard, CancelledForCause, FailuresReported,
       Failure, StoppedIsLast, StoppedAccounts,
       ControlTyped, CountersTyped, FlagsTyped, Errors, PlanErrors,
       Sent, AdmitCommit, ScopeBegins, Notify
  <2> QED
    BY <2>1, <2>2, <2>3, InvariantPartsNext
<1>3. CASE Running /\ CommitAcked
  <2>1. ControlTyped' /\ FlagsTyped'
    BY <1>1, <1>3 DEF ControlTyped, FlagsTyped, Errors, PlanErrors, CommitAcked, ScopeEnds, Notify
  <2>2. CountersTyped'
    BY <1>1, <1>3 DEF CountersTyped, ProtocolInv, CommitsInOrder, CallbackJoined,
       ReportPending, CommitAcked, ScopeEnds, Notify
  <2>3. ProtocolInv'
    BY <1>1, <1>3 DEF ProtocolInv, CommitsInOrder, CommitsWatched, CallbackJoined, ReportPending,
       StopHeard, UncertainHeard, CancelledForCause, FailuresReported,
       Failure, StoppedIsLast, StoppedAccounts,
       ControlTyped, CountersTyped, FlagsTyped, Errors, PlanErrors,
       Sent, CommitAcked, ScopeEnds, Notify
  <2> QED
    BY <2>1, <2>2, <2>3, InvariantPartsNext
<1>4. CASE Running /\ TakeCommitStop
  <2>1. ControlTyped' /\ FlagsTyped'
    <3>1. ControlTyped'
      BY <1>1, <1>4 DEF ControlTyped, Errors, PlanErrors, TakeCommitStop
    <3>2. FlagsTyped'
      BY <1>1, <1>4 DEF FlagsTyped, TakeCommitStop
    <3> QED
      BY <3>1, <3>2
  <2>2. CountersTyped'
    BY <1>1, <1>4 DEF CountersTyped, ProtocolInv, CommitsInOrder, CallbackJoined,
       ReportPending, TakeCommitStop
  <2>3. ProtocolInv'
    BY <1>1, <1>4 DEF ProtocolInv, CommitsInOrder, CommitsWatched, CallbackJoined, ReportPending,
       StopHeard, UncertainHeard, CancelledForCause, FailuresReported,
       Failure, StoppedIsLast, StoppedAccounts,
       ControlTyped, CountersTyped, FlagsTyped, Errors, PlanErrors,
       Sent, TakeCommitStop
  <2> QED
    BY <2>1, <2>2, <2>3, InvariantPartsNext
<1>5. CASE Running /\ CommitFails
  <2>1. ControlTyped' /\ FlagsTyped'
    <3>1. ControlTyped'
      BY <1>1, <1>5 DEF ControlTyped, Errors, PlanErrors, CommitFails, ScopeEnds, Notify, PoisonsWire
    <3>2. FlagsTyped'
      BY <1>1, <1>5 DEF FlagsTyped, CommitFails, ScopeEnds, Notify, PoisonsWire
    <3> QED
      BY <3>1, <3>2
  <2>2. CountersTyped'
    BY <1>1, <1>5 DEF CountersTyped, ProtocolInv, CommitsInOrder, CallbackJoined,
       ReportPending, CommitFails, ScopeEnds, Notify, PoisonsWire
  <2>3. ProtocolInv'
    BY <1>1, <1>5 DEF ProtocolInv, CommitsInOrder, CommitsWatched, CallbackJoined, ReportPending,
       StopHeard, UncertainHeard, CancelledForCause, FailuresReported,
       Failure, StoppedIsLast, StoppedAccounts,
       ControlTyped, CountersTyped, FlagsTyped, Errors, PlanErrors,
       Sent, CommitFails, ScopeEnds, Notify, PoisonsWire
  <2> QED
    BY <2>1, <2>2, <2>3, InvariantPartsNext
<1>6. CASE Running /\ CallbackReturns
  <2>1. ControlTyped' /\ FlagsTyped'
    BY <1>1, <1>6 DEF ControlTyped, FlagsTyped, Errors, PlanErrors, CallbackReturns
  <2>2. CountersTyped'
    BY <1>1, <1>6 DEF CountersTyped, ProtocolInv, CommitsInOrder, CallbackJoined,
       ReportPending, CallbackReturns
  <2>3. ProtocolInv'
    BY <1>1, <1>6 DEF ProtocolInv, CommitsInOrder, CommitsWatched, CallbackJoined, ReportPending,
       StopHeard, UncertainHeard, CancelledForCause, FailuresReported,
       Failure, StoppedIsLast, StoppedAccounts,
       ControlTyped, CountersTyped, FlagsTyped, Errors, PlanErrors,
       Sent, CallbackReturns
  <2> QED
    BY <2>1, <2>2, <2>3, InvariantPartsNext
<1> QED
  BY <1>2, <1>3, <1>4, <1>5, <1>6 DEF CallbackStep

\* The plan watches a callback, and leaves it in one way.
LEMMA WatchStepKeeps ==
    ASSUME SupervisorInv, Running, \/ StartCallback \/ TakeResult \/ TakeChanged \/ SettlementFires
           \/ CallbackDone \/ Join \/ TakeLateResult \/ UnwindFires
    PROVE  SupervisorInv'
<1> USE SupervisorBounds DEF Running, time, channels, commitVars, frames, daemon
<1>1. ControlTyped /\ CountersTyped /\ FlagsTyped /\ ProtocolInv
  BY InvariantParts
<1>2. CASE StartCallback
  <2>1. ControlTyped' /\ FlagsTyped'
    BY <1>1, <1>2 DEF ControlTyped, FlagsTyped, Errors, PlanErrors, StartCallback
  <2>2. CountersTyped'
    BY <1>1, <1>2 DEF CountersTyped, ProtocolInv, CommitsInOrder, CallbackJoined,
       ReportPending, StartCallback
  <2>3. ProtocolInv'
    BY <1>1, <1>2 DEF ProtocolInv, CommitsInOrder, CommitsWatched, CallbackJoined, ReportPending,
       StopHeard, UncertainHeard, CancelledForCause, FailuresReported,
       Failure, StoppedIsLast, StoppedAccounts,
       ControlTyped, CountersTyped, FlagsTyped, Errors, PlanErrors,
       Sent, StartCallback
  <2> QED
    BY <2>1, <2>2, <2>3, InvariantPartsNext
<1>3. CASE TakeResult
  <2>1. ControlTyped' /\ FlagsTyped'
    BY <1>1, <1>3 DEF ControlTyped, FlagsTyped, Errors, PlanErrors, TakeResult, Ended
  <2>2. CountersTyped'
    BY <1>1, <1>3 DEF CountersTyped, ProtocolInv, CommitsInOrder, CallbackJoined,
       ReportPending, TakeResult, Ended
  <2>3. ProtocolInv'
    BY <1>1, <1>3 DEF ProtocolInv, CommitsInOrder, CommitsWatched, CallbackJoined, ReportPending,
       StopHeard, UncertainHeard, CancelledForCause, FailuresReported,
       Failure, StoppedIsLast, StoppedAccounts,
       ControlTyped, CountersTyped, FlagsTyped, Errors, PlanErrors,
       Sent, TakeResult, Ended
  <2> QED
    BY <2>1, <2>2, <2>3, InvariantPartsNext
<1>4. CASE TakeChanged
  <2>1. ControlTyped' /\ FlagsTyped'
    <3>1. ControlTyped'
      BY <1>1, <1>4 DEF ControlTyped, Errors, PlanErrors, TakeChanged
    <3>2. FlagsTyped'
      BY <1>1, <1>4 DEF FlagsTyped, TakeChanged
    <3> QED
      BY <3>1, <3>2
  <2>2. CountersTyped'
    BY <1>1, <1>4 DEF CountersTyped, ProtocolInv, CommitsInOrder, CallbackJoined,
       ReportPending, TakeChanged
  <2>3. ProtocolInv'
    BY <1>1, <1>4 DEF ProtocolInv, CommitsInOrder, CommitsWatched, CallbackJoined, ReportPending,
       StopHeard, UncertainHeard, CancelledForCause, FailuresReported,
       Failure, StoppedIsLast, StoppedAccounts,
       ControlTyped, CountersTyped, FlagsTyped, Errors, PlanErrors,
       Sent, TakeChanged
  <2> QED
    BY <2>1, <2>2, <2>3, InvariantPartsNext
<1>5. CASE SettlementFires
  <2>1. ControlTyped' /\ FlagsTyped'
    <3>1. ControlTyped'
      <4>1. CASE Overdue
        <5>1. /\ plan' = [plan EXCEPT !.at = "ended", !.err = "running"]
              /\ UNCHANGED <<kind, main, callback, request, stopped, serve>>
          BY <1>5, <4>1 DEF SettlementFires, Ended
        <5>2. plan' \in [at : {"due", "watching", "joining", "expired", "ended",
                              "resting", "done"}, err : PlanErrors, reported : BOOLEAN]
          BY <1>1, <5>1 DEF ControlTyped, PlanErrors, Errors
        <5> QED
          BY <1>1, <5>1, <5>2 DEF ControlTyped
      <4>2. CASE ~Overdue
        BY <1>1, <1>5, <4>2 DEF ControlTyped, SettlementFires
      <4> QED
        BY <4>1, <4>2
    <3>2. FlagsTyped'
      BY <1>1, <1>5 DEF FlagsTyped, SettlementFires, Ended, Overdue
    <3> QED
      BY <3>1, <3>2
  <2>2. CountersTyped'
    BY <1>1, <1>5 DEF CountersTyped, ProtocolInv, CommitsInOrder, CallbackJoined,
       ReportPending, SettlementFires, Ended, Overdue
  <2>3. ProtocolInv'
    <3>1. CASE Overdue
      <4>1. /\ plan' = [plan EXCEPT !.at = "ended", !.err = "running"]
            /\ failed' = failed + 1
            /\ plan.at = "watching"
            /\ UNCHANGED <<main, callback, timer, changed, cancelled, callbacks,
                           time, channels, commitVars, frames>>
        BY <1>5, <3>1 DEF SettlementFires, Ended, Failure
      <4>2. plan'.at = "ended" /\ plan'.err = "running"
        BY <1>1, <4>1 DEF ControlTyped
      <4>3. Failure(plan.err)'
        BY <4>2 DEF Failure
      <4> QED
        BY <1>1, <4>1, <4>2, <4>3
        DEF ProtocolInv, CommitsInOrder, CommitsWatched, CallbackJoined,
            ReportPending, StopHeard, UncertainHeard, CancelledForCause,
            FailuresReported, StoppedIsLast, StoppedAccounts, Sent,
            ControlTyped, CountersTyped, FlagsTyped
    <3>2. CASE ~Overdue
      BY <1>1, <1>5, <3>2
      DEF ProtocolInv, CommitsInOrder, CommitsWatched, CallbackJoined, ReportPending,
         StopHeard, UncertainHeard, CancelledForCause, FailuresReported,
         Failure, StoppedIsLast, StoppedAccounts,
         ControlTyped, CountersTyped, FlagsTyped, Errors, PlanErrors,
         Sent, SettlementFires, Ended, Overdue
    <3> QED
      BY <3>1, <3>2
  <2> QED
    BY <2>1, <2>2, <2>3, InvariantPartsNext
<1>6. CASE CallbackDone
  <2>1. ControlTyped' /\ FlagsTyped'
    BY <1>1, <1>6 DEF ControlTyped, FlagsTyped, Errors, PlanErrors, CallbackDone
  <2>2. CountersTyped'
    BY <1>1, <1>6 DEF CountersTyped, ProtocolInv, CommitsInOrder, CallbackJoined,
       ReportPending, CallbackDone
  <2>3. ProtocolInv'
    BY <1>1, <1>6 DEF ProtocolInv, CommitsInOrder, CommitsWatched, CallbackJoined, ReportPending,
       StopHeard, UncertainHeard, CancelledForCause, FailuresReported,
       Failure, StoppedIsLast, StoppedAccounts,
       ControlTyped, CountersTyped, FlagsTyped, Errors, PlanErrors,
       Sent, CallbackDone
  <2> QED
    BY <2>1, <2>2, <2>3, InvariantPartsNext
<1>7. CASE Join
  <2>1. ControlTyped' /\ FlagsTyped'
    <3> DEFINE err == IF callback.err = "canceled" THEN "ok" ELSE callback.err
    <3>1. /\ plan' = [plan EXCEPT !.at = "ended", !.err = err]
          /\ callback' = [at |-> "none", err |-> "ok"]
          /\ UNCHANGED <<kind, main, request, stopped, serve>>
      BY <1>7 DEF Join, Ended
    <3>2. err \in PlanErrors
      BY <1>1 DEF ControlTyped, PlanErrors, Errors
    <3> HIDE DEF err
    <3>3. plan' \in [at : {"due", "watching", "joining", "expired", "ended",
                          "resting", "done"}, err : PlanErrors, reported : BOOLEAN]
      BY <1>1, <3>1, <3>2 DEF ControlTyped
    <3>4. ControlTyped'
      BY <1>1, <3>1, <3>3 DEF ControlTyped, Errors
    <3>5. FlagsTyped'
      BY <1>1, <1>7 DEF FlagsTyped, Join, Ended
    <3> QED
      BY <3>4, <3>5
  <2>2. CountersTyped'
    BY <1>1, <1>7 DEF CountersTyped, ProtocolInv, CommitsInOrder, CallbackJoined,
       ReportPending, Join, Ended
  <2>3. ProtocolInv'
    BY <1>1, <1>7 DEF ProtocolInv, CommitsInOrder, CommitsWatched, CallbackJoined, ReportPending,
       StopHeard, UncertainHeard, CancelledForCause, FailuresReported,
       Failure, StoppedIsLast, StoppedAccounts,
       ControlTyped, CountersTyped, FlagsTyped, Errors, PlanErrors,
       Sent, Join, Ended
  <2> QED
    BY <2>1, <2>2, <2>3, InvariantPartsNext
<1>8. CASE TakeLateResult
  <2>1. ControlTyped' /\ FlagsTyped'
    <3> DEFINE err == IF callback.err \in {"canceled", "panic", "uncertain"}
                       THEN callback.err ELSE "error"
    <3>1. /\ plan' = [plan EXCEPT !.at = "ended", !.err = err]
          /\ callback' = [at |-> "none", err |-> "ok"]
          /\ UNCHANGED <<kind, main, request, stopped, serve>>
      BY <1>8 DEF TakeLateResult, Ended
    <3>2. err \in PlanErrors
      BY <1>1 DEF ControlTyped, PlanErrors, Errors
    <3> HIDE DEF err
    <3>3. plan' \in [at : {"due", "watching", "joining", "expired", "ended",
                          "resting", "done"}, err : PlanErrors, reported : BOOLEAN]
      BY <1>1, <3>1, <3>2 DEF ControlTyped
    <3>4. ControlTyped'
      BY <1>1, <3>1, <3>3 DEF ControlTyped, Errors
    <3>5. FlagsTyped'
      BY <1>1, <1>8 DEF FlagsTyped, TakeLateResult, Ended
    <3> QED
      BY <3>4, <3>5
  <2>2. CountersTyped'
    BY <1>1, <1>8 DEF CountersTyped, ProtocolInv, CommitsInOrder, CallbackJoined,
       ReportPending, TakeLateResult, Ended
  <2>3. ProtocolInv'
    BY <1>1, <1>8 DEF ProtocolInv, CommitsInOrder, CommitsWatched, CallbackJoined, ReportPending,
       StopHeard, UncertainHeard, CancelledForCause, FailuresReported,
       Failure, StoppedIsLast, StoppedAccounts,
       ControlTyped, CountersTyped, FlagsTyped, Errors, PlanErrors,
       Sent, TakeLateResult, Ended
  <2> QED
    BY <2>1, <2>2, <2>3, InvariantPartsNext
<1>9. CASE UnwindFires
  <2>1. ControlTyped' /\ FlagsTyped'
    <3>1. ControlTyped'
      <4>1. /\ plan' = [plan EXCEPT !.at = "ended", !.err = "running"]
            /\ UNCHANGED <<kind, main, callback, request, stopped, serve>>
        BY <1>9 DEF UnwindFires, Ended
      <4>2. plan' \in [at : {"due", "watching", "joining", "expired", "ended",
                            "resting", "done"}, err : PlanErrors, reported : BOOLEAN]
        BY <1>1, <4>1 DEF ControlTyped, PlanErrors, Errors
      <4> QED
        BY <1>1, <4>1, <4>2 DEF ControlTyped
    <3>2. FlagsTyped'
      BY <1>1, <1>9 DEF FlagsTyped, UnwindFires, Ended
    <3> QED
      BY <3>1, <3>2
  <2>2. CountersTyped'
    BY <1>1, <1>9 DEF CountersTyped, ProtocolInv, CommitsInOrder, CallbackJoined,
       ReportPending, UnwindFires, Ended
  <2>3. ProtocolInv'
    BY <1>1, <1>9 DEF ProtocolInv, CommitsInOrder, CommitsWatched, CallbackJoined, ReportPending,
       StopHeard, UncertainHeard, CancelledForCause, FailuresReported,
       Failure, StoppedIsLast, StoppedAccounts,
       ControlTyped, CountersTyped, FlagsTyped, Errors, PlanErrors,
       Sent, UnwindFires, Ended
  <2> QED
    BY <2>1, <2>2, <2>3, InvariantPartsNext
<1> QED
  BY <1>2, <1>3, <1>4, <1>5, <1>6, <1>7, <1>8, <1>9

\* The plan reports a run, rests, and ends.
LEMMA RunStepKeeps ==
    ASSUME SupervisorInv, Running, \/ ReturnedWhileActive \/ EndCancelled
           \/ ReportRun \/ IntervalPasses \/ RestCancelled
    PROVE  SupervisorInv'
<1> USE SupervisorBounds DEF Running, time, channels, commitVars, frames, daemon
<1>1. ControlTyped /\ CountersTyped /\ FlagsTyped /\ ProtocolInv
  BY InvariantParts
<1>2. CASE ReturnedWhileActive
  <2>1. ControlTyped' /\ FlagsTyped'
    <3>1. ControlTyped'
      <4>1. /\ plan' = [plan EXCEPT !.at = "ended", !.err = "error"]
            /\ UNCHANGED <<kind, main, callback, request, stopped, serve>>
        BY <1>2 DEF ReturnedWhileActive, Ended
      <4>2. plan' \in [at : {"due", "watching", "joining", "expired", "ended",
                            "resting", "done"}, err : PlanErrors, reported : BOOLEAN]
        BY <1>1, <4>1 DEF ControlTyped, PlanErrors, Errors
      <4> QED
        BY <1>1, <4>1, <4>2 DEF ControlTyped
    <3>2. FlagsTyped'
      BY <1>1, <1>2 DEF FlagsTyped, ReturnedWhileActive, Ended
    <3> QED
      BY <3>1, <3>2
  <2>2. CountersTyped'
    BY <1>1, <1>2 DEF CountersTyped, ProtocolInv, CommitsInOrder, CallbackJoined,
       ReportPending, ReturnedWhileActive, Ended
  <2>3. ProtocolInv'
    BY <1>1, <1>2 DEF ProtocolInv, CommitsInOrder, CommitsWatched, CallbackJoined, ReportPending,
       StopHeard, UncertainHeard, CancelledForCause, FailuresReported,
       Failure, StoppedIsLast, StoppedAccounts,
       ControlTyped, CountersTyped, FlagsTyped, Errors, PlanErrors,
       Sent, ReturnedWhileActive, Ended
  <2> QED
    BY <2>1, <2>2, <2>3, InvariantPartsNext
<1>3. CASE EndCancelled
  <2>1. ControlTyped' /\ FlagsTyped'
    BY <1>1, <1>3 DEF ControlTyped, FlagsTyped, Errors, PlanErrors, EndCancelled, Finish
  <2>2. CountersTyped'
    BY <1>1, <1>3 DEF CountersTyped, ProtocolInv, CommitsInOrder, CallbackJoined,
       ReportPending, EndCancelled, Finish
  <2>3. ProtocolInv'
    BY <1>1, <1>3 DEF ProtocolInv, CommitsInOrder, CommitsWatched, CallbackJoined, ReportPending,
       StopHeard, UncertainHeard, CancelledForCause, FailuresReported,
       Failure, StoppedIsLast, StoppedAccounts,
       ControlTyped, CountersTyped, FlagsTyped, Errors, PlanErrors,
       Sent, EndCancelled, Finish
  <2> QED
    BY <2>1, <2>2, <2>3, InvariantPartsNext
<1>4. CASE ReportRun
  <2>1. ControlTyped' /\ FlagsTyped'
    <3>1. ControlTyped'
      <4>1. \/ \E err \in {"report", "ok", plan.err}, reported \in BOOLEAN :
                    plan' = [at |-> "done", err |-> err, reported |-> reported]
            \/ plan' = [plan EXCEPT !.at = "resting"]
        BY <1>4 DEF ReportRun, Finish, Reported
      <4>2. UNCHANGED <<kind, main, callback, request, stopped, serve>>
        BY <1>4 DEF ReportRun
      <4>3. plan'.at \in {"done", "resting"} /\ plan' \in
                [at : {"due", "watching", "joining", "expired", "ended",
                       "resting", "done"}, err : PlanErrors, reported : BOOLEAN]
        BY <1>1, <4>1 DEF ControlTyped, PlanErrors, Errors
      <4> QED
        BY <1>1, <4>2, <4>3 DEF ControlTyped
    <3>2. FlagsTyped'
      BY <1>1, <1>4 DEF FlagsTyped, ReportRun, Finish, Fatal, PoisonsWire, Reported
    <3> QED
      BY <3>1, <3>2
  <2>2. CountersTyped'
    BY <1>1, <1>4 DEF CountersTyped, ProtocolInv, CommitsInOrder, CallbackJoined,
       ReportPending, ReportRun, Finish, Fatal, PoisonsWire, Reported
  <2>3. ProtocolInv'
    BY <1>1, <1>4 DEF ProtocolInv, CommitsInOrder, CommitsWatched, CallbackJoined, ReportPending,
       StopHeard, UncertainHeard, CancelledForCause, FailuresReported,
       Failure, StoppedIsLast, StoppedAccounts,
       ControlTyped, CountersTyped, FlagsTyped, Errors, PlanErrors,
       Sent, ReportRun, Finish, Fatal, PoisonsWire, Reported
  <2> QED
    BY <2>1, <2>2, <2>3, InvariantPartsNext
<1>5. CASE IntervalPasses
  <2>1. ControlTyped' /\ FlagsTyped'
    BY <1>1, <1>5 DEF ControlTyped, FlagsTyped, Errors, PlanErrors, IntervalPasses
  <2>2. CountersTyped'
    BY <1>1, <1>5 DEF CountersTyped, ProtocolInv, CommitsInOrder, CallbackJoined,
       ReportPending, IntervalPasses
  <2>3. ProtocolInv'
    BY <1>1, <1>5 DEF ProtocolInv, CommitsInOrder, CommitsWatched, CallbackJoined, ReportPending,
       StopHeard, UncertainHeard, CancelledForCause, FailuresReported,
       Failure, StoppedIsLast, StoppedAccounts,
       ControlTyped, CountersTyped, FlagsTyped, Errors, PlanErrors,
       Sent, IntervalPasses
  <2> QED
    BY <2>1, <2>2, <2>3, InvariantPartsNext
<1>6. CASE RestCancelled
  <2>1. ControlTyped' /\ FlagsTyped'
    BY <1>1, <1>6 DEF ControlTyped, FlagsTyped, Errors, PlanErrors, RestCancelled, Finish
  <2>2. CountersTyped'
    BY <1>1, <1>6 DEF CountersTyped, ProtocolInv, CommitsInOrder, CallbackJoined,
       ReportPending, RestCancelled, Finish
  <2>3. ProtocolInv'
    BY <1>1, <1>6 DEF ProtocolInv, CommitsInOrder, CommitsWatched, CallbackJoined, ReportPending,
       StopHeard, UncertainHeard, CancelledForCause, FailuresReported,
       Failure, StoppedIsLast, StoppedAccounts,
       ControlTyped, CountersTyped, FlagsTyped, Errors, PlanErrors,
       Sent, RestCancelled, Finish
  <2> QED
    BY <2>1, <2>2, <2>3, InvariantPartsNext
<1> QED
  BY <1>2, <1>3, <1>4, <1>5, <1>6

\* Main takes what reaches it first and sends the last frame.
LEMMA MainStepKeeps ==
    ASSUME SupervisorInv, MainStep
    PROVE  SupervisorInv'
<1> USE SupervisorBounds DEF Running, time, channels, commitVars, frames, daemon
<1>1. ControlTyped /\ CountersTyped /\ FlagsTyped /\ ProtocolInv
  BY InvariantParts
<1>2. CASE MainTakesDone
  <2>1. ControlTyped' /\ FlagsTyped'
    BY <1>1, <1>2 DEF ControlTyped, FlagsTyped, Errors, PlanErrors, MainTakesDone
  <2>2. CountersTyped'
    BY <1>1, <1>2 DEF CountersTyped, ProtocolInv, CommitsInOrder, CallbackJoined,
       ReportPending, MainTakesDone
  <2>3. ProtocolInv'
    BY <1>1, <1>2 DEF ProtocolInv, CommitsInOrder, CommitsWatched, CallbackJoined, ReportPending,
       StopHeard, UncertainHeard, CancelledForCause, FailuresReported,
       Failure, StoppedIsLast, StoppedAccounts,
       ControlTyped, CountersTyped, FlagsTyped, Errors, PlanErrors,
       Sent, MainTakesDone
  <2> QED
    BY <2>1, <2>2, <2>3, InvariantPartsNext
<1>3. CASE MainTakesStop
  <2>1. ControlTyped' /\ FlagsTyped'
    BY <1>1, <1>3 DEF ControlTyped, FlagsTyped, Errors, PlanErrors, MainTakesStop
  <2>2. CountersTyped'
    BY <1>1, <1>3 DEF CountersTyped, ProtocolInv, CommitsInOrder, CallbackJoined,
       ReportPending, MainTakesStop
  <2>3. ProtocolInv'
    BY <1>1, <1>3 DEF ProtocolInv, CommitsInOrder, CommitsWatched, CallbackJoined, ReportPending,
       StopHeard, UncertainHeard, CancelledForCause, FailuresReported,
       Failure, StoppedIsLast, StoppedAccounts,
       ControlTyped, CountersTyped, FlagsTyped, Errors, PlanErrors,
       Sent, MainTakesStop
  <2> QED
    BY <2>1, <2>2, <2>3, InvariantPartsNext
<1>4. CASE MainTakesDoneAfterStop
  <2>1. ControlTyped' /\ FlagsTyped'
    BY <1>1, <1>4 DEF ControlTyped, FlagsTyped, Errors, PlanErrors, MainTakesDoneAfterStop
  <2>2. CountersTyped'
    BY <1>1, <1>4 DEF CountersTyped, ProtocolInv, CommitsInOrder, CallbackJoined,
       ReportPending, MainTakesDoneAfterStop
  <2>3. ProtocolInv'
    BY <1>1, <1>4 DEF ProtocolInv, CommitsInOrder, CommitsWatched, CallbackJoined, ReportPending,
       StopHeard, UncertainHeard, CancelledForCause, FailuresReported,
       Failure, StoppedIsLast, StoppedAccounts,
       ControlTyped, CountersTyped, FlagsTyped, Errors, PlanErrors,
       Sent, MainTakesDoneAfterStop
  <2> QED
    BY <2>1, <2>2, <2>3, InvariantPartsNext
<1>5. CASE MainTakesFatal
  <2>1. ControlTyped' /\ FlagsTyped'
    BY <1>1, <1>5 DEF ControlTyped, FlagsTyped, Errors, PlanErrors, MainTakesFatal
  <2>2. CountersTyped'
    BY <1>1, <1>5 DEF CountersTyped, ProtocolInv, CommitsInOrder, CallbackJoined,
       ReportPending, MainTakesFatal
  <2>3. ProtocolInv'
    BY <1>1, <1>5 DEF ProtocolInv, CommitsInOrder, CommitsWatched, CallbackJoined, ReportPending,
       StopHeard, UncertainHeard, CancelledForCause, FailuresReported,
       Failure, StoppedIsLast, StoppedAccounts,
       ControlTyped, CountersTyped, FlagsTyped, Errors, PlanErrors,
       Sent, MainTakesFatal
  <2> QED
    BY <2>1, <2>2, <2>3, InvariantPartsNext
<1>6. CASE SendStopped
  <2>1. ControlTyped' /\ FlagsTyped'
    BY <1>1, <1>6 DEF ControlTyped, FlagsTyped, Errors, PlanErrors, SendStopped
  <2>2. CountersTyped'
    BY <1>1, <1>6 DEF CountersTyped, ProtocolInv, CommitsInOrder, CallbackJoined,
       ReportPending, SendStopped
  <2>3. ProtocolInv'
    BY <1>1, <1>6 DEF ProtocolInv, CommitsInOrder, CommitsWatched, CallbackJoined, ReportPending,
       StopHeard, UncertainHeard, CancelledForCause, FailuresReported,
       Failure, StoppedIsLast, StoppedAccounts,
       ControlTyped, CountersTyped, FlagsTyped, Errors, PlanErrors,
       Sent, SendStopped
  <2> QED
    BY <2>1, <2>2, <2>3, InvariantPartsNext
<1> QED
  BY <1>2, <1>3, <1>4, <1>5, <1>6 DEF MainStep

\* Frames arrive, connections are lost and deadlines pass.
LEMMA AroundKeeps ==
    ASSUME SupervisorInv, Around
    PROVE  SupervisorInv'
<1> USE SupervisorBounds DEF Running, time, channels, commitVars, frames, daemon
<1>1. ControlTyped /\ CountersTyped /\ FlagsTyped /\ ProtocolInv
  BY InvariantParts
<1>2. CASE Running /\ StopArrives
  <2>1. ControlTyped' /\ FlagsTyped'
    BY <1>1, <1>2 DEF ControlTyped, FlagsTyped, Errors, PlanErrors, StopArrives
  <2>2. CountersTyped'
    BY <1>1, <1>2 DEF CountersTyped, ProtocolInv, CommitsInOrder, CallbackJoined,
       ReportPending, StopArrives
  <2>3. ProtocolInv'
    BY <1>1, <1>2 DEF ProtocolInv, CommitsInOrder, CommitsWatched, CallbackJoined, ReportPending,
       StopHeard, UncertainHeard, CancelledForCause, FailuresReported,
       Failure, StoppedIsLast, StoppedAccounts,
       ControlTyped, CountersTyped, FlagsTyped, Errors, PlanErrors,
       Sent, StopArrives
  <2> QED
    BY <2>1, <2>2, <2>3, InvariantPartsNext
<1>3. CASE Running /\ ConnectionLost
  <2>1. ControlTyped' /\ FlagsTyped'
    BY <1>1, <1>3 DEF ControlTyped, FlagsTyped, Errors, PlanErrors, ConnectionLost
  <2>2. CountersTyped'
    BY <1>1, <1>3 DEF CountersTyped, ProtocolInv, CommitsInOrder, CallbackJoined,
       ReportPending, ConnectionLost
  <2>3. ProtocolInv'
    BY <1>1, <1>3 DEF ProtocolInv, CommitsInOrder, CommitsWatched, CallbackJoined, ReportPending,
       StopHeard, UncertainHeard, CancelledForCause, FailuresReported,
       Failure, StoppedIsLast, StoppedAccounts,
       ControlTyped, CountersTyped, FlagsTyped, Errors, PlanErrors,
       Sent, ConnectionLost
  <2> QED
    BY <2>1, <2>2, <2>3, InvariantPartsNext
<1>4. CASE Running /\ SettlementDeadlinePasses
  <2>1. ControlTyped' /\ FlagsTyped'
    BY <1>1, <1>4 DEF ControlTyped, FlagsTyped, Errors, PlanErrors, SettlementDeadlinePasses
  <2>2. CountersTyped'
    BY <1>1, <1>4 DEF CountersTyped, ProtocolInv, CommitsInOrder, CallbackJoined,
       ReportPending, SettlementDeadlinePasses
  <2>3. ProtocolInv'
    BY <1>1, <1>4 DEF ProtocolInv, CommitsInOrder, CommitsWatched, CallbackJoined, ReportPending,
       StopHeard, UncertainHeard, CancelledForCause, FailuresReported,
       Failure, StoppedIsLast, StoppedAccounts,
       ControlTyped, CountersTyped, FlagsTyped, Errors, PlanErrors,
       Sent, SettlementDeadlinePasses
  <2> QED
    BY <2>1, <2>2, <2>3, InvariantPartsNext
<1>5. CASE Running /\ StopGracePasses
  <2>1. ControlTyped' /\ FlagsTyped'
    BY <1>1, <1>5 DEF ControlTyped, FlagsTyped, Errors, PlanErrors, StopGracePasses
  <2>2. CountersTyped'
    BY <1>1, <1>5 DEF CountersTyped, ProtocolInv, CommitsInOrder, CallbackJoined,
       ReportPending, StopGracePasses
  <2>3. ProtocolInv'
    BY <1>1, <1>5 DEF ProtocolInv, CommitsInOrder, CommitsWatched, CallbackJoined, ReportPending,
       StopHeard, UncertainHeard, CancelledForCause, FailuresReported,
       Failure, StoppedIsLast, StoppedAccounts,
       ControlTyped, CountersTyped, FlagsTyped, Errors, PlanErrors,
       Sent, StopGracePasses
  <2> QED
    BY <2>1, <2>2, <2>3, InvariantPartsNext
<1>6. CASE Running /\ CallbackTimesOut
  <2>1. ControlTyped' /\ FlagsTyped'
    BY <1>1, <1>6 DEF ControlTyped, FlagsTyped, Errors, PlanErrors, CallbackTimesOut
  <2>2. CountersTyped'
    BY <1>1, <1>6 DEF CountersTyped, ProtocolInv, CommitsInOrder, CallbackJoined,
       ReportPending, CallbackTimesOut
  <2>3. ProtocolInv'
    BY <1>1, <1>6 DEF ProtocolInv, CommitsInOrder, CommitsWatched, CallbackJoined, ReportPending,
       StopHeard, UncertainHeard, CancelledForCause, FailuresReported,
       Failure, StoppedIsLast, StoppedAccounts,
       ControlTyped, CountersTyped, FlagsTyped, Errors, PlanErrors,
       Sent, CallbackTimesOut
  <2> QED
    BY <2>1, <2>2, <2>3, InvariantPartsNext
<1>7. CASE Running /\ Killed
  <2>1. ControlTyped' /\ FlagsTyped'
    BY <1>1, <1>7 DEF ControlTyped, FlagsTyped, Errors, PlanErrors, Killed
  <2>2. CountersTyped'
    BY <1>1, <1>7 DEF CountersTyped, ProtocolInv, CommitsInOrder, CallbackJoined,
       ReportPending, Killed
  <2>3. ProtocolInv'
    BY <1>1, <1>7 DEF ProtocolInv, CommitsInOrder, CommitsWatched, CallbackJoined, ReportPending,
       StopHeard, UncertainHeard, CancelledForCause, FailuresReported,
       Failure, StoppedIsLast, StoppedAccounts,
       ControlTyped, CountersTyped, FlagsTyped, Errors, PlanErrors,
       Sent, Killed
  <2> QED
    BY <2>1, <2>2, <2>3, InvariantPartsNext
<1> QED
  BY <1>2, <1>3, <1>4, <1>5, <1>6, <1>7 DEF Around

\* The daemon reads what is there, or ends the process.
LEMMA DaemonStepKeeps ==
    ASSUME SupervisorInv, DaemonStep
    PROVE  SupervisorInv'
<1> USE SupervisorBounds DEF DaemonStep, ReadRun, ReadStopped, ReadEnd, GiveUp,
        worker, time, channels, commitVars
<1>1. ControlTyped /\ CountersTyped /\ FlagsTyped /\ ProtocolInv
  BY InvariantParts
<1>2. ControlTyped' /\ FlagsTyped'
  BY <1>1 DEF ControlTyped, FlagsTyped
<1>3. CountersTyped'
  BY <1>1 DEF CountersTyped
<1>4. ProtocolInv'
  BY <1>1 DEF ProtocolInv, CommitsInOrder, CommitsWatched, CallbackJoined,
     ReportPending, StopHeard, UncertainHeard, CancelledForCause,
     FailuresReported, Failure, StoppedIsLast, StoppedAccounts, Sent, Running
<1> QED
  BY <1>2, <1>3, <1>4, InvariantPartsNext

-----------------------------------------------------------------------------
(* Theorems *)

LEMMA SupervisorInvInit == Init => SupervisorInv
<1> SUFFICES ASSUME Init
             PROVE  SupervisorInv
  OBVIOUS
<1>1. ControlTyped
  BY DEF Init, ControlTyped, Errors, PlanErrors
<1>2. CountersTyped /\ FlagsTyped
  <2>1. CountersTyped
    BY SupervisorBounds DEF Init, CountersTyped
  <2>2. FlagsTyped
    BY DEF Init, FlagsTyped
  <2> QED
    BY <2>1, <2>2
<1>3. ProtocolInv
  BY DEF Init, ProtocolInv, CommitsInOrder, CommitsWatched, CallbackJoined,
     ReportPending, StopHeard, UncertainHeard, CancelledForCause,
     FailuresReported, StoppedIsLast, StoppedAccounts
<1> QED
  BY <1>1, <1>2, <1>3, InvariantParts

LEMMA SupervisorInvStep == SupervisorInv /\ [Next]_vars => SupervisorInv'
<1> SUFFICES ASSUME SupervisorInv, [Next]_vars
             PROVE  SupervisorInv'
  OBVIOUS
<1>1. CASE CallbackStep
  BY <1>1, CallbackStepKeeps
<1>2. CASE SupervisorStep
  BY <1>2, WatchStepKeeps, RunStepKeeps DEF SupervisorStep
<1>3. CASE MainStep
  <2>1. Running
    BY <1>3 DEF MainStep, MainTakesDone, MainTakesStop, MainTakesDoneAfterStop,
       MainTakesFatal, SendStopped, Running
  <2> QED
    BY <1>3, <2>1, MainStepKeeps
<1>4. CASE Around
  BY <1>4, AroundKeeps
<1>5. CASE DaemonStep
  BY <1>5, DaemonStepKeeps
<1>6. CASE UNCHANGED vars
  BY <1>6 DEF vars, time, channels, commitVars, frames, daemon, SupervisorInv, TypeOK,
     CommitsInOrder, CommitsWatched, CallbackJoined, ReportPending, StopHeard,
     UncertainHeard, CancelledForCause, FailuresReported, Failure, StoppedIsLast,
     StoppedAccounts, Sent, Running
<1> QED
  BY <1>1, <1>2, <1>3, <1>4, <1>5, <1>6 DEF Next

\* The invariant holds in every reachable state.
THEOREM SupervisorInvariant == Spec => []SupervisorInv
<1> QED
  BY SupervisorInvInit, SupervisorInvStep, PTL DEF Spec

\* Channels, timers, counters and results hold what their types declare.
THEOREM SupervisorTypeCorrect == Spec => []TypeOK
<1>1. SupervisorInv => TypeOK
  BY DEF SupervisorInv
<1> QED
  BY <1>1, SupervisorInvariant, PTL

\* supervisor.go: the timer of runCallback is that of the commit in progress, or
\* a signal to set it is waiting in the channel.
THEOREM WatchCorrect == Spec => []CommitsWatched
<1>1. SupervisorInv => CommitsWatched
  BY DEF SupervisorInv
<1> QED
  BY <1>1, SupervisorInvariant, PTL

\* A step that moves either count belongs to a plan that runs on to report it.
LEMMA CountsMove ==
    ASSUME SupervisorInv, [Next]_vars
    PROVE  \/ UNCHANGED <<failed, failures>>
           \/ /\ Running'
              /\ \/ plan'.at \in {"ended", "resting"}
                 \/ plan'.at = "done" /\ ~wireFailed'
<1>1. plan \in [at : {"due", "watching", "joining", "expired", "ended",
                      "resting", "done"},
                err : PlanErrors, reported : BOOLEAN]
  BY DEF SupervisorInv, TypeOK
<1>2. CASE SupervisorStep
  <2> USE <1>1, <1>2 DEF Running, frames, daemon
  <2>1. CASE TakeResult \/ Join \/ TakeLateResult \/ UnwindFires
    BY <2>1 DEF SupervisorStep, TakeResult, Join, TakeLateResult, UnwindFires, Ended
  <2>2. CASE ReturnedWhileActive \/ SettlementFires
    BY <2>2 DEF SupervisorStep, ReturnedWhileActive, SettlementFires, Ended
  <2>3. CASE ReportRun
    BY <2>3 DEF SupervisorStep, ReportRun, Finish
  <2>4. CASE StartCallback \/ TakeChanged \/ CallbackDone \/ EndCancelled
             \/ IntervalPasses \/ RestCancelled
    BY <2>4 DEF StartCallback, TakeChanged, CallbackDone, EndCancelled,
       IntervalPasses, RestCancelled
  <2> QED
    BY <2>1, <2>2, <2>3, <2>4 DEF SupervisorStep
<1>3. CASE CallbackStep
  BY <1>3 DEF CallbackStep, AdmitCommit, CommitAcked, TakeCommitStop, CommitFails,
     CallbackReturns, frames
<1>4. CASE MainStep
  BY <1>4 DEF MainStep, MainTakesDone, MainTakesStop, MainTakesDoneAfterStop,
     MainTakesFatal, SendStopped, frames
<1>5. CASE Around
  BY <1>5 DEF Around, StopArrives, ConnectionLost, SettlementDeadlinePasses,
     StopGracePasses, CallbackTimesOut, Killed, frames
<1>6. CASE DaemonStep \/ UNCHANGED vars
  BY <1>6 DEF DaemonStep, ReadRun, ReadStopped, ReadEnd, GiveUp, worker, vars, frames
<1> QED
  BY <1>2, <1>3, <1>4, <1>5, <1>6 DEF Next

\* serve is still reading whenever the process takes a step.
LEMMA ServeStep ==
    ASSUME CountInv, [Next]_vars
    PROVE  ServeAgrees'
<1>1. SupervisorInv /\ ServeAgrees /\ (Running => stopped = "none")
  BY DEF CountInv, SupervisorInv, StoppedIsLast
<1>2. CASE DaemonStep
  BY <1>1, <1>2 DEF DaemonStep, ReadRun, ReadStopped, ReadEnd, GiveUp, worker,
     ServeAgrees, Running
<1>3. CASE CallbackStep \/ SupervisorStep \/ MainStep \/ Around
  <2>1. Running
    BY <1>3 DEF CallbackStep, SupervisorStep, Around, MainStep, MainTakesDone,
       MainTakesStop, MainTakesDoneAfterStop, MainTakesFatal, SendStopped, Running
  <2>2. serve' = serve
    <3>1. CASE CallbackStep
      BY <3>1 DEF CallbackStep, AdmitCommit, CommitAcked, TakeCommitStop,
         CommitFails, CallbackReturns, frames, daemon
    <3>2. CASE SupervisorStep
      BY <3>2 DEF SupervisorStep, StartCallback, TakeResult, TakeChanged,
         SettlementFires, CallbackDone, Join, TakeLateResult, UnwindFires,
         ReturnedWhileActive, EndCancelled, ReportRun, IntervalPasses,
         RestCancelled, frames, daemon
    <3>3. CASE MainStep
      BY <3>3 DEF MainStep, MainTakesDone, MainTakesStop, MainTakesDoneAfterStop,
         MainTakesFatal, SendStopped, frames, daemon
    <3>4. CASE Around
      BY <3>4 DEF Around, StopArrives, ConnectionLost, SettlementDeadlinePasses,
         StopGracePasses, CallbackTimesOut, Killed, frames, daemon
    <3> QED
      BY <1>3, <3>1, <3>2, <3>3, <3>4
  <2> QED
    BY <1>1, <2>1, <2>2 DEF ServeAgrees
<1>4. CASE UNCHANGED vars
  BY <1>1, <1>4 DEF vars, frames, daemon, ServeAgrees, Running
<1> QED
  BY <1>2, <1>3, <1>4 DEF Next

\* No step takes a stop request back.
LEMMA RequestStays ==
    ASSUME [Next]_vars, request' = "none"
    PROVE  request = "none"
  BY DEF Next, CallbackStep, AdmitCommit, CommitAcked, TakeCommitStop,
     CommitFails, CallbackReturns, SupervisorStep, StartCallback, TakeResult,
     TakeChanged, SettlementFires, CallbackDone, Join, TakeLateResult, UnwindFires,
     ReturnedWhileActive, EndCancelled, ReportRun, IntervalPasses, RestCancelled,
     MainStep, MainTakesDone, MainTakesStop, MainTakesDoneAfterStop,
     MainTakesFatal, SendStopped, Around, StopArrives, ConnectionLost,
     SettlementDeadlinePasses, StopGracePasses, CallbackTimesOut, Killed,
     DaemonStep, ReadRun, ReadStopped, ReadEnd, GiveUp, worker, channels, vars

LEMMA CountInvStep == CountInv /\ [Next]_vars => CountInv'
<1> SUFFICES ASSUME CountInv, [Next]_vars
             PROVE  CountInv'
  OBVIOUS
<1>1. SupervisorInv /\ FailuresSent
  BY DEF CountInv
<1>2. SupervisorInv'
  BY <1>1, SupervisorInvStep
<1>3. FailuresSent'
  <2> SUFFICES ASSUME request' = "none"
               PROVE  failed' \in {failures', failures' + 1}
    BY DEF FailuresSent
  <2>1. CASE UNCHANGED <<failed, failures>>
    BY <1>1, <2>1, RequestStays DEF FailuresSent
  <2>2. CASE /\ Running'
             /\ \/ plan'.at \in {"ended", "resting"}
                \/ plan'.at = "done" /\ ~wireFailed'
    <3>1. FailuresReported' /\ failures' \in Nat
      <4>1. (callbacks \in 0..MaxCallbacks /\ failures \in 0..callbacks)'
        BY <1>2 DEF SupervisorInv, TypeOK
      <4>2. FailuresReported'
        BY <1>2 DEF SupervisorInv
      <4> QED
        BY <4>1, <4>2, SupervisorBounds
    <3> QED
      BY <2>2, <3>1 DEF FailuresReported
  <2> QED
    BY <1>1, <2>1, <2>2, CountsMove
<1> QED
  BY <1>2, <1>3, ServeStep DEF CountInv

\* registry.go: what the daemon's count of failures says of the callbacks that
\* failed, whichever frames were lost.
THEOREM CountCorrect == Spec => []FailuresCounted
<1>1. Init => CountInv
  <2> SUFFICES ASSUME Init
               PROVE  CountInv
    OBVIOUS
  <2>1. ServeAgrees /\ FailuresSent
    BY DEF Init, ServeAgrees, FailuresSent
  <2> QED
    BY <2>1, SupervisorInvInit DEF CountInv
<1>2. CountInv => FailuresCounted
  <2> SUFFICES ASSUME CountInv, request = "none"
               PROVE  /\ serve \in {"stopped", "unclean"} =>
                          Counted = failed + (IF serve = "unclean" /\ plan.err = "ok"
                                              THEN 1 ELSE 0)
                      /\ serve = "lost" =>
                          /\ failed <= Counted + (failures - heard)
                          /\ Counted <= failed + 1
    BY DEF FailuresCounted
  <2>1. /\ callbacks \in 0..MaxCallbacks /\ failures \in 0..callbacks
        /\ heard \in 0..failures
        /\ StoppedAccounts /\ ServeAgrees
        /\ failed \in {failures, failures + 1}
    BY DEF CountInv, SupervisorInv, TypeOK, FailuresSent
  <2>2. heard \in Nat /\ failures \in Nat /\ heard <= failures
    BY <2>1, SupervisorBounds
  <2>3. CASE serve \in {"stopped", "unclean"}
    <3>1. /\ heard = failures /\ stopped # "none"
          /\ serve = "unclean" <=> stopped = "unclean"
          /\ Sent = failed + (IF stopped = "unclean" /\ plan.err = "ok" THEN 1 ELSE 0)
      BY <2>1, <2>3 DEF ServeAgrees, StoppedAccounts
    <3>2. Counted = Sent
      BY <2>3, <3>1 DEF Counted, Sent
    <3> QED
      BY <2>3, <3>1, <3>2
  <2>4. CASE serve = "lost"
    <3>1. Counted = heard + 1
      BY <2>4 DEF Counted
    <3> QED
      BY <2>1, <2>2, <2>4, <3>1
  <2>5. CASE serve \notin {"stopped", "unclean", "lost"}
    BY <2>5
  <2> QED
    BY <2>3, <2>4, <2>5
<1> QED
  BY <1>1, <1>2, CountInvStep, PTL DEF Spec

\* A step that gives a watched callback up is a settlement deadline of its own
\* commit.
LEMMA OnlyOverdueGivesUp ==
    ASSUME SupervisorInv, [Next]_vars, plan.at = "watching", plan'.err = "running"
    PROVE  callback.at = "committing" /\ passed = admitted
<1>1. ControlTyped /\ CountersTyped /\ FlagsTyped /\ ProtocolInv
  BY InvariantParts
<1>2. CASE SettlementFires
  <2>1. Overdue
    <3>1. plan.err # "running"
      BY <1>1 DEF ProtocolInv, CallbackJoined
    <3> QED
      BY <1>2, <3>1 DEF SettlementFires
  <2> QED
    BY <1>1, <2>1, SupervisorBounds
    DEF Overdue, CountersTyped, ProtocolInv, CommitsInOrder
<1>3. CASE ~SettlementFires
  <2>1. plan'.err \in Errors \/ plan' = plan
                             \/ plan' = [plan EXCEPT !.at = plan'.at]
    BY <1>1, <1>3 DEF Next, CallbackStep, AdmitCommit, CommitAcked, TakeCommitStop,
       CommitFails, CallbackReturns, SupervisorStep, StartCallback, TakeResult,
       TakeChanged, CallbackDone, Join, TakeLateResult, UnwindFires,
       ReturnedWhileActive, EndCancelled, ReportRun, IntervalPasses, RestCancelled,
       MainStep, MainTakesDone, MainTakesStop, MainTakesDoneAfterStop,
       MainTakesFatal, SendStopped, Around, StopArrives, ConnectionLost,
       SettlementDeadlinePasses, StopGracePasses, CallbackTimesOut, Killed,
       DaemonStep, ReadRun, ReadStopped, ReadEnd, GiveUp, worker,
       vars, Ended, ControlTyped, Errors
  <2>2. plan.err # "running"
    BY <1>1 DEF ProtocolInv, CallbackJoined
  <2> QED
    BY <1>1, <2>1, <2>2 DEF ControlTyped, Errors
<1> QED
  BY <1>2, <1>3

\* supervisor.go:12: a callback that has not timed out is given up only while a
\* commit of its own is past its deadline.
THEOREM GivenUpCorrect == Spec => GivenUpForCause
<1>1. SupervisorInv /\ [Next]_vars =>
        [plan.at = "watching" /\ plan'.err = "running" =>
            callback.at = "committing" /\ passed = admitted]_vars
  BY OnlyOverdueGivesUp
<1> QED
  BY <1>1, SupervisorInvariant, PTL DEF Spec, GivenUpForCause

\* coordinator.go:65: no callback starts on state that may not be the store's.
THEOREM UncertainCorrect == Spec => NoCallbackAfterUncertain
<1>1. ASSUME SupervisorInv, [Next]_vars, callbacks' # callbacks
      PROVE  ~unsettled
  <2>1. StartCallback
    BY <1>1 DEF Next, CallbackStep, AdmitCommit, CommitAcked, TakeCommitStop,
       CommitFails, CallbackReturns, SupervisorStep, TakeResult, TakeChanged,
       SettlementFires, CallbackDone, Join, TakeLateResult, UnwindFires,
       ReturnedWhileActive, EndCancelled, ReportRun, IntervalPasses, RestCancelled,
       MainStep, MainTakesDone, MainTakesStop, MainTakesDoneAfterStop,
       MainTakesFatal, SendStopped, Around, StopArrives, ConnectionLost,
       SettlementDeadlinePasses, StopGracePasses, CallbackTimesOut, Killed,
       DaemonStep, ReadRun, ReadStopped, ReadEnd, GiveUp, worker, vars
  <2> QED
    BY <1>1, <2>1 DEF StartCallback, SupervisorInv, UncertainHeard
<1>2. SupervisorInv /\ [Next]_vars => [callbacks' # callbacks => ~unsettled]_vars
  BY <1>1
<1> QED
  BY <1>2, SupervisorInvariant, PTL DEF Spec, NoCallbackAfterUncertain
===============================================================================
