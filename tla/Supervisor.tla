------------------------------ MODULE Supervisor ------------------------------
(***************************************************************************)
(* One worker process from its ready frame to its end (runtime.go,         *)
(* supervisor.go, coordinator.go): the goroutine that waits for the plan,  *)
(* a stop or a broken connection; the supervisor that runs callbacks; the  *)
(* callback itself with its commits; and the reader of daemon frames.  On  *)
(* the daemon's side, serve (worker.go) reads the worker's frames and      *)
(* registry.go counts what it made of them.                                *)
(*                                                                         *)
(* Time appears only as deadlines that pass.  A settlement deadline is     *)
(* named by the number of the commit it was set for, 0 being none, and     *)
(* they pass in that order.                                                *)
(*                                                                         *)
(* A definition named ..._Mutant is the one after it with a bug a change   *)
(* to the code could introduce; nothing uses it.                           *)
(***************************************************************************)
EXTENDS Naturals

CONSTANTS
    MaxCallbacks,  \* bound on the callbacks a plan runs
    MaxCommits     \* bound on the commits admitted in the process

ASSUME SupervisorBounds == MaxCallbacks \in Nat /\ MaxCommits \in Nat

VARIABLES
    kind,      \* "continuous", "every", or "once" for a test run
    main,      \* serveWorker
    plan,      \* runPlan and runCallback, and the error they hold
    callback,  \* the goroutine of the callback, and the error it holds
    expired,   \* the callback's timeout has passed
    scope,     \* callbackCommitScope: the deadline of the commit in progress
    changed,   \* its channel of capacity one
    timer,     \* the deadline that runCallback last set a timer for
    commitStop,   \* the channel of capacity one that tells Commit of a stop
    commitTimed,  \* Commit in progress has taken the stop deadline
    request,   \* the stop frame: "none", "read" as far as commitStop, "taken"
    cancelled, \* the context of the plan
    fatal,     \* fatalDone is closed
    wireFailed,   \* a write has failed: no other is attempted
    admitted, passed,  \* settlement deadlines set, and passed
    graceOver, \* a second remains until the stop deadline
    callbacks, \* callbacks started
    failures,  \* run frames sent that report a failure
    stopped,   \* the stopped frame sent, if any
    heard,     \* how many of those run frames serve has read and recorded
    serve,     \* the daemon's serve, or how it returned
    failed,    \* history: callbacks that ended in failure
    unsettled  \* history: a commit ended without an ACK

time == <<expired, passed, graceOver>>
channels == <<commitStop, request, fatal>>
commitVars == <<scope, commitTimed, admitted, unsettled>>
daemon == <<heard, serve>>
frames == <<failures, stopped, wireFailed, daemon>>
vars == <<kind, main, plan, callback, timer, changed, cancelled, callbacks,
          failed, time, channels, commitVars, frames>>

Errors == {"ok", "canceled", "deferred", "error", "panic", "uncertain"}

PlanErrors == Errors \cup {"running", "report"}

Init ==
    /\ kind \in {"continuous", "every", "once"}
    /\ main = "ready"
    /\ plan = [at |-> "due", err |-> "ok", reported |-> FALSE]
    /\ callback = [at |-> "none", err |-> "ok"]
    /\ expired = FALSE
    /\ scope = 0 /\ changed = FALSE /\ timer = 0
    /\ commitStop = FALSE /\ commitTimed = FALSE
    /\ request = "none" /\ cancelled = FALSE
    /\ fatal = FALSE /\ wireFailed = FALSE
    /\ admitted = 0 /\ passed = 0 /\ graceOver = FALSE
    /\ callbacks = 0 /\ failures = 0 /\ stopped = "none"
    /\ heard = 0 /\ serve = "reading"
    /\ failed = 0 /\ unsettled = FALSE

Running == main # "exited"

-----------------------------------------------------------------------------
(* The callback *)

Notify_Mutant == changed' = changed

\* A token that is already there stands for this change too.
Notify == changed' = TRUE

ScopeBegins == scope' = admitted + 1 /\ Notify

ScopeEnds_Mutant == scope' = scope /\ Notify

ScopeEnds == scope' = 0 /\ Notify

\* Cancellation of either context rejects a commit before it is admitted.
AdmitCommit ==
    /\ callback.at = "working"
    /\ ~cancelled /\ ~expired
    /\ admitted < MaxCommits
    /\ callback' = [callback EXCEPT !.at = "committing"]
    /\ admitted' = admitted + 1
    /\ ScopeBegins
    /\ commitTimed' = FALSE
    /\ UNCHANGED <<kind, main, plan, timer, cancelled, callbacks, failed, time,
                   channels, unsettled, frames>>

CommitAcked ==
    /\ callback.at = "committing"
    /\ callback' = [callback EXCEPT !.at = "working"]
    /\ ScopeEnds
    /\ UNCHANGED <<kind, main, plan, timer, cancelled, callbacks, failed, time,
                   channels, commitTimed, admitted, unsettled, frames>>

TakeCommitStop ==
    /\ callback.at = "committing"
    /\ commitStop
    /\ ~graceOver
    /\ commitStop' = FALSE
    /\ commitTimed' = TRUE
    /\ UNCHANGED <<kind, main, plan, callback, timer, changed, cancelled,
                   callbacks, failed, time, request, fatal, scope, admitted,
                   unsettled, frames>>

PoisonsWire_Mutant == wireFailed' = wireFailed

\* A failed write is remembered, and every later one returns its error.
PoisonsWire == wireFailed' = TRUE

\* A write fails, the connection is lost, or the stop deadline is near.
CommitFails ==
    /\ callback.at = "committing"
    /\ \/ PoisonsWire /\ UNCHANGED commitStop
       \/ fatal /\ UNCHANGED <<wireFailed, commitStop>>
       \/ commitTimed /\ graceOver /\ UNCHANGED <<wireFailed, commitStop>>
       \/ commitStop /\ graceOver /\ commitStop' = FALSE /\ UNCHANGED wireFailed
    /\ callback' = [at |-> "working", err |-> "uncertain"]
    /\ ScopeEnds
    /\ unsettled' = TRUE
    /\ UNCHANGED <<kind, main, plan, timer, cancelled, callbacks, failed, time,
                   request, fatal, commitTimed, admitted, failures, stopped, daemon>>

\* A monitor may return the error of its commit, or any other, or none.
CallbackReturns ==
    /\ callback.at = "working"
    /\ \E err \in Errors :
        /\ err = "canceled" => cancelled
        /\ err = "uncertain" => callback.err = "uncertain"
        /\ callback' = [at |-> "returned", err |-> err]
    /\ UNCHANGED <<kind, main, plan, timer, changed, cancelled, callbacks, failed,
                   time, channels, commitVars, frames>>

CallbackStep ==
    Running /\ (\/ AdmitCommit \/ CommitAcked \/ TakeCommitStop \/ CommitFails
                \/ CallbackReturns)

-----------------------------------------------------------------------------
(* runCallback *)

StartCallback ==
    /\ plan.at = "due"
    /\ callbacks < MaxCallbacks
    /\ plan' = [plan EXCEPT !.at = "watching"]
    /\ callback' = [at |-> "working", err |-> "ok"]
    /\ callbacks' = callbacks + 1
    /\ expired' = FALSE /\ changed' = FALSE /\ timer' = 0
    /\ UNCHANGED <<kind, main, cancelled, failed, passed, graceOver, channels,
                   commitVars, frames>>

\* Putting a check off is no failure.  A continuous callback cannot.
Failure(err) == err # "ok" /\ (err = "deferred" => kind = "continuous")

\* runCallback returns err.
Ended(err) ==
    /\ plan' = [plan EXCEPT !.at = "ended", !.err = err]
    /\ failed' = IF Failure(err) THEN failed + 1 ELSE failed

\* Once the plan is cancelled, what the callback returned is dropped.
TakeResult ==
    /\ plan.at = "watching"
    /\ callback.at = "returned"
    /\ Ended(IF cancelled THEN "ok" ELSE callback.err)
    /\ callback' = [at |-> "none", err |-> "ok"]
    /\ UNCHANGED <<kind, main, timer, changed, cancelled, callbacks, time,
                   channels, commitVars, frames>>

\* The scope is sampled; the timer runs to the deadline it holds now, or none.
TakeChanged ==
    /\ plan.at \in {"watching", "expired"}
    /\ changed
    /\ changed' = FALSE
    /\ timer' = scope
    /\ UNCHANGED <<kind, main, plan, callback, cancelled, callbacks, failed, time,
                   channels, commitVars, frames>>

Overdue_MutantStale == TRUE

Overdue_MutantStrict == scope > 0 /\ passed > scope

\* A timer that fires may be one of a commit that has ended since.
Overdue == scope > 0 /\ passed >= scope

SettlementFires ==
    /\ plan.at = "watching"
    /\ timer > 0 /\ passed >= timer
    /\ IF Overdue
       THEN Ended("running") /\ UNCHANGED timer
       ELSE timer' = 0 /\ UNCHANGED <<plan, failed>>
    /\ UNCHANGED <<kind, main, callback, changed, cancelled, callbacks, time,
                   channels, commitVars, frames>>

\* A cancelled plan waits for its callback however long it takes.  After a
\* timeout it waits for the commit in progress, then a moment for the callback.
CallbackDone ==
    /\ plan.at = "watching"
    /\ cancelled \/ expired
    /\ plan' = [plan EXCEPT !.at = IF cancelled THEN "joining" ELSE "expired"]
    /\ timer' = scope
    /\ UNCHANGED <<kind, main, callback, changed, cancelled, callbacks, failed,
                   time, channels, commitVars, frames>>

Join ==
    /\ plan.at = "joining"
    /\ callback.at = "returned"
    /\ Ended(IF callback.err = "canceled" THEN "ok" ELSE callback.err)
    /\ callback' = [at |-> "none", err |-> "ok"]
    /\ UNCHANGED <<kind, main, timer, changed, cancelled, callbacks, time,
                   channels, commitVars, frames>>

Fatal(err) == err \in {"running", "panic", "uncertain"}

\* The deadline's error is joined to the callback's, which stays visible in it.
TakeLateResult ==
    /\ plan.at = "expired"
    /\ callback.at = "returned"
    /\ Ended(IF callback.err \in {"canceled", "panic", "uncertain"}
             THEN callback.err ELSE "error")
    /\ callback' = [at |-> "none", err |-> "ok"]
    /\ UNCHANGED <<kind, main, timer, changed, cancelled, callbacks, time,
                   channels, commitVars, frames>>

\* With no commit sampled, a tenth of a second has passed.
UnwindFires ==
    /\ plan.at = "expired"
    /\ timer > 0 => passed >= timer
    /\ Ended("running")
    /\ UNCHANGED <<kind, main, callback, timer, changed, cancelled, callbacks,
                   time, channels, commitVars, frames>>

-----------------------------------------------------------------------------
(* runPlan *)

Finish(err, reported) ==
    plan' = [at |-> "done", err |-> err, reported |-> reported]

ReturnedWhileActive ==
    /\ plan.at = "ended" /\ plan.err = "ok"
    /\ kind = "continuous"
    /\ ~cancelled
    /\ Ended("error")
    /\ UNCHANGED <<kind, main, callback, timer, changed, cancelled, callbacks,
                   time, channels, commitVars, frames>>

EndCancelled ==
    /\ plan.at = "ended"
    /\ cancelled
    /\ Finish(IF plan.err = "canceled" /\ kind # "continuous" THEN "ok"
              ELSE plan.err, FALSE)
    /\ UNCHANGED <<kind, main, callback, timer, changed, cancelled, callbacks,
                   failed, time, channels, commitVars, frames>>

Reported_Mutant == FALSE

\* The error of a plan says that a run frame already carried it.
Reported == TRUE

\* A run frame is written, and the plan ends or waits out its interval.
ReportRun ==
    /\ plan.at = "ended"
    /\ ~cancelled
    /\ kind = "continuous" => plan.err # "ok"
    /\ \/ /\ PoisonsWire
          /\ Finish("report", FALSE)
          /\ UNCHANGED failures
       \/ /\ ~wireFailed
          /\ failures' = IF Failure(plan.err) THEN failures + 1 ELSE failures
          /\ IF Failure(plan.err) /\ (kind # "every" \/ Fatal(plan.err))
             THEN Finish(plan.err, Reported)
             ELSE IF kind = "once" THEN Finish("ok", FALSE)
             ELSE plan' = [plan EXCEPT !.at = "resting"]
          /\ UNCHANGED wireFailed
    /\ UNCHANGED <<kind, main, callback, timer, changed, cancelled, callbacks,
                   failed, time, channels, commitVars, stopped, daemon>>

\* Assumed of the scheduler: main takes what reached it, and the plan its
\* cancellation, before an interval that starts later is over.
IntervalPasses ==
    /\ plan.at = "resting"
    /\ ~cancelled /\ ~fatal /\ request = "none"
    /\ plan' = [plan EXCEPT !.at = "due"]
    /\ UNCHANGED <<kind, main, callback, timer, changed, cancelled, callbacks,
                   failed, time, channels, commitVars, frames>>

RestCancelled ==
    /\ plan.at = "resting"
    /\ cancelled
    /\ Finish("ok", FALSE)
    /\ UNCHANGED <<kind, main, callback, timer, changed, cancelled, callbacks,
                   failed, time, channels, commitVars, frames>>

SupervisorStep ==
    Running /\ (\/ StartCallback \/ TakeResult \/ TakeChanged \/ SettlementFires
                \/ CallbackDone \/ Join \/ TakeLateResult \/ UnwindFires
                \/ ReturnedWhileActive \/ EndCancelled \/ ReportRun
                \/ IntervalPasses \/ RestCancelled)

-----------------------------------------------------------------------------
(* serveWorker *)

MainTakesDone ==
    /\ main = "ready"
    /\ plan.at = "done"
    /\ cancelled' = TRUE
    /\ main' = IF plan.err = "running" THEN "reporting" ELSE "hook"
    /\ UNCHANGED <<kind, plan, callback, timer, changed, callbacks, failed, time,
                   channels, commitVars, frames>>

MainTakesStop ==
    /\ main = "ready"
    /\ request = "read" /\ request' = "taken"
    /\ cancelled' = TRUE
    /\ main' = "stopping"
    /\ UNCHANGED <<kind, plan, callback, timer, changed, callbacks, failed, time,
                   commitStop, fatal, commitVars, frames>>

\* Whatever the plan returned, the monitor's Stop is called.
MainTakesDoneAfterStop ==
    /\ main = "stopping"
    /\ plan.at = "done"
    /\ main' = "hook"
    /\ UNCHANGED <<kind, plan, callback, timer, changed, cancelled, callbacks,
                   failed, time, channels, commitVars, frames>>

MainTakesFatal ==
    /\ main = "ready"
    /\ fatal
    /\ cancelled' = TRUE
    /\ main' = "exited"
    /\ UNCHANGED <<kind, plan, callback, timer, changed, callbacks, failed, time,
                   channels, commitVars, frames>>

\* The stopped frame joins the plan's error and that of the monitor's Stop, and
\* the process ends.
SendStopped ==
    /\ main \in {"hook", "reporting"}
    /\ main' = "exited"
    /\ \/ /\ ~wireFailed
          /\ \/ stopped' = IF plan.err = "ok" THEN "clean"
                           ELSE IF plan.reported THEN "reported" ELSE "unclean"
             \/ /\ main = "hook"
                /\ stopped' = IF plan.err # "ok" /\ plan.reported
                              THEN "reported" ELSE "unclean"
       \/ UNCHANGED stopped
    /\ UNCHANGED <<kind, plan, callback, timer, changed, cancelled, callbacks,
                   failed, time, channels, commitVars, failures, wireFailed,
                   daemon>>

MainStep ==
    \/ MainTakesDone
    \/ MainTakesStop
    \/ MainTakesDoneAfterStop
    \/ MainTakesFatal
    \/ SendStopped

-----------------------------------------------------------------------------
(* The connection and the clock *)

\* The reader puts the stop frame in both channels.
StopArrives ==
    /\ request = "none"
    /\ ~fatal
    /\ request' = "read"
    /\ commitStop' = TRUE
    /\ UNCHANGED <<kind, main, plan, callback, timer, changed, cancelled,
                   callbacks, failed, time, fatal, commitVars, frames>>

ConnectionLost ==
    /\ ~fatal
    /\ fatal' = TRUE
    /\ UNCHANGED <<kind, main, plan, callback, timer, changed, cancelled,
                   callbacks, failed, time, commitStop, request, commitVars,
                   frames>>

SettlementDeadlinePasses ==
    /\ passed < admitted
    /\ passed' = passed + 1
    /\ UNCHANGED <<kind, main, plan, callback, timer, changed, cancelled,
                   callbacks, failed, expired, graceOver, channels, commitVars,
                   frames>>

StopGracePasses ==
    /\ request # "none" /\ ~graceOver
    /\ graceOver' = TRUE
    /\ UNCHANGED <<kind, main, plan, callback, timer, changed, cancelled,
                   callbacks, failed, expired, passed, channels, commitVars,
                   frames>>

CallbackTimesOut ==
    /\ callback.at # "none" /\ ~expired
    /\ expired' = TRUE
    /\ UNCHANGED <<kind, main, plan, callback, timer, changed, cancelled,
                   callbacks, failed, passed, graceOver, channels, commitVars,
                   frames>>

\* The stop deadline passes, or anything else ends the process.
Killed ==
    /\ main' = "exited"
    /\ UNCHANGED <<kind, plan, callback, timer, changed, cancelled, callbacks,
                   failed, time, channels, commitVars, frames>>

Around ==
    Running /\ (\/ StopArrives \/ ConnectionLost \/ SettlementDeadlinePasses
                \/ StopGracePasses \/ CallbackTimesOut \/ Killed)

-----------------------------------------------------------------------------
(* serve, in the daemon *)

worker == <<kind, plan, callback, timer, changed, cancelled, callbacks, failed,
            time, channels, commitVars, failures, stopped, wireFailed>>

ReadRun ==
    /\ heard < failures
    /\ heard' = heard + 1
    /\ UNCHANGED <<main, serve, worker>>

\* The stopped frame is the last.  One that is clean ends serve with an error
\* if an acknowledgement could not be sent before.
ReadStopped ==
    /\ heard = failures
    /\ stopped # "none"
    /\ \/ serve' = IF stopped = "unclean" THEN "unclean" ELSE "stopped"
       \/ stopped = "clean" /\ serve' = "lost"
    /\ UNCHANGED <<main, heard, worker>>

\* The pipe ends, and no stopped frame was in it.
ReadEnd ==
    /\ heard = failures
    /\ ~Running /\ stopped = "none"
    /\ serve' = "lost"
    /\ UNCHANGED <<main, heard, worker>>

\* The store fails on a frame, or on the timer that makes a continuous plan
\* stable, as it does once a failure was recorded.  The worker is killed, and
\* frames stay unread.
GiveUp ==
    /\ serve' = "lost"
    /\ main' = "exited"
    /\ UNCHANGED <<heard, worker>>

DaemonStep == serve = "reading" /\ (ReadRun \/ ReadStopped \/ ReadEnd \/ GiveUp)

-----------------------------------------------------------------------------

Next == CallbackStep \/ SupervisorStep \/ MainStep \/ Around \/ DaemonStep

\* The supervisor runs when it can, deadlines pass, and a process that was asked
\* to stop is killed at the deadline.  Nothing is asked of the monitor, of ACKs or
\* of the connection.
Fairness ==
    /\ WF_vars(SupervisorStep)
    /\ WF_vars(Running /\ SettlementDeadlinePasses)
    /\ WF_vars(Running /\ (StopGracePasses \/ (graceOver /\ Killed)))

Spec == Init /\ [][Next]_vars /\ Fairness

-----------------------------------------------------------------------------
(* Properties *)

\* Channels, timers and results hold what their types declare.
TypeOK ==
    /\ kind \in {"continuous", "every", "once"}
    /\ main \in {"ready", "stopping", "hook", "reporting", "exited"}
    /\ plan \in [at : {"due", "watching", "joining", "expired", "ended",
                       "resting", "done"},
                 err : PlanErrors, reported : BOOLEAN]
    /\ callback \in [at : {"none", "working", "committing", "returned"},
                     err : Errors]
    /\ {scope, timer, passed} \subseteq 0..admitted /\ admitted \in 0..MaxCommits
    /\ callback.at = "committing" <=> scope > 0
    /\ callbacks \in 0..MaxCallbacks /\ failures \in 0..callbacks
    /\ request \in {"none", "read", "taken"}
    /\ stopped \in {"none", "clean", "reported", "unclean"}
    /\ heard \in 0..failures
    /\ serve \in {"reading", "stopped", "unclean", "lost"}
    /\ {expired, changed, commitStop, commitTimed, cancelled, fatal, wireFailed,
        graceOver, unsettled} \subseteq BOOLEAN

\* Commits signal the supervisor through a channel of capacity one, and it keeps
\* a single timer.  However signals coalesce, the deadline of the commit in
\* progress is the one the timer runs to, or a signal to set it is waiting.
CommitsWatched ==
    plan.at \in {"watching", "expired"} /\ scope > 0 => timer = scope \/ changed

\* supervisor.go:12: settlement bounds "each admitted transaction", not the one
\* before it.  A callback that did not time out is given up only while a commit
\* of its own is past the deadline set when that commit was admitted.
GivenUpForCause ==
    [][plan.at = "watching" /\ plan'.err = "running" =>
        callback.at = "committing" /\ passed = admitted]_vars

\* coordinator.go:65: "Never run another callback on uncertain local state after
\* any failure past this admission point", also when the monitor drops the error
\* of its commit.
NoCallbackAfterUncertain ==
    [][callbacks' # callbacks => ~unsettled]_vars

\* Run frames are counted as serve reads them.  registry.go counts one more when
\* serve returned any error but that of a worker whose last failure was reported.
Counted == heard + (IF serve \in {"unclean", "lost"} THEN 1 ELSE 0)

\* A failed callback reaches the daemon in a run frame, in the stopped frame, in
\* both, or in neither.  Of a worker that nobody asked to stop, each is counted
\* once when the stopped frame is read, and one more only for a monitor whose
\* Stop failed after callbacks that did not.  Without a stopped frame the exit is
\* counted too: it stands for a failure that was on its way, or is one too many.
\* Only run frames that were sent and never read are missed.
FailuresCounted ==
    request = "none" =>
        /\ serve \in {"stopped", "unclean"} =>
            Counted = failed + (IF serve = "unclean" /\ plan.err = "ok" THEN 1 ELSE 0)
        /\ serve = "lost" =>
            /\ failed <= Counted + (failures - heard)
            /\ Counted <= failed + 1

\* An admitted commit does not hold the supervisor for ever: it is settled, or
\* its worker ends within the settlement or the stop deadline.
SettlementBounded ==
    scope > 0 ~> (scope = 0 \/ plan.at = "done" \/ main = "exited")

\* lifecycle.go:30: "Stop is called only after Start has returned nil and active
\* callbacks have stopped."
StopAfterCallbacks ==
    main = "hook" => callback.at \notin {"working", "committing"}

=============================================================================
